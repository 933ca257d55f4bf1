------------------------- MODULE IssueTrackerProofs -------------------------
(***************************************************************************)
(* The issues of a project and their mutation queue, for every set of      *)
(* issues, any number of events, requests and failures.                    *)
(*                                                                         *)
(* None of the promises is inductive alone.  What the queue keeps rests on *)
(* where a mutation can be (QueueInv): a drain has applied what it has     *)
(* read and not to do any more, a claim finds no file left over, and ids   *)
(* grow from the file being drained to the active one.  What an issue's    *)
(* numbers say rests on the event in hand (IssueInv): an upsert that was   *)
(* not finished counts once more, and each regression uses up one closing. *)
(*                                                                         *)
(* Then what hangs off an issue: its alerts (AlertInv), its curated facets *)
(* (FaInv), the page listing that moves over it (ListingInv) and the       *)
(* weekly digest that sums it up (DgInv).                                  *)
(***************************************************************************)
EXTENDS IssueTracker, Alerting, Facets, IssueListing, WeeklyDigest, FiniteSetTheorems, FunctionTheorems,
        SequenceTheorems, NaturalsInduction, WellFoundedInduction, TLAPS

Mutation == [id : Nat, issue : Issues, op : Ops]
Events == [issue : SUBSET Issues, new : BOOLEAN, regressed : BOOLEAN]
Counter == [Issues -> Nat]

Types ==
  /\ row \in [Issues -> Rows]
  /\ wpc \in {"idle", "drain1", "claim", "drain2", "ingest", "upserted", "published"}
  /\ event \in Events
  /\ todo \in Seq(Mutation) /\ active \in Seq(Mutation) /\ processing \in Seq(Mutation) /\ queued \in Seq(Mutation)
  /\ fd \in {"active", "processing", "unlinked"}
  /\ handled \in Counter /\ created \in Counter /\ regressions \in Counter /\ closings \in Counter
  /\ given \in 0..MaxEvents /\ requests \in 0..MaxRequests /\ faults \in 0..MaxFaults

-----------------------------------------------------------------------------
(* The mutation queue. *)

\* In the order in which they were asked for.
InOrder(s) == \A i, j \in 1..Len(s) : i < j => s[i].id < s[j].id

FilesInv ==
  /\ Range(active) \subseteq Range(queued) /\ Range(processing) \subseteq Range(queued)
  /\ Range(todo) \subseteq Range(queued)
  /\ applied \subseteq Range(queued) /\ stray \subseteq Range(queued)
  /\ \A m \in Range(queued) : m.id <= requests
  /\ ~HasActive => active = <<>>

OrderInv ==
  /\ InOrder(queued) /\ InOrder(active) /\ InOrder(processing) /\ InOrder(todo)
  /\ \A m \in Range(processing), n \in Range(active) : m.id < n.id
  /\ \A m \in applied, n \in Range(queued) : n.id < m.id => n \in applied \cup stray

DrainInv ==
  /\ wpc \in {"drain1", "drain2"} => /\ Range(todo) \subseteq Range(processing)
                                     /\ Range(processing) \subseteq Range(todo) \cup stray \cup applied
  /\ wpc = "claim" => processing = <<>> /\ fd # "processing"

QueueInv == FilesInv /\ OrderInv /\ DrainInv /\ LostOnlyAfterReopenFailure

-----------------------------------------------------------------------------
(* The issues. *)

\* The event in hand is counted and not finished.
InHand(f) == wpc = "upserted" /\ event.issue = {f}

\* A row that an event may find.
Sane(r) == /\ r.status = "absent" <=> r.count = 0
           /\ r.status = "muted" => r.mute # ""

\* The closing that the next regression uses up.
Owed(r) == IF r.status \in {"resolved", "muted"} THEN 1 ELSE 0

RowInv(f) == Sane(row[f]) /\ row[f].regressions + Owed(row[f]) <= closings[f]

CountInv(f) ==
  /\ handled[f] + (IF InHand(f) THEN 1 ELSE 0) <= row[f].count
  /\ row[f].count <= handled[f] + (IF InHand(f) THEN 1 ELSE 0) + faults

AnnounceInv(f) ==
  /\ created[f] <= 1
  /\ row[f].count = 0 => created[f] = 0
  /\ InHand(f) /\ event.new => created[f] = 0
  /\ regressions[f] + (IF InHand(f) /\ event.regressed THEN 1 ELSE 0) <= row[f].regressions

EventInv ==
  /\ event.issue # {} => \E f \in Issues : event.issue = {f}
  /\ wpc \in {"upserted", "published"} => event.issue # {}

IssueInv == /\ EventInv /\ \A m \in Range(queued) : row[m.issue].count > 0
            /\ \A f \in Issues : RowInv(f) /\ CountInv(f) /\ AnnounceInv(f)

TrackerInv == Types /\ QueueInv /\ IssueInv

-----------------------------------------------------------------------------
(* Sequences of mutations. *)

\* What Append adds.
LEMMA RangeAppend ==
  ASSUME NEW s \in Seq(Mutation), NEW m \in Mutation
  PROVE  Append(s, m) \in Seq(Mutation) /\ Range(Append(s, m)) = Range(s) \cup {m}
<1>1. Append(s, m) \in Seq(Mutation) /\ Len(Append(s, m)) = Len(s) + 1 /\ Len(s) \in Nat
  OBVIOUS
<1>2. DOMAIN s = 1..Len(s) /\ DOMAIN Append(s, m) = 1..(Len(s) + 1)
  BY <1>1
<1>3. \A i \in 1..Len(s) : Append(s, m)[i] = s[i]
  OBVIOUS
<1>4. Append(s, m)[Len(s) + 1] = m
  OBVIOUS
<1>5. Range(Append(s, m)) \subseteq Range(s) \cup {m}
  <2>1. ASSUME NEW i \in 1..(Len(s) + 1) PROVE Append(s, m)[i] \in Range(s) \cup {m}
    <3>1. i \in 1..Len(s) \/ i = Len(s) + 1
      BY <1>1
    <3> QED
      BY <1>2, <1>3, <1>4, <3>1 DEF Range
  <2> QED
    BY <1>2, <2>1 DEF Range
<1>6. Range(s) \cup {m} \subseteq Range(Append(s, m))
  <2>1. Len(s) + 1 \in 1..(Len(s) + 1) /\ 1..Len(s) \subseteq 1..(Len(s) + 1)
    BY <1>1
  <2> QED
    BY <1>2, <1>3, <1>4, <2>1 DEF Range
<1> QED
  BY <1>1, <1>5, <1>6

\* What Head and Tail take apart.
LEMMA RangeHeadTail ==
  ASSUME NEW s \in Seq(Mutation), s # <<>>
  PROVE  /\ Head(s) \in Mutation /\ Tail(s) \in Seq(Mutation)
         /\ Range(s) = {Head(s)} \cup Range(Tail(s))
         /\ InOrder(s) => InOrder(Tail(s)) /\ \A m \in Range(Tail(s)) : Head(s).id < m.id
<1>1. Len(s) \in Nat \ {0} /\ Head(s) = s[1] /\ Tail(s) \in Seq(Mutation) /\ Len(Tail(s)) = Len(s) - 1
  OBVIOUS
<1>2. DOMAIN s = 1..Len(s) /\ DOMAIN Tail(s) = 1..(Len(s) - 1)
  BY <1>1
<1>3. \A i \in 1..(Len(s) - 1) : Tail(s)[i] = s[i + 1]
  BY <1>1
<1>4. \A i \in 1..(Len(s) - 1) : i + 1 \in 1..Len(s)
  BY <1>1
<1>5. 1 \in 1..Len(s) /\ \A i \in 1..Len(s) : i = 1 \/ (i - 1 \in 1..(Len(s) - 1) /\ i = (i - 1) + 1)
  BY <1>1
<1>6. Range(s) = {Head(s)} \cup Range(Tail(s))
  <2>1. ASSUME NEW i \in 1..Len(s) PROVE s[i] \in {Head(s)} \cup Range(Tail(s))
    <3>1. CASE i = 1
      BY <1>1, <3>1
    <3>2. CASE i # 1
      <4>1. i - 1 \in 1..(Len(s) - 1) /\ i = (i - 1) + 1
        BY <1>5, <3>2
      <4>2. Tail(s)[i - 1] = s[i]
        BY <1>3, <4>1
      <4> QED
        BY <1>2, <4>1, <4>2 DEF Range
    <3> QED
      BY <3>1, <3>2
  <2>2. Range(Tail(s)) \subseteq Range(s)
    BY <1>2, <1>3, <1>4 DEF Range
  <2>3. Head(s) \in Range(s)
    BY <1>1, <1>2, <1>5 DEF Range
  <2> QED
    BY <1>2, <2>1, <2>2, <2>3 DEF Range
<1>7. ASSUME InOrder(s) PROVE InOrder(Tail(s)) /\ \A m \in Range(Tail(s)) : Head(s).id < m.id
  <2>1. ASSUME NEW i \in 1..(Len(s) - 1), NEW j \in 1..(Len(s) - 1), i < j PROVE Tail(s)[i].id < Tail(s)[j].id
    <3>1. i + 1 \in 1..Len(s) /\ j + 1 \in 1..Len(s) /\ i + 1 < j + 1
      BY <1>1, <2>1
    <3>2. s[i + 1].id < s[j + 1].id
      BY <1>7, <3>1 DEF InOrder
    <3> QED
      BY <1>3, <3>2
  <2>2. ASSUME NEW i \in 1..(Len(s) - 1) PROVE Head(s).id < Tail(s)[i].id
    <3>1. 1 \in 1..Len(s) /\ i + 1 \in 1..Len(s) /\ 1 < i + 1
      BY <1>1, <2>2
    <3>2. s[1].id < s[i + 1].id
      BY <1>7, <3>1 DEF InOrder
    <3> QED
      BY <1>1, <1>3, <3>2
  <2>3. InOrder(Tail(s))
    BY <1>1, <2>1 DEF InOrder
  <2>4. \A m \in Range(Tail(s)) : Head(s).id < m.id
    BY <1>2, <2>2 DEF Range
  <2> QED
    BY <2>3, <2>4
<1> QED
  BY <1>1, <1>5, <1>6, <1>7

\* The empty file.
LEMMA RangeEmpty == <<>> \in Seq(Mutation) /\ Range(<<>>) = {} /\ InOrder(<<>>)
BY DEF Range, InOrder

\* The next id comes after all others.
LEMMA OrderAppend ==
  ASSUME NEW s \in Seq(Mutation), NEW m \in Mutation, InOrder(s), \A n \in Range(s) : n.id < m.id
  PROVE  InOrder(Append(s, m))
<1>1. Len(Append(s, m)) = Len(s) + 1 /\ Len(s) \in Nat /\ DOMAIN s = 1..Len(s)
  OBVIOUS
<1>2. (\A i \in 1..Len(s) : Append(s, m)[i] = s[i]) /\ Append(s, m)[Len(s) + 1] = m
  OBVIOUS
<1>3. ASSUME NEW i \in 1..(Len(s) + 1), NEW j \in 1..(Len(s) + 1), i < j
      PROVE  Append(s, m)[i].id < Append(s, m)[j].id
  <2>1. i \in 1..Len(s) /\ (j \in 1..Len(s) \/ j = Len(s) + 1)
    BY <1>1, <1>3
  <2>2. s[i] \in Range(s)
    BY <1>1, <2>1 DEF Range
  <2>3. CASE j \in 1..Len(s)
    BY <1>2, <1>3, <2>1, <2>3 DEF InOrder
  <2>4. CASE j = Len(s) + 1
    BY <1>2, <2>1, <2>2, <2>4
  <2> QED
    BY <2>1, <2>3, <2>4
<1> QED
  BY <1>1, <1>3 DEF InOrder

-----------------------------------------------------------------------------
(* Steps that leave one side alone. *)

\* The numbers of an issue.
LEMMA IssueNumbers ==
  ASSUME Types
  PROVE  /\ faults \in Nat /\ requests \in Nat
         /\ \A f \in Issues : /\ row[f] \in Rows /\ row[f].count \in Nat /\ row[f].regressions \in Nat
                              /\ handled[f] \in Nat /\ created[f] \in Nat /\ regressions[f] \in Nat
                              /\ closings[f] \in Nat
<1>1. faults \in Nat /\ requests \in Nat
  BY TrackerAssumption DEF Types
<1>2. \A f \in Issues : row[f] \in Rows /\ row[f].count \in Nat /\ row[f].regressions \in Nat
  BY DEF Types, Rows
<1>3. \A f \in Issues : handled[f] \in Nat /\ created[f] \in Nat /\ regressions[f] \in Nat /\ closings[f] \in Nat
  BY DEF Types, Counter
<1> QED
  BY <1>1, <1>2, <1>3

\* What a file holds.
LEMMA InFile ==
  ASSUME NEW s \in Seq(Mutation), NEW m \in Range(s)
  PROVE  m \in Mutation /\ m.id \in Nat /\ m.issue \in Issues /\ m.op \in Ops
<1>1. DOMAIN s = 1..Len(s) /\ \A i \in 1..Len(s) : s[i] \in Mutation
  OBVIOUS
<1>2. m \in Mutation
  BY <1>1 DEF Range
<1> QED
  BY <1>2 DEF Mutation

\* Queued mutations have ids.
LEMMA QueuedIds == ASSUME Types PROVE \A m \in Range(queued) : m.id \in Nat /\ m.issue \in Issues /\ m.op \in Ops
BY InFile DEF Types

\* The queue is left alone, and no drain begins or goes on.
LEMMA QueueCalm ==
  ASSUME Types, QueueInv, UNCHANGED <<todo, active, processing, fd, queued, stray, applied>>,
         requests' \in Nat, requests <= requests',
         wpc' = wpc \/ wpc' \notin {"drain1", "drain2", "claim"}
  PROVE  QueueInv'
<1>1. requests \in Nat /\ \A m \in Range(queued) : m.id \in Nat
  BY IssueNumbers, QueuedIds
<1>2. \A m \in Range(queued) : m.id <= requests'
  BY <1>1 DEF QueueInv, FilesInv
<1>3. FilesInv'
  BY <1>2 DEF QueueInv, FilesInv, HasActive
<1>4. OrderInv'
  BY DEF QueueInv, OrderInv, InOrder
<1>5. DrainInv' /\ LostOnlyAfterReopenFailure'
  BY DEF QueueInv, DrainInv, LostOnlyAfterReopenFailure
<1> QED
  BY <1>3, <1>4, <1>5 DEF QueueInv

\* The issues are left alone: the event in hand stays, or it is lost to a fault.
LEMMA IssuesCalm ==
  ASSUME Types, IssueInv, UNCHANGED <<row, closings, handled, created, regressions>>,
         faults' \in Nat, faults <= faults',
         \/ wpc' = wpc /\ event' = event
         \/ wpc' # "upserted" /\ (wpc # "upserted" \/ faults < faults')
  PROVE  \A f \in Issues : RowInv(f)' /\ CountInv(f)' /\ AnnounceInv(f)'
<1> SUFFICES ASSUME NEW f \in Issues PROVE RowInv(f)' /\ CountInv(f)' /\ AnnounceInv(f)'
  OBVIOUS
<1>1. RowInv(f) /\ CountInv(f) /\ AnnounceInv(f)
  BY DEF IssueInv
<1>2. /\ faults \in Nat /\ row[f].count \in Nat /\ row[f].regressions \in Nat
      /\ handled[f] \in Nat /\ created[f] \in Nat /\ regressions[f] \in Nat /\ closings[f] \in Nat
  BY IssueNumbers
<1>3. RowInv(f)'
  BY <1>1 DEF RowInv
<1>4. CASE wpc' = wpc /\ event' = event
  BY <1>1, <1>2, <1>3, <1>4 DEF CountInv, AnnounceInv, InHand
<1>5. CASE wpc' # "upserted" /\ (wpc # "upserted" \/ faults < faults')
  <2>1. ~InHand(f)' /\ (InHand(f) => faults < faults')
    BY <1>5 DEF InHand
  <2>2. CountInv(f)'
    BY <1>1, <1>2, <2>1 DEF CountInv
  <2>3. AnnounceInv(f)'
    BY <1>1, <1>2, <2>1 DEF AnnounceInv
  <2> QED
    BY <1>3, <2>2, <2>3
<1> QED
  BY <1>4, <1>5

\* Numbers.
LEMMA Numbers ==
  /\ \A n \in Nat : (n # 0 <=> n > 0) /\ n + 1 \in Nat /\ n + 1 # 0 /\ n + 0 = n
  /\ \A n, m, o \in Nat : n + o <= m => n <= m /\ n + 1 <= m + 1 /\ n + 0 <= m
OBVIOUS

\* What a row owes.
LEMMA OwedIs == ASSUME NEW r
                PROVE  /\ r.status \in {"resolved", "muted"} => Owed(r) = 1
                       /\ r.status \notin {"resolved", "muted"} => Owed(r) = 0
                       /\ Owed(r) \in {0, 1} /\ Owed(r) \in Nat
BY DEF Owed

\* What a mutation makes of a row.
LEMMA MutatedRow ==
  ASSUME NEW r \in Rows, NEW op \in Ops, r.status # "absent"
  PROVE  /\ Mutated(r, op) \in Rows
         /\ Mutated(r, op).count = r.count /\ Mutated(r, op).regressions = r.regressions
         /\ Mutated(r, op).status # "absent"
         /\ Mutated(r, op).status = "muted" => Mutated(r, op).mute # ""
         /\ op \in {"reopen", "unmute"} => Mutated(r, op).status = "unresolved"
<1>1. CASE op = "resolve"
  BY <1>1 DEF Mutated, Rows
<1>2. CASE op = "reopen"
  BY <1>2 DEF Mutated, Rows
<1>3. CASE op = "unmute"
  BY <1>3 DEF Mutated, Rows
<1>4. CASE op \in {"until_regression", "forever"}
  BY <1>4 DEF Mutated, Rows
<1> QED
  BY <1>1, <1>2, <1>3, <1>4 DEF Ops

\* A mutation of a stored issue changes none of its counts.
LEMMA MutateKeeps ==
  ASSUME Types, IssueInv, NEW f \in Issues, NEW op \in Ops, row[f].count > 0, Mutate(f, op),
         UNCHANGED <<wpc, event, handled, created, regressions, faults>>
  PROVE  /\ row' \in [Issues -> Rows] /\ closings' \in Counter
         /\ \A g \in Issues : row'[g].count = row[g].count
         /\ \A g \in Issues : RowInv(g)' /\ CountInv(g)' /\ AnnounceInv(g)'
<1> DEFINE r == Mutated(row[f], op)
<1>1. row' = [row EXCEPT ![f] = r]
  BY DEF Mutate
<1>2. closings' = [closings EXCEPT ![f] = IF op \in {"reopen", "unmute"} THEN @ ELSE @ + 1]
  BY DEF Mutate
<1>3. row \in [Issues -> Rows] /\ closings \in [Issues -> Nat]
  BY DEF Types, Counter
<1>4. row[f] \in Rows /\ row[f].count \in Nat /\ row[f].regressions \in Nat /\ closings[f] \in Nat
  BY IssueNumbers
<1>5. Sane(row[f]) /\ row[f].regressions + Owed(row[f]) <= closings[f]
  BY DEF IssueInv, RowInv
<1>6. row[f].count # 0
  BY <1>4
<1>7. row[f].status # "absent"
  BY <1>5, <1>6, Zenon DEF Sane
<1>8. /\ r \in Rows /\ r.count = row[f].count /\ r.regressions = row[f].regressions
      /\ r.status # "absent" /\ (r.status = "muted" => r.mute # "")
      /\ op \in {"reopen", "unmute"} => r.status = "unresolved"
  BY <1>4, <1>7, MutatedRow
<1> HIDE DEF r
<1>9. row' \in [Issues -> Rows] /\ row'[f] = r /\ \A g \in Issues : g # f => row'[g] = row[g]
  BY <1>1, <1>3, <1>8
<1>10. /\ closings' \in [Issues -> Nat]
       /\ closings'[f] = (IF op \in {"reopen", "unmute"} THEN closings[f] ELSE closings[f] + 1)
       /\ \A g \in Issues : g # f => closings'[g] = closings[g]
  BY <1>2, <1>3
<1>11. Sane(r)
  BY <1>6, <1>8, Zenon DEF Sane
<1>12. /\ row[f].regressions <= closings[f] /\ row[f].regressions + 1 <= closings[f] + 1
       /\ row[f].regressions + 0 <= closings[f]
  BY <1>4, <1>5, OwedIs, Numbers, Zenon
<1>13. r.regressions + Owed(r) <= closings'[f]
  <2>1. CASE op \in {"reopen", "unmute"}
    <3>1. r.status = "unresolved" /\ closings'[f] = closings[f]
      BY <1>8, <1>10, <2>1
    <3>2. Owed(r) = 0
      BY <3>1 DEF Owed
    <3> QED
      BY <1>8, <1>12, <3>1, <3>2
  <2>2. CASE op \notin {"reopen", "unmute"}
    <3>1. closings'[f] = closings[f] + 1
      BY <1>10, <2>2
    <3>2. Owed(r) = 0 \/ Owed(r) = 1
      BY DEF Owed
    <3>3. row[f].regressions + 0 <= closings[f] + 1
      BY <1>4, <1>12
    <3> QED
      BY <1>8, <1>12, <3>1, <3>2, <3>3
  <2> QED
    BY <2>1, <2>2
<1>14. RowInv(f)'
  BY <1>9, <1>11, <1>13 DEF RowInv
<1>15. \A g \in Issues : row'[g].count = row[g].count /\ row'[g].regressions = row[g].regressions
  BY <1>8, <1>9
<1>16. ASSUME NEW g \in Issues PROVE RowInv(g)' /\ CountInv(g)' /\ AnnounceInv(g)'
  <2>1. RowInv(g) /\ CountInv(g) /\ AnnounceInv(g)
    BY DEF IssueInv
  <2>2. RowInv(g)'
    <3>1. CASE g = f
      BY <1>14, <3>1
    <3>2. CASE g # f
      BY <1>9, <1>10, <2>1, <3>2 DEF RowInv
    <3> QED
      BY <3>1, <3>2
  <2>3. InHand(g)' <=> InHand(g)
    BY DEF InHand
  <2> QED
    BY <1>15, <2>1, <2>2, <2>3 DEF CountInv, AnnounceInv
<1> QED
  BY <1>9, <1>10, <1>15, <1>16 DEF Counter

\* What one more event makes of a row.
LEMMA CountedRow ==
  ASSUME NEW r \in Rows, Sane(r)
  PROVE  /\ Counted(r) \in Rows /\ Counted(r).count = r.count + 1 /\ Sane(Counted(r))
         /\ r.count > 0 /\ Regresses(r) =>
              /\ Counted(r).regressions = r.regressions + 1 /\ Owed(Counted(r)) = 0 /\ Owed(r) = 1
         /\ ~(r.count > 0 /\ Regresses(r)) =>
              /\ Counted(r).regressions = r.regressions
              /\ Owed(Counted(r)) = 0 \/ Owed(Counted(r)) = Owed(r)
<1>0. r.count \in Nat /\ r.regressions \in Nat
  BY DEF Rows
<1> DEFINE c == r.count + 1
           d == r.regressions + 1
<1>a. c \in Nat /\ d \in Nat /\ c # 0 /\ (r.count = 0 => c = 1)
  BY <1>0
<1>b. r.count # 0 <=> r.count > 0
  BY <1>0
<1>1. CASE r.count = 0
  <2>1. Counted(r) = [r EXCEPT !.status = "unresolved", !.count = c]
    BY <1>1, <1>a DEF Counted
  <2> HIDE DEF c, d
  <2>2. /\ Counted(r) \in Rows /\ Counted(r).count = c /\ Counted(r).regressions = r.regressions
        /\ Counted(r).status = "unresolved"
    BY <1>a, <2>1 DEF Rows
  <2>3. Sane(Counted(r)) /\ Owed(Counted(r)) = 0
    BY <1>a, <2>2 DEF Sane, Owed
  <2> QED
    BY <1>1, <1>a, <1>b, <2>2, <2>3, Zenon DEF c
<1>2. CASE r.count # 0 /\ ~Regresses(r)
  <2>1. Counted(r) = [r EXCEPT !.count = c]
    BY <1>2 DEF Counted
  <2> HIDE DEF c, d
  <2>2. /\ Counted(r) \in Rows /\ Counted(r).count = c /\ Counted(r).regressions = r.regressions
        /\ Counted(r).status = r.status /\ Counted(r).mute = r.mute
    BY <1>a, <2>1 DEF Rows
  <2>3. Sane(Counted(r)) /\ Owed(Counted(r)) = Owed(r)
    BY <1>2, <1>a, <2>2, Zenon DEF Sane, Owed
  <2> QED
    BY <1>2, <1>a, <1>b, <2>2, <2>3, Zenon DEF c
<1>3. CASE r.count # 0 /\ Regresses(r)
  <2>1. \/ Counted(r) = [r EXCEPT !.count = c, !.regressions = d, !.status = "regressed", !.mute = ""]
        \/ Counted(r) = [r EXCEPT !.count = c, !.regressions = d, !.status = "unresolved"]
    BY <1>3 DEF Counted
  <2> HIDE DEF c, d
  <2>2. /\ Counted(r) \in Rows /\ Counted(r).count = c /\ Counted(r).regressions = d
        /\ Counted(r).status \in {"regressed", "unresolved"}
    BY <1>a, <2>1 DEF Rows
  <2>3. r.status \in {"resolved", "muted"}
    BY <1>3 DEF Regresses
  <2>4. Sane(Counted(r)) /\ Owed(Counted(r)) = 0 /\ Owed(r) = 1
    BY <1>a, <2>2, <2>3 DEF Sane, Owed
  <2> QED
    BY <1>3, <1>a, <1>b, <2>2, <2>4, Zenon DEF c, d
<1> QED
  BY <1>1, <1>2, <1>3

-----------------------------------------------------------------------------
(* The steps of a drain. *)

\* A drain's steps leave the issues alone.
LEMMA IssuesIdle ==
  ASSUME TrackerInv, UNCHANGED <<row, event, handled, created, regressions, closings, queued>>,
         wpc # "upserted", wpc' \notin {"upserted", "published"},
         faults' \in Nat, faults <= faults'
  PROVE  IssueInv'
<1>1. Types /\ IssueInv
  BY DEF TrackerInv
<1>2. \A f \in Issues : RowInv(f)' /\ CountInv(f)' /\ AnnounceInv(f)'
  BY <1>1, IssuesCalm
<1>3. EventInv' /\ \A m \in Range(queued') : row'[m.issue].count > 0
  BY <1>1 DEF IssueInv, EventInv
<1> QED
  BY <1>2, <1>3 DEF IssueInv

\* DrainStart reads the leftover file.
LEMMA StepDrainStart == ASSUME TrackerInv, DrainStart PROVE TrackerInv'
<1>1. Types' /\ faults \in Nat
  BY IssueNumbers DEF TrackerInv, Types, DrainStart, queue, ledger, asked
<1>2. IssueInv'
  BY <1>1, IssuesIdle DEF DrainStart, queue, ledger, asked
<1>3. FilesInv' /\ OrderInv'
  BY DEF TrackerInv, QueueInv, FilesInv, OrderInv, InOrder, HasActive, DrainStart, queue, ledger, asked
<1>4. DrainInv' /\ LostOnlyAfterReopenFailure'
  BY DEF TrackerInv, QueueInv, DrainInv, LostOnlyAfterReopenFailure, DrainStart, queue, ledger, asked
<1> QED
  BY <1>1, <1>2, <1>3, <1>4 DEF TrackerInv, QueueInv

\* Everything queued before the next record of a drain was applied, or was not
\* queued on the active file.
LEMMA NextInOrder ==
  ASSUME TrackerInv, wpc \in {"drain1", "drain2"}, todo # <<>>,
         NEW n \in Range(queued), n.id < Head(todo).id
  PROVE  n \in applied \cup stray
<1> DEFINE h == Head(todo)
<1>1. SUFFICES ASSUME n \notin applied, n \notin stray PROVE FALSE
  OBVIOUS
<1>2. todo \in Seq(Mutation) /\ QueueInv
  BY DEF TrackerInv, Types
<1>3. /\ h \in Mutation /\ Range(todo) = {h} \cup Range(Tail(todo))
      /\ \A m \in Range(Tail(todo)) : h.id < m.id
  BY <1>2, RangeHeadTail DEF QueueInv, OrderInv
<1>4. Range(todo) \subseteq Range(processing) /\ Range(processing) \subseteq Range(todo) \cup stray \cup applied
  BY <1>2 DEF QueueInv, DrainInv
<1>5. n.id \in Nat /\ h.id \in Nat
  BY <1>3, QueuedIds DEF TrackerInv, Mutation
<1>6. n \in Range(active) \/ n \in Range(processing)
  BY <1>1, <1>2 DEF QueueInv, LostOnlyAfterReopenFailure
<1>7. ~(h.id < n.id)
  BY <1>5
<1>8. h \in Range(processing)
  BY <1>3, <1>4
<1>9. n \notin Range(active)
  BY <1>2, <1>7, <1>8 DEF QueueInv, OrderInv
<1>10. n \in Range(todo)
  BY <1>1, <1>4, <1>6, <1>9
<1>11. n # h
  BY <1>5
<1> QED
  BY <1>3, <1>7, <1>10, <1>11

\* ApplyOne.
LEMMA StepApplyOne == ASSUME TrackerInv, ApplyOne PROVE TrackerInv'
<1> DEFINE h == Head(todo)
<1>1. Types /\ QueueInv /\ IssueInv /\ todo \in Seq(Mutation) /\ todo # <<>> /\ wpc \in {"drain1", "drain2"}
  BY DEF TrackerInv, Types, ApplyOne
<1>2. /\ h \in Mutation /\ todo' \in Seq(Mutation) /\ Range(todo) = {h} \cup Range(todo') /\ InOrder(todo')
  BY <1>1, RangeHeadTail DEF QueueInv, OrderInv, ApplyOne
<1>3. h \in Range(queued) /\ h.issue \in Issues /\ h.op \in Ops /\ row[h.issue].count > 0
  BY <1>1, <1>2 DEF QueueInv, FilesInv, Mutation, IssueInv
<1>4. Mutate(h.issue, h.op) /\ applied' = applied \cup {h} /\ todo' = Tail(todo)
  BY DEF ApplyOne
<1>5. UNCHANGED <<wpc, event, active, processing, fd, given, handled, created, regressions, requests, queued, stray, faults>>
  BY DEF ApplyOne, queue, ledger, asked
<1>6. \A n \in Range(queued) : n.id < h.id => n \in applied \cup stray
  BY <1>1, NextInOrder
<1> HIDE DEF h
<1>7. /\ row' \in [Issues -> Rows] /\ closings' \in Counter
      /\ \A g \in Issues : row'[g].count = row[g].count
      /\ \A g \in Issues : RowInv(g)' /\ CountInv(g)' /\ AnnounceInv(g)'
  BY <1>1, <1>3, <1>4, <1>5, MutateKeeps
<1>8. Types'
  BY <1>1, <1>2, <1>5, <1>7 DEF Types
<1>9. IssueInv'
  <2>1. EventInv'
    BY <1>1, <1>5 DEF IssueInv, EventInv
  <2>2. \A m \in Range(queued) : m.issue \in Issues /\ row[m.issue].count > 0
    BY <1>1, QueuedIds DEF IssueInv
  <2> QED
    BY <1>5, <1>7, <2>1, <2>2 DEF IssueInv
<1>10. FilesInv'
  BY <1>1, <1>2, <1>3, <1>4, <1>5 DEF QueueInv, FilesInv, HasActive
<1>11. OrderInv'
  <2>1. \A m \in applied', n \in Range(queued') : n.id < m.id => n \in applied' \cup stray'
    BY <1>1, <1>4, <1>5, <1>6 DEF QueueInv, OrderInv
  <2> QED
    BY <1>1, <1>2, <1>5, <2>1 DEF QueueInv, OrderInv, InOrder
<1>12. DrainInv'
  BY <1>1, <1>2, <1>4, <1>5 DEF QueueInv, DrainInv
<1>13. LostOnlyAfterReopenFailure'
  BY <1>1, <1>4, <1>5 DEF QueueInv, LostOnlyAfterReopenFailure
<1> QED
  BY <1>8, <1>9, <1>10, <1>11, <1>12, <1>13 DEF TrackerInv, QueueInv

\* A fault is counted.
LEMMA FaultCounted ==
  ASSUME Types, NEW kind, Fault(kind)
  PROVE  faults' \in 0..MaxFaults /\ faults' \in Nat /\ faults < faults' /\ faults <= faults'
<1>1. faults \in Nat /\ MaxFaults \in Nat /\ faults < MaxFaults /\ faults' = faults + 1
  BY IssueNumbers, TrackerAssumption DEF Fault
<1> QED
  BY <1>1

\* ApplyFails gives up what was read.
LEMMA StepApplyFails == ASSUME TrackerInv, ApplyFails PROVE TrackerInv'
<1>1. Types /\ QueueInv /\ Fault("apply") /\ wpc' = "ingest" /\ todo' = <<>> /\ wpc \in {"drain1", "drain2"}
  BY DEF TrackerInv, ApplyFails
<1>2. UNCHANGED <<row, event, active, processing, fd, given, handled, created, regressions, requests, queued, stray, applied, closings>>
  BY DEF ApplyFails, queue, ledger, asked
<1>3. faults' \in 0..MaxFaults /\ faults' \in Nat /\ faults <= faults'
  BY <1>1, FaultCounted
<1>4. Types'
  BY <1>1, <1>2, <1>3, RangeEmpty DEF Types
<1>5. IssueInv'
  BY <1>1, <1>2, <1>3, IssuesIdle
<1>6. FilesInv' /\ OrderInv'
  BY <1>1, <1>2, RangeEmpty DEF QueueInv, FilesInv, OrderInv, InOrder, HasActive
<1>7. DrainInv' /\ LostOnlyAfterReopenFailure'
  BY <1>1, <1>2 DEF QueueInv, DrainInv, LostOnlyAfterReopenFailure
<1> QED
  BY <1>4, <1>5, <1>6, <1>7 DEF TrackerInv, QueueInv

\* DrainFileDone removes a file whose records were all applied or stray.
LEMMA StepDrainFileDone == ASSUME TrackerInv, DrainFileDone PROVE TrackerInv'
<1>1. /\ Types /\ QueueInv /\ wpc \in {"drain1", "drain2"} /\ todo = <<>> /\ processing' = <<>>
      /\ wpc' \in {"claim", "ingest"} /\ fd' = (IF fd = "processing" THEN "unlinked" ELSE fd)
  BY DEF TrackerInv, DrainFileDone
<1>2. UNCHANGED <<row, event, todo, active, given, handled, created, regressions, requests, queued, stray, applied, closings, faults>>
  BY DEF DrainFileDone, ledger, asked
<1>3. Types' /\ faults \in Nat
  BY <1>1, <1>2, RangeEmpty, IssueNumbers DEF Types
<1>4. IssueInv'
  BY <1>1, <1>2, <1>3, IssuesIdle
<1>5. Range(processing) \subseteq stray \cup applied
  BY <1>1, RangeEmpty DEF QueueInv, DrainInv
<1>6. FilesInv' /\ OrderInv'
  BY <1>1, <1>2, RangeEmpty DEF QueueInv, FilesInv, OrderInv, InOrder, HasActive
<1>7. DrainInv'
  BY <1>1 DEF DrainInv
<1>8. LostOnlyAfterReopenFailure'
  BY <1>1, <1>2, <1>5, RangeEmpty DEF QueueInv, LostOnlyAfterReopenFailure
<1> QED
  BY <1>3, <1>4, <1>6, <1>7, <1>8 DEF TrackerInv, QueueInv

\* RemoveFails and ClaimNothing end the drain.
LEMMA StepDrainOver == ASSUME TrackerInv, RemoveFails \/ ClaimNothing PROVE TrackerInv'
<1>1. Types /\ QueueInv /\ wpc' = "ingest" /\ wpc # "upserted"
  BY DEF TrackerInv, RemoveFails, ClaimNothing
<1>2. UNCHANGED <<row, event, todo, active, processing, fd, given, handled, created, regressions, requests, queued, stray, applied, closings>>
  BY DEF RemoveFails, ClaimNothing, queue, ledger, asked
<1>3. faults' \in 0..MaxFaults /\ faults' \in Nat /\ faults <= faults'
  <2>1. CASE RemoveFails
    BY <1>1, <2>1, FaultCounted DEF RemoveFails
  <2>2. CASE ClaimNothing
    <3>1. faults' = faults /\ faults \in 0..MaxFaults /\ faults \in Nat
      BY <1>1, <2>2, IssueNumbers DEF ClaimNothing, Types
    <3> QED
      BY <3>1
  <2> QED
    BY <2>1, <2>2
<1>4. Types' /\ requests \in Nat
  BY <1>1, <1>2, <1>3, IssueNumbers DEF Types
<1>5. IssueInv'
  BY <1>1, <1>2, <1>3, IssuesIdle
<1>6. QueueInv'
  BY <1>1, <1>2, <1>4, QueueCalm
<1> QED
  BY <1>4, <1>5, <1>6 DEF TrackerInv

\* Claim and ClaimReopenFails rename the active file.
LEMMA StepClaim == ASSUME TrackerInv, Claim \/ ClaimReopenFails PROVE TrackerInv'
<1>1. /\ Types /\ QueueInv /\ wpc = "claim" /\ fd = "active" /\ processing = <<>>
      /\ processing' = active /\ active' = <<>>
      /\ \/ wpc' = "drain2" /\ todo' = active /\ fd' = fd
         \/ wpc' = "ingest" /\ todo' = todo /\ fd' = "processing"
  BY DEF TrackerInv, Claim, ClaimReopenFails, HasActive, QueueInv, DrainInv
<1>2. UNCHANGED <<row, event, given, handled, created, regressions, requests, queued, stray, applied, closings>>
  BY DEF Claim, ClaimReopenFails, ledger, asked
<1>3. faults' \in 0..MaxFaults /\ faults' \in Nat /\ faults <= faults'
  <2>1. CASE ClaimReopenFails
    BY <1>1, <2>1, FaultCounted DEF ClaimReopenFails
  <2>2. CASE Claim
    <3>1. faults' = faults /\ faults \in 0..MaxFaults /\ faults \in Nat
      BY <1>1, <2>2, IssueNumbers DEF Claim, Types
    <3> QED
      BY <3>1
  <2> QED
    BY <2>1, <2>2
<1>4. Types'
  BY <1>1, <1>2, <1>3, RangeEmpty DEF Types
<1>5. IssueInv'
  BY <1>1, <1>2, <1>3, IssuesIdle
<1>6. FilesInv'
  BY <1>1, <1>2, RangeEmpty DEF QueueInv, FilesInv, HasActive
<1>7. OrderInv'
  BY <1>1, <1>2, RangeEmpty DEF QueueInv, OrderInv, InOrder
<1>8. DrainInv'
  BY <1>1 DEF DrainInv
<1>9. LostOnlyAfterReopenFailure'
  BY <1>1, <1>2, RangeEmpty DEF QueueInv, LostOnlyAfterReopenFailure
<1> QED
  BY <1>4, <1>5, <1>6, <1>7, <1>8, <1>9 DEF TrackerInv, QueueInv

-----------------------------------------------------------------------------
(* Requests. *)

\* A request is counted.
LEMMA RequestCounted ==
  ASSUME Types, requests < MaxRequests, requests' = requests + 1
  PROVE  requests' \in 0..MaxRequests /\ requests' \in Nat /\ requests < requests' /\ requests <= requests'
<1>1. requests \in Nat /\ MaxRequests \in Nat
  BY IssueNumbers, TrackerAssumption
<1> QED
  BY <1>1

\* Mutations of stored issues keep every queued mutation's issue stored.
LEMMA IssuesMutated ==
  ASSUME TrackerInv, NEW f \in Issues, NEW op \in Ops, row[f].count > 0,
         Mutate(f, op) \/ UNCHANGED <<row, closings>>,
         UNCHANGED <<wpc, event, handled, created, regressions, faults>>
  PROVE  /\ row' \in [Issues -> Rows] /\ closings' \in Counter /\ EventInv'
         /\ \A g \in Issues : row'[g].count = row[g].count
         /\ \A g \in Issues : RowInv(g)' /\ CountInv(g)' /\ AnnounceInv(g)'
<1>1. Types /\ IssueInv /\ EventInv /\ faults \in Nat
  BY IssueNumbers DEF TrackerInv, IssueInv
<1>2. EventInv'
  BY <1>1 DEF EventInv
<1>3. CASE Mutate(f, op)
  BY <1>1, <1>2, <1>3, MutateKeeps
<1>4. CASE UNCHANGED <<row, closings>>
  <2>1. \A g \in Issues : RowInv(g)' /\ CountInv(g)' /\ AnnounceInv(g)'
    BY <1>1, <1>4, IssuesCalm
  <2> QED
    BY <1>1, <1>2, <1>4, <2>1 DEF Types
<1> QED
  BY <1>3, <1>4

\* MutateDirect.
LEMMA StepMutateDirect ==
  ASSUME TrackerInv, NEW f \in Issues, NEW op \in Ops, MutateDirect(f, op) PROVE TrackerInv'
<1>1. /\ Types /\ QueueInv /\ IssueInv /\ row[f].count > 0 /\ requests < MaxRequests
      /\ requests' = requests + 1 /\ Mutate(f, op)
  BY DEF TrackerInv, MutateDirect
<1>2. UNCHANGED <<wpc, event, todo, active, processing, fd, given, handled, created, regressions, queued, stray, applied, faults>>
  BY DEF MutateDirect, queue, ledger
<1>3. requests' \in 0..MaxRequests /\ requests' \in Nat /\ requests <= requests'
  BY <1>1, RequestCounted
<1>4. /\ row' \in [Issues -> Rows] /\ closings' \in Counter /\ EventInv'
      /\ \A g \in Issues : row'[g].count = row[g].count
      /\ \A g \in Issues : RowInv(g)' /\ CountInv(g)' /\ AnnounceInv(g)'
  BY <1>1, <1>2, IssuesMutated
<1>5. Types'
  BY <1>1, <1>2, <1>3, <1>4 DEF Types
<1>6. QueueInv'
  BY <1>1, <1>2, <1>3, QueueCalm
<1>7. \A m \in Range(queued) : m.issue \in Issues /\ row[m.issue].count > 0
  BY <1>1, QueuedIds DEF IssueInv
<1>8. IssueInv'
  BY <1>2, <1>4, <1>7 DEF IssueInv
<1> QED
  BY <1>5, <1>6, <1>8 DEF TrackerInv

\* Enqueue: a record with the highest id goes to the open file, and is stray
\* unless that is the active one.
LEMMA Enqueued ==
  ASSUME Types, QueueInv, NEW m \in Mutation, m.id = requests', requests < requests', requests' \in Nat,
         Enqueue(m), queued' = Append(queued, m),
         stray' = (IF HasActive THEN stray ELSE stray \cup {m}),
         UNCHANGED <<wpc, todo, applied>>
  PROVE  /\ active' \in Seq(Mutation) /\ processing' \in Seq(Mutation) /\ queued' \in Seq(Mutation)
         /\ Range(queued') = Range(queued) \cup {m} /\ QueueInv'
<1>1. /\ todo \in Seq(Mutation) /\ active \in Seq(Mutation) /\ processing \in Seq(Mutation) /\ queued \in Seq(Mutation)
      /\ requests \in Nat /\ fd \in {"active", "processing", "unlinked"}
  BY IssueNumbers DEF Types
<1>2. /\ Range(active) \subseteq Range(queued) /\ Range(processing) \subseteq Range(queued)
      /\ Range(todo) \subseteq Range(queued) /\ applied \subseteq Range(queued) /\ stray \subseteq Range(queued)
      /\ \A n \in Range(queued) : n.id <= requests
      /\ fd # "active" => active = <<>>
  BY DEF QueueInv, FilesInv, HasActive
<1>3. \A n \in Range(queued) : n.id \in Nat
  BY QueuedIds
<1>4. \A n \in Range(queued) : n.id < m.id /\ n.id <= requests'
  BY <1>1, <1>2, <1>3
<1>5. /\ queued' \in Seq(Mutation) /\ Range(queued') = Range(queued) \cup {m} /\ InOrder(queued')
  BY <1>1, <1>4, RangeAppend, OrderAppend DEF QueueInv, OrderInv
<1>6. /\ fd' = fd /\ active' \in Seq(Mutation) /\ InOrder(active')
      /\ Range(active') = IF fd = "active" THEN Range(active) \cup {m} ELSE Range(active)
      /\ fd # "active" => active' = active
  <2>1. fd' = fd /\ active' = (IF fd = "active" THEN Append(active, m) ELSE active)
    BY DEF Enqueue
  <2>2. \A n \in Range(active) : n.id < m.id
    BY <1>2, <1>4
  <2>3. Append(active, m) \in Seq(Mutation) /\ Range(Append(active, m)) = Range(active) \cup {m}
    BY <1>1, RangeAppend
  <2>4. InOrder(active) /\ InOrder(Append(active, m))
    BY <1>1, <2>2, OrderAppend DEF QueueInv, OrderInv
  <2> QED
    BY <1>1, <2>1, <2>3, <2>4
<1>7. /\ processing' \in Seq(Mutation) /\ InOrder(processing')
      /\ Range(processing') = IF fd = "processing" THEN Range(processing) \cup {m} ELSE Range(processing)
      /\ fd # "processing" => processing' = processing
  <2>1. processing' = (IF fd = "processing" THEN Append(processing, m) ELSE processing)
    BY DEF Enqueue
  <2>2. \A n \in Range(processing) : n.id < m.id
    BY <1>2, <1>4
  <2>3. Append(processing, m) \in Seq(Mutation) /\ Range(Append(processing, m)) = Range(processing) \cup {m}
    BY <1>1, RangeAppend
  <2>4. InOrder(processing) /\ InOrder(Append(processing, m))
    BY <1>1, <2>2, OrderAppend DEF QueueInv, OrderInv
  <2> QED
    BY <1>1, <2>1, <2>3, <2>4
<1>8. stray' = IF fd = "active" THEN stray ELSE stray \cup {m}
  BY DEF HasActive
<1>9. FilesInv'
  <2>1. \A n \in Range(queued') : n.id <= requests'
    BY <1>4, <1>5
  <2>2. ~HasActive' => active' = <<>>
    BY <1>2, <1>6 DEF HasActive
  <2>3. /\ Range(active') \subseteq Range(queued') /\ Range(processing') \subseteq Range(queued')
        /\ Range(todo') \subseteq Range(queued') /\ applied' \subseteq Range(queued') /\ stray' \subseteq Range(queued')
    BY <1>2, <1>5, <1>6, <1>7, <1>8
  <2> QED
    BY <2>1, <2>2, <2>3 DEF FilesInv
<1>10. OrderInv'
  <2>1. \A k \in Range(processing'), n \in Range(active') : k.id < n.id
    <3>1. CASE fd = "active"
      BY <1>2, <1>4, <1>6, <1>7, <3>1 DEF QueueInv, OrderInv
    <3>2. CASE fd # "active"
      BY <1>2, <1>6, <3>2, RangeEmpty
    <3> QED
      BY <3>1, <3>2
  <2>2. \A k \in applied : ~(m.id < k.id)
    BY <1>1, <1>2, <1>3, <1>4
  <2>3. \A k \in applied', n \in Range(queued') : n.id < k.id => n \in applied' \cup stray'
    BY <1>5, <1>8, <2>2 DEF QueueInv, OrderInv
  <2>4. InOrder(todo')
    BY DEF QueueInv, OrderInv, InOrder
  <2> QED
    BY <1>5, <1>6, <1>7, <2>1, <2>3, <2>4 DEF OrderInv
<1>11. DrainInv'
  BY <1>6, <1>7, <1>8 DEF QueueInv, DrainInv
<1>12. LostOnlyAfterReopenFailure'
  BY <1>5, <1>6, <1>7, <1>8 DEF QueueInv, LostOnlyAfterReopenFailure
<1> QED
  BY <1>5, <1>6, <1>7, <1>9, <1>10, <1>11, <1>12 DEF QueueInv

\* MutateQueued.
LEMMA StepMutateQueued ==
  ASSUME TrackerInv, NEW f \in Issues, NEW op \in Ops, MutateQueued(f, op) PROVE TrackerInv'
<1> DEFINE m == [id |-> requests', issue |-> f, op |-> op]
<1>1. /\ Types /\ QueueInv /\ IssueInv /\ row[f].count > 0 /\ requests < MaxRequests /\ requests' = requests + 1
      /\ Mutate(f, op) \/ UNCHANGED <<row, closings>>
  BY DEF TrackerInv, MutateQueued
<1>2. Enqueue(m) /\ queued' = Append(queued, m) /\ stray' = (IF HasActive THEN stray ELSE stray \cup {m})
  BY DEF MutateQueued
<1>3. UNCHANGED <<wpc, event, todo, given, handled, created, regressions, applied, faults>>
  BY DEF MutateQueued, ledger
<1>4. requests' \in 0..MaxRequests /\ requests' \in Nat /\ requests < requests' /\ requests <= requests'
  BY <1>1, RequestCounted
<1>5. m \in Mutation /\ m.id = requests' /\ m.issue = f
  BY <1>4 DEF Mutation
<1>6. fd' = fd
  BY <1>2 DEF Enqueue
<1> HIDE DEF m
<1>7. /\ active' \in Seq(Mutation) /\ processing' \in Seq(Mutation) /\ queued' \in Seq(Mutation)
      /\ Range(queued') = Range(queued) \cup {m} /\ QueueInv'
  BY <1>1, <1>2, <1>3, <1>4, <1>5, Enqueued
<1>8. /\ row' \in [Issues -> Rows] /\ closings' \in Counter /\ EventInv'
      /\ \A g \in Issues : row'[g].count = row[g].count
      /\ \A g \in Issues : RowInv(g)' /\ CountInv(g)' /\ AnnounceInv(g)'
  BY <1>1, <1>3, IssuesMutated
<1>9. Types'
  BY <1>1, <1>3, <1>4, <1>6, <1>7, <1>8 DEF Types
<1>10. \A n \in Range(queued) : n.issue \in Issues /\ row[n.issue].count > 0
  BY <1>1, QueuedIds DEF IssueInv
<1>11. IssueInv'
  BY <1>1, <1>5, <1>7, <1>8, <1>10 DEF IssueInv
<1> QED
  BY <1>7, <1>9, <1>11 DEF TrackerInv

-----------------------------------------------------------------------------
(* Events. *)

\* The steps of an event that leave the rows and the announcements alone.
LEMMA StepEventCalm ==
  ASSUME TrackerInv, AdvanceCursor \/ PersistFails \/ TickDone PROVE TrackerInv'
<1>1. Types /\ QueueInv /\ IssueInv /\ wpc' \in {"idle", "ingest"}
  BY DEF TrackerInv, AdvanceCursor, PersistFails, TickDone
<1>2. UNCHANGED <<row, todo, active, processing, fd, given, handled, created, regressions, requests, queued, stray, applied, closings>>
  BY DEF AdvanceCursor, PersistFails, TickDone, queue, ledger, asked
<1>3. event \in Events /\ event' \in Events /\ (event'.issue = event.issue \/ event'.issue = {})
  <2>1. event \in Events
    BY <1>1 DEF Types
  <2>2. CASE AdvanceCursor
    BY <2>1, <2>2 DEF Events, None, AdvanceCursor
  <2>3. CASE PersistFails
    BY <2>1, <2>3 DEF Events, None, PersistFails
  <2>4. CASE TickDone
    BY <2>1, <2>4 DEF TickDone
  <2> QED
    BY <2>1, <2>2, <2>3, <2>4
<1>4. /\ faults' \in 0..MaxFaults /\ faults' \in Nat /\ faults <= faults'
      /\ wpc # "upserted" \/ faults < faults'
  <2>1. CASE PersistFails
    BY <1>1, <2>1, FaultCounted DEF PersistFails
  <2>2. CASE AdvanceCursor \/ TickDone
    <3>1. faults' = faults /\ faults \in 0..MaxFaults /\ faults \in Nat /\ wpc # "upserted"
      BY <1>1, <2>2, IssueNumbers DEF AdvanceCursor, TickDone, Types
    <3> QED
      BY <3>1
  <2> QED
    BY <2>1, <2>2
<1>5. Types' /\ requests \in Nat
  BY <1>1, <1>2, <1>3, <1>4, IssueNumbers DEF Types
<1>6. QueueInv'
  BY <1>1, <1>2, <1>5, QueueCalm
<1>7. \A f \in Issues : RowInv(f)' /\ CountInv(f)' /\ AnnounceInv(f)'
  BY <1>1, <1>2, <1>4, IssuesCalm
<1>8. EventInv'
  BY <1>1, <1>3 DEF IssueInv, EventInv
<1>9. IssueInv'
  BY <1>1, <1>2, <1>7, <1>8 DEF IssueInv
<1> QED
  BY <1>5, <1>6, <1>9 DEF TrackerInv

\* Restart: the active file is there again, and what was read is forgotten.
LEMMA StepRestart == ASSUME TrackerInv, Restart PROVE TrackerInv'
<1>1. Types /\ QueueInv /\ IssueInv /\ Fault("crash") /\ wpc' = "idle" /\ todo' = <<>> /\ fd' = "active"
  BY DEF TrackerInv, Restart
<1>2. UNCHANGED <<row, active, processing, given, handled, created, regressions, requests, queued, stray, applied, closings>>
  BY DEF Restart, ledger, asked
<1>3. event \in Events /\ event' \in Events /\ event'.issue = event.issue
  BY <1>1 DEF Types, Events, None, Restart
<1>4. faults' \in 0..MaxFaults /\ faults' \in Nat /\ faults <= faults' /\ faults < faults'
  BY <1>1, FaultCounted
<1>5. Types'
  BY <1>1, <1>2, <1>3, <1>4, RangeEmpty DEF Types
<1>6. FilesInv' /\ OrderInv'
  BY <1>1, <1>2, RangeEmpty DEF QueueInv, FilesInv, OrderInv, InOrder, HasActive
<1>7. DrainInv' /\ LostOnlyAfterReopenFailure'
  BY <1>1, <1>2 DEF QueueInv, DrainInv, LostOnlyAfterReopenFailure
<1>8. \A f \in Issues : RowInv(f)' /\ CountInv(f)' /\ AnnounceInv(f)'
  BY <1>1, <1>2, <1>4, IssuesCalm
<1>9. EventInv'
  BY <1>1, <1>3 DEF IssueInv, EventInv
<1>10. IssueInv'
  BY <1>1, <1>2, <1>8, <1>9 DEF IssueInv
<1> QED
  BY <1>5, <1>6, <1>7, <1>10 DEF TrackerInv, QueueInv

\* Upsert: one more event, and at most one closing used up.
LEMMA StepUpsert == ASSUME TrackerInv, NEW f \in Issues, Upsert(f) PROVE TrackerInv'
<1> DEFINE r == row[f]
           reg == r.count > 0 /\ Regresses(r)
<1>1. Types /\ QueueInv /\ IssueInv /\ wpc = "ingest" /\ wpc' = "upserted"
  BY DEF TrackerInv, Upsert
<1>2. UNCHANGED <<todo, active, processing, fd, handled, created, regressions, requests, queued, stray, applied, closings, faults>>
  BY DEF Upsert, queue, asked
<1>3. row' = [row EXCEPT ![f] = Counted(r)]
  BY DEF Upsert
<1>4. event' = [issue |-> {f}, new |-> row'[f].count = 1 /\ ~reg, regressed |-> reg]
  BY DEF Upsert
<1>5. given' \in 0..MaxEvents
  <2>1. given \in Nat /\ MaxEvents \in Nat /\ given <= MaxEvents
    BY <1>1, TrackerAssumption DEF Types
  <2>2. given' = given \/ (given < MaxEvents /\ given' = given + 1)
    BY DEF Upsert
  <2> QED
    BY <2>1, <2>2
<1>6. /\ faults \in Nat /\ requests \in Nat /\ r \in Rows /\ r.count \in Nat /\ r.regressions \in Nat
      /\ handled[f] \in Nat /\ created[f] \in Nat /\ regressions[f] \in Nat /\ closings[f] \in Nat
  BY <1>1, IssueNumbers
<1>7. RowInv(f) /\ CountInv(f) /\ AnnounceInv(f) /\ Sane(r) /\ r.regressions + Owed(r) <= closings[f]
  BY <1>1 DEF IssueInv, RowInv
<1>8. /\ Counted(r) \in Rows /\ Counted(r).count = r.count + 1 /\ Sane(Counted(r))
      /\ reg => Counted(r).regressions = r.regressions + 1 /\ Owed(Counted(r)) = 0 /\ Owed(r) = 1
      /\ ~reg => /\ Counted(r).regressions = r.regressions
                 /\ Owed(Counted(r)) = 0 \/ Owed(Counted(r)) = Owed(r)
  BY <1>6, <1>7, CountedRow
<1>9. row \in [Issues -> Rows]
  BY <1>1 DEF Types
<1>10. reg \in BOOLEAN
  OBVIOUS
<1>11. event'.issue = {f} /\ event'.new = (row'[f].count = 1 /\ ~reg) /\ event'.regressed = reg
  BY <1>4
<1>12. event' \in Events
  BY <1>4, <1>10 DEF Events
<1> HIDE DEF r, reg
<1>13. row' \in [Issues -> Rows] /\ row'[f] = Counted(r) /\ \A g \in Issues : g # f => row'[g] = row[g]
  BY <1>3, <1>8, <1>9
<1>14. Types'
  BY <1>1, <1>2, <1>5, <1>12, <1>13 DEF Types
<1>15. QueueInv'
  BY <1>1, <1>2, <1>6, QueueCalm
<1>16. EventInv'
  BY <1>11 DEF EventInv
<1>17. RowInv(f)'
  <2>1. Counted(r).regressions + Owed(Counted(r)) <= closings[f]
    <3>1. CASE reg
      BY <1>6, <1>7, <1>8, <3>1
    <3>2. CASE ~reg
      <4>1. Counted(r).regressions = r.regressions /\ (Owed(Counted(r)) = 0 \/ Owed(Counted(r)) = Owed(r))
        BY <1>8, <3>2
      <4>2. Owed(r) \in Nat
        BY OwedIs
      <4> QED
        BY <1>6, <1>7, <4>1, <4>2
    <3> QED
      BY <3>1, <3>2
  <2> QED
    BY <1>2, <1>8, <1>13, <2>1 DEF RowInv
<1>18. ~InHand(f) /\ InHand(f)'
  BY <1>1, <1>11 DEF InHand
<1>19. CountInv(f)'
  <2>1. handled[f] <= r.count /\ r.count <= handled[f] + faults
    BY <1>6, <1>7, <1>18 DEF CountInv, r
  <2>2. handled[f] + 1 <= r.count + 1 /\ r.count + 1 <= handled[f] + 1 + faults
    BY <1>6, <2>1
  <2> QED
    BY <1>2, <1>8, <1>13, <1>18, <2>2 DEF CountInv
<1>20. AnnounceInv(f)'
  <2>1. created[f] <= 1 /\ (r.count = 0 => created[f] = 0) /\ regressions[f] <= r.regressions
    BY <1>6, <1>7, <1>18 DEF AnnounceInv, r
  <2>2. row'[f].count = r.count + 1 /\ row'[f].count # 0 /\ (row'[f].count = 1 => r.count = 0)
    BY <1>6, <1>8, <1>13
  <2>3. event'.new => created[f] = 0
    BY <1>11, <2>1, <2>2
  <2>4. regressions[f] + (IF event'.regressed THEN 1 ELSE 0) <= row'[f].regressions
    BY <1>6, <1>8, <1>11, <1>13, <2>1
  <2> QED
    BY <1>2, <1>18, <2>1, <2>2, <2>3, <2>4 DEF AnnounceInv
<1>21. ASSUME NEW g \in Issues, g # f PROVE RowInv(g)' /\ CountInv(g)' /\ AnnounceInv(g)'
  <2>1. RowInv(g) /\ CountInv(g) /\ AnnounceInv(g) /\ row'[g] = row[g]
    BY <1>1, <1>13, <1>21 DEF IssueInv
  <2>2. ~InHand(g) /\ ~InHand(g)'
    BY <1>1, <1>11, <1>21 DEF InHand
  <2> QED
    BY <1>2, <2>1, <2>2 DEF RowInv, CountInv, AnnounceInv
<1>22. \A m \in Range(queued') : row'[m.issue].count > 0
  <2>1. ASSUME NEW m \in Range(queued) PROVE row'[m.issue].count > 0
    <3>1. m.issue \in Issues /\ row[m.issue].count > 0
      BY <1>1, QueuedIds DEF IssueInv
    <3>2. CASE m.issue = f
      BY <1>6, <1>8, <1>13, <3>2
    <3>3. CASE m.issue # f
      BY <1>13, <3>1, <3>3
    <3> QED
      BY <3>2, <3>3
  <2> QED
    BY <1>2, <2>1
<1>23. IssueInv'
  BY <1>16, <1>17, <1>19, <1>20, <1>21, <1>22 DEF IssueInv
<1> QED
  BY <1>14, <1>15, <1>23 DEF TrackerInv

\* What Bump counts.
LEMMA CounterBumped ==
  ASSUME NEW f \in Issues, NEW when \in BOOLEAN, NEW fn \in Counter
  PROVE  /\ Bump(f, when, fn) \in Counter
         /\ Bump(f, when, fn)[f] = fn[f] + (IF when THEN 1 ELSE 0)
         /\ \A g \in Issues : g # f => Bump(f, when, fn)[g] = fn[g]
<1>1. fn[f] \in Nat
  BY DEF Counter
<1> DEFINE v == IF when THEN fn[f] + 1 ELSE fn[f]
<1>2. v \in Nat /\ v = fn[f] + (IF when THEN 1 ELSE 0)
  BY <1>1
<1>3. Bump(f, when, fn) = [fn EXCEPT ![f] = v]
  BY DEF Bump
<1> HIDE DEF v
<1> QED
  BY <1>2, <1>3 DEF Counter

\* FinishEvent: the event in hand is finished, and announced as the upsert said.
LEMMA StepFinishEvent == ASSUME TrackerInv, FinishEvent PROVE TrackerInv'
<1>1. Types /\ QueueInv /\ IssueInv /\ wpc = "upserted" /\ wpc' = "published"
  BY DEF TrackerInv, FinishEvent
<1>2. UNCHANGED <<row, event, todo, active, processing, fd, given, requests, queued, stray, applied, closings, faults>>
  BY DEF FinishEvent, queue, asked
<1>3. PICK f \in event.issue : /\ handled' = Bump(f, TRUE, handled)
                               /\ created' = Bump(f, event.new, created)
                               /\ regressions' = Bump(f, event.regressed, regressions)
  BY DEF FinishEvent
<1>4. f \in Issues /\ event.issue = {f} /\ event.new \in BOOLEAN /\ event.regressed \in BOOLEAN
  <2>1. event \in Events /\ event.issue # {}
    BY <1>1, <1>3 DEF Types
  <2>2. event.new \in BOOLEAN /\ event.regressed \in BOOLEAN /\ event.issue \subseteq Issues
    BY <2>1 DEF Events
  <2>3. PICK g \in Issues : event.issue = {g}
    BY <1>1, <2>1 DEF IssueInv, EventInv
  <2> QED
    BY <1>3, <2>2, <2>3
<1>5. /\ handled' \in Counter /\ handled'[f] = handled[f] + 1 /\ \A g \in Issues : g # f => handled'[g] = handled[g]
  BY <1>1, <1>3, <1>4, CounterBumped DEF Types
<1>6. /\ created' \in Counter /\ created'[f] = created[f] + (IF event.new THEN 1 ELSE 0)
      /\ \A g \in Issues : g # f => created'[g] = created[g]
  BY <1>1, <1>3, <1>4, CounterBumped DEF Types
<1>7. /\ regressions' \in Counter /\ regressions'[f] = regressions[f] + (IF event.regressed THEN 1 ELSE 0)
      /\ \A g \in Issues : g # f => regressions'[g] = regressions[g]
  BY <1>1, <1>3, <1>4, CounterBumped DEF Types
<1>8. /\ faults \in Nat /\ requests \in Nat /\ row[f].count \in Nat /\ row[f].regressions \in Nat
      /\ handled[f] \in Nat /\ created[f] \in Nat /\ regressions[f] \in Nat
  BY <1>1, <1>4, IssueNumbers
<1>9. Types'
  BY <1>1, <1>2, <1>5, <1>6, <1>7 DEF Types
<1>10. QueueInv'
  BY <1>1, <1>2, <1>8, QueueCalm
<1>11. EventInv'
  BY <1>1, <1>2, <1>4 DEF IssueInv, EventInv
<1>12. \A g \in Issues : ~InHand(g)' /\ (InHand(g) <=> g = f)
  BY <1>1, <1>4 DEF InHand
<1>13. RowInv(f) /\ CountInv(f) /\ AnnounceInv(f) /\ InHand(f) /\ ~InHand(f)'
  BY <1>1, <1>4, <1>12 DEF IssueInv
<1>14. CountInv(f)'
  <2>1. handled[f] + 1 <= row[f].count /\ row[f].count <= handled[f] + 1 + faults
    BY <1>13 DEF CountInv
  <2> QED
    BY <1>2, <1>5, <1>8, <1>13, <2>1 DEF CountInv
<1>15. AnnounceInv(f)'
  <2>1. /\ created[f] <= 1 /\ (event.new => created[f] = 0) /\ (row[f].count = 0 => created[f] = 0)
        /\ regressions[f] + (IF event.regressed THEN 1 ELSE 0) <= row[f].regressions
    BY <1>13 DEF AnnounceInv
  <2>2. row[f].count # 0
    BY <1>8, <1>13 DEF CountInv
  <2>3. created'[f] <= 1
    BY <1>6, <1>8, <2>1
  <2>4. regressions'[f] + 0 <= row[f].regressions
    BY <1>7, <1>8, <2>1
  <2> QED
    BY <1>2, <1>13, <2>2, <2>3, <2>4 DEF AnnounceInv
<1>16. ASSUME NEW g \in Issues PROVE RowInv(g)' /\ CountInv(g)' /\ AnnounceInv(g)'
  <2>1. RowInv(g) /\ CountInv(g) /\ AnnounceInv(g)
    BY <1>1 DEF IssueInv
  <2>2. RowInv(g)'
    BY <1>2, <2>1 DEF RowInv
  <2>3. CASE g = f
    BY <1>14, <1>15, <2>2, <2>3
  <2>4. CASE g # f
    <3>1. ~InHand(g) /\ ~InHand(g)'
      BY <1>12, <2>4
    <3> QED
      BY <1>2, <1>5, <1>6, <1>7, <2>1, <2>2, <2>4, <3>1 DEF CountInv, AnnounceInv
  <2> QED
    BY <2>3, <2>4
<1>17. IssueInv'
  BY <1>1, <1>2, <1>11, <1>16 DEF IssueInv
<1> QED
  BY <1>9, <1>10, <1>17 DEF TrackerInv

-----------------------------------------------------------------------------
(* The whole tracker. *)

\* A new tracker.
LEMMA TrackerStarts == Init => TrackerInv
<1> SUFFICES ASSUME Init PROVE TrackerInv
  OBVIOUS
<1>1. Types
  <2>1. row \in [Issues -> Rows]
    BY DEF Init, Rows
  <2>2. handled \in Counter /\ created \in Counter /\ regressions \in Counter /\ closings \in Counter
    BY DEF Init, Zeros, Counter
  <2>3. given \in 0..MaxEvents /\ requests \in 0..MaxRequests /\ faults \in 0..MaxFaults
    <3>1. given = 0 /\ requests = 0 /\ faults = 0
      BY DEF Init
    <3>2. 0 \in 0..MaxEvents /\ 0 \in 0..MaxRequests /\ 0 \in 0..MaxFaults
      BY TrackerAssumption
    <3> QED
      BY <3>1, <3>2
  <2>4. event \in Events
    BY DEF Init, None, Events
  <2> QED
    BY <2>1, <2>2, <2>3, <2>4, RangeEmpty DEF Init, Types
<1>2. QueueInv
  BY RangeEmpty DEF Init, QueueInv, FilesInv, OrderInv, DrainInv, LostOnlyAfterReopenFailure, HasActive
<1>3. EventInv /\ \A m \in Range(queued) : row[m.issue].count > 0
  BY RangeEmpty DEF Init, EventInv, None
<1>4. ASSUME NEW f \in Issues PROVE RowInv(f) /\ CountInv(f) /\ AnnounceInv(f)
  <2>1. row[f].status = "absent" /\ row[f].count = 0 /\ row[f].regressions = 0
    BY DEF Init
  <2>2. handled[f] = 0 /\ created[f] = 0 /\ regressions[f] = 0 /\ closings[f] = 0 /\ faults = 0 /\ ~InHand(f)
    BY DEF Init, Zeros, InHand
  <2>3. RowInv(f)
    BY <2>1, <2>2 DEF RowInv, Sane, Owed
  <2>4. CountInv(f)
    BY <2>1, <2>2 DEF CountInv
  <2>5. AnnounceInv(f)
    BY <2>1, <2>2 DEF AnnounceInv
  <2> QED
    BY <2>3, <2>4, <2>5
<1> QED
  BY <1>1, <1>2, <1>3, <1>4 DEF TrackerInv, IssueInv

\* A step that changes nothing.
LEMMA TrackerStutters == ASSUME TrackerInv, UNCHANGED vars PROVE TrackerInv'
<1>1. Types /\ QueueInv /\ IssueInv /\ requests \in Nat /\ faults \in Nat
  BY IssueNumbers DEF TrackerInv
<1>2. UNCHANGED <<row, wpc, event, todo, active, processing, fd, given, handled, created, regressions,
                  requests, queued, stray, applied, closings, faults>>
  BY DEF vars, queue, ledger, asked
<1>3. Types'
  BY <1>1, <1>2 DEF Types
<1>4. QueueInv'
  BY <1>1, <1>2, QueueCalm
<1>5. \A f \in Issues : RowInv(f)' /\ CountInv(f)' /\ AnnounceInv(f)'
  BY <1>1, <1>2, IssuesCalm
<1>6. IssueInv'
  BY <1>1, <1>2, <1>5 DEF IssueInv, EventInv
<1> QED
  BY <1>3, <1>4, <1>6 DEF TrackerInv

\* No step breaks it.
LEMMA TrackerSteps == TrackerInv /\ [Next]_vars => TrackerInv'
<1> SUFFICES ASSUME TrackerInv, [Next]_vars PROVE TrackerInv'
  OBVIOUS
<1>1. CASE Request
  BY <1>1, StepMutateDirect, StepMutateQueued DEF Request
<1>2. CASE Drain
  BY <1>2, StepDrainStart, StepApplyOne, StepApplyFails, StepDrainFileDone, StepDrainOver, StepClaim DEF Drain
<1>3. CASE Ingest
  BY <1>3, StepUpsert, StepFinishEvent, StepEventCalm DEF Ingest
<1>4. CASE Restart
  BY <1>4, StepRestart
<1>5. CASE UNCHANGED vars
  BY <1>5, TrackerStutters
<1> QED
  BY <1>1, <1>2, <1>3, <1>4, <1>5 DEF Next

\* The queue's order, read off the ids.
LEMMA OrderOfIds == ASSUME TrackerInv PROVE QueuedInOrder
<1> SUFFICES ASSUME NEW j \in 1..Len(queued), queued[j] \in applied, NEW k \in 1..j
             PROVE  queued[k] \in applied \cup stray
  BY DEF QueuedInOrder
<1>1. queued \in Seq(Mutation) /\ Len(queued) \in Nat /\ DOMAIN queued = 1..Len(queued)
  BY DEF TrackerInv, Types
<1>2. k \in 1..Len(queued) /\ (k = j \/ k < j)
  BY <1>1
<1>3. queued[k] \in Range(queued)
  BY <1>1, <1>2 DEF Range
<1>4. CASE k < j
  <2>1. queued[k].id < queued[j].id
    BY <1>2, <1>4 DEF TrackerInv, QueueInv, OrderInv, InOrder
  <2> QED
    BY <1>3, <2>1 DEF TrackerInv, QueueInv, OrderInv
<1> QED
  BY <1>2, <1>4

\* What the invariant says of an issue.
LEMMA TrackerMeansSafe == TrackerInv => IssuesSafe
<1> SUFFICES ASSUME TrackerInv PROVE IssuesSafe
  OBVIOUS
<1>1. Types /\ QueueInv /\ IssueInv
  BY DEF TrackerInv
<1>2. TypeOK
  <2>1. \A f \in Issues : Sane(row[f])
    BY <1>1 DEF IssueInv, RowInv
  <2>2. event.issue \subseteq Issues /\ Cardinality(event.issue) <= 1
    <3>1. event.issue \subseteq Issues
      BY <1>1 DEF Types, Events
    <3>2. event.issue = {} \/ \E f \in Issues : event.issue = {f}
      BY <1>1 DEF IssueInv, EventInv
    <3>3. Cardinality(event.issue) = 0 \/ Cardinality(event.issue) = 1
      BY <3>2, FS_EmptySet, FS_Singleton
    <3> QED
      BY <3>1, <3>3
  <2>3. Range(todo) \subseteq Range(queued) /\ applied \subseteq Range(queued) /\ stray \subseteq Range(queued)
        /\ (~HasActive => active = <<>>)
    BY <1>1 DEF QueueInv, FilesInv
  <2> QED
    BY <1>1, <2>1, <2>2, <2>3 DEF TypeOK, Types, Sane
<1>3. LostOnlyAfterReopenFailure /\ QueuedInOrder
  BY <1>1, OrderOfIds DEF QueueInv
<1>4. ASSUME NEW f \in Issues PROVE row[f].regressions <= closings[f]
  <2>1. row[f].regressions + Owed(row[f]) <= closings[f]
    BY <1>1 DEF IssueInv, RowInv
  <2>2. row[f].regressions \in Nat /\ closings[f] \in Nat /\ Owed(row[f]) \in Nat
    BY <1>1, IssueNumbers, OwedIs
  <2> QED
    BY <2>1, <2>2, Numbers, Zenon
<1>5. CountBounded
  BY <1>1 DEF IssueInv, CountInv, InHand, CountBounded
<1>6. ASSUME NEW f \in Issues PROVE created[f] <= 1 /\ regressions[f] <= row[f].regressions
  <2>1. created[f] <= 1 /\ regressions[f] + (IF InHand(f) /\ event.regressed THEN 1 ELSE 0) <= row[f].regressions
    BY <1>1 DEF IssueInv, AnnounceInv
  <2>2. regressions[f] \in Nat /\ row[f].regressions \in Nat
    BY <1>1, IssueNumbers
  <2> QED
    BY <2>1, <2>2
<1> QED
  BY <1>2, <1>3, <1>4, <1>5, <1>6 DEF IssuesSafe, RegressionsJustified, AnnouncedOnce

\* Every acknowledged change of an issue is applied in order or was queued after a
\* failed reopen, no event counts twice without a fault, no issue regresses more
\* often than it was closed, and none is announced twice, for every set of issues
\* and any number of events, requests, failures and restarts.
THEOREM IssuesKept == Spec => []IssuesSafe
<1>1. Spec => []TrackerInv
  BY TrackerStarts, TrackerSteps, PTL DEF Spec
<1> QED
  BY <1>1, TrackerMeansSafe, PTL

-----------------------------------------------------------------------------
(* Alerting: no new issue vanishes in the cap, and a recorded alert does    *)
(* not repeat within its cooldown.                                          *)

(* A non-empty set of naturals has a least element. *)
LEMMA LeastOf ==
  ASSUME NEW T \in SUBSET Nat, T # {}
  PROVE  \E n \in T : \A k \in T : n <= k
<1>1. PICK n \in T : \A k \in T : ~(<<k, n>> \in OpToRel(<, Nat))
  BY NatLessThanWellFounded, WFMin
<1>2. \A k \in T : ~(k < n)
  <2>1. ASSUME NEW k \in T, k < n PROVE FALSE
    <3>1. <<k, n>> \in Nat \X Nat
      OBVIOUS
    <3>. QED  BY <1>1, <2>1, <3>1 DEF OpToRel
  <2>. QED  BY <2>1
<1>. QED  BY <1>2

(* A bounded set of naturals has a greatest element. *)
LEMMA GreatestOf ==
  ASSUME NEW N \in Nat, NEW T \in SUBSET (0 .. N), T # {}
  PROVE  \E n \in T : \A k \in T : k <= n
<1>1. PICK m \in {N - k : k \in T} : \A j \in {N - k : k \in T} : m <= j
  <2>1. PICK D : D = {N - k : k \in T}
    OBVIOUS
  <2>2. \A k \in T : N - k \in Nat
    OBVIOUS
  <2>3. D \in SUBSET Nat /\ D # {}
    BY <2>1, <2>2
  <2>. QED  BY <2>1, <2>3, LeastOf
<1>2. PICK n \in T : m = N - n
  BY <1>1
<1>3. ASSUME NEW k \in T PROVE k <= n
  <2>1. N - n <= N - k
    BY <1>1, <1>2
  <2>. QED  BY <2>1
<1>. QED  BY <1>3

AdminMails == {"new_issue", "new_issue_flood", "regression", "event_spike"}
Deliveries ==
  [alert : AlertIds \cup {Admin}, rule : AlertRules \cup {AdminRule(what) : what \in AdminMails},
   issue : AlertIssues \cup {Summary}, tries : Nat, pc : {"slot", "queue", "send", "post", "record"}]

AlertTypes ==
  /\ alertNow \in Nat /\ alertNow > 0
  /\ alertRules \in [AlertIds -> AlertRules \cup {NoRule}]
  /\ Jobs \subseteq Deliveries
  /\ alertWindow \in [start : Nat, sent : Nat, suppressed : Nat]
  /\ alertSeen \in [created : Nat, mailed : Nat, summarized : Nat]

\* A record is of a time that has come.
FiringsInv == \A f \in alertFirings : f.at \in 1 .. alertNow

AlertInv == AlertTypes /\ FiringsInv /\ EveryNewIssueAccounted

\* Goroutines that start are added to those that run.
LEMMA SpawnAdds == ASSUME NEW jobs, Spawn(jobs) PROVE Jobs' = Jobs \cup jobs
<1>1. BagToSet(alertJobs (+) SetToBag(jobs)) = BagToSet(alertJobs) \cup jobs
  BY DEF BagToSet, SetToBag, \oplus
<1> QED
  BY <1>1 DEF Spawn, Jobs

\* A goroutine that goes on is the only new one.
LEMMA BecomeAdds == ASSUME NEW j, NEW k, Become(j, k) PROVE Jobs' \subseteq Jobs \cup {k}
<1>1. BagToSet(alertJobs (-) SetToBag({j})) \subseteq BagToSet(alertJobs)
  BY DEF BagToSet, \ominus
<1>2. BagToSet((alertJobs (-) SetToBag({j})) (+) SetToBag({k})) = BagToSet(alertJobs (-) SetToBag({j})) \cup {k}
  BY DEF BagToSet, SetToBag, \oplus
<1> QED
  BY <1>1, <1>2 DEF Become, Jobs

\* A goroutine that ends adds none.
LEMMA EndsAdds == ASSUME NEW j, Ends(j) PROVE Jobs' \subseteq Jobs
<1>1. BagToSet(alertJobs (-) SetToBag({j})) \subseteq BagToSet(alertJobs)
  BY DEF BagToSet, \ominus
<1> QED
  BY <1>1 DEF Ends, Jobs

\* The goroutines of an administrator's mail are deliveries, and none is of a saved rule.
LEMMA AdminJobsAre ==
  ASSUME NEW what \in AdminMails, NEW i \in AlertIssues \cup {Summary}
  PROVE  AdminJobs(what, i) \subseteq Deliveries /\ \A j \in AdminJobs(what, i) : j.alert = Admin
<1>1. Job(Admin, AdminRule(what), i) \in Deliveries /\ Job(Admin, AdminRule(what), i).alert = Admin
  <2>1. AdminRule(what) \in AlertRules \cup {AdminRule(w) : w \in AdminMails}
    OBVIOUS
  <2>2. AdminRule(what).email
    BY DEF AdminRule
  <2> QED
    BY <2>1, <2>2 DEF Job, Deliveries
<1> QED
  BY <1>1 DEF AdminJobs

\* The latest record is none earlier than any of the alert and the issue.
LEMMA LastFiringLatest ==
  ASSUME alertNow \in Nat, FiringsInv, NEW a, NEW i, NEW f \in alertFirings, f.alert = a, f.issue = i
  PROVE  LastFiring(a, i) \in Nat /\ f.at <= LastFiring(a, i) /\ LastFiring(a, i) # 0 /\ f.at \in Nat
<1> DEFINE T == {x.at : x \in {y \in alertFirings : y.alert = a /\ y.issue = i}}
<1>1. f.at \in T /\ f.at \in 1 .. alertNow /\ T \subseteq 1 .. alertNow
  BY DEF FiringsInv
<1>2. T \in SUBSET (0 .. alertNow) /\ T # {}
  BY <1>1
<1>3. LastFiring(a, i) = Max(T)
  BY <1>2 DEF LastFiring
<1> HIDE DEF T
<1>4. PICK m \in T : \A t \in T : t <= m
  BY <1>2, GreatestOf
<1>5. \A x \in T : x \in Int
  BY <1>2
<1>6. Max(T) = m
  <2> DEFINE P(x) == x \in T /\ \A y \in T : x >= y
  <2>1. P(m) /\ \A x : P(x) => x = m
    BY <1>4, <1>5
  <2>2. P(CHOOSE x : P(x))
    BY <2>1
  <2>3. Max(T) = CHOOSE x : P(x)
    BY DEF Max
  <2> QED
    BY <2>1, <2>2, <2>3
<1> QED
  BY <1>1, <1>3, <1>4, <1>6

\* A rule that fires for an issue has no record within its cooldown.
LEMMA FiresCooled ==
  ASSUME AlertInv, NEW i \in AlertIssues, NEW condition, NEW n, NEW capped \in BOOLEAN,
         NEW a \in Fires(i, condition, n, capped)
  PROVE  /\ a \in AlertIds /\ a # Admin /\ alertRules[a] \in AlertRules
         /\ Job(a, alertRules[a], i) \in Deliveries
         /\ Job(a, alertRules[a], i).alert = a /\ Job(a, alertRules[a], i).issue = i
         /\ Job(a, alertRules[a], i).rule = alertRules[a]
         /\ alertRules[a].cooldown > 0 =>
              \A f \in alertFirings : f.alert = a /\ f.issue = i => alertNow - f.at >= alertRules[a].cooldown
<1>1. a \in AlertIds /\ alertRules[a] # NoRule /\ CooldownPassed(a, i)
  BY DEF Fires
<1>2. alertRules[a] \in AlertRules /\ alertRules[a] \in AlertRule /\ a # Admin
  BY <1>1, AlertAssumption DEF AlertInv, AlertTypes, Admin
<1>3. Job(a, alertRules[a], i) \in Deliveries
  <2>1. PICK pc \in {"slot", "post"} : pc = IF alertRules[a].email THEN "slot" ELSE "post"
    OBVIOUS
  <2> QED
    BY <1>1, <1>2, <2>1 DEF Job, Deliveries
<1>4. ASSUME alertRules[a].cooldown > 0, NEW f \in alertFirings, f.alert = a, f.issue = i
      PROVE  alertNow - f.at >= alertRules[a].cooldown
  <2>1. alertNow \in Nat /\ FiringsInv
    BY DEF AlertInv, AlertTypes
  <2>2. LastFiring(a, i) \in Nat /\ f.at <= LastFiring(a, i) /\ LastFiring(a, i) # 0 /\ f.at \in Nat
    BY <1>4, <2>1, LastFiringLatest
  <2>3. alertRules[a].cooldown \in Nat
    BY <1>2 DEF AlertRule
  <2>4. alertNow - LastFiring(a, i) >= alertRules[a].cooldown
    BY <1>1, <1>4, <2>2, <2>3 DEF CooldownPassed
  <2> QED
    BY <2>1, <2>2, <2>3, <2>4
<1> QED
  BY <1>1, <1>2, <1>3, <1>4 DEF Job

-----------------------------------------------------------------------------
(* What a step adds to the deliveries. *)

\* A delivery of a rule that starts now has no record within the rule's cooldown.
Cooled(j) ==
  j.alert # Admin /\ j.tries = 0 /\ j.pc \in {"slot", "post"} /\ j.rule.cooldown > 0 =>
    \A f \in alertFirings : f.alert = j.alert /\ f.issue = j.issue => alertNow - f.at >= j.rule.cooldown

\* The deliveries a step adds are all of that kind.
AddsCooled == Jobs' \subseteq Deliveries /\ \A j \in Jobs' \ Jobs : Cooled(j)

\* Rules that fire and mails to the administrator are of that kind.
LEMMA SpawnCooled ==
  ASSUME AlertInv, NEW jobs, Spawn(jobs),
         \A j \in jobs : j \in Deliveries /\ (j.alert = Admin \/ Cooled(j))
  PROVE  AddsCooled
<1>1. Jobs' = Jobs \cup jobs
  BY SpawnAdds
<1>2. \A j \in jobs : Cooled(j)
  BY DEF Cooled
<1> QED
  BY <1>1, <1>2 DEF AddsCooled, AlertInv, AlertTypes

\* The goroutines of the rules that fire.
LEMMA RuleJobsCooled ==
  ASSUME AlertInv, NEW i \in AlertIssues, NEW condition, NEW n, NEW capped \in BOOLEAN
  PROVE  \A j \in RuleJobs(Fires(i, condition, n, capped), i) : j \in Deliveries /\ Cooled(j)
<1> SUFFICES ASSUME NEW a \in Fires(i, condition, n, capped)
             PROVE  Job(a, alertRules[a], i) \in Deliveries /\ Cooled(Job(a, alertRules[a], i))
  BY DEF RuleJobs
<1>1. /\ Job(a, alertRules[a], i) \in Deliveries
      /\ Job(a, alertRules[a], i).alert = a /\ Job(a, alertRules[a], i).issue = i
      /\ Job(a, alertRules[a], i).rule = alertRules[a]
      /\ alertRules[a].cooldown > 0 =>
           \A f \in alertFirings : f.alert = a /\ f.issue = i => alertNow - f.at >= alertRules[a].cooldown
  BY FiresCooled
<1> QED
  BY <1>1 DEF Cooled

\* The goroutines of the rules that fire on either of two conditions.
LEMMA BothRuleJobsCooled ==
  ASSUME AlertInv, NEW i \in AlertIssues, NEW condition, NEW other, NEW capped \in BOOLEAN
  PROVE  \A j \in RuleJobs(Fires(i, condition, 1, capped) \cup Fires(i, other, 1, FALSE), i) : j \in Deliveries /\ Cooled(j)
<1>1. PICK as : as = Fires(i, condition, 1, capped)
  OBVIOUS
<1>2. PICK bs : bs = Fires(i, other, 1, FALSE)
  OBVIOUS
<1>3. RuleJobs(as \cup bs, i) = RuleJobs(as, i) \cup RuleJobs(bs, i)
  BY DEF RuleJobs
<1>4. \A j \in RuleJobs(as, i) : j \in Deliveries /\ Cooled(j)
  BY <1>1, RuleJobsCooled
<1>5. \A j \in RuleJobs(bs, i) : j \in Deliveries /\ Cooled(j)
  BY <1>2, RuleJobsCooled
<1> QED
  BY <1>1, <1>2, <1>3, <1>4, <1>5

\* A delivery that goes on is not one that starts.
LEMMA BecomeCooled ==
  ASSUME AlertInv, NEW j \in Jobs, NEW k \in Deliveries, Become(j, k), k.tries # 0 \/ k.pc \notin {"slot", "post"}
  PROVE  AddsCooled
<1>1. Jobs' \subseteq Jobs \cup {k}
  BY BecomeAdds
<1>2. Cooled(k)
  BY DEF Cooled
<1> QED
  BY <1>1, <1>2 DEF AddsCooled, AlertInv, AlertTypes

\* A delivery that ends, or a step without any, starts none.
LEMMA EndsCooled == ASSUME AlertInv, Jobs' \subseteq Jobs PROVE AddsCooled
  BY DEF AddsCooled, AlertInv, AlertTypes

\* A new issue.
LEMMA IssueCreatedCooled == ASSUME AlertInv, NEW i \in AlertIssues, IssueCreated(i) PROVE AddsCooled
<1> DEFINE rules == RuleJobs(Fires(i, "new_issue", 1, ~AdmitSend) \cup Fires(i, "message_contains", 1, FALSE), i)
           first == IF AdmitSend THEN AdminJobs("new_issue", i) ELSE {}
           flood == IF AdmitSummarize > 0 THEN AdminJobs("new_issue_flood", Summary) ELSE {}
<1>1. Spawn(rules \cup first \cup flood)
  BY DEF IssueCreated
<1>2. \A j \in rules : j \in Deliveries /\ Cooled(j)
  <2>1. PICK capped \in BOOLEAN : capped = ~AdmitSend
    OBVIOUS
  <2> QED
    BY <2>1, BothRuleJobsCooled
<1>3. \A j \in first \cup flood : j \in Deliveries /\ j.alert = Admin
  <2>1. \A j \in AdminJobs("new_issue", i) : j \in Deliveries /\ j.alert = Admin
    BY AdminJobsAre DEF AdminMails
  <2>2. \A j \in AdminJobs("new_issue_flood", Summary) : j \in Deliveries /\ j.alert = Admin
    BY AdminJobsAre DEF AdminMails
  <2> QED
    BY <2>1, <2>2
<1> HIDE DEF rules, first, flood
<1> QED
  BY <1>1, <1>2, <1>3, SpawnCooled

\* The timer of a window.
LEMMA ExpireWindowCooled == ASSUME AlertInv, NEW start \in alertTimers, ExpireWindow(start) PROVE AddsCooled
<1>1. PICK jobs : /\ Spawn(jobs)
                  /\ jobs \subseteq AdminJobs("new_issue_flood", Summary)
  BY DEF ExpireWindow
<1>2. \A j \in AdminJobs("new_issue_flood", Summary) : j \in Deliveries /\ j.alert = Admin
  BY AdminJobsAre DEF AdminMails
<1> QED
  BY <1>1, <1>2, SpawnCooled

\* A regression.
LEMMA IssueRegressedCooled == ASSUME AlertInv, NEW i \in AlertIssues, IssueRegressed(i) PROVE AddsCooled
<1> DEFINE rules == RuleJobs(Fires(i, "regression", 1, FALSE) \cup Fires(i, "message_contains", 1, FALSE), i)
<1>1. Spawn(rules \cup AdminJobs("regression", i))
  BY DEF IssueRegressed
<1>2. \A j \in rules : j \in Deliveries /\ Cooled(j)
  BY BothRuleJobsCooled
<1>3. \A j \in AdminJobs("regression", i) : j \in Deliveries /\ j.alert = Admin
  BY AdminJobsAre DEF AdminMails
<1> QED
  BY <1>1, <1>2, <1>3, SpawnCooled

\* A recorded event.
LEMMA IssueEventRecordedCooled ==
  ASSUME AlertInv, NEW i \in AlertIssues, NEW n \in EventCounts, IssueEventRecorded(i, n) PROVE AddsCooled
<1> DEFINE rules == RuleJobs(Fires(i, "event_count_exceeds", n, FALSE), i)
           spike == IF IsSpikeMilestone(n) THEN AdminJobs("event_spike", i) ELSE {}
<1>1. Spawn(rules \cup spike)
  BY DEF IssueEventRecorded
<1>2. \A j \in rules : j \in Deliveries /\ Cooled(j)
  BY RuleJobsCooled
<1>3. \A j \in spike : j \in Deliveries /\ j.alert = Admin
  <2>1. \A j \in AdminJobs("event_spike", i) : j \in Deliveries /\ j.alert = Admin
    BY AdminJobsAre DEF AdminMails
  <2> QED
    BY <2>1
<1> QED
  BY <1>1, <1>2, <1>3, SpawnCooled

\* A delivery on its way.
LEMMA DeliveryCooled ==
  ASSUME AlertInv, NEW j \in Jobs,
         \/ AcquireMailSlot(j) \/ MailSlotFreed(j) \/ Delivered(j) \/ RecordFiring(j)
         \/ MailWaitAborted(j) \/ DeliveryFails(j) \/ RecordFiringFails(j)
  PROVE  AddsCooled
<1>1. j \in Deliveries /\ j.tries \in Nat
  BY DEF AlertInv, AlertTypes, Deliveries
<1>2. ASSUME NEW pc \in {"send", "queue", "record"}, Become(j, [j EXCEPT !.pc = pc]) PROVE AddsCooled
  <2>1. [j EXCEPT !.pc = pc] \in Deliveries /\ [j EXCEPT !.pc = pc].pc = pc
    BY <1>1 DEF Deliveries
  <2> QED
    BY <1>2, <2>1, BecomeCooled
<1>3. ASSUME Become(j, [j EXCEPT !.tries = @ + 1]) PROVE AddsCooled
  <2>1. PICK k : k = [j EXCEPT !.tries = @ + 1]
    OBVIOUS
  <2>2. k \in Deliveries /\ k.tries = j.tries + 1
    BY <1>1, <2>1 DEF Deliveries
  <2>3. k.tries # 0
    BY <1>1, <2>2
  <2> QED
    BY <1>3, <2>1, <2>2, <2>3, BecomeCooled
<1>4. ASSUME Ends(j) PROVE AddsCooled
  BY <1>4, EndsAdds, EndsCooled
<1> QED
  BY <1>2, <1>3, <1>4 DEF AcquireMailSlot, MailSlotFreed, Delivered, RecordFiring, MailWaitAborted, DeliveryFails, RecordFiringFails

\* Every step starts only deliveries without a record in the cooldown.
LEMMA StepCooled == ASSUME AlertInv, [AlertNext]_alertVars PROVE AddsCooled
<1>1. ASSUME alertJobs' = alertJobs PROVE AddsCooled
  <2>1. Jobs' = Jobs
    BY <1>1 DEF Jobs
  <2> QED
    BY <2>1, EndsCooled
<1>2. CASE UNCHANGED alertVars \/ AlertTick
  BY <1>1, <1>2 DEF alertVars, AlertTick
<1>3. ASSUME NEW a \in AlertIds, DeleteAlert(a) \/ \E rule \in AlertRules : CreateAlert(a, rule) \/ UpdateAlert(a, rule)
      PROVE  AddsCooled
  BY <1>1, <1>3 DEF DeleteAlert, CreateAlert, UpdateAlert
<1> QED
  BY <1>2, <1>3, IssueCreatedCooled, IssueRegressedCooled, IssueEventRecordedCooled, ExpireWindowCooled, DeliveryCooled
     DEF AlertNext

-----------------------------------------------------------------------------
(* The invariant. *)

\* The behaviour begins with it.
LEMMA AlertInitInv == AlertInit => AlertInv
<1> SUFFICES ASSUME AlertInit PROVE AlertInv
  OBVIOUS
<1>1. Jobs = {}
  BY DEF AlertInit, Jobs, BagToSet, EmptyBag, SetToBag
<1> QED
  BY <1>1 DEF AlertInit, AlertInv, AlertTypes, FiringsInv, EveryNewIssueAccounted, NoWindow

\* Records are added with the time of the clock, which only goes forward.
LEMMA FiringsKept ==
  ASSUME AlertInv, alertNow' = alertNow \/ alertNow' = alertNow + 1,
         \A f \in alertFirings' : f \in alertFirings \/ f.at = alertNow
  PROVE  FiringsInv' /\ alertNow' \in Nat /\ alertNow' > 0
  BY DEF AlertInv, AlertTypes, FiringsInv

\* A new issue is mailed or counted, and what a window that ran out had counted is
\* handed out.
LEMMA AdmitAccounts ==
  ASSUME AlertInv, AdmitNewIssue
  PROVE  /\ EveryNewIssueAccounted'
         /\ alertWindow' \in [start : Nat, sent : Nat, suppressed : Nat]
         /\ alertSeen' \in [created : Nat, mailed : Nat, summarized : Nat]
<1> DEFINE W == [start : Nat, sent : Nat, suppressed : Nat]
<1>1. alertWindow \in W /\ alertNow \in Nat
  BY DEF AlertInv, AlertTypes
<1>2. PICK w \in W : /\ w = AdmitWindow
                     /\ AdmitRolls \/ alertWindow = NoWindow => w.suppressed = 0
                     /\ ~AdmitRolls => w.suppressed = alertWindow.suppressed
                     /\ w.suppressed > 0 => w = alertWindow
  <2>1. CASE AdmitRolls \/ alertWindow = NoWindow
    <3>1. AdmitWindow = [start |-> alertNow, sent |-> 0, suppressed |-> 0]
      BY <2>1 DEF AdmitWindow
    <3>2. ~AdmitRolls => alertWindow.suppressed = 0
      BY <2>1 DEF NoWindow
    <3> QED
      BY <1>1, <3>1, <3>2
  <2>2. CASE ~(AdmitRolls \/ alertWindow = NoWindow)
    BY <1>1, <2>2 DEF AdmitWindow
  <2> QED
    BY <2>1, <2>2
<1>3. PICK m \in Nat : m = AdmitSummarize /\ (AdmitRolls => m = alertWindow.suppressed) /\ (~AdmitRolls => m = 0)
  BY <1>1 DEF AdmitSummarize
<1>4. alertWindow.suppressed = m + w.suppressed
  BY <1>1, <1>2, <1>3
<1>5. PICK c \in Nat, d \in Nat, e \in Nat : alertSeen = [created |-> c, mailed |-> d, summarized |-> e]
  BY DEF AlertInv, AlertTypes
<1>6. c = d + e + alertWindow.suppressed /\ (alertWindow.suppressed > 0 => alertWindow.start \in alertTimers)
  BY <1>5 DEF AlertInv, EveryNewIssueAccounted
<1>7. CASE AdmitSend
  <2>1. /\ alertWindow' = [w EXCEPT !.sent = @ + 1] /\ alertTimers' = alertTimers
        /\ alertSeen' = [created |-> c + 1, mailed |-> d + 1, summarized |-> e + m]
    BY <1>2, <1>3, <1>5, <1>7 DEF AdmitNewIssue
  <2>2. alertWindow' \in W /\ alertWindow'.suppressed = w.suppressed /\ alertWindow'.start = w.start
    BY <2>1
  <2>3. w.suppressed > 0 => w.start \in alertTimers
    BY <1>2, <1>6
  <2>4. c + 1 = (d + 1) + (e + m) + w.suppressed
    BY <1>1, <1>2, <1>4, <1>6
  <2> QED
    BY <2>1, <2>2, <2>3, <2>4 DEF EveryNewIssueAccounted
<1>8. CASE ~AdmitSend
  <2>1. /\ alertWindow' = [w EXCEPT !.suppressed = @ + 1]
        /\ alertTimers' = IF w.suppressed = 0 THEN alertTimers \cup {w.start} ELSE alertTimers
        /\ alertSeen' = [created |-> c + 1, mailed |-> d, summarized |-> e + m]
    <3>1. d + 0 = d
      OBVIOUS
    <3> QED
      BY <1>2, <1>3, <1>5, <1>8, <3>1 DEF AdmitNewIssue
  <2>2. alertWindow' \in W /\ alertWindow'.suppressed = w.suppressed + 1 /\ alertWindow'.start = w.start
    BY <2>1
  <2>3. w.start \in alertTimers'
    BY <1>2, <1>6, <2>1
  <2>4. c + 1 = d + (e + m) + (w.suppressed + 1)
    BY <1>1, <1>2, <1>4, <1>6
  <2> QED
    BY <2>1, <2>2, <2>3, <2>4 DEF EveryNewIssueAccounted
<1> QED
  BY <1>7, <1>8

\* The timer hands out what its window counted, and leaves another window's timer.
LEMMA ExpireAccounts ==
  ASSUME AlertInv, NEW start \in alertTimers, ExpireWindow(start)
  PROVE  /\ EveryNewIssueAccounted'
         /\ alertWindow' \in [start : Nat, sent : Nat, suppressed : Nat]
         /\ alertSeen' \in [created : Nat, mailed : Nat, summarized : Nat]
<1> DEFINE W == [start : Nat, sent : Nat, suppressed : Nat]
<1>1. alertWindow \in W
  BY DEF AlertInv, AlertTypes
<1>2. PICK c \in Nat, d \in Nat, e \in Nat : alertSeen = [created |-> c, mailed |-> d, summarized |-> e]
  BY DEF AlertInv, AlertTypes
<1>3. c = d + e + alertWindow.suppressed /\ (alertWindow.suppressed > 0 => alertWindow.start \in alertTimers)
  BY <1>2 DEF AlertInv, EveryNewIssueAccounted
<1>4. alertTimers' = alertTimers \ {start}
  BY DEF ExpireWindow
<1>5. CASE alertWindow # NoWindow /\ alertWindow.start = start
  <2>1. alertWindow' = NoWindow /\ alertSeen' = [created |-> c, mailed |-> d, summarized |-> e + alertWindow.suppressed]
    BY <1>2, <1>5 DEF ExpireWindow
  <2>2. alertWindow'.suppressed = 0 /\ alertWindow' \in W
    BY <2>1 DEF NoWindow
  <2>3. c = d + (e + alertWindow.suppressed) + 0 /\ e + alertWindow.suppressed \in Nat
    BY <1>1, <1>3
  <2> QED
    BY <2>1, <2>2, <2>3 DEF EveryNewIssueAccounted
<1>6. CASE ~(alertWindow # NoWindow /\ alertWindow.start = start)
  <2>1. alertWindow' = alertWindow /\ alertSeen' = alertSeen
    BY <1>6 DEF ExpireWindow
  <2>2. alertWindow.suppressed > 0 => alertWindow.start # start
    BY <1>6 DEF NoWindow
  <2> QED
    BY <1>1, <1>2, <1>3, <1>4, <2>1, <2>2 DEF EveryNewIssueAccounted
<1> QED
  BY <1>5, <1>6

\* Every step keeps the invariant.
LEMMA AlertStep == ASSUME AlertInv, [AlertNext]_alertVars PROVE AlertInv'
<1>1. Jobs' \subseteq Deliveries
  BY StepCooled DEF AddsCooled
<1> DEFINE Rest == alertRules' \in [AlertIds -> AlertRules \cup {NoRule}] /\ FiringsInv' /\ alertNow' \in Nat /\ alertNow' > 0
           Seen == /\ EveryNewIssueAccounted'
                   /\ alertWindow' \in [start : Nat, sent : Nat, suppressed : Nat]
                   /\ alertSeen' \in [created : Nat, mailed : Nat, summarized : Nat]
<1>2. ASSUME UNCHANGED <<alertWindow, alertTimers, alertSeen>> PROVE Seen
  BY <1>2 DEF AlertInv, AlertTypes, EveryNewIssueAccounted
<1>3. ASSUME UNCHANGED <<alertNow, alertRules, alertFirings>> PROVE Rest
  BY <1>3, FiringsKept DEF AlertInv, AlertTypes
<1>4. ASSUME UNCHANGED alertVars PROVE Rest /\ Seen
  BY <1>2, <1>3, <1>4 DEF alertVars
<1>5. ASSUME NEW i \in AlertIssues, IssueCreated(i) PROVE Rest /\ Seen
  BY <1>3, <1>5, AdmitAccounts DEF IssueCreated
<1>6. ASSUME NEW start \in alertTimers, ExpireWindow(start) PROVE Rest /\ Seen
  <2>1. Rest
    BY <1>3, <1>6 DEF ExpireWindow
  <2> QED
    BY <1>6, <2>1, ExpireAccounts
<1>7. ASSUME NEW i \in AlertIssues, IssueRegressed(i) \/ \E n \in EventCounts : IssueEventRecorded(i, n) PROVE Rest /\ Seen
  BY <1>2, <1>3, <1>7 DEF IssueRegressed, IssueEventRecorded
<1>8. ASSUME NEW j \in Jobs, \/ AcquireMailSlot(j) \/ MailSlotFreed(j) \/ Delivered(j) \/ RecordFiring(j)
                             \/ MailWaitAborted(j) \/ DeliveryFails(j) \/ RecordFiringFails(j)
      PROVE  Rest /\ Seen
  <2>1. AlertStill
    BY <1>8 DEF AcquireMailSlot, MailSlotFreed, Delivered, RecordFiring, MailWaitAborted, DeliveryFails, RecordFiringFails
  <2>2. Seen
    BY <1>2, <2>1 DEF AlertStill
  <2>3. \A f \in alertFirings' : f \in alertFirings \/ f.at = alertNow
    <3>1. CASE RecordFiring(j)
      BY <3>1 DEF RecordFiring
    <3>2. CASE ~RecordFiring(j)
      BY <1>8, <3>2 DEF AcquireMailSlot, MailSlotFreed, Delivered, MailWaitAborted, DeliveryFails, RecordFiringFails
    <3> QED
      BY <3>1, <3>2
  <2>4. Rest
    BY <2>1, <2>3, FiringsKept DEF AlertStill, AlertInv, AlertTypes
  <2> QED
    BY <2>2, <2>4
<1>9. ASSUME NEW a \in AlertIds, DeleteAlert(a) \/ \E rule \in AlertRules : CreateAlert(a, rule) \/ UpdateAlert(a, rule)
      PROVE  Rest /\ Seen
  <2>1. UNCHANGED <<alertNow, alertFirings, alertWindow, alertTimers, alertSeen>>
    BY <1>9 DEF DeleteAlert, CreateAlert, UpdateAlert
  <2>2. PICK rule \in AlertRules \cup {NoRule} : alertRules' = [alertRules EXCEPT ![a] = rule]
    BY <1>9 DEF DeleteAlert, CreateAlert, UpdateAlert
  <2>3. alertRules' \in [AlertIds -> AlertRules \cup {NoRule}]
    BY <2>2 DEF AlertInv, AlertTypes
  <2> QED
    BY <1>2, <2>1, <2>3, FiringsKept
<1>10. ASSUME AlertTick PROVE Rest /\ Seen
  <2>1. UNCHANGED <<alertRules, alertFirings, alertWindow, alertTimers, alertSeen>> /\ alertNow' = alertNow + 1
    BY <1>10 DEF AlertTick
  <2> QED
    BY <1>2, <2>1, FiringsKept DEF AlertInv, AlertTypes
<1>11. Rest /\ Seen
  BY <1>4, <1>5, <1>6, <1>7, <1>8, <1>9, <1>10 DEF AlertNext
<1> QED
  BY <1>1, <1>11 DEF AlertInv, AlertTypes

\* The cap loses no new issue, and a rule whose firing for an issue is on record is
\* not delivered again for it within its cooldown.
THEOREM AlertsAreSound == AlertSpec => AlertsSound
<1> DEFINE A == \A j \in BagToSet(alertJobs') :
       (j.alert # Admin /\ ~BagIn(j, alertJobs) /\ j.tries = 0 /\ j.pc \in {"slot", "post"}
          /\ j.rule.cooldown > 0)
       => \A f \in alertFirings : (f.alert = j.alert /\ f.issue = j.issue)
                                     => alertNow - f.at >= j.rule.cooldown
<1>1. ASSUME AlertInv, [AlertNext]_alertVars PROVE A
  BY <1>1, StepCooled DEF AddsCooled, Cooled, Jobs, BagIn
<1>2. AlertSpec => []AlertInv
  BY AlertInitInv, AlertStep, PTL DEF AlertSpec
<1>3. AlertSpec => [][A]_alertVars
  BY <1>1, <1>2, PTL DEF AlertSpec
<1>4. AlertInv => EveryNewIssueAccounted
  BY DEF AlertInv
<1> QED
  BY <1>2, <1>3, <1>4, PTL DEF AlertsSound, CooldownHolds

-----------------------------------------------------------------------------
(* Facets: the curated keys stay within the caps.                           *)

FacetKeys == FlatKeys \cup CuratedKeys
FacetRows == [issue : FacetIssues, key : FacetKeys, value : FacetValues]

\* The event in work, with the one flat pair and the curated pairs it brought.
FacetEventTypes ==
  /\ faEvent.part \in {"none", "flat", "curated"}
  /\ faEvent.part # "none" =>
       /\ faEvent \in [part : {"flat", "curated"}, issue : FacetIssues,
                       flat : SUBSET (FlatKeys \X FacetValues), curated : SUBSET (CuratedKeys \X FacetValues)]
       /\ \E pair \in FlatKeys \X FacetValues : faEvent.flat = {pair}

\* Rows with finitely many keys, and finitely many values of each.
FiniteFacets(rows) ==
  /\ rows \subseteq FacetRows /\ IsFiniteSet(ListFacetKeys(rows))
  /\ \A k \in FacetKeys : IsFiniteSet(ListFacetValues(rows, k))

\* A pair that the transaction is done with is there, or one of the caps kept it out.
SettledPair(p) ==
  \/ RowsOf(faEvent.issue, {p}) \subseteq faTx.rows \/ FacetProjectionExcluded(p)
  \/ Cardinality(ListFacetKeys(faTx.rows)) >= MaxFacetKeysPerProject /\ p[1] \notin ListFacetKeys(faRows)
  \/ Cardinality(ListFacetValues(faTx.rows, p[1])) >= MaxFacetValuesPerKey

\* Within its transaction, what is committed only grows, and only up to the caps.
FacetTxInv ==
  faEvent.part = "curated" =>
    /\ faTx \in [rows : SUBSET FacetRows, todo : SUBSET faEvent.curated, loaded : BOOLEAN, n : Nat]
    /\ FiniteFacets(faTx.rows) /\ faRows \subseteq faTx.rows
    /\ faTx.loaded => faTx.n = Cardinality(ListFacetKeys(faTx.rows))
    /\ \/ Cardinality(ListFacetKeys(faTx.rows)) <= MaxFacetKeysPerProject
       \/ ListFacetKeys(faTx.rows) = ListFacetKeys(faRows)
    /\ \A k \in FacetKeys : \/ Cardinality(ListFacetValues(faTx.rows, k)) <= MaxFacetValuesPerKey
                            \/ ListFacetValues(faTx.rows, k) = ListFacetValues(faRows, k)
    /\ \A p \in faEvent.curated \ faTx.todo : SettledPair(p)

FaInv == FacetEventTypes /\ FiniteFacets(faRows) /\ FacetTxInv

\* A row more is at most a key and a value more.
LEMMA RowAdded ==
  ASSUME NEW rows, NEW i \in FacetIssues, NEW p \in FacetKeys \X FacetValues, FiniteFacets(rows)
  PROVE  LET more == rows \cup RowsOf(i, {p})
         IN  /\ FiniteFacets(more) /\ RowsOf(i, {p}) \subseteq more
             /\ ListFacetKeys(more) = ListFacetKeys(rows) \cup {p[1]}
             /\ \A k \in FacetKeys : ListFacetValues(more, k) =
                  IF k = p[1] THEN ListFacetValues(rows, k) \cup {p[2]} ELSE ListFacetValues(rows, k)
<1> DEFINE brought == [issue |-> i, key |-> p[1], value |-> p[2]]
           more == rows \cup RowsOf(i, {p})
<1>1. RowsOf(i, {p}) = {brought} /\ brought \in FacetRows /\ brought.key = p[1] /\ brought.value = p[2] /\ p[1] \in FacetKeys
  BY DEF RowsOf, FacetRows
<1>2. more = rows \cup {brought}
  BY <1>1
<1> HIDE DEF brought, more
<1>3. ListFacetKeys(more) = ListFacetKeys(rows) \cup {p[1]}
  BY <1>1, <1>2 DEF ListFacetKeys
<1>4. ASSUME NEW k \in FacetKeys
      PROVE  ListFacetValues(more, k) =
               IF k = p[1] THEN ListFacetValues(rows, k) \cup {p[2]} ELSE ListFacetValues(rows, k)
  <2>1. CASE k = p[1]
    BY <1>1, <1>2, <2>1 DEF ListFacetValues
  <2>2. CASE k # p[1]
    BY <1>1, <1>2, <2>2 DEF ListFacetValues
  <2> QED
    BY <2>1, <2>2
<1>5. IsFiniteSet(ListFacetKeys(more))
  BY <1>3, FS_AddElement DEF FiniteFacets
<1>6. \A k \in FacetKeys : IsFiniteSet(ListFacetValues(more, k))
  BY <1>4, FS_AddElement DEF FiniteFacets
<1>7. FiniteFacets(more)
  BY <1>1, <1>2, <1>5, <1>6 DEF FiniteFacets
<1>8. RowsOf(i, {p}) \subseteq more
  BY DEF more
<1> QED
  BY <1>3, <1>4, <1>7, <1>8 DEF more

\* More rows have no fewer keys and no fewer values of a key.
LEMMA FacetsGrow ==
  ASSUME NEW rows, NEW more, rows \subseteq more, FiniteFacets(rows), FiniteFacets(more)
  PROVE  /\ ListFacetKeys(rows) \subseteq ListFacetKeys(more)
         /\ Cardinality(ListFacetKeys(rows)) \in Nat /\ Cardinality(ListFacetKeys(more)) \in Nat
         /\ Cardinality(ListFacetKeys(rows)) <= Cardinality(ListFacetKeys(more))
         /\ \A k \in FacetKeys : /\ Cardinality(ListFacetValues(rows, k)) \in Nat
                                 /\ Cardinality(ListFacetValues(more, k)) \in Nat
                                 /\ Cardinality(ListFacetValues(rows, k)) <= Cardinality(ListFacetValues(more, k))
<1>1. ListFacetKeys(rows) \subseteq ListFacetKeys(more)
  BY DEF ListFacetKeys
<1>2. \A k \in FacetKeys : ListFacetValues(rows, k) \subseteq ListFacetValues(more, k)
  BY DEF ListFacetValues
<1> QED
  BY <1>1, <1>2, FS_Subset, FS_CardinalityType DEF FiniteFacets

\* The behaviour begins with the invariant.
LEMMA FaInitInv == FaInit => FaInv
<1> SUFFICES ASSUME FaInit PROVE FaInv
  OBVIOUS
<1>1. faEvent.part = "none"
  BY DEF FaInit, NoFacetEvent
<1>2. ListFacetKeys({}) = {} /\ \A k : ListFacetValues({}, k) = {}
  BY DEF ListFacetKeys, ListFacetValues
<1>3. FiniteFacets({})
  BY <1>2, FS_EmptySet DEF FiniteFacets
<1> QED
  BY <1>1, <1>3 DEF FaInit, FaInv, FacetEventTypes, FacetTxInv

\* An event is stored.
LEMMA FacetEventInv ==
  ASSUME FaInv, NEW issue \in FacetIssues, NEW k \in FlatKeys, NEW v \in FacetValues,
         NEW curated \in SUBSET (CuratedKeys \X FacetValues), FacetEvent(issue, {<<k, v>>}, curated)
  PROVE  FaInv'
<1>1. faEvent' = [part |-> "flat", issue |-> issue, flat |-> {<<k, v>>}, curated |-> curated] /\ faRows' = faRows
  BY DEF FacetEvent
<1>2. faEvent'.part = "flat" /\ faEvent'.flat = {<<k, v>>} /\ <<k, v>> \in FlatKeys \X FacetValues
  BY <1>1
<1>3. FacetEventTypes'
  BY <1>1, <1>2 DEF FacetEventTypes
<1>4. FacetTxInv'
  BY <1>2 DEF FacetTxInv
<1> QED
  BY <1>1, <1>3, <1>4 DEF FaInv

\* The flat facets are written, and the curated ones begin.
LEMMA InsertFacetsInv == ASSUME FaInv, InsertFacets PROVE FaInv'
<1>1. PICK i \in FacetIssues, pair \in FlatKeys \X FacetValues, curated \in SUBSET (CuratedKeys \X FacetValues) :
        faEvent = [part |-> "flat", issue |-> i, flat |-> {pair}, curated |-> curated]
  BY DEF InsertFacets, FaInv, FacetEventTypes
<1>2. /\ faRows' = faRows \cup RowsOf(i, {p \in {pair} : ~FacetProjectionExcluded(p)})
      /\ faEvent' = [part |-> "curated", issue |-> i, flat |-> {pair}, curated |-> curated]
      /\ faTx' = [rows |-> faRows', todo |-> {p \in curated : ~FacetProjectionExcluded(p)}, loaded |-> FALSE, n |-> 0]
  BY <1>1 DEF InsertFacets
<1>3. pair \in FacetKeys \X FacetValues
  BY DEF FacetKeys
<1>4. FiniteFacets(faRows')
  <2>1. CASE FacetProjectionExcluded(pair)
    <3>1. faRows' = faRows
      BY <1>2, <2>1 DEF RowsOf
    <3> QED
      BY <3>1 DEF FaInv
  <2>2. CASE ~FacetProjectionExcluded(pair)
    <3>1. {p \in {pair} : ~FacetProjectionExcluded(p)} = {pair}
      BY <2>2
    <3>2. faRows' = faRows \cup RowsOf(i, {pair})
      BY <1>2, <3>1
    <3> QED
      BY <1>3, <3>2, RowAdded DEF FaInv
  <2> QED
    BY <2>1, <2>2
<1>5. FacetEventTypes'
  BY <1>2 DEF FacetEventTypes
<1>6. FacetTxInv'
  <2>1. /\ faTx'.rows = faRows' /\ faTx'.todo = {p \in curated : ~FacetProjectionExcluded(p)} /\ ~faTx'.loaded
        /\ faTx' \in [rows : SUBSET FacetRows, todo : SUBSET curated, loaded : BOOLEAN, n : Nat]
    BY <1>2, <1>4 DEF FiniteFacets
  <2>2. \A p \in curated \ faTx'.todo : FacetProjectionExcluded(p)
    BY <2>1
  <2>3. faEvent'.curated = curated
    BY <1>2
  <2> QED
    BY <1>4, <2>1, <2>2, <2>3 DEF FacetTxInv, SettledPair
<1> QED
  BY <1>4, <1>5, <1>6 DEF FaInv

\* A curated pair is stored, or refused by one of the caps.
LEMMA PersistFacetInv ==
  ASSUME FaInv, NEW p \in CuratedKeys \X FacetValues, PersistFacet(p)
  PROVE  FaInv'
<1> DEFINE rows == faTx.rows
           keys == ListFacetKeys(rows)
           values == ListFacetValues(rows, p[1])
           isNewKey == p[1] \notin keys
           isNewValue == p[2] \notin values
           refused == \/ isNewKey /\ KeyCount >= MaxFacetKeysPerProject
                      \/ isNewValue /\ Cardinality(values) >= MaxFacetValuesPerKey
           new == IF refused THEN rows ELSE rows \cup RowsOf(faEvent.issue, {p})
<1>1. /\ faEvent.part = "curated" /\ p \in faTx.todo /\ faEvent' = faEvent /\ faRows' = faRows
      /\ faTx' = [rows |-> new, todo |-> faTx.todo \ {p}, loaded |-> faTx.loaded \/ isNewKey,
                  n |-> Inc(isNewKey /\ ~refused, isNewKey)]
  BY DEF PersistFacet
<1>2. /\ faTx \in [rows : SUBSET FacetRows, todo : SUBSET faEvent.curated, loaded : BOOLEAN, n : Nat]
      /\ FiniteFacets(rows) /\ faRows \subseteq rows /\ FiniteFacets(faRows)
      /\ faTx.loaded => faTx.n = Cardinality(keys)
      /\ Cardinality(keys) <= MaxFacetKeysPerProject \/ keys = ListFacetKeys(faRows)
      /\ \A k \in FacetKeys : \/ Cardinality(ListFacetValues(rows, k)) <= MaxFacetValuesPerKey
                              \/ ListFacetValues(rows, k) = ListFacetValues(faRows, k)
      /\ \A q \in faEvent.curated \ faTx.todo : SettledPair(q)
  BY <1>1 DEF FaInv, FacetTxInv
<1>3. faEvent.issue \in FacetIssues /\ faEvent.curated \subseteq CuratedKeys \X FacetValues
  BY <1>1 DEF FaInv, FacetEventTypes
<1>4. p \in FacetKeys \X FacetValues /\ p[1] \in FacetKeys /\ CuratedKeys \subseteq FacetKeys
  BY DEF FacetKeys
<1>5. KeyCount = Cardinality(keys) /\ Cardinality(keys) \in Nat /\ Cardinality(values) \in Nat
  BY <1>2, <1>4, FS_CardinalityType DEF KeyCount, FiniteFacets
<1>6. MaxFacetKeysPerProject \in Nat /\ MaxFacetValuesPerKey \in Nat
  BY FacetsAssumption
<1> HIDE DEF rows, keys, values, new
<1>7. /\ FiniteFacets(new) /\ rows \subseteq new
      /\ ListFacetKeys(new) = IF refused THEN keys ELSE keys \cup {p[1]}
      /\ \A k \in FacetKeys : ListFacetValues(new, k) =
           IF ~refused /\ k = p[1] THEN ListFacetValues(rows, k) \cup {p[2]} ELSE ListFacetValues(rows, k)
      /\ ~refused => RowsOf(faEvent.issue, {p}) \subseteq new
  <2>1. CASE refused
    BY <1>2, <2>1 DEF new, keys
  <2>2. CASE ~refused
    <3>1. PICK i \in FacetIssues : i = faEvent.issue /\ new = rows \cup RowsOf(i, {p})
      BY <1>3, <2>2 DEF new
    <3>2. /\ FiniteFacets(new) /\ RowsOf(i, {p}) \subseteq new
          /\ ListFacetKeys(new) = ListFacetKeys(rows) \cup {p[1]}
          /\ \A k \in FacetKeys : ListFacetValues(new, k) =
               IF k = p[1] THEN ListFacetValues(rows, k) \cup {p[2]} ELSE ListFacetValues(rows, k)
      <4>1. FiniteFacets(rows)
        BY <1>2
      <4>2. /\ FiniteFacets(rows \cup RowsOf(i, {p})) /\ RowsOf(i, {p}) \subseteq rows \cup RowsOf(i, {p})
            /\ ListFacetKeys(rows \cup RowsOf(i, {p})) = ListFacetKeys(rows) \cup {p[1]}
            /\ \A k \in FacetKeys : ListFacetValues(rows \cup RowsOf(i, {p}), k) =
                 IF k = p[1] THEN ListFacetValues(rows, k) \cup {p[2]} ELSE ListFacetValues(rows, k)
        BY <1>4, <4>1, RowAdded
      <4> QED
        BY <3>1, <4>2
    <3> QED
      BY <2>2, <3>1, <3>2 DEF keys
  <2> QED
    BY <2>1, <2>2
<1>8. faTx'.rows = new /\ faTx'.todo = faTx.todo \ {p}
  BY <1>1
<1>9. Cardinality(ListFacetKeys(new)) = IF isNewKey /\ ~refused THEN Cardinality(keys) + 1 ELSE Cardinality(keys)
  <2>1. CASE isNewKey /\ ~refused
    <3>1. IsFiniteSet(keys)
      BY <1>2 DEF FiniteFacets, keys
    <3> QED
      BY <1>7, <2>1, <3>1, FS_AddElement
  <2>2. CASE ~(isNewKey /\ ~refused)
    <3>1. ListFacetKeys(new) = keys
      BY <1>7, <2>2
    <3> QED
      BY <2>2, <3>1
  <2> QED
    BY <2>1, <2>2
<1>10. /\ faTx' \in [rows : SUBSET FacetRows, todo : SUBSET faEvent.curated, loaded : BOOLEAN, n : Nat]
       /\ faTx'.loaded => faTx'.n = Cardinality(ListFacetKeys(new))
  <2>1. PICK n \in Nat, loaded \in BOOLEAN :
          /\ n = Inc(isNewKey /\ ~refused, isNewKey) /\ loaded = (faTx.loaded \/ isNewKey)
          /\ loaded => n = Cardinality(ListFacetKeys(new))
    <3>1. PICK added \in BOOLEAN, fresh \in BOOLEAN : added = (isNewKey /\ ~refused) /\ fresh = isNewKey
      OBVIOUS
    <3>2. Inc(added, fresh) = IF fresh THEN Cardinality(keys) + (IF added THEN 1 ELSE 0) ELSE faTx.n
      <4>1. CASE fresh
        BY <1>5, <4>1 DEF Inc
      <4>2. CASE ~fresh
        <5>1. ~added
          BY <3>1, <4>2
        <5> QED
          BY <1>2, <4>2, <5>1 DEF Inc
      <4> QED
        BY <4>1, <4>2
    <3>3. Inc(added, fresh) \in Nat
      BY <1>2, <1>5, <3>2
    <3>4. faTx.loaded \/ fresh => Inc(added, fresh) = Cardinality(ListFacetKeys(new))
      <4>1. (added <=> isNewKey /\ ~refused) /\ (fresh <=> isNewKey)
        BY <3>1
      <4>2. CASE fresh
        BY <1>5, <1>9, <3>2, <4>1, <4>2
      <4>3. CASE ~fresh /\ faTx.loaded
        <5>1. Inc(added, fresh) = faTx.n
          BY <3>2, <4>3
        <5>2. Cardinality(ListFacetKeys(new)) = Cardinality(keys)
          BY <1>9, <4>1, <4>3
        <5> QED
          BY <1>2, <4>3, <5>1, <5>2
      <4> QED
        BY <4>2, <4>3
    <3>5. Inc(isNewKey /\ ~refused, isNewKey) = Inc(added, fresh)
      <4>1. (isNewKey /\ ~refused) = added /\ isNewKey = fresh
        BY <3>1
      <4> QED
        BY <4>1, Zenon
    <3>6. PICK loaded \in BOOLEAN : loaded = (faTx.loaded \/ isNewKey)
      OBVIOUS
    <3> QED
      BY <3>1, <3>3, <3>4, <3>5, <3>6
  <2>2. faTx' = [rows |-> new, todo |-> faTx.todo \ {p}, loaded |-> loaded, n |-> n]
    BY <1>1, <2>1
  <2> QED
    BY <1>2, <1>7, <2>1, <2>2 DEF FiniteFacets
<1>11. Cardinality(ListFacetKeys(new)) <= MaxFacetKeysPerProject \/ ListFacetKeys(new) = ListFacetKeys(faRows)
  <2>1. CASE isNewKey /\ ~refused
    BY <1>5, <1>6, <1>9, <2>1
  <2>2. CASE ~(isNewKey /\ ~refused)
    <3>1. ListFacetKeys(new) = keys
      BY <1>7, <2>2
    <3> QED
      BY <1>2, <3>1
  <2> QED
    BY <2>1, <2>2
<1>12. ASSUME NEW k \in FacetKeys
       PROVE  \/ Cardinality(ListFacetValues(new, k)) <= MaxFacetValuesPerKey
              \/ ListFacetValues(new, k) = ListFacetValues(faRows, k)
  <2>1. CASE ~refused /\ k = p[1] /\ isNewValue
    <3>1. IsFiniteSet(values) /\ ListFacetValues(new, k) = values \cup {p[2]}
      BY <1>2, <1>4, <1>7, <2>1 DEF FiniteFacets, values
    <3>2. Cardinality(ListFacetValues(new, k)) = Cardinality(values) + 1
      BY <2>1, <3>1, FS_AddElement
    <3> QED
      BY <1>5, <1>6, <2>1, <3>2
  <2>2. CASE ~(~refused /\ k = p[1] /\ isNewValue)
    <3>1. ListFacetValues(new, k) = ListFacetValues(rows, k)
      BY <1>7, <2>2 DEF values
    <3> QED
      BY <1>2, <3>1
  <2> QED
    BY <2>1, <2>2
<1>13. ASSUME NEW q \in faEvent.curated, q \notin faTx.todo \ {p} PROVE SettledPair(q)'
  <2>1. q[1] \in FacetKeys
    BY <1>3, <1>4
  <2>2. /\ Cardinality(keys) <= Cardinality(ListFacetKeys(new)) /\ Cardinality(ListFacetKeys(new)) \in Nat
        /\ Cardinality(ListFacetValues(rows, q[1])) <= Cardinality(ListFacetValues(new, q[1]))
        /\ Cardinality(ListFacetValues(rows, q[1])) \in Nat /\ Cardinality(ListFacetValues(new, q[1])) \in Nat
    BY <1>2, <1>7, <2>1, FacetsGrow DEF keys
  <2>3. CASE q \notin faTx.todo
    <3>1. SettledPair(q)
      BY <1>2, <1>13, <2>3
    <3>2. /\ faEvent' = faEvent /\ faRows' = faRows /\ faTx'.rows = new /\ rows = faTx.rows
          /\ keys = ListFacetKeys(faTx.rows)
      BY <1>1, <1>8 DEF rows, keys
    <3> QED
      BY <1>5, <1>6, <1>7, <2>2, <3>1, <3>2 DEF SettledPair, FacetProjectionExcluded
  <2>4. CASE q = p
    <3>1. CASE ~refused
      BY <1>1, <1>7, <1>8, <2>4, <3>1 DEF SettledPair
    <3>2. CASE isNewKey /\ KeyCount >= MaxFacetKeysPerProject
      <4>1. p[1] \notin ListFacetKeys(faRows)
        BY <1>2, <3>2, FacetsGrow DEF keys
      <4>2. Cardinality(ListFacetKeys(new)) >= MaxFacetKeysPerProject
        BY <1>5, <1>6, <2>2, <3>2
      <4> QED
        BY <1>1, <1>8, <2>4, <4>1, <4>2 DEF SettledPair
    <3>3. CASE isNewValue /\ Cardinality(values) >= MaxFacetValuesPerKey
      <4>1. Cardinality(ListFacetValues(new, p[1])) >= MaxFacetValuesPerKey
        BY <1>5, <1>6, <2>2, <2>4, <3>3 DEF values
      <4> QED
        BY <1>8, <2>4, <4>1 DEF SettledPair
    <3> QED
      BY <3>1, <3>2, <3>3
  <2> QED
    BY <1>13, <2>3, <2>4
<1>14. FacetTxInv'
  <2>1. faEvent' = faEvent /\ faRows' = faRows /\ faRows \subseteq new
    BY <1>1, <1>2, <1>7
  <2> QED
    BY <1>7, <1>8, <1>10, <1>11, <1>12, <1>13, <2>1 DEF FacetTxInv
<1> QED
  BY <1>1, <1>14 DEF FaInv, FacetEventTypes

\* The commit, a rollback and a stutter.
LEMMA FacetEndsInv ==
  ASSUME FaInv, PersistFacetsCommits \/ (\E again \in BOOLEAN : FacetsFail(again)) \/ UNCHANGED faVars
  PROVE  FaInv'
<1>1. CASE PersistFacetsCommits
  <2>1. faEvent.part = "curated" /\ faRows' = faTx.rows /\ faEvent'.part = "none"
    BY <1>1 DEF PersistFacetsCommits, NoFacetEvent
  <2> QED
    BY <2>1 DEF FaInv, FacetEventTypes, FacetTxInv
<1>2. ASSUME NEW again \in BOOLEAN, FacetsFail(again) PROVE FaInv'
  <2>1. faEvent.part # "none" /\ faRows' = faRows
    BY <1>2 DEF FacetsFail
  <2>2. CASE again
    <3>1. faEvent' = [faEvent EXCEPT !.part = "flat"]
      BY <1>2, <2>2 DEF FacetsFail
    <3>2. faEvent \in [part : {"flat", "curated"}, issue : FacetIssues,
                       flat : SUBSET (FlatKeys \X FacetValues), curated : SUBSET (CuratedKeys \X FacetValues)]
          /\ \E pair \in FlatKeys \X FacetValues : faEvent.flat = {pair}
      BY <2>1 DEF FaInv, FacetEventTypes
    <3>3. faEvent'.part = "flat" /\ FacetEventTypes'
      BY <3>1, <3>2 DEF FacetEventTypes
    <3> QED
      BY <2>1, <3>3 DEF FaInv, FacetTxInv
  <2>3. CASE ~again
    <3>1. faEvent'.part = "none"
      BY <1>2, <2>3 DEF FacetsFail, NoFacetEvent
    <3> QED
      BY <2>1, <3>1 DEF FaInv, FacetEventTypes, FacetTxInv
  <2> QED
    BY <2>2, <2>3
<1>3. CASE UNCHANGED faVars
  BY <1>3 DEF faVars, FaInv, FacetEventTypes, FacetTxInv, SettledPair
<1> QED
  BY <1>1, <1>2, <1>3

\* Every step keeps the invariant.
LEMMA FaStep == ASSUME FaInv, [FaNext]_faVars PROVE FaInv'
<1>1. ASSUME NEW issue \in FacetIssues, NEW k \in FlatKeys, NEW v \in FacetValues,
             NEW curated \in SUBSET (CuratedKeys \X FacetValues), FacetEvent(issue, {<<k, v>>}, curated)
      PROVE  FaInv'
  BY <1>1, FacetEventInv
<1> QED
  BY <1>1, InsertFacetsInv, PersistFacetInv, FacetEndsInv DEF FaNext

\* Committing an event's curated facets takes no project past its keys and no key
\* past its values, and leaves a pair out only because of one of these caps.
THEOREM FacetsWithinCaps == FaSpec => CuratedWithinCaps
<1> DEFINE A == LET keys == ListFacetKeys(faRows') IN
       /\ Cardinality(keys) <= MaxFacetKeysPerProject \/ keys = ListFacetKeys(faRows)
       /\ \A k \in keys : \/ Cardinality(ListFacetValues(faRows', k)) <= MaxFacetValuesPerKey
                          \/ ListFacetValues(faRows', k) = ListFacetValues(faRows, k)
       /\ \A p \in faEvent.curated :
            \/ RowsOf(faEvent.issue, {p}) \subseteq faRows' \/ FacetProjectionExcluded(p)
            \/ Cardinality(keys) >= MaxFacetKeysPerProject /\ p[1] \notin ListFacetKeys(faRows)
            \/ Cardinality(ListFacetValues(faRows', p[1])) >= MaxFacetValuesPerKey
<1>1. ASSUME FaInv, PersistFacetsCommits PROVE A
  <2>1. faEvent.part = "curated" /\ faRows' = faTx.rows /\ faTx.todo = {}
    BY <1>1 DEF PersistFacetsCommits
  <2>2. ListFacetKeys(faTx.rows) \subseteq FacetKeys
    BY <1>1, <2>1 DEF FaInv, FacetTxInv, FiniteFacets, ListFacetKeys, FacetRows
  <2> QED
    BY <1>1, <2>1, <2>2 DEF FaInv, FacetTxInv, SettledPair
<1>2. FaSpec => []FaInv
  BY FaInitInv, FaStep, PTL DEF FaSpec
<1>3. FaSpec => [][PersistFacetsCommits => A]_faVars
  BY <1>1, <1>2, PTL DEF FaSpec
<1> QED
  BY <1>3 DEF CuratedWithinCaps

-----------------------------------------------------------------------------
(* Listing issues: a page listing under concurrent changes.                 *)

LiRow ==
  [status : {"unresolved", "resolved", "muted", "regressed"}, mute : {"", "until", "forever"},
   regressions : Nat, first : Nat, last : Nat, events : Nat]
LiTable == [LiIssues -> LiRow]

WalkTypes ==
  liWalk \in [pc : {"walk", "done", "capped", "failed"}, filter : LiFilters, sort : LiSorts, offset : Nat, size : Nat,
              listed : [LiIssues -> Nat], touched : SUBSET LiIssues, back : BOOLEAN, ahead : BOOLEAN,
              due : SUBSET LiIssues]

ListingTypes ==
  /\ liRows \in LiTable /\ liNow \in Nat
  /\ liWalk.pc \in {"idle", "walk", "done", "capped", "failed"}
  /\ liWalk.pc # "idle" => WalkTypes

\* An issue nobody touched is still ahead of the offset, or has been listed and is behind it,
\* as long as no other issue has moved across it.
OffsetInv ==
  Walking =>
    \A i \in liWalk.due \ liWalk.touched :
      /\ i \in Matching(liRows, liWalk.filter)
      /\ liWalk.listed[i] = 0 /\ ~liWalk.back => Rank(liRows, liWalk.filter, liWalk.sort, i) >= liWalk.offset
      /\ ~liWalk.ahead => liWalk.listed[i] <= 1
      /\ liWalk.listed[i] = 1 /\ ~liWalk.ahead => Rank(liRows, liWalk.filter, liWalk.sort, i) < liWalk.offset

ListingInv == ListingTypes /\ OffsetInv /\ ListingCoversUntouched

\* The issues listed before issue i.
Before(rows, filter, sort, i) == {j \in Matching(rows, filter) : j # i /\ Precedes(rows, filter, sort, j, i)}

\* What is listed matches, and exists.
LEMMA MatchingAreIssues ==
  ASSUME NEW rows, NEW filter
  PROVE  Matching(rows, filter) \subseteq LiIssues
BY DEF Matching

\* What a row is ordered by is a number.
LEMMA SortKeyIsNat ==
  ASSUME NEW r \in LiRow, NEW sort
  PROVE  SortKey(r, sort) \in Nat
<1>1. r.first \in Nat /\ r.last \in Nat /\ r.events \in Nat
  BY DEF LiRow
<1> QED
  BY <1>1 DEF SortKey

\* The order of a listing, by a group and a key of each issue.
LEMMA OrderByKeys ==
  ASSUME NEW rows \in LiTable, NEW filter, NEW sort
  PROVE  \E group \in [LiIssues -> {0, 1}], key \in [LiIssues -> Nat] :
           \A i, j \in LiIssues :
             Precedes(rows, filter, sort, i, j) <=>
               \/ group[i] < group[j]
               \/ group[i] = group[j] /\ (key[i] > key[j] \/ (key[i] = key[j] /\ i > j))
<1> DEFINE group == [i \in LiIssues |-> IF filter = "open" /\ rows[i].status # "regressed" THEN 1 ELSE 0]
           key == [i \in LiIssues |-> SortKey(rows[i], sort)]
<1>1. group \in [LiIssues -> {0, 1}] /\ key \in [LiIssues -> Nat]
  BY SortKeyIsNat DEF LiTable
<1>2. ASSUME NEW i \in LiIssues, NEW j \in LiIssues
      PROVE  Precedes(rows, filter, sort, i, j) <=>
               \/ group[i] < group[j]
               \/ group[i] = group[j] /\ (key[i] > key[j] \/ (key[i] = key[j] /\ i > j))
  <2>1. PICK a, b, c, d : a = group[i] /\ b = group[j] /\ c = key[i] /\ d = key[j]
    OBVIOUS
  <2>2. /\ a = (IF filter = "open" /\ rows[i].status # "regressed" THEN 1 ELSE 0)
        /\ b = (IF filter = "open" /\ rows[j].status # "regressed" THEN 1 ELSE 0)
        /\ c = SortKey(rows[i], sort) /\ d = SortKey(rows[j], sort)
    BY <2>1
  <2>3. Precedes(rows, filter, sort, i, j) <=> (a < b \/ (a = b /\ (c > d \/ (c = d /\ i > j))))
    BY <2>2 DEF Precedes
  <2> QED
    BY <2>1, <2>3
<1> QED
  BY <1>1, <1>2

\* It is a strict total order.
LEMMA ListingOrder ==
  ASSUME NEW rows \in LiTable, NEW filter, NEW sort, NEW i \in LiIssues, NEW j \in LiIssues, NEW k \in LiIssues
  PROVE  /\ ~Precedes(rows, filter, sort, i, i)
         /\ i # j => (Precedes(rows, filter, sort, i, j) <=> ~Precedes(rows, filter, sort, j, i))
         /\ Precedes(rows, filter, sort, i, j) /\ Precedes(rows, filter, sort, j, k) => Precedes(rows, filter, sort, i, k)
<1>1. PICK group \in [LiIssues -> {0, 1}], key \in [LiIssues -> Nat] :
        \A m, n \in LiIssues :
          Precedes(rows, filter, sort, m, n) <=>
            \/ group[m] < group[n]
            \/ group[m] = group[n] /\ (key[m] > key[n] \/ (key[m] = key[n] /\ m > n))
  BY OrderByKeys
<1>2. i \in Nat /\ j \in Nat /\ k \in Nat
  BY IssueListingAssumption
<1> QED
  BY <1>1, <1>2

\* Only finitely many issues are before an issue, and their number is its rank.
LEMMA RankCountsBefore ==
  ASSUME NEW rows, NEW filter, NEW sort, NEW i
  PROVE  /\ Before(rows, filter, sort, i) \subseteq Matching(rows, filter)
         /\ IsFiniteSet(Before(rows, filter, sort, i)) /\ IsFiniteSet(Matching(rows, filter))
         /\ Rank(rows, filter, sort, i) = Cardinality(Before(rows, filter, sort, i))
         /\ Rank(rows, filter, sort, i) \in Nat
<1>1. Before(rows, filter, sort, i) \subseteq Matching(rows, filter)
  BY DEF Before
<1>2. IsFiniteSet(Before(rows, filter, sort, i)) /\ IsFiniteSet(Matching(rows, filter))
  BY <1>1, MatchingAreIssues, FS_Subset, IssueListingAssumption
<1>3. Rank(rows, filter, sort, i) = Cardinality(Before(rows, filter, sort, i))
  BY DEF Rank, Before
<1> QED
  BY <1>1, <1>2, <1>3, FS_CardinalityType

\* An issue has a lower rank than those it precedes.
LEMMA RankFollowsOrder ==
  ASSUME NEW rows \in LiTable, NEW filter, NEW sort, NEW i \in LiIssues, NEW j \in Before(rows, filter, sort, i)
  PROVE  /\ Before(rows, filter, sort, j) \subseteq Before(rows, filter, sort, i) \ {j}
         /\ Rank(rows, filter, sort, j) < Rank(rows, filter, sort, i)
<1>1. j \in Matching(rows, filter) /\ j \in LiIssues /\ j # i /\ Precedes(rows, filter, sort, j, i)
  BY MatchingAreIssues DEF Before
<1>2. ASSUME NEW k \in Before(rows, filter, sort, j)
      PROVE  k \in Before(rows, filter, sort, i) \ {j}
  <2>1. k \in Matching(rows, filter) /\ k \in LiIssues /\ k # j /\ Precedes(rows, filter, sort, k, j)
    BY MatchingAreIssues DEF Before
  <2>2. Precedes(rows, filter, sort, k, i)
    BY <1>1, <2>1, ListingOrder
  <2>3. k # i
    <3>1. Precedes(rows, filter, sort, j, i) => ~Precedes(rows, filter, sort, i, j)
      BY <1>1, ListingOrder
    <3> QED
      BY <1>1, <2>1, <3>1
  <2> QED
    BY <2>1, <2>2, <2>3 DEF Before
<1>3. PICK B, C : B = Before(rows, filter, sort, j) /\ C = Before(rows, filter, sort, i)
  OBVIOUS
<1>4. B \subseteq C /\ B # C /\ IsFiniteSet(C)
  BY <1>2, <1>3, RankCountsBefore
<1>5. Cardinality(B) <= Cardinality(C) /\ Cardinality(B) # Cardinality(C)
  BY <1>4, FS_Subset
<1>6. Cardinality(B) \in Nat /\ Cardinality(C) \in Nat
  BY <1>3, RankCountsBefore
<1> QED
  BY <1>2, <1>3, <1>5, <1>6, RankCountsBefore

\* No two listed issues have the same rank.
LEMMA RankInjective ==
  ASSUME NEW rows \in LiTable, NEW filter, NEW sort,
         NEW i \in Matching(rows, filter), NEW j \in Matching(rows, filter), i # j
  PROVE  Rank(rows, filter, sort, i) # Rank(rows, filter, sort, j)
<1>1. i \in LiIssues /\ j \in LiIssues
  BY MatchingAreIssues
<1>2. i \in Before(rows, filter, sort, j) \/ j \in Before(rows, filter, sort, i)
  BY <1>1, ListingOrder DEF Before
<1>3. Rank(rows, filter, sort, i) < Rank(rows, filter, sort, j) \/ Rank(rows, filter, sort, j) < Rank(rows, filter, sort, i)
  BY <1>1, <1>2, RankFollowsOrder
<1> QED
  BY <1>3, RankCountsBefore

\* A run of ranks.
LEMMA RunOfRanks ==
  ASSUME NEW a \in Nat, NEW n \in Nat
  PROVE  IsFiniteSet(a .. a + n - 1) /\ Cardinality(a .. a + n - 1) = n
<1>1. IsFiniteSet(a .. a + n - 1)
      /\ Cardinality(a .. a + n - 1) = IF a > a + n - 1 THEN 0 ELSE a + n - 1 - a + 1
  BY FS_Interval
<1>2. (IF a > a + n - 1 THEN 0 ELSE a + n - 1 - a + 1) = n
  OBVIOUS
<1> QED
  BY <1>1, <1>2

\* Every rank below an issue's is another issue's.
LEMMA RanksTaken ==
  ASSUME NEW rows \in LiTable, NEW filter, NEW sort, NEW i \in LiIssues,
         NEW r \in Nat, r < Rank(rows, filter, sort, i)
  PROVE  \E j \in Matching(rows, filter) : Rank(rows, filter, sort, j) = r
<1>1. PICK n, B : n = Rank(rows, filter, sort, i) /\ B = Before(rows, filter, sort, i)
  OBVIOUS
<1>2. PICK g : g = [j \in B |-> Rank(rows, filter, sort, j)]
  OBVIOUS
<1>3. IsFiniteSet(B) /\ Cardinality(B) = n /\ B \subseteq Matching(rows, filter) /\ n \in Nat /\ r < n
  BY <1>1, RankCountsBefore
<1>4. ASSUME NEW j \in B PROVE g[j] \in 0 .. n - 1
  <2>1. g[j] = Rank(rows, filter, sort, j) /\ g[j] < n /\ g[j] \in Nat
    BY <1>1, <1>2, RankFollowsOrder, RankCountsBefore
  <2> QED
    BY <1>3, <2>1
<1>5. g \in Injection(B, 0 .. n - 1)
  <2>1. g \in [B -> 0 .. n - 1]
    BY <1>2, <1>4
  <2>2. ASSUME NEW j \in B, NEW k \in B, g[j] = g[k] PROVE j = k
    BY <1>2, <1>3, <2>2, RankInjective
  <2> QED
    BY <2>1, <2>2 DEF Injection, IsInjective
<1>6. IsFiniteSet(0 .. n - 1) /\ Cardinality(0 .. n - 1) = n
  <2>1. IsFiniteSet(0 .. 0 + n - 1) /\ Cardinality(0 .. 0 + n - 1) = n
    BY <1>3, RunOfRanks
  <2>2. 0 + n - 1 = n - 1
    BY <1>3
  <2> QED
    BY <2>1, <2>2
<1>7. g \in Surjection(B, 0 .. n - 1)
  BY <1>3, <1>5, <1>6, FS_Injection
<1>8. PICK j \in B : g[j] = r
  <2>1. r \in 0 .. n - 1
    BY <1>3
  <2> QED
    BY <1>7, <2>1 DEF Surjection
<1> QED
  BY <1>2, <1>3, <1>8

\* At most as many issues as ranks.
LEMMA IssuesWithinRanks ==
  ASSUME NEW rows \in LiTable, NEW filter, NEW sort, NEW a \in Nat, NEW n \in Nat,
         NEW T \in SUBSET Matching(rows, filter),
         \A j \in T : Rank(rows, filter, sort, j) \in a .. a + n - 1
  PROVE  Cardinality(T) <= n
<1>1. IsFiniteSet(a .. a + n - 1) /\ Cardinality(a .. a + n - 1) = n
  BY RunOfRanks
<1>2. PICK g : g = [j \in T |-> Rank(rows, filter, sort, j)]
  OBVIOUS
<1>3. g \in [T -> a .. a + n - 1]
  BY <1>2
<1>4. ASSUME NEW j \in T, NEW k \in T, g[j] = g[k] PROVE j = k
  BY <1>2, <1>4, RankInjective
<1>5. g \in Injection(T, a .. a + n - 1)
  BY <1>3, <1>4 DEF Injection, IsInjective
<1> QED
  BY <1>1, <1>5, FS_Injection

\* At least as many issues as a run of ranks that are all taken.
LEMMA IssuesFillRanks ==
  ASSUME NEW rows \in LiTable, NEW filter, NEW sort, NEW a \in Nat, NEW n \in Nat,
         NEW T \in SUBSET Matching(rows, filter),
         \A r \in a .. a + n - 1 : \E j \in T : Rank(rows, filter, sort, j) = r
  PROVE  Cardinality(T) >= n
<1>1. IsFiniteSet(a .. a + n - 1) /\ Cardinality(a .. a + n - 1) = n
  BY RunOfRanks
<1>2. IsFiniteSet(T) /\ Cardinality(T) \in Nat
  BY RankCountsBefore, FS_Subset, FS_CardinalityType
<1>3. PICK h : h = [r \in a .. a + n - 1 |-> CHOOSE j \in T : Rank(rows, filter, sort, j) = r]
  OBVIOUS
<1>4. \A r \in a .. a + n - 1 : h[r] \in T /\ Rank(rows, filter, sort, h[r]) = r
  BY <1>3
<1>5. h \in [a .. a + n - 1 -> T]
  BY <1>3, <1>4
<1>6. h \in Injection(a .. a + n - 1, T)
  BY <1>4, <1>5 DEF Injection, IsInjective
<1>7. n <= Cardinality(T)
  BY <1>1, <1>2, <1>6, FS_Injection
<1> QED
  BY <1>2, <1>7

\* Two tables that differ in one issue order the others alike.
LEMMA OthersStay ==
  ASSUME NEW A \in LiTable, NEW B \in LiTable, NEW filter, NEW sort, NEW c \in LiIssues,
         \A k \in LiIssues \ {c} : A[k] = B[k],
         NEW i \in LiIssues \ {c}, NEW j \in LiIssues \ {c}
  PROVE  /\ j \in Matching(A, filter) <=> j \in Matching(B, filter)
         /\ Precedes(A, filter, sort, j, i) <=> Precedes(B, filter, sort, j, i)
         /\ j \in Before(A, filter, sort, i) <=> j \in Before(B, filter, sort, i)
<1>1. A[i] = B[i] /\ A[j] = B[j]
  OBVIOUS
<1>2. j \in Matching(A, filter) <=> j \in Matching(B, filter)
  BY <1>1 DEF Matching, ListingExists
<1>3. Precedes(A, filter, sort, j, i) <=> Precedes(B, filter, sort, j, i)
  BY <1>1 DEF Precedes
<1> QED
  BY <1>2, <1>3 DEF Before

\* An issue that is no longer before another has left the listing or moved back in it.
LEMMA MovedBack ==
  ASSUME NEW A \in LiTable, NEW B \in LiTable, NEW filter, NEW sort, NEW c \in LiIssues,
         \A k \in LiIssues \ {c} : A[k] = B[k],
         NEW i \in Matching(A, filter), i # c,
         c \in Before(A, filter, sort, i), c \notin Before(B, filter, sort, i),
         c \in Matching(B, filter)
  PROVE  Rank(B, filter, sort, c) > Rank(A, filter, sort, c)
<1>1. i \in LiIssues /\ i \in LiIssues \ {c} /\ i \in Matching(B, filter)
  BY MatchingAreIssues, OthersStay
<1>2. ~Precedes(B, filter, sort, c, i)
  BY DEF Before
<1>3. Precedes(B, filter, sort, i, c)
  BY <1>1, <1>2, ListingOrder
<1>4. i \in Before(B, filter, sort, c)
  BY <1>1, <1>3 DEF Before
<1>5. Rank(B, filter, sort, i) < Rank(B, filter, sort, c)
  BY <1>4, RankFollowsOrder
<1>6. Rank(A, filter, sort, c) <= Rank(B, filter, sort, i)
  <2>1. Before(A, filter, sort, c) \subseteq Before(A, filter, sort, i) \ {c}
    BY <1>1, RankFollowsOrder
  <2>2. ASSUME NEW k \in Before(A, filter, sort, c) PROVE k \in Before(B, filter, sort, i)
    <3>1. k \in LiIssues \ {c} /\ k \in Before(A, filter, sort, i)
      BY <2>1, MatchingAreIssues DEF Before
    <3> QED
      BY <1>1, <3>1, OthersStay
  <2>3. PICK S, T : S = Before(A, filter, sort, c) /\ T = Before(B, filter, sort, i)
    OBVIOUS
  <2>4. S \subseteq T /\ IsFiniteSet(T)
    BY <2>2, <2>3, RankCountsBefore
  <2>5. Cardinality(S) <= Cardinality(T)
    BY <2>4, FS_Subset
  <2> QED
    BY <2>3, <2>5, RankCountsBefore
<1> QED
  BY <1>5, <1>6, RankCountsBefore

\* The rank of an untouched issue only falls when another issue is no longer before it.
LEMMA RankFalls ==
  ASSUME NEW A \in LiTable, NEW B \in LiTable, NEW filter, NEW sort, NEW c \in LiIssues,
         \A k \in LiIssues \ {c} : A[k] = B[k],
         NEW i \in LiIssues, i # c,
         Rank(B, filter, sort, i) < Rank(A, filter, sort, i)
  PROVE  c \in Before(A, filter, sort, i) /\ c \notin Before(B, filter, sort, i)
<1> SUFFICES ASSUME c \in Before(A, filter, sort, i) => c \in Before(B, filter, sort, i)
             PROVE  FALSE
  OBVIOUS
<1>1. ASSUME NEW j \in Before(A, filter, sort, i) PROVE j \in Before(B, filter, sort, i)
  <2>1. j \in LiIssues
    BY MatchingAreIssues DEF Before
  <2>2. CASE j = c
    BY <2>2
  <2>3. CASE j # c
    BY <2>1, <2>3, OthersStay
  <2> QED
    BY <2>2, <2>3
<1>2. PICK S, T : S = Before(A, filter, sort, i) /\ T = Before(B, filter, sort, i)
  OBVIOUS
<1>3. S \subseteq T /\ IsFiniteSet(T)
  BY <1>1, <1>2, RankCountsBefore
<1>4. Cardinality(S) <= Cardinality(T)
  BY <1>3, FS_Subset
<1> QED
  BY <1>2, <1>4, RankCountsBefore

\* What a page brings: at most its size, without a gap from the offset on; and when it leaves out an
\* issue at or behind the offset, that issue is behind the page, and the page is not the last.
LEMMA PageIsRun ==
  ASSUME NEW rows \in LiTable, NEW filter, NEW sort, NEW offset \in Nat, NEW issues, NEW more \in BOOLEAN,
         issues = ListIssuesPage(rows, filter, sort, offset).issues,
         more <=> ListIssuesPage(rows, filter, sort, offset).more
  PROVE  /\ issues \subseteq Matching(rows, filter) /\ Cardinality(issues) \in Nat
         /\ \A i \in issues : /\ Rank(rows, filter, sort, i) >= offset
                              /\ Rank(rows, filter, sort, i) < offset + Cardinality(issues)
         /\ \A i \in Matching(rows, filter) \ issues :
              Rank(rows, filter, sort, i) >= offset =>
                Rank(rows, filter, sort, i) >= offset + Cardinality(issues) /\ more /\ issues # {}
<1>1. PICK M, P, fetched :
        /\ M = Matching(rows, filter) /\ P = LiPageSize
        /\ fetched = {i \in M : Rank(rows, filter, sort, i) \in offset .. offset + P}
  OBVIOUS
<1>2. P \in Nat \ {0}
  BY <1>1, IssueListingAssumption
<1>3. issues = {i \in fetched : Rank(rows, filter, sort, i) < offset + P} /\ (more <=> Cardinality(fetched) > P)
  BY <1>1 DEF ListIssuesPage
<1>4. issues \in SUBSET M /\ fetched \in SUBSET M /\ issues \in SUBSET Matching(rows, filter)
      /\ fetched \in SUBSET Matching(rows, filter)
  BY <1>1, <1>3
<1>5. \A i \in M : Rank(rows, filter, sort, i) \in Nat
  BY RankCountsBefore
<1>6. PICK n \in Nat : n = Cardinality(issues) /\ n <= P
  <2>1. \A i \in issues : Rank(rows, filter, sort, i) \in offset .. offset + P - 1
    BY <1>1, <1>2, <1>3, <1>5
  <2>2. Cardinality(issues) <= P
    BY <1>1, <1>2, <1>4, <2>1, IssuesWithinRanks
  <2>3. Cardinality(issues) \in Nat
    BY <1>1, <1>4, RankCountsBefore, FS_Subset, FS_CardinalityType
  <2> QED
    BY <2>2, <2>3
<1>7. ASSUME NEW i \in issues
      PROVE  Rank(rows, filter, sort, i) >= offset /\ Rank(rows, filter, sort, i) < offset + n
  <2>1. PICK k \in Nat : k = Rank(rows, filter, sort, i)
    BY <1>4, <1>5
  <2>2. k >= offset /\ k < offset + P /\ i \in M /\ i \in LiIssues
    BY <1>1, <1>2, <1>3, <2>1, MatchingAreIssues
  <2>3. PICK m \in Nat : m = k - offset + 1
    BY <2>2
  <2>4. ASSUME NEW r \in offset .. offset + m - 1
        PROVE  \E j \in issues : Rank(rows, filter, sort, j) = r
    <3>1. r \in Nat /\ r <= k /\ r >= offset
      BY <2>3
    <3>2. PICK j \in M : Rank(rows, filter, sort, j) = r
      <4>1. CASE r = k
        BY <2>1, <2>2, <4>1
      <4>2. CASE r # k
        BY <1>1, <2>1, <2>2, <3>1, <4>2, RanksTaken
      <4> QED
        BY <4>1, <4>2
    <3>3. j \in issues
      BY <1>1, <1>2, <1>3, <2>2, <3>1, <3>2
    <3> QED
      BY <3>2, <3>3
  <2>5. Cardinality(issues) >= m
    <3>1. PICK T \in SUBSET Matching(rows, filter) : T = issues
      BY <1>4
    <3>2. \A r \in offset .. offset + m - 1 : \E j \in T : Rank(rows, filter, sort, j) = r
      BY <2>4, <3>1
    <3>3. Cardinality(T) >= m
      BY <3>2, IssuesFillRanks
    <3> QED
      BY <3>1, <3>3
  <2> QED
    BY <1>6, <2>1, <2>2, <2>3, <2>5
<1>8. ASSUME NEW i \in M \ issues, Rank(rows, filter, sort, i) >= offset
      PROVE  Rank(rows, filter, sort, i) >= offset + n /\ more /\ issues # {}
  <2>1. PICK k \in Nat : k = Rank(rows, filter, sort, i)
    BY <1>5
  <2>2. k >= offset + P /\ i \in LiIssues
    BY <1>1, <1>2, <1>3, <1>8, <2>1, MatchingAreIssues
  <2>3. ASSUME NEW r \in offset .. offset + P
        PROVE  \E j \in fetched : Rank(rows, filter, sort, j) = r
    <3>1. r \in Nat /\ r <= k
      BY <1>2, <2>2
    <3>2. PICK j \in M : Rank(rows, filter, sort, j) = r
      <4>1. CASE r = k
        BY <2>1, <4>1
      <4>2. CASE r # k
        BY <1>1, <2>1, <2>2, <3>1, <4>2, RanksTaken
      <4> QED
        BY <4>1, <4>2
    <3> QED
      BY <1>1, <3>2
  <2>4. PICK m \in Nat : m = P + 1
    BY <1>2
  <2>5. offset + m - 1 = offset + P
    BY <1>2, <2>4
  <2>6. Cardinality(fetched) \in Nat /\ Cardinality(fetched) >= m
    <3>1. \A r \in offset .. offset + m - 1 : \E j \in fetched : Rank(rows, filter, sort, j) = r
      BY <2>3, <2>5
    <3>2. Cardinality(fetched) >= m
      BY <1>4, <3>1, IssuesFillRanks
    <3> QED
      BY <1>1, <1>4, <3>2, RankCountsBefore, FS_Subset, FS_CardinalityType
  <2>7. more
    BY <1>2, <1>3, <2>4, <2>6
  <2>8. PICK j \in fetched : Rank(rows, filter, sort, j) = offset
    BY <1>2, <2>3
  <2>9. j \in issues
    BY <1>2, <1>3, <2>8
  <2> QED
    BY <1>2, <1>6, <2>1, <2>2, <2>7, <2>9
<1> QED
  BY <1>1, <1>4, <1>6, <1>7, <1>8

\* One round of the listing.
LEMMA CollectKeeps ==
  ASSUME ListingInv, CollectIssuePage
  PROVE  ListingInv'
<1>1. Walking /\ WalkTypes /\ liRows \in LiTable
  BY DEF ListingInv, ListingTypes, CollectIssuePage, Walking
<1>2. PICK rows, filter, sort, offset, size, listed, due, touched, back, ahead :
        /\ rows = liRows /\ filter = liWalk.filter /\ sort = liWalk.sort /\ offset = liWalk.offset
        /\ size = liWalk.size /\ listed = liWalk.listed /\ due = liWalk.due /\ touched = liWalk.touched
        /\ back = liWalk.back /\ ahead = liWalk.ahead
  OBVIOUS
<1>3. /\ rows \in LiTable /\ offset \in Nat /\ size \in Nat /\ listed \in [LiIssues -> Nat]
      /\ due \subseteq LiIssues /\ touched \subseteq LiIssues
  BY <1>1, <1>2 DEF WalkTypes
<1>4. PICK page : page = ListIssuesPage(rows, filter, sort, offset)
  OBVIOUS
<1>5. PICK issues, n : issues = page.issues /\ n = Cardinality(issues)
  OBVIOUS
<1>0. PICK more \in BOOLEAN : more <=> page.more
  OBVIOUS
<1>6. /\ n \in Nat /\ issues \subseteq LiIssues
      /\ \A i \in issues : Rank(rows, filter, sort, i) >= offset /\ Rank(rows, filter, sort, i) < offset + n
      /\ \A i \in Matching(rows, filter) \ issues :
           Rank(rows, filter, sort, i) >= offset => Rank(rows, filter, sort, i) >= offset + n /\ more /\ issues # {}
  <2>1. /\ issues = ListIssuesPage(rows, filter, sort, offset).issues
        /\ more <=> ListIssuesPage(rows, filter, sort, offset).more
    BY <1>4, <1>5, <1>0
  <2>2. Matching(rows, filter) \subseteq LiIssues
    BY MatchingAreIssues
  <2> QED
    BY <1>3, <1>5, <2>1, <2>2, PageIsRun
<1>7. PICK pc, listed2 :
        /\ pc = IF ~(~more \/ issues = {} \/ size + n >= LiCap) THEN "walk"
                ELSE IF more /\ size + n >= LiCap THEN "capped" ELSE "done"
        /\ listed2 = [i \in LiIssues |-> listed[i] + (IF i \in issues THEN 1 ELSE 0)]
  OBVIOUS
<1>8. liWalk' = [liWalk EXCEPT !.pc = pc, !.offset = offset + n, !.size = size + n, !.listed = listed2]
  BY <1>2, <1>4, <1>5, <1>0, <1>7 DEF CollectIssuePage
<1>9. pc \in {"walk", "capped", "done"} /\ listed2 \in [LiIssues -> Nat]
  BY <1>3, <1>7
<1>10. /\ liRows' = rows /\ liNow' = liNow
       /\ liWalk'.pc = pc /\ liWalk'.offset = offset + n /\ liWalk'.listed = listed2 /\ liWalk'.filter = filter
       /\ liWalk'.sort = sort /\ liWalk'.due = due /\ liWalk'.touched = touched /\ liWalk'.back = back /\ liWalk'.ahead = ahead
       /\ WalkTypes'
  <2>1. liRows' = rows /\ liNow' = liNow
    BY <1>2 DEF CollectIssuePage
  <2>2. offset + n \in Nat /\ size + n \in Nat
    BY <1>3, <1>6
  <2> QED
    BY <1>1, <1>2, <1>8, <1>9, <2>1, <2>2 DEF WalkTypes
<1>11. ListingTypes'
  BY <1>3, <1>9, <1>10 DEF ListingInv, ListingTypes
<1>12. ASSUME NEW i \in due \ touched
       PROVE  /\ i \in Matching(rows, filter) /\ listed[i] \in Nat /\ Rank(rows, filter, sort, i) \in Nat
              /\ listed[i] = 0 /\ ~back => Rank(rows, filter, sort, i) >= offset
              /\ ~ahead => listed[i] <= 1
              /\ listed[i] = 1 /\ ~ahead => Rank(rows, filter, sort, i) < offset
  BY <1>1, <1>2, <1>3, RankCountsBefore DEF ListingInv, OffsetInv
<1>13. ASSUME NEW i \in due \ touched
       PROVE  /\ listed2[i] = 0 /\ ~back => Rank(rows, filter, sort, i) >= offset + n /\ pc # "done"
              /\ ~ahead => listed2[i] <= 1
              /\ listed2[i] = 1 /\ ~ahead => Rank(rows, filter, sort, i) < offset + n
  <2>1. i \in LiIssues /\ listed2[i] = listed[i] + (IF i \in issues THEN 1 ELSE 0)
    BY <1>3, <1>7
  <2>2. CASE i \in issues
    BY <1>3, <1>6, <1>12, <2>1, <2>2
  <2>3. CASE i \notin issues
    <3>1. listed2[i] = listed[i]
      BY <1>12, <2>1, <2>3
    <3>2. listed[i] = 0 /\ ~back => more /\ issues # {} /\ Rank(rows, filter, sort, i) >= offset + n
      BY <1>6, <1>12, <2>3
    <3>3. more /\ issues # {} => pc # "done"
      BY <1>7
    <3> QED
      BY <1>3, <1>6, <1>12, <3>1, <3>2, <3>3
  <2> QED
    BY <2>2, <2>3
<1>14. OffsetInv'
  BY <1>10, <1>12, <1>13 DEF OffsetInv, Walking
<1>15. ListingCoversUntouched'
  BY <1>3, <1>9, <1>10, <1>13 DEF ListingCoversUntouched
<1> QED
  BY <1>11, <1>14, <1>15 DEF ListingInv

\* A change of one issue while the listing is under way.
LEMMA ChangeKeeps ==
  ASSUME ListingInv, NEW i \in LiIssues, NEW item \in LiRow, LiCommit(i, item), liNow' = liNow
  PROVE  ListingInv'
<1>1. liRows \in LiTable
  BY DEF ListingInv, ListingTypes
<1>2. PICK A, B : A = liRows /\ B = liRows'
  OBVIOUS
<1>3. /\ A \in LiTable /\ B \in LiTable /\ \A k \in LiIssues \ {i} : A[k] = B[k]
      /\ \A k \in LiIssues \ {i} : B[k] = A[k]
  BY <1>1, <1>2 DEF LiCommit, LiTable
<1>4. CASE ~Walking
  <2>1. liWalk' = liWalk
    BY <1>4 DEF LiCommit, Disturbed
  <2>2. ListingTypes'
    BY <1>2, <1>3, <2>1 DEF ListingInv, ListingTypes, WalkTypes
  <2> QED
    BY <1>4, <2>1, <2>2 DEF ListingInv, OffsetInv, ListingCoversUntouched, Walking
<1>5. CASE Walking
  <2>1. WalkTypes
    BY <1>5 DEF ListingInv, ListingTypes, Walking
  <2>2. PICK filter, sort, offset, listed, due, touched :
          /\ filter = liWalk.filter /\ sort = liWalk.sort /\ offset = liWalk.offset
          /\ listed = liWalk.listed /\ due = liWalk.due /\ touched = liWalk.touched
    OBVIOUS
  <2>3. PICK from, to : from = Rank(A, filter, sort, i) /\ to = Rank(B, filter, sort, i)
    OBVIOUS
  <2>4. PICK back \in BOOLEAN, ahead \in BOOLEAN :
          /\ back <=> liWalk.back \/ (i \in Matching(A, filter) /\ (i \notin Matching(B, filter) \/ to > from))
          /\ ahead <=> liWalk.ahead \/ (i \in Matching(B, filter) /\ (i \notin Matching(A, filter) \/ to < from))
    OBVIOUS
  <2>5. liWalk.back \in BOOLEAN /\ liWalk.ahead \in BOOLEAN
    BY <2>1 DEF WalkTypes
  <2>6. liWalk' = [liWalk EXCEPT !.touched = touched \cup {i}, !.back = back, !.ahead = ahead]
    <3>1. liWalk' = Disturbed(liRows', i)
      BY DEF LiCommit
    <3>2. liWalk' = LET was == i \in Matching(A, filter)
                        is == i \in Matching(B, filter)
                    IN [liWalk EXCEPT !.touched = liWalk.touched \cup {i},
                                      !.back = liWalk.back \/ (was /\ (~is \/ to > from)),
                                      !.ahead = liWalk.ahead \/ (is /\ (~was \/ to < from))]
      BY <1>2, <1>5, <2>2, <2>3, <3>1 DEF Disturbed
    <3>3. /\ back = (liWalk.back \/ (i \in Matching(A, filter) /\ (i \notin Matching(B, filter) \/ to > from)))
          /\ ahead = (liWalk.ahead \/ (i \in Matching(B, filter) /\ (i \notin Matching(A, filter) \/ to < from)))
      BY <2>4, <2>5
    <3> QED
      BY <2>2, <3>2, <3>3
  <2>7. /\ offset \in Nat /\ listed \in [LiIssues -> Nat] /\ due \subseteq LiIssues /\ touched \subseteq LiIssues
    BY <2>1, <2>2 DEF WalkTypes
  <2>8. /\ liWalk'.pc = liWalk.pc /\ liWalk'.filter = filter /\ liWalk'.sort = sort /\ liWalk'.offset = offset
        /\ liWalk'.listed = listed /\ liWalk'.due = due /\ liWalk'.touched = touched \cup {i}
        /\ liWalk'.back = back /\ liWalk'.ahead = ahead
        /\ WalkTypes'
    BY <2>1, <2>2, <2>6, <2>7 DEF WalkTypes
  <2>9. ListingTypes'
    BY <1>2, <1>3, <2>8 DEF ListingInv, ListingTypes
  <2>10. ASSUME NEW k \in due \ (touched \cup {i})
         PROVE  /\ k \in Matching(B, filter)
                /\ listed[k] = 0 /\ ~back => Rank(B, filter, sort, k) >= offset
                /\ ~ahead => listed[k] <= 1
                /\ listed[k] = 1 /\ ~ahead => Rank(B, filter, sort, k) < offset
    <3>1. /\ k \in Matching(A, filter) /\ k \in LiIssues /\ k # i
          /\ listed[k] = 0 /\ ~liWalk.back => Rank(A, filter, sort, k) >= offset
          /\ ~liWalk.ahead => listed[k] <= 1
          /\ listed[k] = 1 /\ ~liWalk.ahead => Rank(A, filter, sort, k) < offset
      BY <1>2, <1>5, <2>2, <2>7 DEF ListingInv, OffsetInv
    <3>2. k \in Matching(B, filter)
      BY <1>3, <3>1, OthersStay
    <3>3. PICK a, b : a = Rank(A, filter, sort, k) /\ b = Rank(B, filter, sort, k)
      OBVIOUS
    <3>4. a \in Nat /\ b \in Nat
      BY <3>3, RankCountsBefore
    <3>5. ASSUME b < a PROVE back
      <4>1. i \in Before(A, filter, sort, k) /\ i \notin Before(B, filter, sort, k)
        BY <1>3, <3>1, <3>3, <3>5, RankFalls
      <4>2. i \in Matching(A, filter)
        BY <4>1, RankCountsBefore
      <4>3. CASE i \in Matching(B, filter)
        <5>1. to > from
          BY <1>3, <2>3, <3>1, <4>1, <4>3, MovedBack
        <5> QED
          BY <2>4, <4>2, <5>1
      <4> QED
        BY <2>4, <4>2, <4>3
    <3>6. ASSUME a < b PROVE ahead
      <4>1. i \in Before(B, filter, sort, k) /\ i \notin Before(A, filter, sort, k)
        BY <1>3, <3>1, <3>3, <3>6, RankFalls
      <4>2. i \in Matching(B, filter)
        BY <4>1, RankCountsBefore
      <4>3. CASE i \in Matching(A, filter)
        <5>1. from > to
          BY <1>3, <2>3, <3>1, <3>2, <4>1, <4>3, MovedBack
        <5>2. from \in Nat /\ to \in Nat
          BY <2>3, RankCountsBefore
        <5> QED
          BY <2>4, <4>2, <5>1, <5>2
      <4> QED
        BY <2>4, <4>2, <4>3
    <3>7. ~back => ~liWalk.back /\ a <= b
      BY <2>4, <3>4, <3>5
    <3>8. ~ahead => ~liWalk.ahead /\ b <= a
      BY <2>4, <3>4, <3>6
    <3> QED
      BY <2>7, <3>1, <3>2, <3>3, <3>4, <3>7, <3>8
  <2>11. OffsetInv'
    BY <1>2, <2>8, <2>10 DEF OffsetInv
  <2>12. ListingCoversUntouched'
    BY <1>5, <2>8 DEF ListingCoversUntouched, Walking
  <2> QED
    BY <2>9, <2>11, <2>12 DEF ListingInv
<1> QED
  BY <1>4, <1>5

\* A row from its fields.
LEMMA RowOf ==
  ASSUME NEW status \in {"unresolved", "resolved", "muted", "regressed"}, NEW mute \in {"", "until", "forever"},
         NEW again \in Nat, NEW first \in Nat, NEW last \in Nat, NEW events \in Nat
  PROVE  [status |-> status, mute |-> mute, regressions |-> again, first |-> first, last |-> last,
          events |-> events] \in LiRow
BY DEF LiRow

\* What an event and a status change make of a row.
LEMMA RowsStayRows ==
  ASSUME NEW item \in LiRow, liNow \in Nat, NEW op
  PROVE  Bumped(item) \in LiRow /\ ChangedTo(item, op) \in LiRow
<1>1. Bumped(item) \in LiRow
  <2>1. PICK back \in BOOLEAN :
          back = ((item.status = "resolved" /\ item.mute # "forever") \/ (item.status = "muted" /\ item.mute = "until"))
    OBVIOUS
  <2>2. /\ item.status \in {"unresolved", "resolved", "muted", "regressed"} /\ item.mute \in {"", "until", "forever"}
        /\ item.regressions \in Nat /\ item.first \in Nat /\ item.events \in Nat
    BY DEF LiRow
  <2>3. PICK r, f, e, n : /\ r = item.regressions /\ f = item.first /\ e = item.events
                          /\ n = IF back THEN 1 ELSE 0
    OBVIOUS
  <2>4. r \in Nat /\ f \in Nat /\ e \in Nat /\ n \in Nat
    BY <2>2, <2>3
  <2>5. r + n \in Nat /\ e + 1 \in Nat /\ (IF e = 0 THEN liNow ELSE f) \in Nat
    BY <2>4
  <2>6. PICK status, mute :
          /\ status = (IF ~back THEN item.status ELSE IF item.mute = "until" THEN "regressed" ELSE "unresolved")
          /\ mute = (IF back THEN "" ELSE item.mute)
    OBVIOUS
  <2>7. status \in {"unresolved", "resolved", "muted", "regressed"} /\ mute \in {"", "until", "forever"}
    BY <2>2, <2>6
  <2>8. PICK again, first, events :
          again = r + n /\ first = (IF e = 0 THEN liNow ELSE f) /\ events = e + 1
    OBVIOUS
  <2>9. Bumped(item) = [status |-> status, mute |-> mute, regressions |-> again, first |-> first,
                       last |-> liNow, events |-> events]
    BY <2>1, <2>3, <2>6, <2>8 DEF Bumped
  <2>10. again \in Nat /\ first \in Nat /\ events \in Nat
    BY <2>5, <2>8
  <2> QED
    <3>1. PICK last \in Nat : last = liNow
      OBVIOUS
    <3>2. [status |-> status, mute |-> mute, regressions |-> again, first |-> first, last |-> last,
           events |-> events] \in LiRow
      BY <2>7, <2>10, RowOf
    <3> QED
      BY <2>9, <3>1, <3>2
<1>2. ChangedTo(item, op) \in LiRow
  BY DEF ChangedTo, LiRow
<1> QED
  BY <1>1, <1>2

\* A listing begins.
LEMMA FetchKeeps ==
  ASSUME ListingInv, NEW filter \in LiFilters, NEW sort \in LiSorts, FetchAllIssues(filter, sort)
  PROVE  ListingInv'
<1>1. PICK due, listed : due = Matching(liRows, filter) /\ listed = [i \in LiIssues |-> 0]
  OBVIOUS
<1>2. liWalk' = [pc |-> "walk", filter |-> filter, sort |-> sort, offset |-> 0, size |-> 0,
                 listed |-> listed, touched |-> {}, back |-> FALSE, ahead |-> FALSE, due |-> due]
  BY <1>1 DEF FetchAllIssues
<1>3. due \subseteq LiIssues /\ listed \in [LiIssues -> Nat]
  BY <1>1, MatchingAreIssues
<1>4. ListingTypes'
  BY <1>2, <1>3 DEF ListingInv, ListingTypes, WalkTypes, FetchAllIssues
<1>5. ASSUME NEW i \in due
      PROVE  i \in Matching(liRows, filter) /\ listed[i] = 0 /\ Rank(liRows, filter, sort, i) >= 0
  BY <1>1, <1>3, RankCountsBefore
<1>6. liRows' = liRows
  BY DEF FetchAllIssues
<1>7. OffsetInv'
  BY <1>2, <1>5, <1>6 DEF OffsetInv, Walking
<1>8. ListingCoversUntouched'
  BY <1>2 DEF ListingCoversUntouched
<1> QED
  BY <1>4, <1>7, <1>8 DEF ListingInv

\* Nothing of the listing changes, or it fails.
LEMMA ListingQuiet ==
  ASSUME ListingInv, liRows' = liRows, liNow' \in Nat,
         liWalk' = liWalk \/ (Walking /\ liWalk' = [liWalk EXCEPT !.pc = "failed"])
  PROVE  ListingInv'
<1>1. CASE liWalk' = liWalk
  BY <1>1 DEF ListingInv, ListingTypes, WalkTypes, OffsetInv, Walking, ListingCoversUntouched
<1>2. CASE Walking /\ liWalk' = [liWalk EXCEPT !.pc = "failed"]
  <2>1. WalkTypes
    BY <1>2 DEF ListingInv, ListingTypes, Walking
  <2>2. WalkTypes' /\ liWalk'.pc = "failed"
    BY <1>2, <2>1 DEF WalkTypes
  <2> QED
    BY <2>2 DEF ListingInv, ListingTypes, OffsetInv, Walking, ListingCoversUntouched
<1> QED
  BY <1>1, <1>2

\* It holds at the start, and every step keeps it.
LEMMA ListingStarts == LiInit => ListingInv
<1> SUFFICES ASSUME LiInit PROVE ListingInv
  OBVIOUS
<1>1. ListingTypes
  BY DEF LiInit, ListingTypes, LiTable, LiRow
<1> QED
  BY <1>1 DEF LiInit, ListingInv, OffsetInv, Walking, ListingCoversUntouched

\* No step of the store or of a reader breaks the invariant.
LEMMA ListingSteps == ListingInv /\ [LiNext]_liVars => ListingInv'
<1> SUFFICES ASSUME ListingInv, [LiNext]_liVars PROVE ListingInv'
  OBVIOUS
<1>1. liNow \in Nat /\ liRows \in LiTable
  BY DEF ListingInv, ListingTypes
<1>2. CASE UNCHANGED liVars
  BY <1>1, <1>2, ListingQuiet DEF liVars
<1>3. ASSUME NEW filter \in LiFilters, NEW sort \in LiSorts, FetchAllIssues(filter, sort)
      PROVE  ListingInv'
  BY <1>3, FetchKeeps
<1>4. CASE CollectIssuePage
  BY <1>4, CollectKeeps
<1>5. CASE CollectFails
  BY <1>1, <1>5, ListingQuiet DEF CollectFails
<1>6. ASSUME NEW i \in LiIssues, EventStored(i) PROVE ListingInv'
  <2>1. PICK item : item = Bumped(liRows[i])
    OBVIOUS
  <2>2. item \in LiRow
    BY <1>1, <2>1, RowsStayRows DEF LiTable
  <2>3. LiCommit(i, item) /\ liNow' = liNow
    BY <1>6, <2>1 DEF EventStored
  <2> QED
    BY <2>2, <2>3, ChangeKeeps
<1>7. ASSUME NEW i \in LiIssues, NEW op \in ListingOps, ChangeStatus(i, op) PROVE ListingInv'
  <2>1. PICK item : item = ChangedTo(liRows[i], op)
    OBVIOUS
  <2>2. item \in LiRow
    BY <1>1, <2>1, RowsStayRows DEF LiTable
  <2>3. LiCommit(i, item) /\ liNow' = liNow
    BY <1>7, <2>1 DEF ChangeStatus
  <2> QED
    BY <2>2, <2>3, ChangeKeeps
<1>8. CASE LiTick
  BY <1>1, <1>8, ListingQuiet DEF LiTick
<1> QED
  BY <1>2, <1>3, <1>4, <1>5, <1>6, <1>7, <1>8 DEF LiNext

\* `bb issues --all` has every issue that matched when it began and nobody touched, unless another
\* one moved back in the order, and none twice unless another one moved ahead.
THEOREM PagesCoverUntouched == LiSpec => []ListingCoversUntouched
<1>1. ListingInv => ListingCoversUntouched
  BY DEF ListingInv
<1> QED
  BY <1>1, ListingStarts, ListingSteps, PTL DEF LiSpec

-----------------------------------------------------------------------------
(* The weekly digest: one a week, or a reason for two or none. *)

\* The first minute of a week.
WeekAt(w) == w * DgWeek

DigestRuns ==
  [pc : {"idle", "list", "gather", "deliver"}, next : Nat, report : SUBSET DgProjects, errs : BOOLEAN,
   left : SUBSET DgNotifiers, try : Nat, at : Nat]

DigestTypes ==
  /\ dgNow \in 0 .. DgMaxTime /\ dgUp \in BOOLEAN
  /\ dgChan \in Nat \cup {NoTick} /\ dgLast \in Nat \cup {NoTick}
  /\ dgRuns \in [DigestSenders -> DigestRuns]
  /\ dgFired \subseteq Weeks /\ dgDown \subseteq Weeks /\ dgDoubt \subseteq Weeks
  /\ dgSent \in [DgNotifiers -> [Weeks -> Nat]]

SchedulerSends == dgRuns["scheduler"].pc # "idle"

\* A tick that waits is the newest one, or came during a digest that just fired.
TickInv ==
  dgChan # NoTick => dgUp /\ dgChan <= dgNow /\ (dgChan = dgNow \/ (dgLast # NoTick /\ dgChan - dgLast < DgRefire))

\* What the scheduler remembers is a minute of the hour of a week that counts as fired.
LastInv ==
  dgLast # NoTick => dgLast <= dgNow /\ InHour(dgLast) /\ WeekOf(dgLast) \in dgFired

\* A digest under way is the one that fired last, and within its budget.
SendingInv ==
  SchedulerSends => /\ dgUp /\ dgLast # NoTick /\ dgRuns["scheduler"].at = dgLast
                    /\ dgNow <= dgLast + DgMaxRun

\* Within the hour of a week that fired, an undisturbed scheduler remembers it.
FiredInv ==
  \A w \in dgFired : /\ WeekAt(w) <= dgNow
                     /\ w \notin dgDown /\ dgNow < WeekAt(w) + DgHour => dgLast # NoTick /\ WeekOf(dgLast) = w

\* A channel the digest under way still has to serve has had nothing this week.
SentInv ==
  \A n \in DgNotifiers, w \in Weeks :
    /\ w \notin dgFired => dgSent[n][w] = 0
    /\ w \notin dgDown /\ (n = "email" => w \notin dgDoubt) =>
         /\ dgSent[n][w] <= 1
         /\ SchedulerSends /\ WeekOf(dgLast) = w /\ (dgRuns["scheduler"].pc = "deliver" => n \in dgRuns["scheduler"].left) =>
              dgSent[n][w] = 0

\* An undisturbed week fires with its first tick.
FiresAtOnceInv ==
  \A w \in Weeks :
    WeekAt(w) <= dgNow /\ w \notin dgFired /\ w \notin dgDown =>
      /\ dgUp
      /\ \/ dgNow = WeekAt(w) /\ dgChan = dgNow
         \/ w = 0 /\ dgNow = 0 /\ dgChan = NoTick
         \/ w = 0 /\ dgNow = 1 /\ dgChan = 1

DgInv == DigestTypes /\ TickInv /\ LastInv /\ SendingInv /\ FiredInv /\ SentInv /\ FiresAtOnceInv

\* The weeks are counted from minute 0, and a minute is in one of them.
LEMMA WeekOfMinute ==
  ASSUME NEW t \in Nat
  PROVE  /\ WeekOf(t) \in Nat /\ WeekAt(WeekOf(t)) \in Nat
         /\ WeekAt(WeekOf(t)) <= t /\ t < WeekAt(WeekOf(t)) + DgWeek
         /\ InHour(t) <=> t < WeekAt(WeekOf(t)) + DgHour
<1>1. DgWeek \in Nat /\ DgWeek > 0 /\ DgHour \in Nat
  BY WeeklyDigestAssumption
<1>2. t % DgWeek \in 0 .. (DgWeek - 1)
  BY <1>1
<1>3. t \div DgWeek \in Nat
  BY <1>1
<1>4. t = DgWeek * (t \div DgWeek) + (t % DgWeek)
  BY <1>1
<1>5. WeekAt(WeekOf(t)) = DgWeek * (t \div DgWeek)
  BY <1>1, <1>3 DEF WeekAt, WeekOf
<1>6. WeekAt(WeekOf(t)) \in Int /\ WeekAt(WeekOf(t)) = t - (t % DgWeek)
  BY <1>1, <1>2, <1>3, <1>4, <1>5
<1>7. WeekAt(WeekOf(t)) \in Nat
  BY <1>1, <1>3, <1>5
<1> QED
  BY <1>1, <1>2, <1>3, <1>6, <1>7 DEF WeekOf, InHour

\* A later week begins a week or more after an earlier one.
LEMMA WeeksApart ==
  ASSUME NEW v \in Nat, NEW w \in Nat, v < w
  PROVE  WeekAt(v) \in Nat /\ WeekAt(w) \in Nat /\ WeekAt(v) + DgWeek <= WeekAt(w)
<1>1. DgWeek \in Nat
  BY WeeklyDigestAssumption
<1>2. PICK k \in Nat : w = v + 1 + k
  <2>1. w - v - 1 \in Nat /\ w = v + 1 + (w - v - 1)
    OBVIOUS
  <2> QED
    BY <2>1
<1>3. w * DgWeek = v * DgWeek + DgWeek + k * DgWeek
  BY <1>1, <1>2
<1>4. k * DgWeek \in Nat /\ v * DgWeek \in Nat
  BY <1>1
<1> QED
  BY <1>1, <1>3, <1>4 DEF WeekAt

\* The week a minute lies in is the only one.
LEMMA OneWeek ==
  ASSUME NEW t \in Nat, NEW w \in Nat, WeekAt(w) <= t, t < WeekAt(w) + DgWeek
  PROVE  WeekOf(t) = w
<1>1. WeekAt(w) \in Nat /\ DgWeek \in Nat
  BY WeeklyDigestAssumption DEF WeekAt
<1>2. CASE WeekOf(t) < w
  BY <1>1, <1>2, WeekOfMinute, WeeksApart
<1>3. CASE w < WeekOf(t)
  BY <1>1, <1>3, WeekOfMinute, WeeksApart
<1> QED
  BY <1>2, <1>3, WeekOfMinute

\* The minutes of a behaviour lie in its weeks.
LEMMA InWeeks ==
  ASSUME NEW t \in 0 .. DgMaxTime
  PROVE  WeekOf(t) \in Weeks
<1>1. DgMaxTime \in Nat /\ DgWeek \in Nat
  BY WeeklyDigestAssumption
<1>2. CASE WeekOf(DgMaxTime) < WeekOf(t)
  BY <1>1, <1>2, WeekOfMinute, WeeksApart
<1>3. Weeks = 0 .. WeekOf(DgMaxTime)
  BY DEF Weeks, WeekOf
<1> QED
  BY <1>1, <1>2, <1>3, WeekOfMinute

\* Weeks are natural numbers, and so are their first minutes.
LEMMA WeeksCount ==
  /\ Weeks \subseteq Nat /\ \A w \in Nat : WeekAt(w) \in Nat
  /\ WeekAt(0) = 0 /\ \A w \in Nat : w # 0 => WeekAt(w) >= DgWeek
<1>1. DgMaxTime \in Nat /\ DgWeek \in Nat /\ WeekOf(DgMaxTime) \in Nat
  BY WeeklyDigestAssumption, WeekOfMinute
<1>2. Weeks \subseteq Nat
  BY <1>1 DEF Weeks, WeekOf
<1>3. WeekAt(0) = 0
  BY <1>1 DEF WeekAt
<1>4. \A w \in Nat : WeekAt(w) \in Nat
  BY <1>1 DEF WeekAt
<1>5. \A w \in Nat : w # 0 => WeekAt(w) >= DgWeek
  BY <1>1, <1>3, WeeksApart
<1> QED
  BY <1>2, <1>3, <1>4, <1>5

\* The first week is always one of them.
LEMMA WeekZero == 0 \in Weeks
<1>1. WeekOf(DgMaxTime) \in Nat
  BY WeeklyDigestAssumption, WeekOfMinute
<1> QED
  BY <1>1 DEF Weeks, WeekOf

\* The bounds and lengths are numbers, and their order is the one assumed.
LEMMA DigestLengths ==
  /\ DgWeek \in Nat /\ DgHour \in Nat /\ DgRefire \in Nat /\ DgMaxRun \in Nat /\ DgMaxTime \in Nat
  /\ 0 < DgMaxRun /\ DgMaxRun < DgHour /\ DgHour <= DgRefire /\ DgRefire + DgHour <= DgWeek
  BY WeeklyDigestAssumption

\* The digest under way was begun in this week.
LEMMA SendsInItsWeek ==
  ASSUME DgInv, SchedulerSends
  PROVE  /\ dgLast \in Nat /\ dgNow \in Nat /\ WeekOf(dgNow) = WeekOf(dgLast)
         /\ WeekOf(dgNow) \in Weeks /\ WeekOf(dgNow) \in dgFired
<1>1. dgNow \in 0 .. DgMaxTime /\ dgLast \in Nat \cup {NoTick}
  BY DEF DgInv, DigestTypes
<1>2. dgLast # NoTick /\ dgNow <= dgLast + DgMaxRun
  BY DEF DgInv, SendingInv
<1>3. dgLast <= dgNow /\ InHour(dgLast) /\ WeekOf(dgLast) \in dgFired
  BY <1>2 DEF DgInv, LastInv
<1>4. dgLast \in Nat /\ dgNow \in Nat
  BY <1>1, <1>2, DigestLengths
<1> DEFINE w == WeekOf(dgLast)
<1>5. w \in Nat /\ WeekAt(w) \in Nat /\ WeekAt(w) <= dgLast /\ dgLast < WeekAt(w) + DgHour
  BY <1>3, <1>4, WeekOfMinute
<1> HIDE DEF w
<1>6. WeekAt(w) <= dgNow /\ dgNow < WeekAt(w) + DgWeek
  BY <1>2, <1>3, <1>4, <1>5, DigestLengths
<1>7. WeekOf(dgNow) = w
  BY <1>4, <1>5, <1>6, OneWeek
<1>8. WeekOf(dgNow) \in Weeks
  BY <1>1, InWeeks
<1> QED
  BY <1>3, <1>4, <1>7, <1>8 DEF w

-----------------------------------------------------------------------------
(* The digest under way. *)

\* A step of one digest that leaves the clock and the scheduler alone keeps all
\* but what is said of the deliveries.
LEMMA RunMoves ==
  ASSUME DgInv, NEW s \in DigestSenders, NEW run \in DigestRuns,
         dgRuns[s].pc # "idle", dgRuns' = [dgRuns EXCEPT ![s] = run],
         run.pc # "idle" => run.at = dgRuns[s].at,
         DigestStill, dgDoubt' \subseteq Weeks, dgSent' \in [DgNotifiers -> [Weeks -> Nat]], SentInv'
  PROVE  DgInv'
<1>1. DigestTypes'
  BY DEF DgInv, DigestTypes, DigestStill
<1>2. SchedulerSends' => SchedulerSends /\ dgRuns'["scheduler"].at = dgRuns["scheduler"].at
  <2>1. dgRuns \in [DigestSenders -> DigestRuns]
    BY DEF DgInv, DigestTypes
  <2>2. CASE s = "scheduler"
    BY <2>1, <2>2 DEF SchedulerSends
  <2>3. CASE s # "scheduler"
    BY <2>1, <2>3 DEF SchedulerSends, DigestSenders
  <2> QED
    BY <2>2, <2>3
<1>3. TickInv' /\ LastInv' /\ FiredInv' /\ FiresAtOnceInv'
  BY DEF DgInv, TickInv, LastInv, FiredInv, FiresAtOnceInv, DigestStill
<1>4. SendingInv'
  BY <1>2 DEF DgInv, SendingInv, DigestStill
<1> QED
  BY <1>1, <1>3, <1>4 DEF DgInv

\* A step without a delivery keeps what is said of the deliveries.
LEMMA SentKept ==
  ASSUME DgInv, NEW s \in DigestSenders, NEW run \in DigestRuns,
         dgRuns[s].pc # "idle", dgRuns' = [dgRuns EXCEPT ![s] = run],
         run.pc = "deliver" /\ dgRuns[s].pc = "deliver" => run.left \subseteq dgRuns[s].left,
         dgRuns[s].pc = "deliver" => run.pc \in {"idle", "deliver"},
         DigestStill, dgSent' = dgSent, dgDoubt \subseteq dgDoubt'
  PROVE  SentInv'
<1>1. dgRuns \in [DigestSenders -> DigestRuns] /\ "scheduler" \in DigestSenders
  BY DEF DgInv, DigestTypes, DigestSenders
<1>2. dgFired' = dgFired /\ dgDown' = dgDown /\ dgLast' = dgLast
  BY DEF DigestStill
<1> SUFFICES ASSUME NEW n \in DgNotifiers, NEW w \in Weeks
             PROVE  /\ w \notin dgFired' => dgSent'[n][w] = 0
                    /\ w \notin dgDown' /\ (n = "email" => w \notin dgDoubt') =>
                         /\ dgSent'[n][w] <= 1
                         /\ SchedulerSends' /\ WeekOf(dgLast') = w
                              /\ (dgRuns'["scheduler"].pc = "deliver" => n \in dgRuns'["scheduler"].left) =>
                              dgSent'[n][w] = 0
  BY DEF SentInv
<1>3. /\ w \notin dgFired => dgSent[n][w] = 0
      /\ w \notin dgDown /\ (n = "email" => w \notin dgDoubt) =>
           /\ dgSent[n][w] <= 1
           /\ SchedulerSends /\ WeekOf(dgLast) = w
                /\ (dgRuns["scheduler"].pc = "deliver" => n \in dgRuns["scheduler"].left) => dgSent[n][w] = 0
  BY DEF DgInv, SentInv
<1>4. SchedulerSends' /\ (dgRuns'["scheduler"].pc = "deliver" => n \in dgRuns'["scheduler"].left) =>
        SchedulerSends /\ (dgRuns["scheduler"].pc = "deliver" => n \in dgRuns["scheduler"].left)
  <2>1. CASE s = "scheduler"
    <3>1. dgRuns'["scheduler"] = run
      BY <1>1, <2>1
    <3> QED
      BY <2>1, <3>1 DEF SchedulerSends
  <2>2. CASE s # "scheduler"
    <3>1. dgRuns'["scheduler"] = dgRuns["scheduler"]
      BY <1>1, <2>2
    <3> QED
      BY <3>1 DEF SchedulerSends
  <2> QED
    BY <2>1, <2>2
<1> QED
  BY <1>2, <1>3, <1>4

\* A delivery reaches a channel that had nothing yet; unless it is a mail that is
\* reported as failed, the channel is settled.
LEMMA SentOnce ==
  ASSUME DgInv, NEW s \in DigestSenders, NEW n \in DgNotifiers, NEW run \in DigestRuns,
         dgRuns[s].pc = "deliver", n \in dgRuns[s].left, dgRuns' = [dgRuns EXCEPT ![s] = run],
         run.pc \in {"idle", "deliver"}, run.pc = "deliver" => run.left \subseteq dgRuns[s].left,
         run.pc = "deliver" /\ n \in run.left => n = "email" /\ (s = "scheduler" => WeekOf(dgNow) \in dgDoubt'),
         DigestStill, DigestAccepted(s, n), dgDoubt \subseteq dgDoubt'
  PROVE  SentInv' /\ dgSent' \in [DgNotifiers -> [Weeks -> Nat]]
<1>1. dgRuns \in [DigestSenders -> DigestRuns] /\ "scheduler" \in DigestSenders /\ dgSent \in [DgNotifiers -> [Weeks -> Nat]]
  BY DEF DgInv, DigestTypes, DigestSenders
<1>2. CASE s # "scheduler"
  <2>1. dgSent' = dgSent
    BY <1>2 DEF DigestAccepted
  <2>2. SentInv'
    BY <2>1, SentKept
  <2> QED
    BY <1>1, <2>1, <2>2
<1>3. CASE s = "scheduler"
  <2>1. SchedulerSends
    BY <1>3 DEF SchedulerSends
  <2>2. PICK v \in Weeks : v = WeekOf(dgNow) /\ v = WeekOf(dgLast) /\ v \in dgFired
    BY <2>1, SendsInItsWeek
  <2>3. dgSent' = [dgSent EXCEPT ![n] = [dgSent[n] EXCEPT ![v] = dgSent[n][v] + 1]]
    BY <1>1, <1>3, <2>2 DEF DigestAccepted
  <2>4. dgSent' \in [DgNotifiers -> [Weeks -> Nat]]
    BY <1>1, <2>2, <2>3
  <2>5. dgFired' = dgFired /\ dgDown' = dgDown /\ dgLast' = dgLast
    BY DEF DigestStill
  <2>6. dgRuns'["scheduler"] = run
    BY <1>1, <1>3
  <2>7. ASSUME NEW m \in DgNotifiers, NEW w \in Weeks
        PROVE  /\ w \notin dgFired' => dgSent'[m][w] = 0
               /\ w \notin dgDown' /\ (m = "email" => w \notin dgDoubt') =>
                    /\ dgSent'[m][w] <= 1
                    /\ SchedulerSends' /\ WeekOf(dgLast') = w
                         /\ (dgRuns'["scheduler"].pc = "deliver" => m \in dgRuns'["scheduler"].left) =>
                         dgSent'[m][w] = 0
    <3>1. /\ w \notin dgFired => dgSent[m][w] = 0
          /\ w \notin dgDown /\ (m = "email" => w \notin dgDoubt) =>
               /\ dgSent[m][w] <= 1
               /\ SchedulerSends /\ WeekOf(dgLast) = w
                    /\ (dgRuns["scheduler"].pc = "deliver" => m \in dgRuns["scheduler"].left) => dgSent[m][w] = 0
      BY DEF DgInv, SentInv
    <3>2. CASE m = n /\ w = v
      <4>1. dgSent'[m][w] = dgSent[n][v] + 1
        BY <1>1, <2>2, <2>3, <3>2
      <4>2. v \notin dgDown /\ (n = "email" => v \notin dgDoubt') => dgSent[n][v] = 0
        BY <1>3, <2>1, <2>2, <3>1, <3>2
      <4>3. SchedulerSends' => run.pc = "deliver"
        BY <2>6 DEF SchedulerSends
      <4>4. ~(m = "email" => w \notin dgDoubt') \/ (SchedulerSends' => m \notin run.left)
        BY <1>3, <2>2, <3>2, <4>3
      <4>5. v \in dgFired
        BY <2>2
      <4> QED
        BY <2>5, <2>6, <3>2, <4>1, <4>2, <4>3, <4>4, <4>5
    <3>3. CASE ~(m = n /\ w = v)
      <4>1. dgSent'[m][w] = dgSent[m][w]
        BY <1>1, <2>2, <2>3, <3>3
      <4>2. SchedulerSends' /\ (dgRuns'["scheduler"].pc = "deliver" => m \in dgRuns'["scheduler"].left) =>
              (dgRuns["scheduler"].pc = "deliver" => m \in dgRuns["scheduler"].left)
        BY <1>3, <2>6 DEF SchedulerSends
      <4> QED
        BY <2>1, <2>5, <3>1, <4>1, <4>2
    <3> QED
      BY <3>2, <3>3
  <2> QED
    BY <2>4, <2>7 DEF SentInv
<1> QED
  BY <1>2, <1>3

\* A digest that is nothing any more is a record like the others.
LEMMA NotSendingIsARun == NotSending \in DigestRuns /\ NotSending.pc = "idle"
  BY DEF NotSending, DigestRuns

\* Listing the projects keeps the invariant.
LEMMA ListsProjectsInv ==
  ASSUME DgInv, NEW s \in DigestSenders, NEW ok \in BOOLEAN, ListsProjects(s, ok)
  PROVE  DgInv'
<1>1. dgRuns[s] \in DigestRuns /\ dgRuns[s].pc = "list" /\ DigestStill /\ dgSent' = dgSent /\ dgDoubt' = dgDoubt
  BY DEF ListsProjects, DgInv, DigestTypes
<1>2. PICK run \in DigestRuns : /\ dgRuns' = [dgRuns EXCEPT ![s] = run]
                                /\ run.pc # "idle" => run.at = dgRuns[s].at
  <2>1. PICK r : r = dgRuns[s]
    OBVIOUS
  <2>2. [r EXCEPT !.pc = "gather", !.next = 1] \in DigestRuns /\ [r EXCEPT !.pc = "gather", !.next = 1].at = r.at
    BY <1>1, <2>1 DEF DigestRuns
  <2>3. CASE ok
    <3>1. dgRuns' = [dgRuns EXCEPT ![s] = [r EXCEPT !.pc = "gather", !.next = 1]]
      BY <2>1, <2>3 DEF ListsProjects, DigestGoes
    <3> QED
      BY <2>1, <2>2, <3>1
  <2>4. CASE ~ok
    <3>1. dgRuns' = [dgRuns EXCEPT ![s] = NotSending]
      BY <2>4 DEF ListsProjects, DigestGoes
    <3> QED
      BY <3>1, NotSendingIsARun
  <2> QED
    BY <2>3, <2>4
<1>3. SentInv'
  BY <1>1, <1>2, SentKept
<1>4. dgDoubt' \subseteq Weeks /\ dgSent' \in [DgNotifiers -> [Weeks -> Nat]]
  BY <1>1 DEF DgInv, DigestTypes
<1> QED
  BY <1>1, <1>2, <1>3, <1>4, RunMoves

\* Gathering a project keeps the invariant.
LEMMA GatherInv ==
  ASSUME DgInv, NEW s \in DigestSenders, NEW ok \in BOOLEAN, Gather(s, ok)
  PROVE  DgInv'
<1>1. dgRuns[s] \in DigestRuns /\ dgRuns[s].pc = "gather" /\ DigestStill /\ dgSent' = dgSent /\ dgDoubt' = dgDoubt
  BY DEF Gather, DgInv, DigestTypes
<1>2. PICK run \in DigestRuns : /\ dgRuns' = [dgRuns EXCEPT ![s] = run]
                                /\ run.pc # "idle" => run.at = dgRuns[s].at
  <2>1. PICK r : r = dgRuns[s]
    OBVIOUS
  <2>2. PICK p \in DgProjects : p = r.next /\ p \in Nat
    BY <1>1, <2>1 DEF Gather, DigestRuns
  <2>3. PICK report \in SUBSET DgProjects : report = IF ok /\ p \in DgActive THEN r.report \cup {p} ELSE r.report
    BY <1>1, <2>1, <2>2 DEF DigestRuns
  <2>4. PICK errs \in BOOLEAN : errs = (r.errs \/ ~ok)
    OBVIOUS
  <2>5. PICK run : run = [r EXCEPT !.next = p + 1, !.errs = errs, !.report = report]
    OBVIOUS
  <2>6. dgRuns' = [dgRuns EXCEPT ![s] = run]
    BY <2>1, <2>2, <2>3, <2>4, <2>5 DEF Gather, DigestGoes
  <2>7. run \in DigestRuns /\ run.at = r.at
    <3>1. r \in DigestRuns /\ p + 1 \in Nat
      BY <1>1, <2>1, <2>2
    <3> QED
      BY <2>5, <3>1 DEF DigestRuns
  <2> QED
    BY <2>1, <2>6, <2>7
<1>3. SentInv'
  BY <1>1, <1>2, SentKept
<1>4. dgDoubt' \subseteq Weeks /\ dgSent' \in [DgNotifiers -> [Weeks -> Nat]]
  BY <1>1 DEF DgInv, DigestTypes
<1> QED
  BY <1>1, <1>2, <1>3, <1>4, RunMoves

\* The end of the gathering keeps the invariant.
LEMMA GatherEndsInv ==
  ASSUME DgInv, NEW s \in DigestSenders, NEW spent \in BOOLEAN, GatherEnds(s, spent)
  PROVE  DgInv'
<1>1. dgRuns[s] \in DigestRuns /\ dgRuns[s].pc = "gather" /\ DigestStill /\ dgSent' = dgSent /\ dgDoubt' = dgDoubt
  BY DEF GatherEnds, DgInv, DigestTypes
<1>2. PICK run \in DigestRuns : /\ dgRuns' = [dgRuns EXCEPT ![s] = run]
                                /\ run.pc # "idle" => run.at = dgRuns[s].at
  <2>1. PICK r : r = [dgRuns[s] EXCEPT !.errs = @ \/ spent]
    OBVIOUS
  <2>2. r \in DigestRuns /\ r.at = dgRuns[s].at
    BY <1>1, <2>1 DEF DigestRuns
  <2>3. dgRuns' = [dgRuns EXCEPT ![s] = AfterGather(r)]
    BY <2>1 DEF GatherEnds, DigestGoes
  <2>4. AfterGather(r) \in DigestRuns /\ (AfterGather(r).pc # "idle" => AfterGather(r).at = r.at)
    <3>1. [r EXCEPT !.pc = "deliver", !.left = DgNotifiers] \in DigestRuns
            /\ [r EXCEPT !.pc = "deliver", !.left = DgNotifiers].at = r.at
      BY <2>2 DEF DigestRuns
    <3> QED
      BY <3>1, NotSendingIsARun DEF AfterGather
  <2> QED
    BY <2>2, <2>3, <2>4
<1>3. SentInv'
  BY <1>1, <1>2, SentKept
<1>4. dgDoubt' \subseteq Weeks /\ dgSent' \in [DgNotifiers -> [Weeks -> Nat]]
  BY <1>1 DEF DgInv, DigestTypes
<1> QED
  BY <1>1, <1>2, <1>3, <1>4, RunMoves

\* A settled channel is none of those left.
LEMMA SettledRun ==
  ASSUME NEW run \in DigestRuns, NEW n, run.pc = "deliver", n \in run.left
  PROVE  /\ DigestSettled(run, n) \in DigestRuns /\ DigestSettled(run, n).pc \in {"idle", "deliver"}
         /\ DigestSettled(run, n).pc = "deliver" =>
              DigestSettled(run, n).left = run.left \ {n} /\ DigestSettled(run, n).at = run.at
<1>1. CASE run.left = {n}
  BY <1>1, NotSendingIsARun DEF DigestSettled
<1>2. CASE run.left # {n}
  <2>1. PICK m : m = [run EXCEPT !.left = @ \ {n}, !.try = 0]
    OBVIOUS
  <2>2. m \in DigestRuns /\ m.pc = "deliver" /\ m.left = run.left \ {n} /\ m.at = run.at
    BY <2>1 DEF DigestRuns
  <2>3. DigestSettled(run, n) = m
    BY <1>2, <2>1 DEF DigestSettled
  <2> QED
    BY <2>2, <2>3
<1> QED
  BY <1>1, <1>2

\* An accepted delivery keeps the invariant.
LEMMA DeliveredToInv ==
  ASSUME DgInv, NEW s \in DigestSenders, NEW n \in DgNotifiers, DeliveredTo(s, n)
  PROVE  DgInv'
<1>1. /\ dgRuns[s] \in DigestRuns /\ dgRuns[s].pc = "deliver" /\ n \in dgRuns[s].left
      /\ DigestStill /\ dgDoubt' = dgDoubt /\ DigestAccepted(s, n)
      /\ dgRuns' = [dgRuns EXCEPT ![s] = DigestSettled(dgRuns[s], n)]
  BY DEF DeliveredTo, NextNotifier, DigestGoes, DgInv, DigestTypes
<1>2. PICK run \in DigestRuns : /\ run = DigestSettled(dgRuns[s], n) /\ run.pc \in {"idle", "deliver"}
                                /\ run.pc = "deliver" => run.left = dgRuns[s].left \ {n} /\ run.at = dgRuns[s].at
  BY <1>1, SettledRun
<1>3. dgRuns' = [dgRuns EXCEPT ![s] = run]
  BY <1>1, <1>2
<1>4. run.pc = "deliver" => run.left \subseteq dgRuns[s].left /\ n \notin run.left
  BY <1>2
<1>5. SentInv' /\ dgSent' \in [DgNotifiers -> [Weeks -> Nat]]
  BY <1>1, <1>2, <1>3, <1>4, SentOnce
<1>6. dgDoubt' \subseteq Weeks
  BY <1>1 DEF DgInv, DigestTypes
<1> QED
  BY <1>1, <1>2, <1>3, <1>5, <1>6, RunMoves

\* A failed attempt keeps the invariant: only a mail is tried again, and one that
\* was accepted puts its week in doubt.
LEMMA AttemptFailsInv ==
  ASSUME DgInv, NEW s \in DigestSenders, NEW n \in DgNotifiers, NEW transient \in BOOLEAN, NEW accepted \in BOOLEAN,
         AttemptFails(s, n, transient, accepted)
  PROVE  DgInv'
<1>1. /\ dgRuns[s] \in DigestRuns /\ dgRuns[s].pc = "deliver" /\ n \in dgRuns[s].left /\ DigestStill
      /\ dgDoubt' = IF accepted /\ s = "scheduler" THEN dgDoubt \cup {WeekOf(dgNow)} ELSE dgDoubt
  BY DEF AttemptFails, NextNotifier, DgInv, DigestTypes
<1>2. PICK run \in DigestRuns :
        /\ dgRuns' = [dgRuns EXCEPT ![s] = run]
        /\ run.pc \in {"idle", "deliver"}
        /\ run.pc = "deliver" => run.left \subseteq dgRuns[s].left /\ run.at = dgRuns[s].at
        /\ run.pc = "deliver" /\ n \in run.left => n = "email"
  <2>1. CASE TriesAgain(n, dgRuns[s].try, transient)
    <3>1. PICK run : run = [dgRuns[s] EXCEPT !.try = @ + 1]
      OBVIOUS
    <3>2. run \in DigestRuns /\ run.pc = "deliver" /\ run.left = dgRuns[s].left /\ run.at = dgRuns[s].at
      BY <1>1, <3>1 DEF DigestRuns
    <3>3. dgRuns' = [dgRuns EXCEPT ![s] = run]
      BY <2>1, <3>1 DEF AttemptFails, DigestGoes
    <3>4. n = "email"
      BY <2>1 DEF TriesAgain
    <3> QED
      BY <3>2, <3>3, <3>4
  <2>2. CASE ~TriesAgain(n, dgRuns[s].try, transient)
    <3>1. PICK r : r = [dgRuns[s] EXCEPT !.errs = TRUE]
      OBVIOUS
    <3>2. r \in DigestRuns /\ r.pc = "deliver" /\ r.left = dgRuns[s].left /\ r.at = dgRuns[s].at
      BY <1>1, <3>1 DEF DigestRuns
    <3>3. dgRuns' = [dgRuns EXCEPT ![s] = DigestSettled(r, n)]
      BY <2>2, <3>1 DEF AttemptFails, DigestGoes
    <3>4. /\ DigestSettled(r, n) \in DigestRuns /\ DigestSettled(r, n).pc \in {"idle", "deliver"}
          /\ DigestSettled(r, n).pc = "deliver" => DigestSettled(r, n).left = r.left \ {n} /\ DigestSettled(r, n).at = r.at
      BY <1>1, <3>2, SettledRun
    <3> QED
      BY <3>2, <3>3, <3>4
  <2> QED
    BY <2>1, <2>2
<1>3. dgDoubt \subseteq dgDoubt' /\ dgDoubt' \subseteq Weeks
  <2>1. dgDoubt \subseteq Weeks /\ dgNow \in 0 .. DgMaxTime
    BY DEF DgInv, DigestTypes
  <2>2. WeekOf(dgNow) \in Weeks
    BY <2>1, InWeeks
  <2> QED
    BY <1>1, <2>1, <2>2
<1>4. SentInv' /\ dgSent' \in [DgNotifiers -> [Weeks -> Nat]]
  <2>1. CASE accepted
    <3>1. DigestAccepted(s, n)
      BY <2>1 DEF AttemptFails
    <3>2. s = "scheduler" => WeekOf(dgNow) \in dgDoubt'
      BY <1>1, <2>1
    <3> QED
      BY <1>1, <1>2, <1>3, <3>1, <3>2, SentOnce
  <2>2. CASE ~accepted
    <3>1. dgSent' = dgSent
      BY <2>2 DEF AttemptFails
    <3>2. SentInv'
      BY <1>1, <1>2, <1>3, <3>1, SentKept
    <3> QED
      BY <3>1, <3>2 DEF DgInv, DigestTypes
  <2> QED
    BY <2>1, <2>2
<1> QED
  BY <1>1, <1>2, <1>3, <1>4, RunMoves

-----------------------------------------------------------------------------
(* The scheduler and the process. *)

\* The behaviour begins with the invariant.
LEMMA DgInitInv == DgInit => DgInv
<1> SUFFICES ASSUME DgInit PROVE DgInv
  OBVIOUS
<1>1. DigestTypes
  <2>1. dgRuns \in [DigestSenders -> DigestRuns]
    BY NotSendingIsARun DEF DgInit
  <2>2. 0 \in 0 .. DgMaxTime
    BY DigestLengths
  <2> QED
    BY <2>1, <2>2 DEF DgInit, DigestTypes
<1>2. ~SchedulerSends
  BY NotSendingIsARun DEF DgInit, SchedulerSends, DigestSenders
<1>3. TickInv /\ LastInv /\ SendingInv /\ FiredInv
  BY <1>2 DEF DgInit, TickInv, LastInv, SendingInv, FiredInv
<1>4. SentInv
  BY <1>2 DEF DgInit, SentInv
<1>5. FiresAtOnceInv
  <2> SUFFICES ASSUME NEW w \in Weeks, WeekAt(w) <= 0 PROVE w = 0
    BY DEF DgInit, FiresAtOnceInv
  <2> QED
    BY WeeksCount, DigestLengths
<1> QED
  BY <1>1, <1>3, <1>4, <1>5 DEF DgInv

\* A free scheduler in a week that has not fired is in that week's first minutes.
LEMMA FreeUntilItFires ==
  ASSUME DgInv, NEW w \in Weeks, WeekAt(w) <= dgNow, w \notin dgFired, w \notin dgDown
  PROVE  ~SchedulerSends
<1> SUFFICES ASSUME SchedulerSends PROVE FALSE
  OBVIOUS
<1>1. /\ dgLast \in Nat /\ dgNow \in Nat /\ WeekOf(dgNow) = WeekOf(dgLast)
      /\ WeekOf(dgNow) \in dgFired
  BY SendsInItsWeek
<1>2. w \in Nat /\ WeekAt(w) \in Nat
  BY WeeksCount
<1>3. dgNow < WeekAt(w) + DgWeek
  BY <1>2, DigestLengths DEF DgInv, FiresAtOnceInv, DigestTypes
<1>4. WeekOf(dgNow) = w
  BY <1>1, <1>2, <1>3, OneWeek
<1> QED
  BY <1>1, <1>4

\* A minute passes.
LEMMA DgTickInv == ASSUME DgInv, DgTick PROVE DgInv'
<1>1. /\ dgNow \in 0 .. DgMaxTime /\ dgNow < DgMaxTime /\ dgNow' = dgNow + 1 /\ dgNow \in Nat
      /\ dgUp' = dgUp /\ dgLast' = dgLast /\ dgRuns' = dgRuns /\ dgFired' = dgFired /\ dgSent' = dgSent /\ dgDoubt' = dgDoubt
      /\ dgChan' = IF dgUp /\ dgChan = NoTick THEN dgNow' ELSE dgChan
      /\ dgDown' = IF ~dgUp /\ InHour(dgNow') THEN dgDown \cup {WeekOf(dgNow')} ELSE dgDown
  BY DigestLengths DEF DgTick, DgInv, DigestTypes
<1>2. dgNow' \in 0 .. DgMaxTime /\ dgNow' \in Nat /\ WeekOf(dgNow') \in Weeks
  <2>1. dgNow' \in 0 .. DgMaxTime
    BY <1>1, DigestLengths
  <2>2. PICK t \in 0 .. DgMaxTime : t = dgNow'
    BY <2>1
  <2>3. WeekOf(t) \in Weeks
    BY InWeeks
  <2> QED
    BY <2>2, <2>3, DigestLengths
<1>3. DigestTypes'
  BY <1>1, <1>2 DEF DgInv, DigestTypes
<1>4. SchedulerSends' = SchedulerSends
  BY <1>1 DEF SchedulerSends
<1>5. SchedulerSends => dgNow' <= dgLast + DgMaxRun /\ dgNow - dgLast < DgMaxRun
  <2>1. SchedulerSends => dgNow - dgRuns["scheduler"].at < DgMaxRun
    BY DEF DgTick, SchedulerSends, DigestSenders
  <2>2. SchedulerSends => dgRuns["scheduler"].at = dgLast /\ dgLast \in Nat
    BY SendsInItsWeek DEF DgInv, SendingInv
  <2> QED
    BY <1>1, <2>1, <2>2, DigestLengths
<1>6. TickInv'
  <2>1. CASE dgUp /\ dgChan = NoTick
    BY <1>1, <1>2, <2>1 DEF TickInv
  <2>2. CASE dgChan # NoTick /\ SchedulerSends
    <3>1. dgUp /\ dgLast \in Nat /\ dgLast # NoTick /\ dgChan \in Nat /\ dgChan <= dgNow
      BY <2>2, SendsInItsWeek DEF DgInv, DigestTypes, TickInv, SendingInv
    <3> QED
      BY <1>1, <1>5, <2>2, <3>1, DigestLengths DEF TickInv
  <2>3. CASE dgChan # NoTick /\ ~SchedulerSends
    <3>1. ~dgUp
      BY <2>3 DEF DgTick, SchedulerSends
    <3> QED
      BY <3>1, <2>3 DEF DgInv, TickInv
  <2>4. CASE ~dgUp /\ dgChan = NoTick
    BY <1>1, <2>4 DEF TickInv
  <2> QED
    BY <2>1, <2>2, <2>3, <2>4
<1>7. LastInv'
  BY <1>1, DigestLengths DEF DgInv, LastInv, DigestTypes
<1>8. SendingInv'
  BY <1>1, <1>4, <1>5 DEF DgInv, SendingInv
<1>9. FiredInv'
  <2> SUFFICES ASSUME NEW w \in dgFired
               PROVE  /\ WeekAt(w) <= dgNow'
                      /\ w \notin dgDown' /\ dgNow' < WeekAt(w) + DgHour => dgLast # NoTick /\ WeekOf(dgLast) = w
    BY <1>1 DEF FiredInv
  <2>1. w \in Weeks /\ WeekAt(w) \in Nat
    BY WeeksCount DEF DgInv, DigestTypes
  <2>2. /\ WeekAt(w) <= dgNow
        /\ w \notin dgDown /\ dgNow < WeekAt(w) + DgHour => dgLast # NoTick /\ WeekOf(dgLast) = w
    BY DEF DgInv, FiredInv
  <2> QED
    BY <1>1, <2>1, <2>2, DigestLengths
<1>10. SentInv'
  <2>1. dgDown \subseteq dgDown'
    BY <1>1
  <2> SUFFICES ASSUME NEW n \in DgNotifiers, NEW w \in Weeks
               PROVE  /\ w \notin dgFired => dgSent[n][w] = 0
                      /\ w \notin dgDown' /\ (n = "email" => w \notin dgDoubt) =>
                           /\ dgSent[n][w] <= 1
                           /\ SchedulerSends /\ WeekOf(dgLast) = w
                                /\ (dgRuns["scheduler"].pc = "deliver" => n \in dgRuns["scheduler"].left) => dgSent[n][w] = 0
    BY <1>1, <1>4 DEF SentInv
  <2> QED
    BY <2>1 DEF DgInv, SentInv
<1>11. FiresAtOnceInv'
  <2> SUFFICES ASSUME NEW w \in Weeks, WeekAt(w) <= dgNow', w \notin dgFired, w \notin dgDown'
               PROVE  /\ dgUp
                      /\ \/ dgNow' = WeekAt(w) /\ dgChan' = dgNow'
                         \/ w = 0 /\ dgNow' = 0 /\ dgChan' = NoTick
                         \/ w = 0 /\ dgNow' = 1 /\ dgChan' = 1
    BY <1>1 DEF FiresAtOnceInv
  <2>1. w \in Nat /\ WeekAt(w) \in Nat /\ w \notin dgDown
    BY <1>1, WeeksCount
  <2>2. CASE WeekAt(w) <= dgNow
    <3>1. ~SchedulerSends
      BY <2>1, <2>2, FreeUntilItFires
    <3>2. /\ dgUp
          /\ \/ dgNow = WeekAt(w) /\ dgChan = dgNow
             \/ w = 0 /\ dgNow = 0 /\ dgChan = NoTick
             \/ w = 0 /\ dgNow = 1 /\ dgChan = 1
      BY <2>1, <2>2 DEF DgInv, FiresAtOnceInv
    <3>3. dgChan = NoTick
      BY <3>1, <3>2 DEF DgTick, SchedulerSends
    <3> QED
      BY <1>1, <3>2, <3>3 DEF NoTick
  <2>3. CASE ~(WeekAt(w) <= dgNow)
    <3>1. dgNow' = WeekAt(w)
      BY <1>1, <2>1, <2>3
    <3>2. PICK t \in Nat : t = dgNow'
      BY <1>2
    <3>3. WeekOf(t) = w /\ InHour(t)
      <4>1. WeekOf(t) = w
        BY <2>1, <3>1, <3>2, OneWeek, DigestLengths
      <4> QED
        BY <2>1, <3>1, <3>2, <4>1, WeekOfMinute, DigestLengths
    <3>4. dgUp
      BY <1>1, <3>2, <3>3
    <3>5. ~SchedulerSends
      <4> SUFFICES ASSUME SchedulerSends PROVE FALSE
        OBVIOUS
      <4>1. dgLast \in Nat /\ WeekOf(dgLast) \in dgFired /\ InHour(dgLast)
        BY SendsInItsWeek DEF DgInv, LastInv, SendingInv
      <4>2. PICK v \in Nat : v = WeekOf(dgLast) /\ WeekAt(v) \in Nat /\ WeekAt(v) <= dgLast /\ dgLast < WeekAt(v) + DgHour
        BY <4>1, WeekOfMinute
      <4>3. dgLast < dgNow'
        BY <1>1, <4>1 DEF DgInv, LastInv, NoTick
      <4>4. v < w
        <5>1. v # w
          BY <4>1, <4>2
        <5>2. CASE w < v
          BY <2>1, <3>1, <4>1, <4>2, <4>3, <5>2, WeeksApart, DigestLengths
        <5> QED
          BY <2>1, <4>2, <5>1, <5>2
      <4>5. WeekAt(v) + DgWeek <= WeekAt(w)
        BY <2>1, <4>2, <4>4, WeeksApart
      <4> QED
        BY <1>1, <1>5, <2>1, <3>1, <4>1, <4>2, <4>5, DigestLengths
    <3>6. dgChan = NoTick
      BY <3>4, <3>5 DEF DgTick, SchedulerSends
    <3> QED
      BY <1>1, <3>1, <3>4, <3>6
  <2> QED
    BY <2>2, <2>3
<1> QED
  BY <1>3, <1>6, <1>7, <1>8, <1>9, <1>10, <1>11 DEF DgInv

\* What a scheduler that fires may rely on: the tick is this minute's, and the week
\* has not fired, unless the process was down in its hour.
LEMMA DueTick ==
  ASSUME DgInv, dgChan # NoTick, DigestDue(dgChan), dgUp, ~SchedulerSends
  PROVE  /\ dgChan = dgNow /\ dgNow \in Nat /\ InHour(dgNow)
         /\ WeekOf(dgNow) \in dgFired => WeekOf(dgNow) \in dgDown
<1>1. dgNow \in Nat /\ dgChan \in Nat /\ dgLast \in Nat \cup {NoTick}
  BY DigestLengths DEF DgInv, DigestTypes
<1>2. dgChan = dgNow
  BY <1>1 DEF DgInv, TickInv, DigestDue
<1>3. InHour(dgNow) /\ (dgLast # NoTick => ~(dgNow - dgLast < DgRefire))
  BY <1>2 DEF DigestDue
<1>4. PICK v \in Nat : /\ v = WeekOf(dgNow) /\ WeekAt(v) \in Nat /\ WeekAt(v) <= dgNow /\ dgNow < WeekAt(v) + DgHour
  BY <1>1, <1>3, WeekOfMinute
<1>5. ASSUME v \in dgFired, v \notin dgDown PROVE FALSE
  <2>1. dgLast # NoTick /\ WeekOf(dgLast) = v
    BY <1>4, <1>5 DEF DgInv, FiredInv
  <2>2. dgLast \in Nat /\ WeekAt(v) <= dgLast
    BY <1>1, <2>1, WeekOfMinute
  <2> QED
    BY <1>1, <1>3, <1>4, <2>1, <2>2, DigestLengths
<1> QED
  BY <1>1, <1>2, <1>3, <1>4, <1>5

\* The scheduler takes a tick.
LEMMA SchedulerTickInv == ASSUME DgInv, SchedulerTick PROVE DgInv'
<1>1. /\ dgUp /\ ~SchedulerSends /\ dgChan # NoTick /\ dgChan' = NoTick
      /\ dgNow' = dgNow /\ dgUp' = dgUp /\ dgSent' = dgSent /\ dgDown' = dgDown /\ dgDoubt' = dgDoubt
  BY DEF SchedulerTick, SchedulerSends
<1>2. CASE DigestDue(dgChan)
  <2>1. /\ dgChan = dgNow /\ dgNow \in Nat /\ InHour(dgNow)
        /\ WeekOf(dgNow) \in dgFired => WeekOf(dgNow) \in dgDown
    BY <1>1, <1>2, DueTick
  <2>2. PICK run : run = [NotSending EXCEPT !.pc = "list", !.at = dgNow]
    OBVIOUS
  <2>3. dgLast' = dgNow /\ dgFired' = dgFired \cup {WeekOf(dgNow)} /\ dgRuns' = [dgRuns EXCEPT !["scheduler"] = run]
    BY <1>2, <2>1, <2>2 DEF SchedulerTick, DigestStarts
  <2>4. run \in DigestRuns /\ run.pc = "list" /\ run.at = dgNow
    BY <2>1, <2>2 DEF NotSending, DigestRuns
  <2>5. PICK v \in Weeks : /\ v = WeekOf(dgNow) /\ v \in Nat /\ WeekAt(v) \in Nat
                           /\ WeekAt(v) <= dgNow /\ dgNow < WeekAt(v) + DgHour
    BY <2>1, WeekOfMinute, InWeeks DEF DgInv, DigestTypes
  <2>6. DigestTypes'
    BY <1>1, <2>1, <2>3, <2>4, <2>5 DEF DgInv, DigestTypes
  <2>7. dgRuns'["scheduler"] = run
    BY <2>3 DEF DgInv, DigestTypes, DigestSenders
  <2>8. TickInv' /\ LastInv' /\ SendingInv'
    <3>1. TickInv'
      BY <1>1 DEF TickInv
    <3>2. LastInv'
      BY <1>1, <2>1, <2>3 DEF LastInv
    <3>3. dgNow <= dgNow + DgMaxRun /\ dgNow # NoTick
      BY <2>1, DigestLengths DEF NoTick
    <3>4. SendingInv'
      BY <1>1, <2>3, <2>4, <2>7, <3>3 DEF SendingInv
    <3> QED
      BY <3>1, <3>2, <3>4
  <2>9. FiredInv'
    <3> SUFFICES ASSUME NEW w \in dgFired'
                 PROVE  /\ WeekAt(w) <= dgNow
                        /\ w \notin dgDown /\ dgNow < WeekAt(w) + DgHour => dgNow # NoTick /\ WeekOf(dgNow) = w
      BY <1>1, <2>3 DEF FiredInv
    <3>1. dgNow # NoTick
      BY <2>1 DEF NoTick
    <3>2. CASE w = v
      BY <2>5, <3>1, <3>2
    <3>3. CASE w # v
      <4>1. w \in dgFired /\ w \in Nat /\ WeekAt(w) \in Nat
        BY <2>3, <2>5, <3>3, WeeksCount DEF DgInv, DigestTypes
      <4>2. WeekAt(w) <= dgNow
        BY <4>1 DEF DgInv, FiredInv
      <4>3. dgNow < WeekAt(w) + DgHour => WeekOf(dgNow) = w
        BY <2>1, <4>1, <4>2, OneWeek, DigestLengths
      <4> QED
        BY <3>1, <4>2, <4>3
    <3> QED
      BY <3>2, <3>3
  <2>10. SentInv'
    <3> SUFFICES ASSUME NEW n \in DgNotifiers, NEW w \in Weeks
                 PROVE  /\ w \notin dgFired' => dgSent[n][w] = 0
                        /\ w \notin dgDown /\ (n = "email" => w \notin dgDoubt) =>
                             dgSent[n][w] <= 1 /\ (WeekOf(dgNow) = w => dgSent[n][w] = 0)
      BY <1>1, <2>3 DEF SentInv
    <3>1. /\ w \notin dgFired => dgSent[n][w] = 0
          /\ w \notin dgDown /\ (n = "email" => w \notin dgDoubt) => dgSent[n][w] <= 1
      BY DEF DgInv, SentInv
    <3> QED
      BY <2>1, <2>3, <3>1
  <2>11. FiresAtOnceInv'
    <3> SUFFICES ASSUME NEW w \in Weeks, WeekAt(w) <= dgNow, w \notin dgFired', w \notin dgDown PROVE FALSE
      BY <1>1 DEF FiresAtOnceInv
    <3>1. w \in Nat /\ WeekAt(w) \in Nat /\ w \notin dgFired /\ w # v
      BY <2>3, <2>5, WeeksCount
    <3>2. \/ dgNow = WeekAt(w)
          \/ w = 0 /\ dgNow = 0
          \/ w = 0 /\ dgNow = 1
      BY <3>1 DEF DgInv, FiresAtOnceInv
    <3>3. dgNow < WeekAt(w) + DgWeek
      BY <3>1, <3>2, DigestLengths
    <3>4. WeekOf(dgNow) = w
      BY <2>1, <3>1, <3>3, OneWeek
    <3> QED
      BY <2>5, <3>1, <3>4
  <2> QED
    BY <2>6, <2>8, <2>9, <2>10, <2>11 DEF DgInv
<1>3. CASE ~DigestDue(dgChan)
  <2>1. dgLast' = dgLast /\ dgFired' = dgFired /\ dgRuns' = dgRuns
    BY <1>3 DEF SchedulerTick
  <2>2. DigestTypes'
    BY <1>1, <2>1 DEF DgInv, DigestTypes
  <2>3. SchedulerSends' = SchedulerSends
    BY <2>1 DEF SchedulerSends
  <2>4. TickInv' /\ LastInv' /\ SendingInv' /\ FiredInv' /\ SentInv'
    BY <1>1, <2>1, <2>3 DEF DgInv, TickInv, LastInv, SendingInv, FiredInv, SentInv
  <2>5. FiresAtOnceInv'
    <3> SUFFICES ASSUME NEW w \in Weeks, WeekAt(w) <= dgNow, w \notin dgFired, w \notin dgDown PROVE FALSE
      BY <1>1, <2>1 DEF FiresAtOnceInv
    <3>1. w \in Nat /\ WeekAt(w) \in Nat /\ dgNow \in Nat /\ dgLast \in Nat \cup {NoTick}
      BY WeeksCount, DigestLengths DEF DgInv, DigestTypes
    <3>2. dgChan = dgNow /\ (dgNow = WeekAt(w) \/ (w = 0 /\ dgNow = 1))
      BY <1>1 DEF DgInv, FiresAtOnceInv
    <3>3. WeekAt(w) <= dgNow /\ dgNow < WeekAt(w) + DgHour
      BY <3>1, <3>2, WeeksCount, DigestLengths
    <3>4. WeekOf(dgNow) = w /\ InHour(dgNow)
      <4>1. WeekOf(dgNow) = w
        BY <3>1, <3>3, OneWeek, DigestLengths
      <4> QED
        BY <3>1, <3>3, <4>1, WeekOfMinute
    <3>5. dgLast \in Nat /\ dgNow - dgLast < DgRefire
      BY <1>3, <3>1, <3>2, <3>4 DEF DigestDue
    <3>6. dgLast <= dgNow /\ InHour(dgLast) /\ WeekOf(dgLast) \in dgFired
      BY <3>5 DEF DgInv, LastInv, NoTick
    <3>7. PICK v \in Nat : v = WeekOf(dgLast) /\ WeekAt(v) \in Nat /\ WeekAt(v) <= dgLast /\ dgLast < WeekAt(v) + DgHour
      BY <3>5, <3>6, WeekOfMinute
    <3>8. v < w
      <4>1. v # w
        BY <3>6, <3>7
      <4>2. CASE w < v
        BY <3>1, <3>3, <3>5, <3>6, <3>7, <4>2, WeeksApart, DigestLengths
      <4> QED
        BY <3>1, <3>7, <4>1, <4>2
    <3>9. WeekAt(v) + DgWeek <= WeekAt(w)
      BY <3>1, <3>7, <3>8, WeeksApart
    <3> QED
      BY <3>1, <3>3, <3>5, <3>7, <3>9, DigestLengths
  <2> QED
    BY <2>2, <2>4, <2>5 DEF DgInv
<1> QED
  BY <1>2, <1>3

\* An administrator asks for a digest: the scheduler's is none of it.
LEMMA TriggerDigestInv == ASSUME DgInv, TriggerDigest PROVE DgInv'
<1>1. /\ dgRuns' = [dgRuns EXCEPT !["request"] = [NotSending EXCEPT !.pc = "list", !.at = dgNow]]
      /\ UNCHANGED <<dgNow, dgUp, dgChan, dgLast, dgFired, dgSent, dgDown, dgDoubt>>
  BY DEF TriggerDigest, DigestStarts
<1>2. dgNow \in Nat
  BY DigestLengths DEF DgInv, DigestTypes
<1>3. [NotSending EXCEPT !.pc = "list", !.at = dgNow] \in DigestRuns
  BY <1>2 DEF NotSending, DigestRuns
<1>4. DigestTypes'
  BY <1>1, <1>3 DEF DgInv, DigestTypes
<1>5. dgRuns'["scheduler"] = dgRuns["scheduler"]
  BY <1>1 DEF DgInv, DigestTypes, DigestSenders
<1>6. SchedulerSends' = SchedulerSends
  BY <1>5 DEF SchedulerSends
<1> QED
  BY <1>1, <1>4, <1>5, <1>6 DEF DgInv, TickInv, LastInv, SendingInv, FiredInv, SentInv, FiresAtOnceInv

\* The process stops.
LEMMA DgStopInv == ASSUME DgInv, DgStop PROVE DgInv'
<1>1. /\ dgUp' = FALSE /\ dgChan' = NoTick /\ dgLast' = NoTick /\ dgRuns' = [s \in DigestSenders |-> NotSending]
      /\ dgDown' = IF InHour(dgNow) THEN dgDown \cup {WeekOf(dgNow)} ELSE dgDown
      /\ dgNow' = dgNow /\ dgFired' = dgFired /\ dgSent' = dgSent /\ dgDoubt' = dgDoubt
  BY DEF DgStop
<1>2. dgNow \in Nat /\ WeekOf(dgNow) \in Weeks
  BY InWeeks, DigestLengths DEF DgInv, DigestTypes
<1>3. DigestTypes'
  <2>1. dgRuns' \in [DigestSenders -> DigestRuns]
    BY <1>1, NotSendingIsARun
  <2> QED
    BY <1>1, <1>2, <2>1 DEF DgInv, DigestTypes
<1>4. ~SchedulerSends'
  BY <1>1, NotSendingIsARun DEF SchedulerSends, DigestSenders
<1>5. TickInv' /\ LastInv' /\ SendingInv'
  BY <1>1, <1>4 DEF TickInv, LastInv, SendingInv
<1>6. \A w \in Weeks : WeekAt(w) <= dgNow /\ dgNow < WeekAt(w) + DgHour => w \in dgDown'
  <2> SUFFICES ASSUME NEW w \in Weeks, WeekAt(w) <= dgNow, dgNow < WeekAt(w) + DgHour PROVE w \in dgDown'
    OBVIOUS
  <2>1. w \in Nat /\ WeekAt(w) \in Nat
    BY WeeksCount
  <2>2. WeekOf(dgNow) = w
    BY <1>2, <2>1, OneWeek, DigestLengths
  <2>3. InHour(dgNow)
    BY <1>2, <2>2, WeekOfMinute
  <2> QED
    BY <1>1, <2>2, <2>3
<1>7. FiredInv'
  <2> SUFFICES ASSUME NEW w \in dgFired
               PROVE  /\ WeekAt(w) <= dgNow
                      /\ w \notin dgDown' => ~(dgNow < WeekAt(w) + DgHour)
    BY <1>1 DEF FiredInv
  <2> QED
    BY <1>6 DEF DgInv, FiredInv, DigestTypes
<1>8. dgDown \subseteq dgDown'
  BY <1>1
<1>9. SentInv'
  <2> SUFFICES ASSUME NEW n \in DgNotifiers, NEW w \in Weeks
               PROVE  /\ w \notin dgFired => dgSent[n][w] = 0
                      /\ w \notin dgDown' /\ (n = "email" => w \notin dgDoubt) => dgSent[n][w] <= 1
    BY <1>1, <1>4 DEF SentInv
  <2> QED
    BY <1>8 DEF DgInv, SentInv
<1>10. FiresAtOnceInv'
  <2> SUFFICES ASSUME NEW w \in Weeks, WeekAt(w) <= dgNow, w \notin dgFired, w \notin dgDown' PROVE FALSE
    BY <1>1 DEF FiresAtOnceInv
  <2>1. dgNow = WeekAt(w) \/ (w = 0 /\ dgNow <= 1)
    BY <1>2, <1>8 DEF DgInv, FiresAtOnceInv
  <2>2. dgNow < WeekAt(w) + DgHour
    BY <1>2, <2>1, WeeksCount, DigestLengths
  <2> QED
    BY <1>6, <2>2
<1> QED
  BY <1>3, <1>5, <1>7, <1>9, <1>10 DEF DgInv

\* The process starts.
LEMMA DgStartInv == ASSUME DgInv, DgStart PROVE DgInv'
<1>1. dgUp' = TRUE /\ UNCHANGED <<dgNow, dgChan, dgLast, dgRuns, dgFired, dgSent, dgDown, dgDoubt>>
  BY DEF DgStart
<1>2. SchedulerSends' = SchedulerSends
  BY <1>1 DEF SchedulerSends
<1> QED
  BY <1>1, <1>2 DEF DgInv, DigestTypes, TickInv, LastInv, SendingInv, FiredInv, SentInv, FiresAtOnceInv

\* Every step keeps the invariant.
LEMMA DgStep == ASSUME DgInv, [DgNext]_dgVars PROVE DgInv'
<1>1. CASE UNCHANGED dgVars
  <2>1. UNCHANGED <<dgNow, dgUp, dgChan, dgLast, dgRuns, dgFired, dgSent, dgDown, dgDoubt>>
    BY <1>1 DEF dgVars
  <2>2. SchedulerSends' = SchedulerSends
    BY <2>1 DEF SchedulerSends
  <2> QED
    BY <2>1, <2>2 DEF DgInv, DigestTypes, TickInv, LastInv, SendingInv, FiredInv, SentInv, FiresAtOnceInv
<1>2. ASSUME NEW s \in DigestSenders, NEW ok \in BOOLEAN, ListsProjects(s, ok) \/ Gather(s, ok) \/ GatherEnds(s, ok)
      PROVE  DgInv'
  BY <1>2, ListsProjectsInv, GatherInv, GatherEndsInv
<1>3. ASSUME NEW s \in DigestSenders, NEW n \in DgNotifiers,
             DeliveredTo(s, n) \/ \E transient, accepted \in BOOLEAN : AttemptFails(s, n, transient, accepted)
      PROVE  DgInv'
  BY <1>3, DeliveredToInv, AttemptFailsInv
<1> QED
  BY <1>1, <1>2, <1>3, DgTickInv, SchedulerTickInv, TriggerDigestInv, DgStopInv, DgStartInv DEF DgNext

-----------------------------------------------------------------------------
(* The weekly digest: what was lost. *)

\* Channel n has accepted the digest of week w, or there is a cause why it did not.
Served(n, w) == dgSent[n][w] > 0 \/ WhyUnsent(n, w)

LossTypes ==
  /\ dgCut \subseteq Weeks /\ dgUnlisted \subseteq Weeks
  /\ dgUngathered \in [Weeks -> SUBSET DgProjects] /\ dgUndelivered \in [DgNotifiers -> SUBSET Weeks]

\* Every cause has cost a fault.
FaultInv ==
  /\ dgFaults \in Nat
  /\ dgFaults = 0 => /\ dgUp /\ dgDown = {} /\ dgDoubt = {} /\ dgCut = {} /\ dgUnlisted = {}
                     /\ \A w \in Weeks : dgUngathered[w] = {}
                     /\ \A n \in DgNotifiers : dgUndelivered[n] = {}

\* Of the active projects it has asked for, a digest has the numbers or has lost them.
GatheredInv ==
  SchedulerSends /\ dgRuns["scheduler"].pc = "gather" =>
    /\ dgRuns["scheduler"].next >= 1
    /\ \A p \in DgActive : p < dgRuns["scheduler"].next =>
         p \in dgRuns["scheduler"].report \cup dgUngathered[WeekOf(dgLast)]

\* A channel of a week that fired is served, or the digest under way still has to serve it.
ServedInv ==
  \A n \in DgNotifiers, w \in dgFired :
    \/ Served(n, w)
    \/ /\ SchedulerSends /\ WeekOf(dgLast) = w
       /\ dgRuns["scheduler"].pc = "deliver" => n \in dgRuns["scheduler"].left

DgLossInv == LossTypes /\ FaultInv /\ GatheredInv /\ ServedInv

\* The projects are numbered from 1, and the active ones are among them.
LEMMA ProjectsNumbered ==
  /\ DgActive \subseteq DgProjects /\ DgProjects \subseteq Nat \ {0}
  /\ \A k \in Nat : k >= 1 /\ k \notin DgProjects => \A p \in DgProjects : p < k
<1>1. PICK c \in Nat : DgProjects = 1 .. c
  BY WeeklyDigestAssumption, FS_CardinalityType
<1>2. DgActive \subseteq DgProjects
  BY WeeklyDigestAssumption
<1> QED
  BY <1>1, <1>2

\* A fault allows every cause.
LEMMA FaultCounts == ASSUME FaultInv, DigestFails PROVE FaultInv'
  BY DEF FaultInv, DigestFails

\* A step without a fault that adds no cause keeps that every cause cost one.
LEMMA NoFaultNoCause ==
  ASSUME FaultInv, UNCHANGED <<dgFaults, dgUp, dgDown, dgDoubt, dgLosses>> PROVE FaultInv'
  BY DEF FaultInv, dgLosses

\* Losing projects adds them to the week's, if it is the scheduler's digest that does.
LEMMA ProjectsLost ==
  ASSUME LossTypes, NEW s \in DigestSenders, NEW ps, DigestLosesProjects(s, ps),
         NEW v \in Weeks, s = "scheduler" => WeekOf(dgNow) = v
  PROVE  /\ dgUngathered' \in [Weeks -> SUBSET DgProjects]
         /\ \A w \in Weeks : dgUngathered[w] \subseteq dgUngathered'[w]
         /\ s = "scheduler" => dgUngathered'[v] = dgUngathered[v] \cup (ps \cap DgActive)
         /\ s # "scheduler" \/ ps = {} => dgUngathered' = dgUngathered
<1>1. dgUngathered \in [Weeks -> SUBSET DgProjects] /\ DgActive \subseteq DgProjects
  BY ProjectsNumbered DEF LossTypes
<1>2. CASE s = "scheduler"
  <2>1. dgUngathered' = [dgUngathered EXCEPT ![v] = dgUngathered[v] \cup (ps \cap DgActive)]
    BY <1>2 DEF DigestLosesProjects
  <2> QED
    BY <1>1, <1>2, <2>1
<1>3. CASE s # "scheduler"
  BY <1>1, <1>3 DEF DigestLosesProjects
<1> QED
  BY <1>2, <1>3

\* A requested digest is nobody's week.
LEMMA RequestLosesNothing ==
  ASSUME DgInv, DgLossInv, DigestStill, dgRuns'["scheduler"] = dgRuns["scheduler"], dgSent' = dgSent, dgLosses' = dgLosses
  PROVE  LossTypes' /\ GatheredInv' /\ ServedInv'
<1>1. SchedulerSends' = SchedulerSends
  BY DEF SchedulerSends
<1>2. UNCHANGED <<dgFired, dgDown, dgLast, dgCut, dgUnlisted, dgUngathered, dgUndelivered>>
  BY DEF DigestStill, dgLosses
<1>3. LossTypes' /\ GatheredInv'
  BY <1>1, <1>2 DEF DgLossInv, LossTypes, GatheredInv
<1>4. ServedInv'
  BY <1>1, <1>2 DEF DgLossInv, ServedInv, Served, WhyUnsent
<1> QED
  BY <1>3, <1>4

\* A step of the scheduler's digest keeps every channel served or waiting, if it does
\* so for the channels that waited.
LEMMA SchedulerServes ==
  ASSUME DgInv, DgLossInv, DigestStill, SchedulerSends,
         NEW run \in DigestRuns, dgRuns' = [dgRuns EXCEPT !["scheduler"] = run],
         NEW v \in Weeks, v = WeekOf(dgLast),
         dgCut' = dgCut, dgUnlisted \subseteq dgUnlisted',
         \A w \in Weeks : dgUngathered[w] \subseteq dgUngathered'[w],
         \A n \in DgNotifiers : dgUndelivered[n] \subseteq dgUndelivered'[n],
         \A n \in DgNotifiers, w \in Weeks : dgSent[n][w] > 0 => dgSent'[n][w] > 0,
         run.pc = "gather" =>
           run.next >= 1 /\ \A p \in DgActive : p < run.next => p \in run.report \cup dgUngathered'[v],
         \A n \in DgNotifiers : (dgRuns["scheduler"].pc = "deliver" => n \in dgRuns["scheduler"].left) =>
           Served(n, v)' \/ (run.pc # "idle" /\ (run.pc = "deliver" => n \in run.left))
  PROVE  GatheredInv' /\ ServedInv'
<1>1. dgRuns'["scheduler"] = run
  BY DEF DgInv, DigestTypes, DigestSenders
<1>2. dgFired' = dgFired /\ dgDown' = dgDown /\ dgLast' = dgLast
  BY DEF DigestStill
<1>3. GatheredInv'
  BY <1>1, <1>2 DEF GatheredInv
<1>4. ASSUME NEW n \in DgNotifiers, NEW w \in dgFired
      PROVE  \/ Served(n, w)'
             \/ SchedulerSends' /\ WeekOf(dgLast) = w /\ (run.pc = "deliver" => n \in run.left)
  <2>1. w \in Weeks
    BY DEF DgInv, DigestTypes
  <2>2. Served(n, w) => Served(n, w)'
    BY <1>2, <2>1 DEF Served, WhyUnsent
  <2>3. \/ Served(n, w)
        \/ w = v /\ (dgRuns["scheduler"].pc = "deliver" => n \in dgRuns["scheduler"].left)
    BY DEF DgLossInv, ServedInv
  <2>4. CASE w = v /\ (dgRuns["scheduler"].pc = "deliver" => n \in dgRuns["scheduler"].left)
    <3>1. Served(n, v)' \/ (run.pc # "idle" /\ (run.pc = "deliver" => n \in run.left))
      BY <2>4
    <3>2. (run.pc # "idle") = SchedulerSends'
      BY <1>1 DEF SchedulerSends
    <3>3. Served(n, v)' = Served(n, w)'
      BY <2>4
    <3> QED
      BY <2>4, <3>1, <3>2, <3>3
  <2> QED
    BY <2>2, <2>3, <2>4
<1>5. ServedInv'
  BY <1>1, <1>2, <1>4 DEF ServedInv
<1> QED
  BY <1>3, <1>5

\* The week of the digest under way.
LEMMA WeekUnderWay ==
  ASSUME DgInv, SchedulerSends
  PROVE  \E v \in Weeks : v = WeekOf(dgLast) /\ v = WeekOf(dgNow)
  BY SendsInItsWeek

\* Projects that could not be listed are a cause.
LEMMA ListsProjectsLoss ==
  ASSUME DgInv, DgLossInv, NEW s \in DigestSenders, NEW ok \in BOOLEAN, ListsProjects(s, ok)
  PROVE  DgLossInv'
<1>1. /\ dgRuns \in [DigestSenders -> DigestRuns] /\ dgRuns[s].pc = "list" /\ DigestStill /\ dgDoubt' = dgDoubt
      /\ dgSent' = dgSent /\ dgCut' = dgCut /\ dgUngathered' = dgUngathered /\ dgUndelivered' = dgUndelivered
      /\ dgUnlisted' = IF ~ok /\ s = "scheduler" THEN dgUnlisted \cup {WeekOf(dgNow)} ELSE dgUnlisted
  BY DEF ListsProjects, DgInv, DigestTypes
<1>2. FaultInv'
  <2>1. CASE ok
    <3>1. UNCHANGED <<dgFaults, dgUp, dgDown, dgDoubt, dgLosses>>
      BY <1>1, <2>1 DEF ListsProjects, DigestStill, dgLosses
    <3> QED
      BY <3>1, NoFaultNoCause DEF DgLossInv
  <2>2. CASE ~ok
    BY <2>2, FaultCounts DEF ListsProjects, DgLossInv
  <2> QED
    BY <2>1, <2>2
<1>3. CASE s # "scheduler"
  <2>1. dgRuns'["scheduler"] = dgRuns["scheduler"] /\ dgLosses' = dgLosses
    BY <1>1, <1>3 DEF ListsProjects, DigestGoes, dgLosses, DigestSenders
  <2> QED
    BY <1>1, <1>2, <2>1, RequestLosesNothing DEF DgLossInv
<1>4. CASE s = "scheduler"
  <2>1. SchedulerSends
    BY <1>1, <1>4 DEF SchedulerSends
  <2>2. PICK v \in Weeks : v = WeekOf(dgLast) /\ v = WeekOf(dgNow)
    BY <2>1, WeekUnderWay
  <2>3. dgUnlisted' = IF ok THEN dgUnlisted ELSE dgUnlisted \cup {v}
    BY <1>1, <1>4, <2>2
  <2>4. LossTypes'
    BY <1>1, <2>3 DEF DgLossInv, LossTypes
  <2>5. PICK r \in DigestRuns : r = dgRuns["scheduler"]
    BY <1>1, <1>4
  <2>6. PICK run : run = IF ok THEN [r EXCEPT !.pc = "gather", !.next = 1] ELSE NotSending
    OBVIOUS
  <2>7. dgRuns' = [dgRuns EXCEPT !["scheduler"] = run]
    BY <1>4, <2>5, <2>6 DEF ListsProjects, DigestGoes
  <2>8. run \in DigestRuns /\ (ok => run.pc = "gather" /\ run.next = 1) /\ (~ok => run.pc = "idle")
    <3>1. [r EXCEPT !.pc = "gather", !.next = 1] \in DigestRuns
          /\ [r EXCEPT !.pc = "gather", !.next = 1].pc = "gather" /\ [r EXCEPT !.pc = "gather", !.next = 1].next = 1
      BY <2>5 DEF DigestRuns
    <3> QED
      BY <2>6, <3>1, NotSendingIsARun
  <2>9. run.pc = "gather" => run.next >= 1 /\ \A p \in DgActive : ~(p < run.next)
    BY <2>8, ProjectsNumbered
  <2>10. ~ok => \A n \in DgNotifiers : Served(n, v)'
    BY <2>3 DEF Served, WhyUnsent
  <2>11. GatheredInv' /\ ServedInv'
    BY <1>1, <2>1, <2>2, <2>3, <2>7, <2>8, <2>9, <2>10, SchedulerServes
  <2> QED
    BY <1>2, <2>4, <2>11 DEF DgLossInv
<1> QED
  BY <1>3, <1>4

\* A project's numbers are in the report, or lost.
LEMMA GatherLoss ==
  ASSUME DgInv, DgLossInv, NEW s \in DigestSenders, NEW ok \in BOOLEAN, Gather(s, ok)
  PROVE  DgLossInv'
<1>1. /\ dgRuns \in [DigestSenders -> DigestRuns] /\ dgRuns[s].pc = "gather" /\ DigestStill /\ dgDoubt' = dgDoubt
      /\ dgSent' = dgSent /\ dgCut' = dgCut /\ dgUnlisted' = dgUnlisted /\ dgUndelivered' = dgUndelivered
      /\ DigestLosesProjects(s, IF ok THEN {} ELSE {dgRuns[s].next})
  BY DEF Gather, DgInv, DigestTypes
<1>2. PICK ps : ps = IF ok THEN {} ELSE {dgRuns[s].next}
  OBVIOUS
<1>3. PICK v \in Weeks : s = "scheduler" => SchedulerSends /\ v = WeekOf(dgLast) /\ v = WeekOf(dgNow)
  <2>1. CASE s = "scheduler"
    <3>1. SchedulerSends
      BY <1>1, <2>1 DEF SchedulerSends
    <3> QED
      BY <3>1, WeekUnderWay
  <2>2. CASE s # "scheduler"
    <3>1. 0 \in Weeks
      BY WeekZero
    <3> QED
      BY <2>2, <3>1
  <2> QED
    BY <2>1, <2>2
<1>4. /\ dgUngathered' \in [Weeks -> SUBSET DgProjects]
      /\ \A w \in Weeks : dgUngathered[w] \subseteq dgUngathered'[w]
      /\ s = "scheduler" => dgUngathered'[v] = dgUngathered[v] \cup (ps \cap DgActive)
      /\ s # "scheduler" \/ ps = {} => dgUngathered' = dgUngathered
  <2>1. DigestLosesProjects(s, ps) /\ (s = "scheduler" => WeekOf(dgNow) = v)
    BY <1>1, <1>2, <1>3
  <2> QED
    BY <2>1, ProjectsLost DEF DgLossInv
<1>5. LossTypes'
  BY <1>1, <1>4 DEF DgLossInv, LossTypes
<1>6. FaultInv'
  <2>1. CASE ok
    <3>1. UNCHANGED <<dgFaults, dgUp, dgDown, dgDoubt, dgLosses>>
      BY <1>1, <1>2, <1>4, <2>1 DEF Gather, DigestStill, dgLosses
    <3> QED
      BY <3>1, NoFaultNoCause DEF DgLossInv
  <2>2. CASE ~ok
    BY <2>2, FaultCounts DEF Gather, DgLossInv
  <2> QED
    BY <2>1, <2>2
<1>7. CASE s # "scheduler"
  <2>1. dgRuns'["scheduler"] = dgRuns["scheduler"] /\ dgLosses' = dgLosses
    BY <1>1, <1>4, <1>7 DEF Gather, DigestGoes, dgLosses, DigestSenders
  <2> QED
    BY <1>1, <1>6, <2>1, RequestLosesNothing DEF DgLossInv
<1>8. CASE s = "scheduler"
  <2>1. PICK r \in DigestRuns : r = dgRuns["scheduler"]
    BY <1>1, <1>8
  <2>2. PICK p \in DgProjects : p = r.next /\ p \in Nat
    BY <1>8, <2>1 DEF Gather, DigestRuns
  <2>3. PICK report \in SUBSET DgProjects : report = IF ok /\ p \in DgActive THEN r.report \cup {p} ELSE r.report
    BY <2>1, <2>2 DEF DigestRuns
  <2>4. PICK errs \in BOOLEAN : errs = (r.errs \/ ~ok)
    OBVIOUS
  <2>5. PICK run : run = [r EXCEPT !.next = p + 1, !.errs = errs, !.report = report]
    OBVIOUS
  <2>6. dgRuns' = [dgRuns EXCEPT !["scheduler"] = run]
    BY <1>8, <2>1, <2>2, <2>3, <2>4, <2>5 DEF Gather, DigestGoes
  <2>7. run \in DigestRuns /\ run.pc = "gather" /\ run.next = p + 1 /\ run.report = report
    <3>1. r.pc = "gather" /\ p + 1 \in Nat
      BY <1>1, <1>8, <2>1, <2>2
    <3> QED
      BY <2>1, <2>5, <3>1 DEF DigestRuns
  <2>8. \A q \in DgActive : q < p => q \in r.report \cup dgUngathered[v]
    BY <1>1, <1>3, <1>8, <2>1, <2>2 DEF DgLossInv, GatheredInv
  <2>9. p \in DgActive => p \in report \cup dgUngathered'[v]
    BY <1>2, <1>4, <1>8, <2>1, <2>2, <2>3
  <2>10. \A q \in DgActive : q < run.next => q \in run.report \cup dgUngathered'[v]
    <3> SUFFICES ASSUME NEW q \in DgActive, q < p + 1 PROVE q \in report \cup dgUngathered'[v]
      BY <2>7
    <3>1. q < p \/ q = p
      BY <2>2, ProjectsNumbered
    <3> QED
      BY <1>4, <2>3, <2>8, <2>9, <3>1
  <2>11. run.next >= 1 /\ run.pc # "idle" /\ run.pc # "deliver"
    BY <2>2, <2>7
  <2>12. GatheredInv' /\ ServedInv'
    BY <1>1, <1>3, <1>4, <1>8, <2>6, <2>7, <2>10, <2>11, SchedulerServes
  <2> QED
    BY <1>5, <1>6, <2>12 DEF DgLossInv
<1> QED
  BY <1>7, <1>8

\* A report that is empty in the end has lost every active project.
LEMMA GatherEndsLoss ==
  ASSUME DgInv, DgLossInv, NEW s \in DigestSenders, NEW spent \in BOOLEAN, GatherEnds(s, spent)
  PROVE  DgLossInv'
<1>1. /\ dgRuns \in [DigestSenders -> DigestRuns] /\ dgRuns[s].pc = "gather" /\ DigestStill /\ dgDoubt' = dgDoubt
      /\ dgSent' = dgSent /\ dgCut' = dgCut /\ dgUnlisted' = dgUnlisted /\ dgUndelivered' = dgUndelivered
      /\ DigestLosesProjects(s, {p \in DgProjects : spent /\ p >= dgRuns[s].next})
  BY DEF GatherEnds, DgInv, DigestTypes
<1>2. PICK ps : ps = {p \in DgProjects : spent /\ p >= dgRuns[s].next}
  OBVIOUS
<1>3. PICK v \in Weeks : s = "scheduler" => SchedulerSends /\ v = WeekOf(dgLast) /\ v = WeekOf(dgNow)
  <2>1. CASE s = "scheduler"
    <3>1. SchedulerSends
      BY <1>1, <2>1 DEF SchedulerSends
    <3> QED
      BY <3>1, WeekUnderWay
  <2>2. CASE s # "scheduler"
    BY <2>2, WeekZero
  <2> QED
    BY <2>1, <2>2
<1>4. /\ dgUngathered' \in [Weeks -> SUBSET DgProjects]
      /\ \A w \in Weeks : dgUngathered[w] \subseteq dgUngathered'[w]
      /\ s = "scheduler" => dgUngathered'[v] = dgUngathered[v] \cup (ps \cap DgActive)
      /\ s # "scheduler" \/ ps = {} => dgUngathered' = dgUngathered
  <2>1. DigestLosesProjects(s, ps) /\ (s = "scheduler" => WeekOf(dgNow) = v)
    BY <1>1, <1>2, <1>3
  <2> QED
    BY <2>1, ProjectsLost DEF DgLossInv
<1>5. LossTypes'
  BY <1>1, <1>4 DEF DgLossInv, LossTypes
<1>6. FaultInv'
  <2>1. CASE ~spent
    <3>1. ps = {}
      BY <1>2, <2>1
    <3>2. UNCHANGED <<dgFaults, dgUp, dgDown, dgDoubt, dgLosses>>
      BY <1>1, <1>4, <2>1, <3>1 DEF GatherEnds, DigestStill, dgLosses
    <3> QED
      BY <3>2, NoFaultNoCause DEF DgLossInv
  <2>2. CASE spent
    BY <2>2, FaultCounts DEF GatherEnds, DgLossInv
  <2> QED
    BY <2>1, <2>2
<1>7. CASE s # "scheduler"
  <2>1. dgRuns'["scheduler"] = dgRuns["scheduler"] /\ dgLosses' = dgLosses
    BY <1>1, <1>4, <1>7 DEF GatherEnds, DigestGoes, dgLosses, DigestSenders
  <2> QED
    BY <1>1, <1>6, <2>1, RequestLosesNothing DEF DgLossInv
<1>8. CASE s = "scheduler"
  <2>1. PICK r \in DigestRuns : r = dgRuns["scheduler"]
    BY <1>1, <1>8
  <2>2. PICK m : m = [r EXCEPT !.errs = @ \/ spent]
    OBVIOUS
  <2>3. m \in DigestRuns /\ m.report = r.report
    BY <2>1, <2>2 DEF DigestRuns
  <2>4. PICK run : run = AfterGather(m)
    OBVIOUS
  <2>5. dgRuns' = [dgRuns EXCEPT !["scheduler"] = run]
    BY <1>8, <2>1, <2>2, <2>4 DEF GatherEnds, DigestGoes
  <2>6. /\ run \in DigestRuns
        /\ r.report = {} => run.pc = "idle"
        /\ r.report # {} => run.pc = "deliver" /\ run.left = DgNotifiers
    <3>1. [m EXCEPT !.pc = "deliver", !.left = DgNotifiers] \in DigestRuns
          /\ [m EXCEPT !.pc = "deliver", !.left = DgNotifiers].pc = "deliver"
          /\ [m EXCEPT !.pc = "deliver", !.left = DgNotifiers].left = DgNotifiers
      BY <2>3 DEF DigestRuns
    <3> QED
      BY <2>3, <2>4, <3>1, NotSendingIsARun DEF AfterGather
  <2>7. r.next \in Nat /\ r.next >= 1 /\ \A q \in DgActive : q < r.next => q \in r.report \cup dgUngathered[v]
    BY <1>1, <1>3, <1>8, <2>1 DEF DgLossInv, GatheredInv, DigestRuns
  <2>8. \A q \in DgActive : q < r.next \/ q \in ps
    <3> SUFFICES ASSUME NEW q \in DgActive, ~(q < r.next) PROVE q \in ps
      OBVIOUS
    <3>1. q \in DgProjects /\ q \in Nat /\ q >= r.next
      BY <2>7, ProjectsNumbered
    <3>2. spent
      <4>1. ~spent => r.next \notin DgProjects
        BY <1>8, <2>1 DEF GatherEnds
      <4> QED
        BY <2>7, <3>1, <4>1, ProjectsNumbered
    <3> QED
      BY <1>2, <1>8, <2>1, <3>1, <3>2
  <2>9. r.report = {} => \A n \in DgNotifiers : Served(n, v)'
    <3>1. r.report = {} => DgActive \subseteq dgUngathered'[v]
      BY <1>4, <1>8, <2>7, <2>8
    <3> QED
      BY <3>1 DEF Served, WhyUnsent
  <2>10. run.pc # "gather"
    BY <2>6
  <2>11. GatheredInv' /\ ServedInv'
    BY <1>1, <1>3, <1>4, <1>8, <2>5, <2>6, <2>9, <2>10, SchedulerServes
  <2> QED
    BY <1>5, <1>6, <2>11 DEF DgLossInv
<1> QED
  BY <1>7, <1>8

\* Settling a channel leaves the others to do.
LEMMA SettledKeeps ==
  ASSUME NEW run \in DigestRuns, NEW n, NEW m, run.pc = "deliver", m \in run.left, m # n
  PROVE  /\ DigestSettled(run, n) \in DigestRuns /\ DigestSettled(run, n).pc = "deliver"
         /\ m \in DigestSettled(run, n).left
<1>1. PICK t : t = [run EXCEPT !.left = @ \ {n}, !.try = 0]
  OBVIOUS
<1>2. t \in DigestRuns /\ t.pc = "deliver" /\ t.left = run.left \ {n}
  BY <1>1 DEF DigestRuns
<1>3. DigestSettled(run, n) = t
  BY <1>1 DEF DigestSettled
<1> QED
  BY <1>2, <1>3

\* A channel that accepts the scheduler's digest has it.
LEMMA AcceptedIsSent ==
  ASSUME DgInv, NEW s \in DigestSenders, NEW n \in DgNotifiers, DigestAccepted(s, n), NEW v \in Weeks,
         s = "scheduler" => v = WeekOf(dgNow)
  PROVE  /\ s # "scheduler" => dgSent' = dgSent
         /\ s = "scheduler" => dgSent'[n][v] > 0
         /\ \A m \in DgNotifiers, w \in Weeks : dgSent[m][w] > 0 => dgSent'[m][w] > 0
<1>1. dgSent \in [DgNotifiers -> [Weeks -> Nat]]
  BY DEF DgInv, DigestTypes
<1>2. CASE s = "scheduler"
  <2>1. dgSent' = [dgSent EXCEPT ![n] = [dgSent[n] EXCEPT ![v] = dgSent[n][v] + 1]]
    BY <1>1, <1>2 DEF DigestAccepted
  <2>2. dgSent[n][v] \in Nat
    BY <1>1
  <2> QED
    BY <1>1, <1>2, <2>1, <2>2
<1>3. CASE s # "scheduler"
  BY <1>3 DEF DigestAccepted
<1> QED
  BY <1>2, <1>3

\* A delivery that is accepted serves its channel.
LEMMA DeliveredToLoss ==
  ASSUME DgInv, DgLossInv, NEW s \in DigestSenders, NEW n \in DgNotifiers, DeliveredTo(s, n)
  PROVE  DgLossInv'
<1>1. /\ dgRuns \in [DigestSenders -> DigestRuns] /\ dgRuns[s].pc = "deliver" /\ n \in dgRuns[s].left
      /\ DigestStill /\ dgDoubt' = dgDoubt /\ dgFaults' = dgFaults /\ dgLosses' = dgLosses /\ DigestAccepted(s, n)
      /\ dgRuns' = [dgRuns EXCEPT ![s] = DigestSettled(dgRuns[s], n)]
  BY DEF DeliveredTo, NextNotifier, DigestGoes, DgInv, DigestTypes
<1>2. UNCHANGED <<dgCut, dgUnlisted, dgUngathered, dgUndelivered>>
  BY <1>1 DEF dgLosses
<1>3. LossTypes' /\ FaultInv'
  <2>1. dgUp' = dgUp /\ dgDown' = dgDown
    BY <1>1 DEF DigestStill
  <2> QED
    BY <1>1, <1>2, <2>1, NoFaultNoCause DEF DgLossInv, LossTypes
<1>4. CASE s # "scheduler"
  <2>1. dgRuns'["scheduler"] = dgRuns["scheduler"]
    BY <1>1, <1>4 DEF DigestSenders
  <2>2. dgSent' = dgSent
    BY <1>1, <1>4 DEF DigestAccepted
  <2> QED
    BY <1>1, <1>3, <2>1, <2>2, RequestLosesNothing DEF DgLossInv
<1>5. CASE s = "scheduler"
  <2>1. SchedulerSends
    BY <1>1, <1>5 DEF SchedulerSends
  <2>2. PICK v \in Weeks : v = WeekOf(dgLast) /\ v = WeekOf(dgNow)
    BY <2>1, WeekUnderWay
  <2>3. dgSent'[n][v] > 0 /\ \A m \in DgNotifiers, w \in Weeks : dgSent[m][w] > 0 => dgSent'[m][w] > 0
    BY <1>1, <1>5, <2>2, AcceptedIsSent
  <2>4. PICK run \in DigestRuns : run = DigestSettled(dgRuns["scheduler"], n) /\ run.pc # "gather"
    <3>1. DigestSettled(dgRuns["scheduler"], n) \in DigestRuns
          /\ DigestSettled(dgRuns["scheduler"], n).pc \in {"idle", "deliver"}
      BY <1>1, <1>5, SettledRun
    <3> QED
      BY <3>1
  <2>5. dgRuns' = [dgRuns EXCEPT !["scheduler"] = run]
    BY <1>1, <1>5, <2>4
  <2>6. \A m \in DgNotifiers : m \in dgRuns["scheduler"].left =>
          Served(m, v)' \/ (run.pc # "idle" /\ m \in run.left)
    <3> SUFFICES ASSUME NEW m \in DgNotifiers, m \in dgRuns["scheduler"].left
                 PROVE  Served(m, v)' \/ (run.pc # "idle" /\ m \in run.left)
      OBVIOUS
    <3>1. CASE m = n
      BY <2>3, <3>1 DEF Served
    <3>2. CASE m # n
      <4>1. run.pc = "deliver" /\ m \in run.left
        BY <1>1, <1>5, <2>4, <3>2, SettledKeeps
      <4> QED
        BY <4>1
    <3> QED
      BY <3>1, <3>2
  <2>7. GatheredInv' /\ ServedInv'
    BY <1>1, <1>2, <1>5, <2>1, <2>2, <2>3, <2>4, <2>5, <2>6, SchedulerServes
  <2> QED
    BY <1>3, <2>7 DEF DgLossInv
<1> QED
  BY <1>4, <1>5

\* A delivery that is given up is its channel's cause.
LEMMA AttemptFailsLoss ==
  ASSUME DgInv, DgLossInv, NEW s \in DigestSenders, NEW n \in DgNotifiers, NEW transient \in BOOLEAN, NEW accepted \in BOOLEAN,
         AttemptFails(s, n, transient, accepted)
  PROVE  DgLossInv'
<1>1. /\ dgRuns \in [DigestSenders -> DigestRuns] /\ dgRuns[s].pc = "deliver" /\ n \in dgRuns[s].left /\ DigestStill
      /\ dgCut' = dgCut /\ dgUnlisted' = dgUnlisted /\ dgUngathered' = dgUngathered /\ DigestFails
  BY DEF AttemptFails, NextNotifier, DgInv, DigestTypes
<1>2. FaultInv'
  BY <1>1, FaultCounts DEF DgLossInv
<1>3. PICK again \in BOOLEAN : again = TriesAgain(n, dgRuns[s].try, transient)
  BY DEF TriesAgain
<1>4. dgUndelivered' = IF s = "scheduler" /\ ~again THEN [dgUndelivered EXCEPT ![n] = @ \cup {WeekOf(dgNow)}]
                       ELSE dgUndelivered
  BY <1>3 DEF AttemptFails
<1>5. dgRuns' = [dgRuns EXCEPT ![s] = IF again THEN [dgRuns[s] EXCEPT !.try = @ + 1]
                                      ELSE DigestSettled([dgRuns[s] EXCEPT !.errs = TRUE], n)]
  BY <1>3 DEF AttemptFails, DigestGoes
<1>6. CASE s # "scheduler"
  <2>1. dgRuns'["scheduler"] = dgRuns["scheduler"] /\ dgLosses' = dgLosses
    BY <1>1, <1>4, <1>5, <1>6 DEF dgLosses, DigestSenders
  <2>2. dgSent' = dgSent
    BY <1>6 DEF AttemptFails, DigestAccepted
  <2> QED
    BY <1>1, <1>2, <2>1, <2>2, RequestLosesNothing DEF DgLossInv
<1>7. CASE s = "scheduler"
  <2>1. SchedulerSends
    BY <1>1, <1>7 DEF SchedulerSends
  <2>2. PICK v \in Weeks : v = WeekOf(dgLast) /\ v = WeekOf(dgNow)
    BY <2>1, WeekUnderWay
  <2>3. \A m \in DgNotifiers, w \in Weeks : dgSent[m][w] > 0 => dgSent'[m][w] > 0
    <3>1. CASE accepted
      <4>1. DigestAccepted(s, n)
        BY <3>1 DEF AttemptFails
      <4> QED
        BY <1>7, <2>2, <4>1, AcceptedIsSent
    <3>2. CASE ~accepted
      BY <3>2 DEF AttemptFails
    <3> QED
      BY <3>1, <3>2
  <2>4. dgUndelivered \in [DgNotifiers -> SUBSET Weeks]
    BY DEF DgLossInv, LossTypes
  <2>5. dgUndelivered' = IF again THEN dgUndelivered ELSE [dgUndelivered EXCEPT ![n] = dgUndelivered[n] \cup {v}]
    BY <1>4, <1>7, <2>2
  <2>6. /\ dgUndelivered' \in [DgNotifiers -> SUBSET Weeks]
        /\ \A m \in DgNotifiers : dgUndelivered[m] \subseteq dgUndelivered'[m]
        /\ ~again => v \in dgUndelivered'[n]
    BY <2>4, <2>5
  <2>7. LossTypes'
    BY <1>1, <2>6 DEF DgLossInv, LossTypes
  <2>8. PICK r \in DigestRuns : r = dgRuns["scheduler"] /\ r.pc = "deliver" /\ n \in r.left
    BY <1>1, <1>7
  <2>9. PICK run \in DigestRuns :
          /\ dgRuns' = [dgRuns EXCEPT !["scheduler"] = run]
          /\ run.pc # "gather"
          /\ \A m \in DgNotifiers : m \in r.left => (m = n /\ ~again) \/ (run.pc # "idle" /\ m \in run.left)
    <3>1. CASE again
      <4>1. PICK run : run = [r EXCEPT !.try = @ + 1]
        OBVIOUS
      <4>2. run \in DigestRuns /\ run.pc = "deliver" /\ run.left = r.left
        BY <2>8, <4>1 DEF DigestRuns
      <4>3. dgRuns' = [dgRuns EXCEPT !["scheduler"] = run]
        BY <1>5, <1>7, <2>8, <3>1, <4>1
      <4> QED
        BY <4>2, <4>3
    <3>2. CASE ~again
      <4>1. PICK m : m = [r EXCEPT !.errs = TRUE]
        OBVIOUS
      <4>2. m \in DigestRuns /\ m.pc = "deliver" /\ m.left = r.left
        BY <2>8, <4>1 DEF DigestRuns
      <4>3. PICK run : run = DigestSettled(m, n)
        OBVIOUS
      <4>4. run \in DigestRuns /\ run.pc \in {"idle", "deliver"}
        BY <2>8, <4>2, <4>3, SettledRun
      <4>5. dgRuns' = [dgRuns EXCEPT !["scheduler"] = run]
        BY <1>5, <1>7, <2>8, <3>2, <4>1, <4>3
      <4>6. ASSUME NEW k \in DgNotifiers, k \in r.left, k # n PROVE run.pc # "idle" /\ k \in run.left
        <5>1. run.pc = "deliver" /\ k \in run.left
          BY <4>2, <4>3, <4>6, SettledKeeps
        <5> QED
          BY <5>1
      <4> QED
        BY <3>2, <4>4, <4>5, <4>6
    <3> QED
      BY <3>1, <3>2
  <2>10. ~again => Served(n, v)'
    BY <2>6 DEF Served, WhyUnsent
  <2>11. \A m \in DgNotifiers : m \in dgRuns["scheduler"].left => Served(m, v)' \/ (run.pc # "idle" /\ m \in run.left)
    BY <2>8, <2>9, <2>10
  <2>12. GatheredInv' /\ ServedInv'
    BY <1>1, <1>7, <2>1, <2>2, <2>3, <2>6, <2>9, <2>11, SchedulerServes
  <2> QED
    BY <1>2, <2>7, <2>12 DEF DgLossInv
<1> QED
  BY <1>6, <1>7

\* A week that fires is served or being served, and no other is disturbed.
LEMMA SchedulerTickLoss == ASSUME DgInv, DgLossInv, SchedulerTick PROVE DgLossInv'
<1>1. /\ dgUp /\ ~SchedulerSends /\ dgChan # NoTick
      /\ UNCHANGED <<dgNow, dgUp, dgFaults, dgSent, dgDown, dgDoubt, dgLosses>>
  BY DEF SchedulerTick, SchedulerSends
<1>2. UNCHANGED <<dgCut, dgUnlisted, dgUngathered, dgUndelivered>>
  BY <1>1 DEF dgLosses
<1>3. LossTypes' /\ FaultInv'
  BY <1>1, <1>2, NoFaultNoCause DEF DgLossInv, LossTypes
<1>4. ASSUME NEW n \in DgNotifiers, NEW w \in dgFired PROVE Served(n, w)'
  <2>1. Served(n, w)
    BY <1>1 DEF DgLossInv, ServedInv
  <2> QED
    BY <1>1, <1>2, <2>1 DEF Served, WhyUnsent
<1>5. CASE DigestDue(dgChan)
  <2>1. dgChan = dgNow
    BY <1>1, <1>5, DueTick
  <2>2. PICK run : run = [NotSending EXCEPT !.pc = "list", !.at = dgNow]
    OBVIOUS
  <2>3. dgLast' = dgNow /\ dgFired' = dgFired \cup {WeekOf(dgNow)} /\ dgRuns' = [dgRuns EXCEPT !["scheduler"] = run]
    BY <1>5, <2>1, <2>2 DEF SchedulerTick, DigestStarts
  <2>4. run.pc = "list"
    BY <2>2 DEF NotSending
  <2>5. dgRuns'["scheduler"] = run
    BY <2>3 DEF DgInv, DigestTypes, DigestSenders
  <2>6. GatheredInv' /\ SchedulerSends'
    BY <2>4, <2>5 DEF GatheredInv, SchedulerSends
  <2>7. ServedInv'
    BY <1>1, <1>4, <2>3, <2>4, <2>5, <2>6 DEF ServedInv
  <2> QED
    BY <1>3, <2>6, <2>7 DEF DgLossInv
<1>6. CASE ~DigestDue(dgChan)
  <2>1. dgFired' = dgFired /\ dgRuns' = dgRuns
    BY <1>6 DEF SchedulerTick
  <2>2. ~SchedulerSends'
    BY <1>1, <2>1 DEF SchedulerSends
  <2>3. GatheredInv' /\ ServedInv'
    BY <1>4, <2>1, <2>2 DEF GatheredInv, ServedInv
  <2> QED
    BY <1>3, <2>3 DEF DgLossInv
<1> QED
  BY <1>5, <1>6

\* A minute, a request and a start lose nothing; a stop that cuts a digest off is a cause.
LEMMA ProcessLoss ==
  ASSUME DgInv, DgLossInv, DgTick \/ TriggerDigest \/ DgStop \/ DgStart PROVE DgLossInv'
<1>1. CASE DgTick \/ TriggerDigest \/ DgStart
  <2>1. /\ dgRuns'["scheduler"] = dgRuns["scheduler"] /\ dgDown \subseteq dgDown'
        /\ UNCHANGED <<dgFired, dgLast, dgSent, dgDoubt, dgFaults, dgLosses>>
    <3>1. CASE DgTick
      BY <3>1 DEF DgTick
    <3>2. CASE TriggerDigest
      BY <3>2 DEF TriggerDigest, DigestStarts, DgInv, DigestTypes, DigestSenders
    <3>3. CASE DgStart
      BY <3>3 DEF DgStart
    <3> QED
      BY <1>1, <3>1, <3>2, <3>3
  <2>2. UNCHANGED <<dgCut, dgUnlisted, dgUngathered, dgUndelivered>>
    BY <2>1 DEF dgLosses
  <2>3. SchedulerSends' = SchedulerSends
    BY <2>1 DEF SchedulerSends
  <2>4. LossTypes' /\ GatheredInv'
    BY <2>1, <2>2, <2>3 DEF DgLossInv, LossTypes, GatheredInv
  <2>5. \A n \in DgNotifiers, w \in Weeks : Served(n, w) => Served(n, w)'
    BY <2>1, <2>2 DEF Served, WhyUnsent
  <2>6. ServedInv'
    BY <2>1, <2>3, <2>5 DEF DgLossInv, ServedInv, DgInv, DigestTypes
  <2>7. FaultInv'
    <3>1. dgFaults = 0 => dgUp' /\ dgDown' = {}
      BY <1>1 DEF DgLossInv, FaultInv, DgTick, TriggerDigest, DgStart
    <3> QED
      BY <2>1, <2>2, <3>1 DEF DgLossInv, FaultInv
  <2> QED
    BY <2>4, <2>6, <2>7 DEF DgLossInv
<1>2. CASE DgStop
  <2>1. /\ DigestFails /\ dgRuns' = [s \in DigestSenders |-> NotSending]
        /\ dgCut' = IF SchedulerSends THEN dgCut \cup {WeekOf(dgNow)} ELSE dgCut
        /\ dgDown \subseteq dgDown'
        /\ UNCHANGED <<dgFired, dgSent, dgUnlisted, dgUngathered, dgUndelivered>>
    BY <1>2 DEF DgStop, SchedulerSends
  <2>2. FaultInv'
    BY <2>1, FaultCounts DEF DgLossInv
  <2>3. ~SchedulerSends'
    BY <2>1, NotSendingIsARun DEF SchedulerSends, DigestSenders
  <2>4. SchedulerSends => WeekOf(dgNow) = WeekOf(dgLast) /\ WeekOf(dgNow) \in Weeks
    BY SendsInItsWeek
  <2>5. LossTypes' /\ GatheredInv'
    BY <2>1, <2>3, <2>4 DEF DgLossInv, LossTypes, GatheredInv
  <2>6. \A n \in DgNotifiers, w \in Weeks : Served(n, w) => Served(n, w)'
    BY <2>1 DEF Served, WhyUnsent
  <2>7. ASSUME NEW n \in DgNotifiers, NEW w \in dgFired PROVE Served(n, w)'
    <3>1. w \in Weeks /\ (Served(n, w) \/ (SchedulerSends /\ WeekOf(dgLast) = w))
      BY DEF DgLossInv, ServedInv, DgInv, DigestTypes
    <3>2. CASE SchedulerSends /\ WeekOf(dgLast) = w
      <4>1. w \in dgCut'
        BY <2>1, <2>4, <3>2
      <4> QED
        BY <4>1 DEF Served, WhyUnsent
    <3> QED
      BY <2>6, <3>1, <3>2
  <2>8. ServedInv'
    BY <2>1, <2>7 DEF ServedInv
  <2> QED
    BY <2>2, <2>5, <2>8 DEF DgLossInv
<1> QED
  BY <1>1, <1>2

\* The behaviour begins with nothing lost.
LEMMA DgLossInit == DgInit => DgLossInv
<1> SUFFICES ASSUME DgInit PROVE DgLossInv
  OBVIOUS
<1>1. ~SchedulerSends
  BY NotSendingIsARun DEF DgInit, SchedulerSends, DigestSenders
<1>2. LossTypes /\ FaultInv
  BY DEF DgInit, LossTypes, FaultInv
<1>3. GatheredInv /\ ServedInv
  BY <1>1 DEF DgInit, GatheredInv, ServedInv
<1> QED
  BY <1>2, <1>3 DEF DgLossInv

\* Every step names what it loses.
LEMMA DgLossStep == ASSUME DgInv, DgLossInv, [DgNext]_dgVars PROVE DgLossInv'
<1>1. CASE UNCHANGED dgVars
  <2>1. UNCHANGED <<dgUp, dgLast, dgRuns, dgFaults, dgFired, dgSent, dgDown, dgDoubt, dgLosses>>
    BY <1>1 DEF dgVars
  <2>2. UNCHANGED <<dgCut, dgUnlisted, dgUngathered, dgUndelivered>>
    BY <2>1 DEF dgLosses
  <2>3. SchedulerSends' = SchedulerSends
    BY <2>1 DEF SchedulerSends
  <2>4. LossTypes' /\ FaultInv' /\ GatheredInv'
    BY <2>1, <2>2, <2>3, NoFaultNoCause DEF DgLossInv, LossTypes, GatheredInv
  <2>5. ServedInv'
    BY <2>1, <2>2, <2>3 DEF DgLossInv, ServedInv, Served, WhyUnsent
  <2> QED
    BY <2>4, <2>5 DEF DgLossInv
<1>2. ASSUME NEW s \in DigestSenders, NEW ok \in BOOLEAN, ListsProjects(s, ok) \/ Gather(s, ok) \/ GatherEnds(s, ok)
      PROVE  DgLossInv'
  BY <1>2, ListsProjectsLoss, GatherLoss, GatherEndsLoss
<1>3. ASSUME NEW s \in DigestSenders, NEW n \in DgNotifiers,
             DeliveredTo(s, n) \/ \E transient, accepted \in BOOLEAN : AttemptFails(s, n, transient, accepted)
      PROVE  DgLossInv'
  BY <1>3, DeliveredToLoss, AttemptFailsLoss
<1> QED
  BY <1>1, <1>2, <1>3, ProcessLoss, SchedulerTickLoss DEF DgNext

\* The invariants give the causes of a second and of a missing digest.
LEMMA DgCauses == ASSUME DgInv, DgLossInv PROVE OneDigestPerWeek
<1>1. SecondDigestHasACause
  <2> SUFFICES ASSUME NEW n \in DgNotifiers, NEW w \in Weeks, dgSent[n][w] > 1
               PROVE  w \in dgDown \/ (n = "email" /\ w \in dgDoubt)
    BY DEF SecondDigestHasACause
  <2>1. dgSent[n][w] \in Nat
    BY DEF DgInv, DigestTypes
  <2> QED
    BY <2>1 DEF DgInv, SentInv
<1>2. ASSUME NEW w \in Weeks, dgNow >= w * DgWeek + DgHour, w \notin dgFired PROVE w \in dgDown
  <2> SUFFICES ASSUME w \notin dgDown PROVE FALSE
    OBVIOUS
  <2>1. w \in Nat /\ WeekAt(w) \in Nat /\ dgNow \in Nat /\ WeekAt(w) = w * DgWeek
    BY WeeksCount, DigestLengths DEF DgInv, DigestTypes, WeekAt
  <2>2. dgNow >= WeekAt(w) + DgHour
    BY <1>2, <2>1
  <2>3. dgNow = WeekAt(w) \/ (w = 0 /\ dgNow <= 1)
    BY <1>2, <2>1, <2>2, DigestLengths DEF DgInv, FiresAtOnceInv
  <2> QED
    BY <2>1, <2>2, <2>3, WeeksCount, DigestLengths
<1>3. ASSUME NEW n \in DgNotifiers, NEW w \in Weeks, dgNow >= w * DgWeek + DgHour, ~DigestUnderWay(w)
      PROVE  dgSent[n][w] > 0 \/ WhyUnsent(n, w)
  <2>1. CASE w \notin dgFired
    BY <1>2, <1>3, <2>1 DEF WhyUnsent
  <2>2. CASE w \in dgFired
    <3>1. SchedulerSends => WeekOf(dgLast) # w
      BY <1>3 DEF DgInv, SendingInv, SchedulerSends, DigestUnderWay
    <3> QED
      BY <2>2, <3>1 DEF DgLossInv, ServedInv, Served
  <2> QED
    BY <2>1, <2>2
<1>4. UndisturbedWeekIsSent
  <2> SUFFICES ASSUME dgFaults = 0, DgActive # {}, NEW n \in DgNotifiers, NEW w \in Weeks,
                      dgNow >= w * DgWeek + DgHour, ~DigestUnderWay(w)
               PROVE  dgSent[n][w] = 1
    BY DEF UndisturbedWeekIsSent
  <2>1. dgSent[n][w] \in Nat
    BY DEF DgInv, DigestTypes
  <2>2. ~WhyUnsent(n, w) /\ w \notin dgDown /\ w \notin dgDoubt
    BY DEF DgLossInv, FaultInv, WhyUnsent
  <2>3. dgSent[n][w] > 0
    BY <1>3, <2>2
  <2>4. dgSent[n][w] <= 1
    BY <2>2 DEF DgInv, SentInv
  <2> QED
    BY <2>1, <2>3, <2>4
<1>5. MissedWeekHasACause
  BY <1>3 DEF MissedWeekHasACause
<1> QED
  BY <1>1, <1>4, <1>5 DEF OneDigestPerWeek

\* A week has one digest on each channel, unless the process was down in its hour or
\* ended while it was sent, the report was lost, the channel failed, or a mail that was
\* accepted was reported as failed; without a fault it has exactly one.
THEOREM WeeksHaveOneDigest == DgSpec => []OneDigestPerWeek
<1>1. DgSpec => []DgInv
  BY DgInitInv, DgStep, PTL DEF DgSpec
<1>2. DgSpec => []DgLossInv
  BY <1>1, DgLossInit, DgLossStep, PTL DEF DgSpec
<1> QED
  BY <1>1, <1>2, DgCauses, PTL
=============================================================================
