-------------------------- MODULE WriteQueueProofs --------------------------
(***************************************************************************)
(* Proofs about WriteQueue, for every value of its constants.              *)
(*                                                                         *)
(* The argument counts: Live(x) is the number of list entries from which   *)
(* item x can still be processed.  The entry the writer holds is the last  *)
(* one of its processing list and stops counting for the items already     *)
(* dealt with.  No step but a settling one lets Live(x) fall, and none but *)
(* a fault lets ran[x] + Live(x) rise.                                     *)
(***************************************************************************)
EXTENDS WriteQueue, FiniteSetTheorems, TLAPS

Holding == pc \in {"batch", "item", "requeue", "ack"}

Lists == Seq(Seq(Nat))

\* Entries are ascending, as the reader published them.
Good(e, n) ==
  /\ e \in Seq(Nat) /\ Len(e) >= 1 /\ Len(e) <= MaxBatch
  /\ \A k \in 1..Len(e) : e[k] \in 1..n
  /\ \A j, k \in 1..Len(e) : j < k => e[j] < e[k]
GoodList(l, n) == l \in Lists /\ \A k \in 1..Len(l) : Good(l[k], n)

Scalars ==
  /\ pc \in {"replay", "ready", "batch", "item", "requeue", "ack", "stopped"}
  /\ stopping \in BOOLEAN /\ attempt \in 0..MaxRetries
  /\ i \in 0..(MaxBatch + 1) /\ published \in 0..MaxItems
  /\ ran \in [Items -> 0..(MaxFaults + MaxStops + 2)] /\ torn \in [Items -> Nat]
  /\ final \subseteq 1..published /\ gaveUp \subseteq 1..published
  /\ faults \in 0..MaxFaults /\ stops \in 0..MaxStops

\* What the writer holds is the last entry of its list.
Held ==
  /\ Holding => /\ Len(processing) >= 1 /\ delivery = processing[Len(processing)]
                /\ i \in 1..(Len(delivery) + 1)
  /\ pc \in {"item", "requeue"} => i <= Len(delivery)

TypeInv == Scalars /\ GoodList(queue, published) /\ GoodList(processing, published) /\ Held

\* The entries of a list that hold an item, and their number.
Places(l, x) == {k \in 1..Len(l) : \E j \in 1..Len(l[k]) : l[k][j] = x}
Copies(l, x) == Cardinality(Places(l, x))
Holds(e, x) == IF \E j \in 1..Len(e) : e[j] = x THEN 1 ELSE 0

\* Whether the entry that is held has been dealt with as far as item x goes.
Taken(x) ==
  IF \/ pc = "ack" /\ \E j \in 1..Len(delivery) : delivery[j] = x
     \/ pc \in {"batch", "item", "requeue"} /\ \E j \in 1..(i - 1) : delivery[j] = x
  THEN 1 ELSE 0

Live(x) == Copies(queue, x) + Copies(processing, x) - Taken(x)

\* An item is settled or can still be processed; an item not yet published has
\* not run; an effect applied again has been paid for.
CountInv ==
  /\ \A x \in 1..published : x \in Settled \/ Live(x) > 0
  /\ \A x \in Items : x > published => ran[x] = 0
  /\ \A x \in Items \ Telemetry : ran[x] + Live(x) <= 1 + faults

\* Every item of e is older than every item of f; lists in the order of publication.
Older(e, f) == \A j \in 1..Len(e) : \A k \in 1..Len(f) : e[j] < f[k]
AllOlder(l, e) == \A j \in 1..Len(l) : Older(l[j], e)
AllYounger(l, e) == \A j \in 1..Len(l) : Older(e, l[j])
Sorted(l) == \A j, k \in 1..Len(l) : j < k => Older(l[j], l[k])
Before(l, m) == \A j \in 1..Len(l) : AllYounger(m, l[j])
AllSettled(e) == \A j \in 1..Len(e) : e[j] \in Settled

\* Until the first shutdown the processing list followed by the queue is in the
\* order of publication.
Ordered == Sorted(processing) /\ Sorted(queue) /\ Before(processing, queue)

\* What is left in the processing list behind the writer is settled, and so is
\* what it has dealt with of the entry it holds.
Behind ==
  /\ ~stopping /\ pc \notin {"requeue", "stopped"}
  /\ pc = "ready" => \A k \in 1..Len(processing) : AllSettled(processing[k])
  /\ Holding => \A k \in 1..(Len(processing) - 1) : AllSettled(processing[k])
  /\ pc \in {"batch", "item"} => \A j \in 1..(i - 1) : delivery[j] \in Settled
  /\ pc = "ack" => AllSettled(delivery)

OrderInv == stops = 0 => Ordered /\ Behind

\* Attempts that may have left something behind: at most MaxRetries for each time
\* the entry was taken.  A taking is paid for by what made the item alive again: its
\* publication, a fault, or a shutdown (once the tail has been handed back).  While
\* the writer is at the item, the taking under way has used its earlier attempts.
Spare == IF stopping /\ pc \notin {"requeue", "ack", "stopped"} THEN stops - 1 ELSE stops
Used(x) == IF pc = "item" /\ Item = x THEN attempt - 1 ELSE 0
Credit(x) == 1 + faults + Spare - Live(x)

TornInv ==
  /\ stopping => stops >= 1
  /\ \A x \in Items : x > published => torn[x] = 0
  /\ \A x \in Items : torn[x] <= (MaxRetries * Credit(x)) + Used(x)

IInv == TypeInv /\ CountInv /\ OrderInv /\ SettledInOrder /\ TornInv

-----------------------------------------------------------------------------
(* Lists of entries. *)

\* m is l with entry e added, at the end the readers write or at the other one.
AtEnd(m, l, e) ==
  /\ m \in Lists /\ l \in Lists /\ e \in Seq(Nat)
  /\ Len(m) = Len(l) + 1 /\ m[Len(l) + 1] = e /\ \A k \in 1..Len(l) : m[k] = l[k]
AtFront(m, l, e) ==
  /\ m \in Lists /\ l \in Lists /\ e \in Seq(Nat)
  /\ Len(m) = Len(l) + 1 /\ m[1] = e /\ \A k \in 1..Len(l) : m[k + 1] = l[k]

\* Append adds at the end.
LEMMA AppendAtEnd ==
  ASSUME NEW l \in Lists, NEW e \in Seq(Nat) PROVE AtEnd(Append(l, e), l, e)
BY DEF AtEnd, Lists

\* The length of a prefix.
LEMMA PrefixLength ==
  ASSUME NEW S, NEW s \in Seq(S), NEW n \in 1..Len(s) PROVE Len(SubSeq(s, 1, n)) = n
OBVIOUS

\* Front takes the last entry off.
LEMMA FrontAtEnd ==
  ASSUME NEW l \in Lists, l # <<>> PROVE AtEnd(l, Front(l), Last(l))
<1>1. Len(l) \in Nat /\ Len(l) >= 1 /\ Last(l) \in Seq(Nat)
  BY DEF Lists, Last
<1>2. Front(l) \in Lists
  BY <1>1 DEF Lists, Front
<1>3. Len(Front(l)) = Len(l) - 1
  <2>1. CASE Len(l) = 1
    <3>1. SubSeq(l, 1, 0) = <<>>
      BY DEF Lists
    <3> QED
      BY <2>1, <3>1 DEF Front
  <2>2. CASE Len(l) > 1
    <3>1. Len(l) - 1 \in 1..Len(l) /\ l \in Seq(Seq(Nat))
      BY <1>1, <2>2 DEF Lists
    <3>2. Len(SubSeq(l, 1, Len(l) - 1)) = Len(l) - 1
      BY <3>1, PrefixLength
    <3> QED
      BY <3>2 DEF Front
  <2>3. Len(l) = 1 \/ Len(l) > 1
    BY <1>1, SMTT(20)
  <2> QED
    BY <2>1, <2>2, <2>3, Zenon
<1>4. \A k \in 1..(Len(l) - 1) : Front(l)[k] = l[k]
  BY <1>1 DEF Lists, Front
<1> QED
  BY <1>1, <1>2, <1>3, <1>4 DEF AtEnd, Last

\* LPUSH puts an entry in front.
LEMMA ConsAtFront ==
  ASSUME NEW l \in Lists, NEW e \in Seq(Nat) PROVE AtFront(<<e>> \o l, l, e)
<1>1. <<e>> \in Lists /\ Len(<<e>>) = 1 /\ <<e>>[1] = e
  BY DEF Lists
<1>2. <<e>> \o l \in Lists /\ Len(<<e>> \o l) = Len(l) + 1
  BY <1>1 DEF Lists
<1>3. \A k \in 1..Len(l) : (<<e>> \o l)[k + 1] = l[k]
  BY <1>1 DEF Lists
<1>4. (<<e>> \o l)[1] = e
  BY <1>1 DEF Lists
<1> QED
  BY <1>2, <1>3, <1>4 DEF AtFront

\* Tail takes the first entry off.
LEMMA TailAtFront ==
  ASSUME NEW l \in Lists, l # <<>> PROVE AtFront(l, Tail(l), Head(l))
BY DEF AtFront, Lists

\* LREM of the last entry.
LEMMA RemoveLast ==
  ASSUME NEW l \in Lists, l # <<>> PROVE RemoveAt(l, Len(l)) = Front(l)
<1>1. Len(l) \in Nat \ {0}
  BY DEF Lists
<1>2. SubSeq(l, Len(l) + 1, Len(l)) = <<>>
  BY <1>1 DEF Lists
<1>3. SubSeq(l, 1, Len(l) - 1) \in Seq(Seq(Nat))
  BY <1>1 DEF Lists
<1>4. SubSeq(l, 1, Len(l) - 1) \o <<>> = SubSeq(l, 1, Len(l) - 1)
  BY <1>3
<1> QED
  BY <1>2, <1>4 DEF RemoveAt, Front

\* Copies of an item are finitely many; there are none where it has no place.
LEMMA CopiesCount ==
  ASSUME NEW l \in Lists, NEW x
  PROVE  /\ IsFiniteSet(Places(l, x)) /\ Copies(l, x) \in Nat
         /\ Copies(l, x) = 0 <=> Places(l, x) = {}
<1>1. Places(l, x) \in SUBSET (1..Len(l)) /\ Len(l) \in Int
  BY DEF Places, Lists
<1>2. IsFiniteSet(Places(l, x))
  <2>1. IsFiniteSet(1..Len(l))
    BY <1>1, FS_Interval
  <2> QED
    BY <1>1, <2>1, FS_Subset
<1> QED
  BY <1>2, FS_CardinalityType, FS_EmptySet DEF Copies

\* An entry at the end adds the copies it holds.
LEMMA CopiesAtEnd ==
  ASSUME NEW m, NEW l, NEW e, NEW x, AtEnd(m, l, e)
  PROVE  Copies(m, x) = Copies(l, x) + Holds(e, x)
<1> DEFINE n == Len(l) + 1
<1>1. l \in Lists /\ m \in Lists /\ Len(l) \in Nat /\ Len(m) = n /\ m[n] = e
  BY DEF AtEnd, Lists
<1>2. Holds(e, x) = 1 <=> n \in Places(m, x)
  BY <1>1 DEF Holds, Places
<1>3. \A k \in 1..Len(l) : k \in Places(m, x) <=> k \in Places(l, x)
  BY <1>1 DEF Places, AtEnd
<1>4. Places(l, x) \subseteq 1..Len(l) /\ Places(m, x) \subseteq 1..n /\ n \notin Places(l, x)
  BY <1>1 DEF Places
<1>5. CASE Holds(e, x) = 1
  <2>1. Places(m, x) = Places(l, x) \cup {n}
    BY <1>1, <1>2, <1>3, <1>4, <1>5
  <2> QED
    <3>1. IsFiniteSet(Places(l, x))
      BY <1>1, CopiesCount
    <3>2. Cardinality(Places(l, x) \cup {n}) = Cardinality(Places(l, x)) + 1
      BY <1>4, <3>1, FS_AddElement
    <3> QED
      BY <1>5, <2>1, <3>2 DEF Copies
<1>6. CASE Holds(e, x) = 0
  <2>0. n \notin Places(m, x)
    BY <1>2, <1>6
  <2>1. Places(m, x) = Places(l, x)
    BY <1>1, <2>0, <1>3, <1>4
  <2> QED
    BY <1>1, <1>6, <2>1, CopiesCount DEF Copies
<1> QED
  BY <1>5, <1>6 DEF Holds

\* So does an entry at the front.
LEMMA CopiesAtFront ==
  ASSUME NEW m, NEW l, NEW e, NEW x, AtFront(m, l, e)
  PROVE  Copies(m, x) = Copies(l, x) + Holds(e, x)
<1> DEFINE T == Places(m, x) \ {1}
           shift == [k \in Places(l, x) |-> k + 1]
<1>1. l \in Lists /\ m \in Lists /\ Len(l) \in Nat /\ Len(m) = Len(l) + 1 /\ m[1] = e
  BY DEF AtFront, Lists
<1>2. Holds(e, x) = 1 <=> 1 \in Places(m, x)
  BY <1>1 DEF Holds, Places
<1>3. \A k \in 1..Len(l) : k + 1 \in Places(m, x) <=> k \in Places(l, x)
  BY <1>1 DEF Places, AtFront
<1>4. Places(l, x) \subseteq 1..Len(l) /\ Places(m, x) \subseteq 1..(Len(l) + 1)
  BY <1>1 DEF Places
<1>5. shift \in [Places(l, x) -> T]
  BY <1>1, <1>3, <1>4
<1>6. \A a, b \in Places(l, x) : shift[a] = shift[b] => a = b
  BY <1>1, <1>4
<1>7. ASSUME NEW t \in T PROVE \E k \in Places(l, x) : shift[k] = t
  <2>1. t - 1 \in 1..Len(l) /\ (t - 1) + 1 = t
    BY <1>1, <1>4, <1>7
  <2>2. t - 1 \in Places(l, x)
    BY <1>3, <2>1
  <2> QED
    BY <2>1, <2>2
<1>8. ExistsBijection(Places(l, x), T)
  <2>1. shift \in Bijection(Places(l, x), T)
    <3>1. shift \in Injection(Places(l, x), T) /\ shift \in Surjection(Places(l, x), T)
      BY <1>5, <1>6, <1>7, Zenon DEF Injection, Surjection, IsInjective
    <3> QED
      BY <3>1, Zenon DEF Bijection
  <2> QED
    BY <2>1 DEF ExistsBijection
<1>9. IsFiniteSet(T) /\ Cardinality(T) = Copies(l, x) /\ Copies(l, x) \in Nat
  BY <1>1, <1>8, CopiesCount, FS_Bijection DEF Copies
<1>10. CASE Holds(e, x) = 1
  <2>1. Places(m, x) = T \cup {1} /\ 1 \notin T
    BY <1>2, <1>10
  <2> QED
    BY <1>9, <1>10, <2>1, FS_AddElement DEF Copies
<1>11. CASE Holds(e, x) = 0
  <2>1. Places(m, x) = T
    BY <1>2, <1>11
  <2> QED
    BY <1>9, <1>11, <2>1 DEF Copies
<1> QED
  BY <1>10, <1>11 DEF Holds

\* A list with a good entry at its end is good if the rest is.
LEMMA GoodAtEnd ==
  ASSUME NEW m, NEW l, NEW e, NEW n, AtEnd(m, l, e)
  PROVE  GoodList(m, n) <=> GoodList(l, n) /\ Good(e, n)
<1>1. Len(l) \in Nat /\ Len(m) = Len(l) + 1 /\ m \in Lists /\ l \in Lists
  BY DEF AtEnd, Lists
<1>2. \A k \in 1..Len(m) : k \in 1..Len(l) \/ k = Len(l) + 1
  BY <1>1
<1>3. (Len(l) + 1) \in 1..Len(m) /\ \A k \in 1..Len(l) : k \in 1..Len(m)
  BY <1>1
<1> QED
  BY <1>1, <1>2, <1>3 DEF AtEnd, GoodList

\* The same at the front.
LEMMA GoodAtFront ==
  ASSUME NEW m, NEW l, NEW e, NEW n, AtFront(m, l, e)
  PROVE  GoodList(m, n) <=> GoodList(l, n) /\ Good(e, n)
<1>1. Len(l) \in Nat /\ Len(m) = Len(l) + 1 /\ m \in Lists /\ l \in Lists
  BY DEF AtFront, Lists
<1>2. \A k \in 1..Len(m) : k = 1 \/ (k - 1 \in 1..Len(l) /\ (k - 1) + 1 = k)
  BY <1>1
<1>3. 1 \in 1..Len(m) /\ \A k \in 1..Len(l) : k + 1 \in 1..Len(m)
  BY <1>1
<1> QED
  BY <1>1, <1>2, <1>3 DEF AtFront, GoodList

\* Publishing more items leaves a list good.
LEMMA GoodMore ==
  ASSUME NEW l, NEW n \in Nat, NEW m \in Nat, n <= m, GoodList(l, n)
  PROVE  GoodList(l, m)
BY DEF GoodList, Good

-----------------------------------------------------------------------------
(* What the actions do to the lists. *)

\* Publish appends the new items as one entry.
LEMMA PublishLists ==
  ASSUME TypeInv, NEW k \in 1..MaxBatch, Publish(k)
  PROVE  LET e == [j \in 1..k |-> published + j]
         IN  AtEnd(queue', queue, e) /\ Len(e) = k /\ Good(e, published')
<1> DEFINE e == [j \in 1..k |-> published + j]
<1>1. k \in Nat /\ k >= 1 /\ k <= MaxBatch /\ published \in Nat /\ published' = published + k
  BY WriteQueueAssumption DEF TypeInv, Scalars, Publish
<1>2. e \in Seq(Nat) /\ Len(e) = k
  BY <1>1
<1>3. \A j \in 1..k : e[j] = published + j
  OBVIOUS
<1>4. queue' = Append(queue, e) /\ queue \in Lists
  BY DEF Publish, TypeInv, GoodList
<1> HIDE DEF e
<1>5. AtEnd(queue', queue, e)
  BY <1>2, <1>4, AppendAtEnd
<1>6. Good(e, published')
  BY <1>1, <1>2, <1>3 DEF Good
<1> QED
  BY <1>2, <1>5, <1>6 DEF e

\* Recovery moves the last entry in hand back to the front.
LEMMA RecoverLists ==
  ASSUME TypeInv, RecoverOne
  PROVE  AtEnd(processing, processing', Last(processing)) /\ AtFront(queue', queue, Last(processing))
<1>1. AtEnd(processing, processing', Last(processing))
  BY FrontAtEnd DEF RecoverOne, TypeInv, GoodList
<1>2. Last(processing) \in Seq(Nat)
  BY <1>1 DEF AtEnd
<1> QED
  BY <1>1, <1>2, ConsAtFront DEF RecoverOne, TypeInv, GoodList

\* BLMOVE takes the oldest entry in hand.
LEMMA MoveLists ==
  ASSUME TypeInv, queue # <<>>, Move
  PROVE  AtFront(queue, queue', Head(queue)) /\ AtEnd(processing', processing, Head(queue))
<1>1. AtFront(queue, queue', Head(queue))
  BY TailAtFront DEF Move, TypeInv, GoodList
<1>2. Head(queue) \in Seq(Nat)
  BY <1>1 DEF AtFront
<1> QED
  BY <1>1, <1>2, AppendAtEnd DEF Move, TypeInv, GoodList

\* The entry that is held is a good one.
LEMMA HeldGood ==
  ASSUME TypeInv, Holding
  PROVE  /\ Good(delivery, published) /\ processing # <<>> /\ Len(processing) \in 1..Len(processing)
         /\ i \in 1..(Len(delivery) + 1) /\ Len(delivery) \in 1..MaxBatch /\ delivery = Last(processing)
<1>1. /\ Len(processing) \in Nat /\ Len(processing) >= 1 /\ delivery = processing[Len(processing)]
      /\ i \in 1..(Len(delivery) + 1)
  BY DEF TypeInv, Held, GoodList, Lists
<1>2. Len(processing) \in 1..Len(processing) /\ processing # <<>>
  BY <1>1
<1>3. Good(delivery, published)
  BY <1>1, <1>2 DEF TypeInv, GoodList
<1> QED
  BY <1>1, <1>2, <1>3, WriteQueueAssumption DEF Good, Last

\* The tail of an interrupted entry goes to the end of the queue.
LEMMA TailLists ==
  ASSUME TypeInv, pc = "requeue", PushTail
  PROVE  LET t == SubSeq(delivery, i, Len(delivery))
         IN  /\ AtEnd(queue', queue, t) /\ Good(t, published) /\ Len(t) = Len(delivery) - i + 1
             /\ \A k \in 1..Len(t) : t[k] = delivery[i + k - 1]
<1> DEFINE t == SubSeq(delivery, i, Len(delivery))
<1>1. /\ delivery \in Seq(Nat) /\ i \in 1..Len(delivery) /\ Len(delivery) \in 1..MaxBatch /\ Good(delivery, published)
      /\ MaxBatch \in Nat /\ published \in Nat
  BY HeldGood, WriteQueueAssumption DEF Holding, Good, TypeInv, Held, Scalars
<1>2. t \in Seq(Nat)
  BY <1>1
<1>3. Len(t) = Len(delivery) - i + 1
  BY <1>1
<1>4. \A k \in 1..Len(t) : t[k] = delivery[i + k - 1]
  BY <1>1, <1>3
<1> HIDE DEF t
<1>5. Good(t, published)
  <2>1. Len(t) >= 1 /\ Len(t) <= MaxBatch
    BY <1>1, <1>3
  <2>2. \A k \in 1..Len(t) : i + k - 1 \in 1..Len(delivery)
    BY <1>1, <1>3
  <2>3. \A j, k \in 1..Len(t) : j < k => i + j - 1 < i + k - 1
    BY <1>1, <1>3
  <2> QED
    BY <1>1, <1>2, <1>4, <2>1, <2>2, <2>3 DEF Good
<1>6. AtEnd(queue', queue, t)
  BY <1>2, AppendAtEnd DEF PushTail, t, TypeInv, GoodList
<1> QED
  BY <1>3, <1>4, <1>5, <1>6 DEF t

\* LREM takes the entry in hand off the processing list.
LEMMA AckLists ==
  ASSUME TypeInv, Ack
  PROVE  AtEnd(processing, processing', delivery)
<1> DEFINE P(k) == processing[k] = delivery /\ \A j \in (k + 1)..Len(processing) : processing[j] # delivery
           n == Len(processing)
<1>1. /\ n \in Nat /\ n \in 1..n /\ processing[n] = delivery /\ processing # <<>>
      /\ processing \in Lists /\ delivery = Last(processing)
  BY HeldGood DEF Ack, Holding, TypeInv, Held, GoodList, Lists
<1>2. \A k \in 1..n : P(k) <=> k = n
  BY <1>1
<1>3. processing' = RemoveAt(processing, CHOOSE k \in 1..n : P(k))
  BY DEF Ack
<1>4. (CHOOSE k \in 1..n : P(k)) = n
  BY <1>1, <1>2
<1>5. processing' = Front(processing)
  BY <1>1, <1>3, <1>4, RemoveLast
<1> QED
  BY <1>1, <1>5, FrontAtEnd

-----------------------------------------------------------------------------
(* Type correctness. *)

\* The types hold initially.
LEMMA TypeInit == Init => TypeInv
<1> SUFFICES ASSUME Init PROVE TypeInv
  OBVIOUS
<1>1. stopping \in BOOLEAN
  BY Zenon DEF Init
<1>2. Scalars
  BY <1>1, WriteQueueAssumption DEF Init, Scalars
<1>3. GoodList(queue, published) /\ GoodList(processing, published)
  BY DEF Init, GoodList, Lists
<1>4. Held
  BY DEF Init, Held, Holding
<1> QED
  BY <1>2, <1>3, <1>4 DEF TypeInv

\* The item the writer is at was published.
LEMMA ItemPublished ==
  ASSUME TypeInv, pc = "item"
  PROVE  i \in 1..Len(delivery) /\ Item \in 1..published /\ Item \in Items
<1>1. i \in 1..Len(delivery) /\ Good(delivery, published)
  BY HeldGood DEF Holding, TypeInv, Held
<1> QED
  BY <1>1, WriteQueueAssumption DEF Good, Item, TypeInv, Scalars, Items

\* A step that leaves the lists and what is held alone.
LEMMA ListsKept ==
  ASSUME TypeInv, UNCHANGED <<redis, published>>
  PROVE  GoodList(queue', published') /\ GoodList(processing', published')
BY DEF TypeInv, redis

\* Every step keeps the types.
LEMMA TypeStep == TypeInv /\ [Next]_vars => TypeInv'
<1> SUFFICES ASSUME TypeInv, [Next]_vars PROVE TypeInv'
  OBVIOUS
<1> USE WriteQueueAssumption DEF TypeInv, disposed, redis
<1>1. ASSUME NEW k \in 1..MaxBatch, Publish(k) PROVE TypeInv'
  <2>1. published \in Nat /\ published' \in Nat /\ published <= published' /\ published' <= MaxItems
    BY <1>1 DEF Publish, Scalars
  <2>2. GoodList(queue, published') /\ GoodList(processing, published')
    BY <2>1, GoodMore
  <2>3. GoodList(queue', published')
    BY <1>1, <2>2, PublishLists, GoodAtEnd
  <2>4. Scalars'
    BY <1>1, <2>1 DEF Publish, Scalars
  <2>5. Held'
    BY <1>1 DEF Publish, Held, Holding
  <2> QED
    BY <1>1, <2>2, <2>3, <2>4, <2>5 DEF Publish
<1>2. CASE RecoverOne
  <2>1. GoodList(processing', published) /\ GoodList(queue', published)
    BY <1>2, RecoverLists, GoodAtEnd, GoodAtFront
  <2> QED
    BY <1>2, <2>1 DEF RecoverOne, Scalars, Held, Holding
<1>3. CASE RecoverDone
  BY <1>3, ListsKept DEF RecoverDone, Scalars, Held, Holding
<1>4. ASSUME queue # <<>>, Move
      PROVE  /\ GoodList(processing', published) /\ GoodList(queue', published)
             /\ Len(processing') >= 1 /\ processing'[Len(processing')] = Head(queue) /\ Good(Head(queue), published)
  <2>1. AtFront(queue, queue', Head(queue)) /\ AtEnd(processing', processing, Head(queue))
    BY <1>4, MoveLists
  <2>2. GoodList(queue', published) /\ Good(Head(queue), published)
    BY <2>1, GoodAtFront
  <2>3. GoodList(processing', published)
    BY <2>1, <2>2, GoodAtEnd
  <2>4. Len(processing') >= 1 /\ processing'[Len(processing')] = Head(queue)
    BY <2>1 DEF AtEnd, Lists
  <2> QED
    BY <2>2, <2>3, <2>4
<1>5. CASE Reserve
  <2>1. 1 \in 1..(Len(Head(queue)) + 1)
    BY <1>4, <1>5 DEF Reserve, Good
  <2>2. Held'
    BY <1>4, <1>5, <2>1 DEF Reserve, Held, Holding
  <2>3. Scalars'
    BY <1>5 DEF Reserve, Scalars
  <2> QED
    BY <1>4, <1>5, <2>2, <2>3 DEF Reserve
<1>6. CASE ReserveFails
  <2>1. GoodList(processing', published) /\ GoodList(queue', published)
    BY <1>4, <1>6 DEF ReserveFails
  <2> QED
    BY <1>6, <2>1 DEF ReserveFails, Fault, Scalars, Held, Holding
<1>7. CASE BeginItem
  BY <1>7, ListsKept DEF BeginItem, Scalars, Held, Holding
<1>8. CASE BatchInterrupted
  BY <1>8, ListsKept DEF BatchInterrupted, Scalars, Held, Holding
<1>9. CASE BatchDone
  BY <1>9, ListsKept DEF BatchDone, Scalars, Held, Holding
<1>10. ASSUME NEW x \in Items, Effect(x) PROVE ran' \in [Items -> 0..(MaxFaults + MaxStops + 2)]
  BY <1>10 DEF Effect, Scalars
<1>11. ASSUME pc = "item", NextItem, UNCHANGED <<processing, delivery>> PROVE Held' /\ i' \in 0..(MaxBatch + 1) /\ pc' = "batch" /\ attempt' = 0
  <2>1. /\ i \in 1..Len(delivery) /\ Len(delivery) \in 1..MaxBatch /\ Len(processing) >= 1
        /\ delivery = processing[Len(processing)]
    BY <1>11, ItemPublished, HeldGood DEF Holding, Held
  <2> QED
    BY <1>11, <2>1 DEF NextItem, Held, Holding
<1>t. ASSUME pc = "item", Tears \/ UNCHANGED torn PROVE torn' \in [Items -> Nat]
  BY <1>t, ItemPublished DEF Tears, Scalars
<1>12. CASE ItemStored \/ ItemUnprocessable \/ ItemFailed
  <2>1. pc = "item" /\ NextItem /\ UNCHANGED <<redis, stopping, delivery, published, faults, stops>>
    BY <1>12 DEF ItemStored, ItemUnprocessable, ItemFailed
  <2>2. Item \in Items /\ Item \in 1..published
    BY <2>1, ItemPublished
  <2>3. ran' \in [Items -> 0..(MaxFaults + MaxStops + 2)]
    BY <1>10, <1>12, <2>2 DEF ItemStored, ItemUnprocessable, ItemFailed, Scalars
  <2>4. final' \subseteq 1..published /\ gaveUp' \subseteq 1..published
    BY <1>12, <2>2 DEF ItemStored, ItemUnprocessable, ItemFailed, Scalars
  <2>t. torn' \in [Items -> Nat]
    BY <1>t, <1>12, <2>1 DEF ItemStored, ItemUnprocessable, ItemFailed
  <2>5. Scalars'
    BY <1>11, <2>1, <2>3, <2>4, <2>t DEF Scalars
  <2> QED
    BY <1>11, <2>1, <2>5, ListsKept
<1>13. CASE ItemRetried
  <2>1. torn' \in [Items -> Nat]
    BY <1>t, <1>13 DEF ItemRetried
  <2> QED
    BY <1>13, <2>1, ListsKept DEF ItemRetried, Scalars, Held, Holding
<1>14. CASE ItemInterrupted
  <2>1. Item \in Items /\ i <= Len(delivery)
    BY <1>14, ItemPublished DEF ItemInterrupted
  <2>2. ran' \in [Items -> 0..(MaxFaults + MaxStops + 2)]
    BY <1>10, <1>14, <2>1 DEF ItemInterrupted, Scalars
  <2>3. torn' \in [Items -> Nat]
    BY <1>t, <1>14 DEF ItemInterrupted
  <2> QED
    BY <1>14, <2>1, <2>2, <2>3, ListsKept DEF ItemInterrupted, Scalars, Held, Holding
<1>15. ASSUME pc = "requeue", PushTail PROVE GoodList(queue', published)
  BY <1>15, TailLists, GoodAtEnd
<1>16. CASE Requeue
  BY <1>15, <1>16 DEF Requeue, Scalars, Held, Holding
<1>17. CASE RequeueFails
  <2>1. GoodList(queue', published)
    BY <1>15, <1>17 DEF RequeueFails
  <2> QED
    BY <1>17, <2>1 DEF RequeueFails, Fault, Scalars, Held, Holding
<1>18. CASE Ack
  <2>1. GoodList(processing', published)
    BY <1>18, AckLists, GoodAtEnd
  <2> QED
    BY <1>18, <2>1 DEF Ack, Loop, Scalars, Held, Holding
<1>19. CASE AckFails
  BY <1>19, ListsKept DEF AckFails, Fault, Loop, Scalars, Held, Holding
<1>20. CASE Stop
  <2>1. stopping' \in BOOLEAN
    BY <1>20, Zenon DEF Stop
  <2> QED
    BY <1>20, <2>1, ListsKept DEF Stop, Scalars, Held, Holding
<1>21. CASE RunEnds
  BY <1>21, ListsKept DEF RunEnds, Scalars, Held, Holding
<1>22. CASE StartWriter
  <2>1. stopping' \in BOOLEAN
    BY <1>22, Zenon DEF StartWriter
  <2>2. torn' \in [Items -> Nat]
    BY <1>t, <1>22 DEF StartWriter, Scalars
  <2> QED
    BY <1>22, <2>1, <2>2, ListsKept DEF StartWriter, Fault, Scalars, Held, Holding
<1>23. CASE UNCHANGED vars
  BY <1>23, ListsKept DEF vars, Scalars, Held, Holding
<1> QED
  BY <1>1, <1>2, <1>3, <1>5, <1>6, <1>7, <1>8, <1>9, <1>12, <1>13, <1>14, <1>16, <1>17, <1>18, <1>19,
     <1>20, <1>21, <1>22, <1>23
     DEF Next, Recovery, Take, ReserveIdle, Batch, Process, Finish, Lifecycle

\* The types of the proofs imply those of the model.
LEMMA TypesOK == TypeInv => TypeOK
<1> SUFFICES ASSUME TypeInv PROVE TypeOK
  OBVIOUS
<1>1. (\A k \in 1..Len(queue) : Entry(queue[k])) /\ (\A k \in 1..Len(processing) : Entry(processing[k]))
  BY DEF TypeInv, GoodList, Good, Entry
<1>2. Holding => delivery \in Range(processing) /\ i \in 1..(Len(delivery) + 1)
  <2>1. Holding => delivery = processing[Len(processing)] /\ Len(processing) \in DOMAIN processing
    BY HeldGood DEF TypeInv, Held, GoodList, Lists
  <2> QED
    BY <2>1, HeldGood DEF Range
<1> QED
  BY <1>1, <1>2 DEF TypeInv, TypeOK, Scalars, Held, Holding

-----------------------------------------------------------------------------
(* Counting the entries from which an item can still be processed. *)

\* How often an item is alive is a number.
LEMMA LiveType ==
  ASSUME TypeInv, NEW x
  PROVE  /\ Copies(queue, x) \in Nat /\ Copies(processing, x) \in Nat
         /\ Taken(x) \in {0, 1} /\ Live(x) \in Int
<1>1. Copies(queue, x) \in Nat /\ Copies(processing, x) \in Nat
  BY CopiesCount DEF TypeInv, GoodList
<1>2. Taken(x) \in {0, 1}
  BY DEF Taken
<1> QED
  BY <1>1, <1>2 DEF Live

\* Nothing holds an item that was not published.
LEMMA Unpublished ==
  ASSUME TypeInv, NEW x \in Nat, x > published
  PROVE  Copies(queue, x) = 0 /\ Copies(processing, x) = 0 /\ Taken(x) = 0
<1>0. published \in Nat
  BY DEF TypeInv, Scalars
<1>1. ASSUME NEW l, GoodList(l, published) PROVE Copies(l, x) = 0
  <2>1. \A k \in 1..Len(l) : \A j \in 1..Len(l[k]) : l[k][j] # x
    BY <1>0, <1>1 DEF GoodList, Good
  <2>2. Places(l, x) = {}
    BY <2>1 DEF Places
  <2> QED
    BY <1>1, <2>2, CopiesCount DEF GoodList
<1>2. Taken(x) = 0
  <2>1. CASE Holding
    <3>1. \A j \in 1..Len(delivery) : delivery[j] # x
      BY <1>0, <2>1, HeldGood DEF Good
    <3>2. \A j \in 1..(i - 1) : j \in 1..Len(delivery)
      BY <2>1, HeldGood, WriteQueueAssumption
    <3> QED
      BY <3>1, <3>2 DEF Taken
  <2>2. CASE ~Holding
    BY <2>2 DEF Taken, Holding
  <2> QED
    BY <2>1, <2>2
<1> QED
  BY <1>1, <1>2 DEF TypeInv

\* A step that settles nothing keeps CountInv when no Live falls and none rises
\* by more than the faults do.
LEMMA CountKept ==
  ASSUME TypeInv, TypeInv', CountInv, UNCHANGED <<published, final, gaveUp>>,
         \A x \in Items \ Telemetry : ran'[x] = ran[x],
         \A x \in Items : x > published => ran'[x] = ran[x],
         \A x \in Items : Live(x)' \in Int /\ Live(x) \in Int /\ Live(x) <= Live(x)' /\ Live(x)' - Live(x) <= faults' - faults
  PROVE  CountInv'
<1>1. \A x \in 1..published : x \in Items
  BY WriteQueueAssumption DEF TypeInv, Scalars, Items
<1>2. /\ faults \in Nat /\ faults' \in Nat
      /\ ran \in [Items -> Nat] /\ ran' \in [Items -> Nat]
  BY WriteQueueAssumption DEF TypeInv, Scalars
<1>3. Settled' = Settled
  BY DEF Settled
<1>4. \A x \in 1..published' : x \in Settled' \/ Live(x)' > 0
  BY <1>1, <1>3 DEF CountInv
<1>5. \A x \in Items : x > published' => ran'[x] = 0
  BY DEF CountInv
<1>6. \A x \in Items \ Telemetry : ran'[x] + Live(x)' <= 1 + faults'
  BY <1>2 DEF CountInv
<1> QED
  BY <1>4, <1>5, <1>6 DEF CountInv

\* The next k items: each is in one new entry.
LEMMA PublishLive ==
  ASSUME TypeInv, NEW k \in 1..MaxBatch, Publish(k), NEW x \in Items
  PROVE  /\ Live(x)' = Live(x) + (IF x > published /\ x <= published' THEN 1 ELSE 0)
         /\ Live(x) \in Int /\ x \in Nat /\ (x > published => Live(x) = 0)
<1> DEFINE e == [j \in 1..k |-> published + j]
<1>1. AtEnd(queue', queue, e) /\ Len(e) = k
  BY PublishLists
<1>2. /\ published \in Nat /\ k \in Nat /\ published' = published + k /\ x \in Nat
      /\ UNCHANGED <<processing, pc, delivery, i>>
  BY WriteQueueAssumption DEF Publish, TypeInv, Scalars, Items
<1>3. Holds(e, x) = IF x > published /\ x <= published' THEN 1 ELSE 0
  <2>1. ASSUME x > published, x <= published' PROVE \E j \in 1..k : e[j] = x
    <3>1. x - published \in 1..k /\ published + (x - published) = x
      BY <1>2, <2>1
    <3> QED
      BY <3>1
  <2>2. ASSUME NEW j \in 1..k, e[j] = x PROVE x > published /\ x <= published'
    BY <1>2, <2>2
  <2> QED
    BY <1>1, <2>1, <2>2 DEF Holds
<1> HIDE DEF e
<1>4. Copies(queue', x) = Copies(queue, x) + Holds(e, x)
  BY <1>1, CopiesAtEnd
<1>5. Taken(x)' = Taken(x) /\ Copies(processing', x) = Copies(processing, x)
  BY <1>2 DEF Taken
<1>6. Holds(e, x) \in {0, 1}
  BY DEF Holds
<1>7. Live(x)' = Live(x) + Holds(e, x) /\ Live(x) \in Int
  BY <1>4, <1>5, <1>6, LiveType DEF Live
<1>8. x > published => Live(x) = 0
  BY <1>2, Unpublished DEF Live
<1> QED
  BY <1>2, <1>3, <1>7, <1>8

\* They have not run.
LEMMA PublishCounts ==
  ASSUME TypeInv, CountInv, NEW k \in 1..MaxBatch, Publish(k)
  PROVE  CountInv'
<1>2. /\ published \in Nat /\ k \in Nat /\ published' = published + k
      /\ UNCHANGED <<processing, pc, delivery, i, ran, final, gaveUp, faults>> /\ faults \in Nat
      /\ \A x \in Items : x \in Nat /\ ran[x] \in Nat
      /\ published' <= MaxItems
  BY WriteQueueAssumption DEF Publish, disposed, TypeInv, Scalars, Items
<1>6. Settled' = Settled
  BY <1>2 DEF Settled
<1>l. \A x \in Items : /\ Live(x)' = Live(x) + (IF x > published /\ x <= published' THEN 1 ELSE 0)
                       /\ Live(x) \in Int /\ x \in Nat /\ (x > published => Live(x) = 0)
  BY PublishLive
<1>i. \A x \in 1..published' : x \in Items
  BY <1>2, WriteQueueAssumption DEF Items
<1>7. \A x \in 1..published' : x \in Settled' \/ Live(x)' > 0
  BY <1>2, <1>6, <1>l, <1>i DEF CountInv
<1>8. \A x \in Items : x > published' => ran'[x] = 0
  BY <1>2 DEF CountInv
<1>9. \A x \in Items \ Telemetry : ran'[x] + Live(x)' <= 1 + faults'
  BY <1>2, <1>l DEF CountInv
<1> QED
  BY <1>7, <1>8, <1>9 DEF CountInv

\* What was not published was not torn either.
LEMMA PublishTears ==
  ASSUME TypeInv, TornInv, NEW k \in 1..MaxBatch, Publish(k)
  PROVE  TornInv'
<1>1. /\ published \in Nat /\ k \in Nat /\ published' = published + k
      /\ UNCHANGED <<pc, delivery, i, attempt, torn, faults, stops, stopping>> /\ faults \in Nat /\ stops \in Nat
      /\ MaxRetries \in Nat
      /\ \A x \in Items : x \in Nat /\ torn[x] \in Nat
  BY WriteQueueAssumption DEF Publish, disposed, TypeInv, Scalars, Items
<1>2. Spare' = Spare /\ Spare \in Nat
  BY <1>1 DEF Spare, TornInv
<1>3. ASSUME NEW x \in Items PROVE torn'[x] <= (MaxRetries * Credit(x)') + Used(x)'
  <2>0. Used(x)' = Used(x)
    BY <1>1 DEF Used, Item
  <2>1. /\ Live(x)' = Live(x) + (IF x > published /\ x <= published' THEN 1 ELSE 0)
        /\ Live(x) \in Int /\ x \in Nat /\ (x > published => Live(x) = 0)
    BY PublishLive
  <2>2. CASE x > published
    <3>1. torn'[x] = 0
      BY <1>1, <2>2 DEF TornInv
    <3>2. Used(x) = 0
      BY <2>2, <1>1, <2>1, ItemPublished DEF Used
    <3>3. Credit(x)' \in Nat
      BY <1>1, <1>2, <2>1, <2>2 DEF Credit
    <3>4. PICK c \in Nat : c = Credit(x)'
      BY <3>3
    <3>5. MaxRetries * c \in Nat
      BY <1>1
    <3> QED
      BY <2>0, <3>1, <3>2, <3>4, <3>5
  <2>3. CASE ~(x > published)
    <3>1. Credit(x)' = Credit(x)
      BY <1>1, <1>2, <2>1, <2>3 DEF Credit
    <3> QED
      BY <1>1, <2>0, <3>1 DEF TornInv
  <2> QED
    BY <2>2, <2>3
<1>4. \A x \in Items : x > published' => torn'[x] = 0
  BY <1>1 DEF TornInv
<1>5. stopping' => stops' >= 1
  BY <1>1 DEF TornInv
<1> QED
  BY <1>3, <1>4, <1>5 DEF TornInv

\* An item that is settled has left the entry that is held: it cannot be
\* processed from there again.
LEMMA SettlingLive ==
  ASSUME TypeInv, pc = "item", pc' = "batch", i' = i + 1,
         UNCHANGED <<queue, processing, delivery>>, NEW x \in Items
  PROVE  Live(x)' = Live(x) - (IF x = Item THEN 1 ELSE 0) /\ Live(x) \in Int
<1>1. pc = "item" /\ pc' = "batch" /\ i' = i + 1 /\ UNCHANGED <<queue, processing, delivery>>
  OBVIOUS
<1>2. /\ i \in 1..Len(delivery) /\ Item \in 1..published /\ Item \in Items /\ Good(delivery, published)
      /\ Item = delivery[i]
  BY <1>1, ItemPublished, HeldGood DEF Holding, Item
<1>5. Taken(x)' = Taken(x) + (IF x = Item THEN 1 ELSE 0)
  <2>1. \A j \in 1..(i' - 1) : j \in 1..(i - 1) \/ j = i
    BY <1>1, <1>2
  <2>2. \A j \in 1..(i - 1) : delivery[j] # Item
    BY <1>2, SMTT(20) DEF Good
  <2>3. i \in 1..(i' - 1) /\ \A j \in 1..(i - 1) : j \in 1..(i' - 1)
    BY <1>1, <1>2
  <2>4. Taken(x) = IF \E j \in 1..(i - 1) : delivery[j] = x THEN 1 ELSE 0
    BY <1>1 DEF Taken
  <2>5. Taken(x)' = IF \E j \in 1..(i' - 1) : delivery[j] = x THEN 1 ELSE 0
    BY <1>1 DEF Taken
  <2>6. CASE x = Item
    BY <1>2, <2>2, <2>3, <2>4, <2>5, <2>6
  <2>7. CASE x # Item
    <3>1. (\E j \in 1..(i' - 1) : delivery[j] = x) <=> (\E j \in 1..(i - 1) : delivery[j] = x)
      BY <1>2, <2>1, <2>3, <2>7
    <3> QED
      BY <2>4, <2>5, <2>7, <3>1
  <2> QED
    BY <2>6, <2>7
<1>6. Live(x)' = Live(x) - (IF x = Item THEN 1 ELSE 0) /\ Live(x) \in Int
  BY <1>1, <1>5, LiveType DEF Live
<1> QED
  BY <1>6

\* It runs at most once there.
LEMMA SettlingCounts ==
  ASSUME TypeInv, CountInv, ItemStored \/ ItemUnprocessable \/ ItemFailed
  PROVE  CountInv'
<1>1. /\ pc = "item" /\ pc' = "batch" /\ i' = i + 1
      /\ UNCHANGED <<queue, processing, delivery, published, faults>>
      /\ Settled' = Settled \cup {Item}
  BY DEF ItemStored, ItemUnprocessable, ItemFailed, NextItem, redis, Settled
<1>2. /\ i \in 1..Len(delivery) /\ Item \in 1..published /\ Item \in Items /\ Good(delivery, published)
      /\ Item = delivery[i]
  BY <1>1, ItemPublished, HeldGood DEF Holding, Item
<1>3. /\ published \in Nat /\ faults \in Nat /\ \A x \in Items : x \in Nat /\ ran[x] \in Nat
      /\ \A x \in 1..published : x \in Items
      /\ ran \in [Items -> 0..(MaxFaults + MaxStops + 2)]
  BY WriteQueueAssumption DEF TypeInv, Scalars, Items
<1>4. \A x \in Items : /\ ran'[x] \in Nat /\ ran'[x] <= ran[x] + (IF x = Item THEN 1 ELSE 0)
                       /\ x # Item => ran'[x] = ran[x]
  <2>1. Effect(Item) \/ ran' = ran
    BY DEF ItemStored, ItemUnprocessable, ItemFailed
  <2>2. CASE ran' = ran
    BY <1>2, <1>3, <2>2
  <2>3. CASE Effect(Item)
    <3> DEFINE n == IF ran[Item] < MaxFaults + MaxStops + 2 THEN ran[Item] + 1 ELSE ran[Item]
    <3>1. ran[Item] \in Nat /\ n \in Nat /\ n <= ran[Item] + 1
      BY <1>2, <1>3, WriteQueueAssumption
    <3>2. ran' = [ran EXCEPT ![Item] = n]
      BY <1>2, <1>3, <2>3 DEF Effect
    <3> HIDE DEF n
    <3>3. ran'[Item] = n /\ \A x \in Items : x # Item => ran'[x] = ran[x]
      BY <1>2, <1>3, <3>2
    <3> TAKE x \in Items
    <3>4. CASE x = Item
      BY <3>1, <3>3, <3>4
    <3>5. CASE x # Item
      BY <1>3, <3>3, <3>5
    <3> QED
      BY <3>4, <3>5
  <2> QED
    BY <2>1, <2>2, <2>3
<1>6. \A x \in Items : Live(x)' = Live(x) - (IF x = Item THEN 1 ELSE 0) /\ Live(x) \in Int
  BY <1>1, SettlingLive
<1>7. \A x \in 1..published' : x \in Settled' \/ Live(x)' > 0
  BY <1>1, <1>3, <1>6 DEF CountInv
<1>8. \A x \in Items : x > published' => ran'[x] = 0
  BY <1>1, <1>2, <1>3, <1>4 DEF CountInv
<1>9. \A x \in Items \ Telemetry : ran'[x] + Live(x)' <= 1 + faults'
  BY <1>1, <1>3, <1>4, <1>6 DEF CountInv
<1> QED
  BY <1>7, <1>8, <1>9 DEF CountInv

\* What the entry that is held counts for: the whole of it when it is given up
\* without an answer, the part not dealt with before.
LEMMA HeldCounts ==
  ASSUME TypeInv, Holding, NEW x
  PROVE  /\ Taken(x) <= Holds(delivery, x) /\ Holds(delivery, x) \in {0, 1} /\ Taken(x) \in {0, 1}
         /\ pc = "ack" => Taken(x) = Holds(delivery, x)
         /\ pc = "batch" /\ i > Len(delivery) => Taken(x) = Holds(delivery, x)
<1>1. /\ i \in 1..(Len(delivery) + 1) /\ Len(delivery) \in Nat
  BY HeldGood, WriteQueueAssumption
<1>2. \A j \in 1..(i - 1) : j \in 1..Len(delivery)
  BY <1>1
<1>3. i > Len(delivery) => \A j \in 1..Len(delivery) : j \in 1..(i - 1)
  BY <1>1
<1> QED
  BY <1>2, <1>3 DEF Taken, Holds, Holding

\* The unfinished tail is what was not dealt with.
LEMMA TailCounts ==
  ASSUME TypeInv, pc = "requeue", PushTail, NEW x
  PROVE  Copies(queue', x) = Copies(queue, x) + Holds(delivery, x) - Taken(x)
<1> DEFINE t == SubSeq(delivery, i, Len(delivery))
<1>1. /\ AtEnd(queue', queue, t) /\ Len(t) = Len(delivery) - i + 1
      /\ \A k \in 1..Len(t) : t[k] = delivery[i + k - 1]
  BY TailLists
<1>2. /\ Good(delivery, published) /\ i \in 1..Len(delivery) /\ Len(delivery) \in Nat
  BY HeldGood, WriteQueueAssumption DEF Holding, TypeInv, Held
<1> HIDE DEF t
<1>3. Copies(queue', x) = Copies(queue, x) + Holds(t, x) /\ Copies(queue, x) \in Nat
  BY <1>1, CopiesAtEnd, LiveType
<1>4. (\E k \in 1..Len(t) : t[k] = x) <=> (\E j \in i..Len(delivery) : delivery[j] = x)
  <2>1. ASSUME NEW j \in i..Len(delivery) PROVE j - i + 1 \in 1..Len(t) /\ i + (j - i + 1) - 1 = j
    BY <1>1, <1>2
  <2>2. ASSUME NEW k \in 1..Len(t) PROVE i + k - 1 \in i..Len(delivery)
    BY <1>1, <1>2
  <2>3. ASSUME NEW j \in i..Len(delivery), delivery[j] = x PROVE \E k \in 1..Len(t) : t[k] = x
    <3>1. t[j - i + 1] = delivery[i + (j - i + 1) - 1]
      BY <1>1, <2>1
    <3> QED
      BY <2>1, <2>3, <3>1
  <2> QED
    BY <1>1, <2>2, <2>3
<1>5. Taken(x) = IF \E j \in 1..(i - 1) : delivery[j] = x THEN 1 ELSE 0
  BY DEF Taken
<1>6. \A j \in 1..Len(delivery) : j \in 1..(i - 1) \/ j \in i..Len(delivery)
  BY <1>2
<1>7. (\A j \in 1..(i - 1) : j \in 1..Len(delivery)) /\ (\A j \in i..Len(delivery) : j \in 1..Len(delivery))
  BY <1>2
<1>8. \A j \in 1..(i - 1), k \in i..Len(delivery) : delivery[j] # delivery[k]
  BY <1>2, <1>7 DEF Good
<1>9. Holds(delivery, x) = Holds(t, x) + Taken(x)
  BY <1>4, <1>5, <1>6, <1>7, <1>8 DEF Holds
<1> QED
  <2>1. Holds(t, x) \in {0, 1} /\ Taken(x) \in {0, 1}
    BY <1>5 DEF Holds
  <2> QED
    BY <1>3, <1>9, <2>1

Settling == ItemStored \/ ItemUnprocessable \/ ItemFailed
Publishing == \E k \in 1..MaxBatch : Publish(k)

\* What the other steps do to the lists: a fault may make items alive once more.
LiveMoves ==
  /\ UNCHANGED <<published, final, gaveUp>>
  /\ \A x \in Items : /\ Live(x)' \in Int /\ Live(x) \in Int /\ Live(x) <= Live(x)'
                      /\ Live(x)' - Live(x) <= faults' - faults

\* They do no more than that.
LEMMA LiveStep ==
  ASSUME TypeInv, [Next]_vars, ~Settling, ~Publishing
  PROVE  LiveMoves
<1>t. TypeInv'
  BY TypeStep
<1>f. faults \in Nat /\ faults' \in Nat
  BY <1>t DEF TypeInv, Scalars
<1>k. ASSUME UNCHANGED <<published, final, gaveUp>>, faults' >= faults,
             \A x \in Items : Live(x)' = Live(x)
      PROVE  LiveMoves
  <2>1. \A x \in Items : Live(x)' \in Int /\ Live(x) \in Int
    BY <1>k, LiveType
  <2>2. \A x \in Items : Live(x) <= Live(x)' /\ Live(x)' - Live(x) <= faults' - faults
    BY <1>f, <1>k, <2>1
  <2> QED
    BY <1>k, <2>1, <2>2 DEF LiveMoves
<1>g. ASSUME UNCHANGED <<published, final, gaveUp>>, faults' = faults + 1,
             \A x \in Items : \E d \in {0, 1} : Live(x)' = Live(x) + d
      PROVE  LiveMoves
  <2>1. \A x \in Items : Live(x) \in Int
    BY LiveType
  <2>2. \A x \in Items : Live(x)' \in Int /\ Live(x) <= Live(x)' /\ Live(x)' - Live(x) <= faults' - faults
    BY <1>f, <1>g, <2>1
  <2> QED
    BY <1>g, <2>1, <2>2 DEF LiveMoves
<1>2. CASE RecoverOne
  <2>1. ASSUME NEW x \in Items PROVE Live(x)' = Live(x)
    <3>1. /\ Copies(processing, x) = Copies(processing', x) + Holds(Last(processing), x)
          /\ Copies(queue', x) = Copies(queue, x) + Holds(Last(processing), x)
      BY <1>2, RecoverLists, CopiesAtEnd, CopiesAtFront
    <3>2. Taken(x) = 0 /\ Taken(x)' = 0
      BY <1>2 DEF RecoverOne, Taken
    <3>3. Copies(queue, x) \in Nat /\ Copies(processing', x) \in Nat /\ Holds(Last(processing), x) \in {0, 1}
      BY <1>t, CopiesCount DEF TypeInv, GoodList, Holds
    <3> QED
      BY <3>1, <3>2, <3>3 DEF Live
  <2> QED
    BY <1>2, <1>f, <1>k, <2>1 DEF RecoverOne, disposed
<1>3. ASSUME queue # <<>>, Move, NEW x
      PROVE  Copies(queue', x) + Copies(processing', x) = Copies(queue, x) + Copies(processing, x)
  <2>1. /\ Copies(queue, x) = Copies(queue', x) + Holds(Head(queue), x)
        /\ Copies(processing', x) = Copies(processing, x) + Holds(Head(queue), x)
    BY <1>3, MoveLists, CopiesAtEnd, CopiesAtFront
  <2>2. AtFront(queue, queue', Head(queue))
    BY <1>3, MoveLists
  <2>3. Copies(queue', x) \in Nat /\ Copies(processing, x) \in Nat /\ Holds(Head(queue), x) \in {0, 1}
    BY <2>2, CopiesCount DEF TypeInv, GoodList, Holds, AtFront
  <2> QED
    BY <2>1, <2>3
<1>4. CASE Reserve
  <2>1. ASSUME NEW x \in Items PROVE Live(x)' = Live(x)
    <3>1. Taken(x) = 0 /\ Taken(x)' = 0
      BY <1>4 DEF Reserve, Taken
    <3>2. Copies(queue', x) + Copies(processing', x) = Copies(queue, x) + Copies(processing, x)
      BY <1>3, <1>4 DEF Reserve
    <3>3. /\ Copies(queue, x) \in Nat /\ Copies(processing, x) \in Nat
          /\ Copies(queue', x) \in Nat /\ Copies(processing', x) \in Nat
      BY <1>t, CopiesCount DEF TypeInv, GoodList
    <3> QED
      BY <3>1, <3>2, <3>3 DEF Live
  <2> QED
    BY <1>4, <1>f, <1>k, <2>1 DEF Reserve, disposed
<1>5. CASE ReserveFails
  <2>1. ASSUME NEW x \in Items PROVE Live(x)' = Live(x)
    <3>1. Taken(x) = 0 /\ Taken(x)' = 0
      BY <1>5 DEF ReserveFails, Taken
    <3>2. Copies(queue', x) + Copies(processing', x) = Copies(queue, x) + Copies(processing, x)
      BY <1>3, <1>5 DEF ReserveFails, redis
    <3>3. /\ Copies(queue, x) \in Nat /\ Copies(processing, x) \in Nat
          /\ Copies(queue', x) \in Nat /\ Copies(processing', x) \in Nat
      BY <1>t, CopiesCount DEF TypeInv, GoodList
    <3> QED
      BY <3>1, <3>2, <3>3 DEF Live
  <2> QED
    BY <1>5, <1>f, <1>k, <2>1 DEF ReserveFails, Fault, disposed
<1>6. CASE RecoverDone \/ BeginItem \/ BatchInterrupted \/ ItemRetried \/ Stop \/ RunEnds
  <2>1. /\ UNCHANGED <<queue, processing, delivery, i, published, final, gaveUp, faults>>
        /\ (pc' = pc \/ (pc \in {"batch", "item"} /\ pc' \in {"batch", "item", "requeue"}) \/ (pc \in {"replay", "ready"} /\ pc' \in {"ready", "stopped"}))
    BY <1>6 DEF RecoverDone, BeginItem, BatchInterrupted, ItemRetried, Stop, RunEnds, redis, disposed
  <2>2. ASSUME NEW x \in Items PROVE Live(x)' = Live(x)
    BY <2>1 DEF Live, Taken
  <2> QED
    BY <1>f, <1>k, <2>1, <2>2
<1>7. CASE ItemInterrupted
  <2>1. /\ UNCHANGED <<queue, processing, delivery, i, published, final, gaveUp, faults>> /\ pc = "item"
        /\ pc' = "requeue"
    BY <1>7 DEF ItemInterrupted, redis
  <2>2. ASSUME NEW x \in Items PROVE Live(x)' = Live(x)
    BY <2>1 DEF Live, Taken
  <2> QED
    BY <1>f, <1>k, <2>1, <2>2
<1>8. CASE BatchDone
  <2>1. /\ UNCHANGED <<queue, processing, delivery, i, published, disposed, faults>>
        /\ pc = "batch" /\ i > Len(delivery) /\ pc' = "ack"
    BY <1>8 DEF BatchDone, redis
  <2>2. ASSUME NEW x \in Items PROVE Live(x)' = Live(x)
    <3>1. Taken(x) = Holds(delivery, x)
      BY <2>1, HeldCounts DEF Holding
    <3>2. Taken(x)' = Holds(delivery, x)
      BY <2>1 DEF Taken, Holds
    <3> QED
      BY <2>1, <3>1, <3>2 DEF Live
  <2> QED
    BY <1>f, <1>k, <2>1, <2>2 DEF disposed
<1>10. CASE Requeue
  <2>1. UNCHANGED <<processing, delivery, published, disposed, faults>> /\ pc = "requeue" /\ pc' = "ack" /\ PushTail
    BY <1>10 DEF Requeue
  <2>2. ASSUME NEW x \in Items PROVE Live(x)' = Live(x)
    <3>1. Copies(queue', x) = Copies(queue, x) + Holds(delivery, x) - Taken(x)
      BY <2>1, TailCounts
    <3>2. Taken(x)' = Holds(delivery, x) /\ Holds(delivery, x) \in {0, 1}
      BY <2>1 DEF Taken, Holds
    <3> QED
      BY <2>1, <3>1, <3>2, LiveType DEF Live
  <2> QED
    BY <1>f, <1>k, <2>1, <2>2 DEF disposed
<1>11. CASE RequeueFails
  <2>1. /\ UNCHANGED <<processing, delivery, published, final, gaveUp>> /\ pc = "requeue" /\ pc' = "stopped"
        /\ PushTail \/ UNCHANGED queue
        /\ faults' = faults + 1
    BY <1>11 DEF RequeueFails, Fault, disposed
  <2>2. ASSUME NEW x \in Items PROVE \E d \in {0, 1} : Live(x)' = Live(x) + d
    <3>1. PushTail => Copies(queue', x) = Copies(queue, x) + Holds(delivery, x) - Taken(x)
      BY <2>1, TailCounts
    <3>2. Taken(x) <= Holds(delivery, x) /\ Holds(delivery, x) \in {0, 1} /\ Taken(x) \in {0, 1} /\ Taken(x)' = 0
      BY <2>1, HeldCounts DEF Taken, Holding
    <3>3. CASE PushTail
      <4>1. Live(x)' = Live(x) + Holds(delivery, x)
        BY <2>1, <3>1, <3>2, <3>3, LiveType DEF Live
      <4> QED
        BY <3>2, <4>1
    <3>4. CASE UNCHANGED queue
      <4>1. Live(x)' = Live(x) + Taken(x)
        BY <2>1, <3>2, <3>4, LiveType DEF Live
      <4> QED
        BY <3>2, <4>1
    <3> QED
      BY <2>1, <3>3, <3>4
  <2> QED
    BY <1>g, <2>1, <2>2
<1>12. CASE Ack
  <2>1. UNCHANGED <<queue, published, disposed, faults>> /\ pc = "ack" /\ pc' \in {"stopped", "ready"}
    BY <1>12 DEF Ack, Loop
  <2>2. ASSUME NEW x \in Items PROVE Live(x)' = Live(x)
    <3>1. Copies(processing, x) = Copies(processing', x) + Holds(delivery, x)
      BY <1>12, AckLists, CopiesAtEnd
    <3>2. Taken(x) = Holds(delivery, x) /\ Taken(x)' = 0 /\ Holds(delivery, x) \in {0, 1}
      BY <2>1, HeldCounts DEF Holding, Taken
    <3>3. Copies(processing', x) \in Nat /\ Copies(queue, x) \in Nat
      BY <1>t, CopiesCount DEF TypeInv, GoodList
    <3> QED
      BY <2>1, <3>1, <3>2, <3>3 DEF Live
  <2> QED
    BY <1>f, <1>k, <2>1, <2>2 DEF disposed
<1>13. CASE AckFails \/ (StartWriter /\ faults' = faults + 1)
  <2>1. /\ UNCHANGED <<queue, processing, published, final, gaveUp>>
        /\ pc' \notin {"batch", "item", "requeue", "ack"} /\ faults' = faults + 1
    BY <1>13 DEF AckFails, StartWriter, Fault, Loop, redis, disposed
  <2>2. ASSUME NEW x \in Items PROVE \E d \in {0, 1} : Live(x)' = Live(x) + d
    <3>1. Taken(x)' = 0
      BY <2>1 DEF Taken
    <3>2. Live(x)' = Live(x) + Taken(x) /\ Taken(x) \in {0, 1}
      BY <2>1, <3>1, LiveType DEF Live
    <3> QED
      BY <3>2
  <2> QED
    BY <1>g, <2>1, <2>2
<1>14. CASE StartWriter /\ pc = "stopped"
  <2>1. UNCHANGED <<queue, processing, published, final, gaveUp>> /\ pc' = "replay" /\ faults' >= faults
    BY <1>14, <1>f DEF StartWriter, Fault, redis
  <2>2. ASSUME NEW x \in Items PROVE Live(x)' = Live(x)
    BY <1>14, <2>1 DEF Live, Taken
  <2> QED
    BY <1>k, <2>1, <2>2
<1>15. CASE UNCHANGED vars
  <2>1. UNCHANGED <<queue, processing, pc, delivery, i, published, disposed, faults>>
    BY <1>15 DEF vars, redis
  <2>2. ASSUME NEW x \in Items PROVE Live(x)' = Live(x)
    BY <2>1 DEF Live, Taken
  <2> QED
    BY <1>f, <1>k, <2>1, <2>2 DEF disposed
<1>16. StartWriter => pc = "stopped" \/ faults' = faults + 1
  BY DEF StartWriter, Fault
<1> QED
  BY <1>2, <1>4, <1>5, <1>6, <1>7, <1>8, <1>10, <1>11, <1>12, <1>13, <1>14, <1>15, <1>16
     DEF Next, Recovery, Take, ReserveIdle, Batch, Process, Finish, Lifecycle, Settling, Publishing

\* Nor do they apply the effects of an event or a log in full.
LEMMA RanKept ==
  ASSUME TypeInv, [Next]_vars, ~Settling
  PROVE  /\ \A x \in Items \ Telemetry : ran'[x] = ran[x]
         /\ \A x \in Items : x > published => ran'[x] = ran[x]
<1>1. CASE ItemInterrupted
  <2>1. \A x \in Items : x # Item \/ x \notin Telemetry => ran'[x] = ran[x]
    BY <1>1 DEF ItemInterrupted, Effect, TypeInv, Scalars
  <2>2. Item \in 1..published /\ published \in Nat /\ \A x \in Items : x > published => x # Item
    BY <1>1, ItemPublished DEF ItemInterrupted, TypeInv, Scalars
  <2> QED
    BY <2>1, <2>2
<1>2. CASE ~ItemInterrupted
  <2>1. ran' = ran
    BY <1>2 DEF Next, Recovery, Take, Batch, Process, Finish, Lifecycle, Settling, Publish, RecoverOne, RecoverDone,
       Reserve, ReserveFails, ReserveIdle, BeginItem, BatchInterrupted, BatchDone, ItemRetried,
       Requeue, RequeueFails, Ack, AckFails, Stop, RunEnds, StartWriter, vars, disposed
  <2> QED
    BY <2>1
<1> QED
  BY <1>1, <1>2

\* Every step keeps the count of each live item.
LEMMA CountStep ==
  ASSUME TypeInv, CountInv, [Next]_vars
  PROVE  CountInv'
<1>1. CASE Publishing
  BY <1>1, PublishCounts DEF Publishing
<1>2. CASE Settling
  BY <1>2, SettlingCounts DEF Settling
<1>3. CASE ~Publishing /\ ~Settling
  <2>1. LiveMoves /\ TypeInv'
    BY <1>3, LiveStep, TypeStep
  <2>2. /\ \A x \in Items \ Telemetry : ran'[x] = ran[x]
        /\ \A x \in Items : x > published => ran'[x] = ran[x]
    BY <1>3, RanKept
  <2> QED
    BY <2>1, <2>2, CountKept DEF LiveMoves
<1> QED
  BY <1>1, <1>2, <1>3

-----------------------------------------------------------------------------
(* Attempts that fail after a part of them was committed. *)

\* What one attempt adds is paid for by the taking under way, or by a new one.
LEMMA TornBound ==
  ASSUME NEW m \in Nat, NEW c \in Int, NEW d \in Int, NEW u \in Int, NEW v \in Int,
         NEW t \in Nat, NEW w \in Nat, t <= (m * c) + u,
         \/ d >= c /\ w + u <= v + t
         \/ d >= c + 1 /\ w + u <= v + t + m
  PROVE  w <= (m * d) + v
<1>1. CASE d >= c /\ w + u <= v + t
  <2>1. m * (d - c) \in Nat
    BY <1>1
  <2>2. m * d = (m * c) + (m * (d - c))
    OBVIOUS
  <2>3. m * c \in Int /\ m * d \in Int
    OBVIOUS
  <2> QED
    BY <1>1, <2>1, <2>2, <2>3
<1>2. CASE d >= c + 1 /\ w + u <= v + t + m
  <2>1. m * (d - (c + 1)) \in Nat
    BY <1>2
  <2>2. m * d = ((m * c) + m) + (m * (d - (c + 1)))
    OBVIOUS
  <2>3. m * c \in Int /\ m * d \in Int
    OBVIOUS
  <2> QED
    BY <1>2, <2>1, <2>2, <2>3
<1> QED
  BY <1>1, <1>2

\* How a step that publishes nothing may change what is torn.
TornMoves ==
  /\ published' = published
  /\ \A x \in Items : Credit(x) \in Int /\ Credit(x)' \in Int /\ Used(x) \in Int /\ Used(x)' \in Int
  /\ \A x \in Items : \/ Credit(x)' >= Credit(x) /\ torn'[x] + Used(x) <= Used(x)' + torn[x]
                      \/ Credit(x)' >= Credit(x) + 1 /\ torn'[x] + Used(x) <= Used(x)' + torn[x] + MaxRetries
  /\ \A x \in Items : x > published => torn'[x] = torn[x]

\* Such a step keeps the bound.
LEMMA TornKept ==
  ASSUME TypeInv, TypeInv', TornInv, TornMoves, stopping' => stops' >= 1
  PROVE  TornInv'
<1>1. MaxRetries \in Nat /\ \A x \in Items : torn[x] \in Nat /\ torn'[x] \in Nat
  BY WriteQueueAssumption DEF TypeInv, Scalars
<1>2. ASSUME NEW x \in Items PROVE torn'[x] <= (MaxRetries * Credit(x)') + Used(x)'
  <2>1. PICK c \in Int, d \in Int, u \in Int, v \in Int :
          c = Credit(x) /\ d = Credit(x)' /\ u = Used(x) /\ v = Used(x)'
    BY DEF TornMoves
  <2>2. PICK t \in Nat, w \in Nat : t = torn[x] /\ w = torn'[x]
    BY <1>1
  <2>3. t <= (MaxRetries * c) + u
    BY <2>1, <2>2 DEF TornInv
  <2>4. \/ d >= c /\ w + u <= v + t
        \/ d >= c + 1 /\ w + u <= v + t + MaxRetries
    BY <2>1, <2>2 DEF TornMoves
  <2>5. w <= (MaxRetries * d) + v
    BY <1>1, <2>3, <2>4, TornBound
  <2> QED
    BY <2>1, <2>2, <2>5
<1>3. \A x \in Items : x > published' => torn'[x] = 0
  BY DEF TornMoves, TornInv
<1> QED
  BY <1>2, <1>3 DEF TornInv

\* The numbers are numbers, and an attempt is one of at most MaxRetries.
TornTyped ==
  /\ faults \in Nat /\ stops \in Nat /\ Spare \in Int /\ Spare <= stops
  /\ MaxRetries \in Nat /\ attempt \in 0..MaxRetries /\ published \in Nat
  /\ torn \in [Items -> Nat] /\ stopping \in BOOLEAN
  /\ \A x \in Items : /\ Used(x) \in Int /\ Used(x) <= MaxRetries - 1 /\ Credit(x) \in Int /\ Live(x) \in Int
                      /\ torn[x] \in Nat /\ x \in Nat /\ (pc # "item" \/ x # Item => Used(x) = 0)

\* So they are in every state the types allow.
LEMMA TornTypes == TypeInv => TornTyped
<1> SUFFICES ASSUME TypeInv PROVE TornTyped
  OBVIOUS
<1>1. /\ faults \in Nat /\ stops \in Nat /\ MaxRetries \in Nat /\ MaxRetries >= 1 /\ attempt \in 0..MaxRetries
      /\ torn \in [Items -> Nat] /\ stopping \in BOOLEAN /\ published \in Nat
      /\ \A x \in Items : x \in Nat
  BY WriteQueueAssumption DEF TypeInv, Scalars, Items
<1>2. Spare \in Int /\ Spare <= stops
  BY <1>1 DEF Spare
<1>3. ASSUME NEW x \in Items PROVE /\ Used(x) \in Int /\ Used(x) <= MaxRetries - 1
                                   /\ (pc # "item" \/ x # Item => Used(x) = 0)
  BY <1>1 DEF Used
<1>4. ASSUME NEW x \in Items PROVE Credit(x) \in Int /\ Live(x) \in Int
  BY <1>1, <1>2, LiveType DEF Credit
<1> QED
  BY <1>1, <1>2, <1>3, <1>4 DEF TornTyped

\* The next state included.
LEMMA TornTypesNext == TypeInv' => TornTyped'
  BY TornTypes, PTL

\* What Tears does to each count.
LEMMA TearsAdd ==
  ASSUME TypeInv, pc = "item", Tears
  PROVE  \A x \in Items : /\ torn'[x] \in {torn[x], torn[x] + 1}
                          /\ x # Item \/ x > published => torn'[x] = torn[x]
<1>1. torn \in [Items -> Nat]
  BY TornTypes DEF TornTyped
<1>2. Item \in 1..published /\ published \in Nat /\ \A x \in Items : x \in Nat
  BY ItemPublished, TornTypes DEF TornTyped
<1>3. torn' = torn \/ torn' = [torn EXCEPT ![Item] = @ + 1]
  BY DEF Tears
<1> QED
  BY <1>1, <1>2, <1>3

\* An item that is settled gives back the taking under way.
LEMMA SettlingTears ==
  ASSUME TypeInv, TypeInv', Settling
  PROVE  TornMoves
<1>1. /\ pc = "item" /\ pc' = "batch" /\ i' = i + 1
      /\ UNCHANGED <<queue, processing, delivery, published, faults, stops, stopping>>
  BY DEF Settling, ItemStored, ItemUnprocessable, ItemFailed, NextItem, redis
<1>2. torn' = torn \/ Tears
  BY DEF Settling, ItemStored, ItemUnprocessable, ItemFailed
<1>3. \A x \in Items : Live(x)' = Live(x) - (IF x = Item THEN 1 ELSE 0) /\ Live(x) \in Int
  BY <1>1, SettlingLive
<1>4. Spare' = Spare
  BY <1>1 DEF Spare
<1>9. \A x \in Items : Used(x)' \in Int /\ Used(x)' = 0 /\ Credit(x)' \in Int
  BY <1>1, TornTypesNext DEF Used, TornTyped
<1>5. /\ \A x \in Items : Used(x) \in Int /\ Used(x) <= MaxRetries - 1 /\ Credit(x) \in Int /\ torn[x] \in Nat
                          /\ x \in Nat /\ (x # Item => Used(x) = 0)
      /\ faults \in Nat /\ Spare \in Int /\ MaxRetries \in Nat
  BY TornTypes DEF TornTyped
<1>6. ASSUME NEW x \in Items PROVE Credit(x)' = Credit(x) + (IF x = Item THEN 1 ELSE 0)
  BY <1>1, <1>3, <1>4, <1>5 DEF Credit
<1>7. \A x \in Items : /\ torn'[x] \in {torn[x], torn[x] + 1}
                       /\ x # Item \/ x > published => torn'[x] = torn[x]
  <2>1. CASE torn' = torn
    BY <2>1
  <2>2. CASE Tears
    BY <1>1, <2>2, TearsAdd
  <2> QED
    BY <1>2, <2>1, <2>2
<1>8. ASSUME NEW x \in Items
      PROVE  \/ Credit(x)' >= Credit(x) /\ torn'[x] + Used(x) <= Used(x)' + torn[x]
             \/ Credit(x)' >= Credit(x) + 1 /\ torn'[x] + Used(x) <= Used(x)' + torn[x] + MaxRetries
  BY <1>5, <1>6, <1>7, <1>9
<1> QED
  BY <1>1, <1>5, <1>7, <1>8, <1>9 DEF TornMoves

\* A step that leaves the lists as LiveMoves says, and tears as the cases say.
LEMMA MovesTear ==
  ASSUME TypeInv, TypeInv', LiveMoves, Spare' >= Spare,
         \A x \in Items : /\ torn'[x] \in {torn[x], torn[x] + 1}
                          /\ x # Item \/ x > published => torn'[x] = torn[x],
         \/ \A x \in Items : torn'[x] = torn[x] /\ Used(x)' = Used(x)
         \/ \A x \in Items : Used(x)' = Used(x) + (IF x = Item THEN 1 ELSE 0)
         \/ \A x \in Items : Used(x)' = 0 /\ (x # Item => Used(x) = 0) /\ (x = Item => Credit(x)' >= Credit(x) + 1)
  PROVE  TornMoves
<1>a. /\ \A x \in Items : /\ Used(x) \in Int /\ Used(x) <= MaxRetries - 1 /\ Credit(x) \in Int /\ torn[x] \in Nat
      /\ faults \in Nat /\ Spare \in Int /\ MaxRetries \in Nat
  BY TornTypes DEF TornTyped
<1>b. /\ \A x \in Items : Used(x)' \in Int /\ Credit(x)' \in Int
      /\ faults' \in Nat /\ Spare' \in Int
  BY TornTypesNext DEF TornTyped
<1>1. /\ \A x \in Items : /\ Used(x) \in Int /\ Used(x) <= MaxRetries - 1 /\ Credit(x) \in Int /\ torn[x] \in Nat
                          /\ Used(x)' \in Int /\ Credit(x)' \in Int
      /\ faults \in Nat /\ Spare \in Int /\ MaxRetries \in Nat /\ faults' \in Nat /\ Spare' \in Int
  BY <1>a, <1>b
<1>2. ASSUME NEW x \in Items PROVE Credit(x)' >= Credit(x)
  BY <1>1 DEF Credit, LiveMoves
<1>3. ASSUME NEW x \in Items
      PROVE  \/ Credit(x)' >= Credit(x) /\ torn'[x] + Used(x) <= Used(x)' + torn[x]
             \/ Credit(x)' >= Credit(x) + 1 /\ torn'[x] + Used(x) <= Used(x)' + torn[x] + MaxRetries
  <2>1. /\ Used(x) \in Int /\ Used(x) <= MaxRetries - 1 /\ Credit(x) \in Int /\ torn[x] \in Nat
        /\ Used(x)' \in Int /\ Credit(x)' \in Int /\ MaxRetries \in Nat /\ Credit(x)' >= Credit(x)
    BY <1>1, <1>2
  <2>2. /\ torn'[x] \in {torn[x], torn[x] + 1}
        /\ x # Item => torn'[x] = torn[x]
    OBVIOUS
  <2>3. \/ torn'[x] = torn[x] /\ Used(x)' = Used(x)
        \/ Used(x)' = Used(x) + (IF x = Item THEN 1 ELSE 0)
        \/ Used(x)' = 0 /\ (x # Item => Used(x) = 0) /\ (x = Item => Credit(x)' >= Credit(x) + 1)
    OBVIOUS
  <2>4. PICK u \in Int, v \in Int, c \in Int, d \in Int : u = Used(x) /\ v = Used(x)' /\ c = Credit(x) /\ d = Credit(x)'
    BY <2>1
  <2>5. PICK t \in Nat : t = torn[x]
    BY <2>1
  <2>6. PICK w : w = torn'[x]
    OBVIOUS
  <2> QED
    BY <2>1, <2>2, <2>3, <2>4, <2>5, <2>6
<1>4. \A x \in Items : x > published => torn'[x] = torn[x]
  OBVIOUS
<1> QED
  BY <1>1, <1>3, <1>4 DEF TornMoves, LiveMoves

\* What the shutdowns pay for is not taken back.
LEMMA SpareGrows ==
  ASSUME TypeInv, [Next]_vars
  PROVE  Spare' >= Spare
<1>0. stops \in Nat
  BY TornTypes DEF TornTyped
<1>1. CASE Stop
  BY <1>0, <1>1 DEF Stop, Spare
<1>2. ASSUME stops' = stops, stopping' = stopping \/ ~stopping',
             pc \in {"requeue", "ack", "stopped"} => pc' \in {"requeue", "ack", "stopped"} \/ ~stopping'
      PROVE  Spare' >= Spare
  BY <1>0, <1>2 DEF Spare
<1>3. ASSUME NEW k \in 1..MaxBatch, Publish(k) PROVE UNCHANGED <<stops, stopping, pc>>
  BY <1>3 DEF Publish
<1>4. Recovery \/ Take \/ Batch \/ Process => /\ UNCHANGED <<stops, stopping>>
                                              /\ pc \notin {"requeue", "ack", "stopped"} \/ pc' = pc
  BY DEF Recovery, Take, Batch, Process, RecoverOne, RecoverDone, Reserve, ReserveFails, ReserveIdle, BeginItem,
     BatchInterrupted, BatchDone, ItemStored, ItemUnprocessable, ItemRetried, ItemFailed, ItemInterrupted, vars
<1>5. Finish => UNCHANGED <<stops, stopping>> /\ (pc' \in {"requeue", "ack", "stopped"} \/ ~stopping')
  BY DEF Finish, Requeue, RequeueFails, Ack, AckFails, Loop
<1>6. RunEnds \/ UNCHANGED vars => UNCHANGED <<stops, stopping>> /\ (pc' = "stopped" \/ pc' = pc)
  BY DEF RunEnds, vars
<1>7. StartWriter => stops' = stops /\ ~stopping'
  BY DEF StartWriter
<1> QED
  <2>1. CASE Publishing \/ Recovery \/ Take \/ Batch \/ Process
    BY <1>2, <1>3, <1>4, <2>1 DEF Publishing
  <2>2. CASE Finish
    BY <1>2, <1>5, <2>2
  <2>3. CASE RunEnds \/ UNCHANGED vars \/ StartWriter
    BY <1>2, <1>6, <1>7, <2>3
  <2> QED
    BY <1>1, <2>1, <2>2, <2>3 DEF Next, Lifecycle, Publishing

\* Every step keeps the count of attempts that may have left something behind.
LEMMA TornStep ==
  ASSUME TypeInv, TornInv, [Next]_vars
  PROVE  TornInv'
<1>t. TypeInv'
  BY TypeStep
<1>s. stopping' => stops' >= 1
  <2>1. CASE ~Stop
    <3>1. (stopping' => stopping) /\ stops' = stops
      <4>1. ASSUME NEW k \in 1..MaxBatch, Publish(k) PROVE UNCHANGED <<stops, stopping>>
        BY <4>1 DEF Publish
      <4>2. Recovery \/ Take \/ Batch => UNCHANGED <<stops, stopping>>
        BY DEF Recovery, Take, Batch, RecoverOne, RecoverDone, Reserve, ReserveFails, ReserveIdle, BeginItem,
           BatchInterrupted, BatchDone, vars
      <4>3. Process \/ Finish => UNCHANGED <<stops, stopping>>
        BY DEF Process, Finish, ItemStored, ItemUnprocessable, ItemRetried, ItemFailed, ItemInterrupted,
           Requeue, RequeueFails, Ack, AckFails
      <4>4. Lifecycle \/ UNCHANGED vars => stops' = stops /\ (stopping' => stopping)
        BY <2>1 DEF Lifecycle, RunEnds, StartWriter, vars
      <4> QED
        BY <4>1, <4>2, <4>3, <4>4 DEF Next
    <3> QED
      BY <3>1 DEF TornInv
  <2>2. CASE Stop
    BY <2>2, TornTypes DEF Stop, TornTyped
  <2> QED
    BY <2>1, <2>2
<1>1. CASE Publishing
  BY <1>1, PublishTears DEF Publishing
<1>2. CASE Settling
  BY <1>2, <1>t, <1>s, SettlingTears, TornKept
<1>3. CASE ~Publishing /\ ~Settling
  <2>1. LiveMoves
    BY <1>3, LiveStep
  <2>2. Spare' >= Spare
    BY <1>3, SpareGrows
  <2>3. /\ \A x \in Items : /\ Used(x) \in Int /\ Live(x) \in Int /\ torn[x] \in Nat
                            /\ (pc # "item" \/ x # Item => Used(x) = 0)
        /\ faults \in Nat /\ Spare \in Int /\ stops \in Nat /\ attempt \in Int
    BY TornTypes DEF TornTyped
  <2>4. Spare' \in Int /\ \A x \in Items : Live(x)' \in Int
    BY <1>t, TornTypesNext DEF TornTyped
  <2>5. CASE ItemRetried
    <3>1. pc = "item" /\ Tears /\ pc' = pc /\ delivery' = delivery /\ i' = i /\ attempt' = attempt + 1
      BY <2>5 DEF ItemRetried
    <3>2. \A x \in Items : Used(x)' = Used(x) + (IF x = Item THEN 1 ELSE 0)
      BY <2>3, <3>1 DEF Used, Item
    <3> QED
      BY <1>t, <1>s, <2>1, <2>2, <3>1, <3>2, TearsAdd, MovesTear, TornKept
  <2>6. CASE ItemInterrupted
    <3>1. pc = "item" /\ Tears /\ pc' = "requeue" /\ stopping /\ stopping' /\ stops' = stops /\ faults' = faults
      BY <2>6 DEF ItemInterrupted
    <3>2. \A x \in Items : Used(x)' = 0 /\ (x # Item => Used(x) = 0)
      BY <2>3, <3>1 DEF Used
    <3>3. Spare' = Spare + 1
      BY <2>3, <3>1 DEF Spare
    <3>4. \A x \in Items : Live(x)' = Live(x)
      BY <2>1, <2>3, <3>1 DEF LiveMoves
    <3>5. \A x \in Items : Credit(x)' >= Credit(x) + 1
      BY <2>3, <2>4, <3>1, <3>3, <3>4 DEF Credit
    <3> QED
      BY <1>t, <1>s, <2>1, <2>2, <3>1, <3>2, <3>5, TearsAdd, MovesTear, TornKept
  <2>7. CASE StartWriter /\ pc = "item"
    <3>1. pc = "item" /\ Tears /\ pc' = "replay" /\ faults' = faults + 1 /\ UNCHANGED <<queue, processing>>
      BY <2>7 DEF StartWriter, Fault, redis
    <3>2. \A x \in Items : Used(x)' = 0 /\ (x # Item => Used(x) = 0)
      BY <2>3, <3>1 DEF Used
    <3>3. \A x \in Items : x = Item => Live(x)' = Live(x)
      <4>1. i \in 1..Len(delivery) /\ Good(delivery, published) /\ Item = delivery[i]
        BY <3>1, ItemPublished, HeldGood DEF Holding, Item
      <4>2. \A j \in 1..(i - 1) : delivery[j] # Item
        BY <4>1, SMTT(20) DEF Good
      <4>3. Taken(Item) = 0
        BY <3>1, <4>2 DEF Taken
      <4>4. \A x : Taken(x)' = 0
        BY <3>1 DEF Taken
      <4>5. ASSUME NEW x \in Items, x = Item PROVE Taken(x) = 0 /\ Taken(x)' = 0
        BY <4>3, <4>4, <4>5
      <4> QED
        BY <3>1, <4>5 DEF Live
    <3>4. \A x \in Items : x = Item => Credit(x)' >= Credit(x) + 1
      BY <2>2, <2>3, <2>4, <3>1, <3>3 DEF Credit
    <3> QED
      BY <1>t, <1>s, <2>1, <2>2, <3>1, <3>2, <3>4, TearsAdd, MovesTear, TornKept
  <2>8. CASE ~ItemRetried /\ ~ItemInterrupted /\ ~(StartWriter /\ pc = "item")
    <3>1. /\ torn' = torn
          /\ \/ pc # "item" /\ pc' # "item"
             \/ pc # "item" /\ attempt' = 1
             \/ UNCHANGED <<pc, delivery, i, attempt>>
      BY <1>3, <2>8 DEF Settling, Publishing, Next, Recovery, Take, Batch, Process, Finish, Lifecycle, RecoverOne, RecoverDone,
         Reserve, ReserveFails, ReserveIdle, BeginItem, BatchInterrupted, BatchDone, Requeue, RequeueFails, Ack, AckFails,
         Stop, RunEnds, StartWriter, Loop, vars, disposed
    <3>2. \A x \in Items : torn'[x] = torn[x] /\ Used(x)' = Used(x)
      BY <2>3, <3>1 DEF Used, Item
    <3>3. \A x \in Items : /\ torn'[x] \in {torn[x], torn[x] + 1}
                           /\ x # Item \/ x > published => torn'[x] = torn[x]
      BY <3>2
    <3> QED
      BY <1>t, <1>s, <2>1, <2>2, <3>2, <3>3, MovesTear, TornKept
  <2> QED
    BY <2>5, <2>6, <2>7, <2>8
<1> QED
  BY <1>1, <1>2, <1>3

-----------------------------------------------------------------------------
(* Order. *)

\* What an entry at the end of a list has to satisfy for the order.
LEMMA OrderAtEnd ==
  ASSUME NEW m, NEW l, NEW e, NEW q, AtEnd(m, l, e)
  PROVE  /\ Sorted(m) <=> Sorted(l) /\ AllOlder(l, e)
         /\ Before(m, q) <=> Before(l, q) /\ AllYounger(q, e)
         /\ AllYounger(m, q) <=> AllYounger(l, q) /\ Older(q, e)
<1>1. Len(l) \in Nat /\ Len(m) = Len(l) + 1 /\ m[Len(l) + 1] = e /\ \A k \in 1..Len(l) : m[k] = l[k]
  BY DEF AtEnd, Lists
<1>2. \A k \in 1..Len(m) : k \in 1..Len(l) \/ k = Len(l) + 1
  BY <1>1
<1>3. (Len(l) + 1) \in 1..Len(m) /\ \A k \in 1..Len(l) : k \in 1..Len(m) /\ k < Len(l) + 1 /\ ~(Len(l) + 1 < k)
  BY <1>1
<1>4. ~(Len(l) + 1 < Len(l) + 1)
  BY <1>1
<1>5. Sorted(m) <=> Sorted(l) /\ AllOlder(l, e)
  BY <1>1, <1>2, <1>3, <1>4 DEF Sorted, AllOlder
<1>6. Before(m, q) <=> Before(l, q) /\ AllYounger(q, e)
  BY <1>1, <1>2, <1>3 DEF Before
<1>7. AllYounger(m, q) <=> AllYounger(l, q) /\ Older(q, e)
  BY <1>1, <1>2, <1>3 DEF AllYounger
<1> QED
  BY <1>5, <1>6, <1>7

\* The same at the front.
LEMMA OrderAtFront ==
  ASSUME NEW m, NEW l, NEW e, NEW q, AtFront(m, l, e)
  PROVE  /\ Sorted(m) <=> Sorted(l) /\ AllYounger(l, e)
         /\ Before(q, m) <=> Before(q, l) /\ AllOlder(q, e)
         /\ AllYounger(m, q) <=> AllYounger(l, q) /\ Older(q, e)
<1>1. Len(l) \in Nat /\ Len(m) = Len(l) + 1 /\ m[1] = e /\ \A k \in 1..Len(l) : m[k + 1] = l[k]
  BY DEF AtFront, Lists
<1>2. \A k \in 1..Len(m) : k = 1 \/ \E j \in 1..Len(l) : k = j + 1
  <2>1. ASSUME NEW k \in 1..Len(m), k # 1 PROVE k - 1 \in 1..Len(l) /\ k = (k - 1) + 1
    BY <1>1, <2>1
  <2> QED
    BY <2>1
<1>3. 1 \in 1..Len(m) /\ \A k \in 1..Len(l) : k + 1 \in 1..Len(m) /\ 1 < k + 1 /\ ~(k + 1 < 1)
  BY <1>1
<1>4. ~(1 < 1) /\ \A j, k \in 1..Len(l) : j < k <=> j + 1 < k + 1
  BY <1>1
<1>5. Sorted(m) <=> Sorted(l) /\ AllYounger(l, e)
  <2>1. ASSUME Sorted(m) PROVE Sorted(l) /\ AllYounger(l, e)
    BY <1>1, <1>3, <1>4, <2>1 DEF Sorted, AllYounger
  <2>2. ASSUME Sorted(l), AllYounger(l, e), NEW j \in 1..Len(m), NEW k \in 1..Len(m), j < k PROVE Older(m[j], m[k])
    <3>1. PICK b \in 1..Len(l) : k = b + 1
      BY <1>1, <1>2, <2>2
    <3>2. CASE j = 1
      BY <1>1, <2>2, <3>1, <3>2 DEF AllYounger
    <3>3. CASE j # 1
      <4>1. PICK a \in 1..Len(l) : j = a + 1
        BY <1>2, <3>3
      <4> QED
        BY <1>1, <1>4, <2>2, <3>1, <4>1 DEF Sorted
    <3> QED
      BY <3>2, <3>3
  <2> QED
    BY <2>1, <2>2 DEF Sorted
<1>6. \A f : AllYounger(m, f) <=> AllYounger(l, f) /\ Older(f, e)
  BY <1>1, <1>2, <1>3 DEF AllYounger
<1>7. Before(q, m) <=> Before(q, l) /\ AllOlder(q, e)
  BY <1>6 DEF Before, AllOlder
<1> QED
  BY <1>5, <1>6, <1>7

\* Adding an entry at the end of the right list.
LEMMA BeforeAtEnd ==
  ASSUME NEW m, NEW l, NEW e, NEW q, AtEnd(m, l, e)
  PROVE  Before(q, m) <=> Before(q, l) /\ AllOlder(q, e)
<1>1. \A f : AllYounger(m, f) <=> AllYounger(l, f) /\ Older(f, e)
  BY OrderAtEnd
<1> QED
  BY <1>1 DEF Before, AllOlder

\* Before the first shutdown publications, replays and reads keep the order.
LEMMA OrderedStep ==
  ASSUME TypeInv, OrderInv, stops = 0, [Next]_vars
  PROVE  Ordered' \/ stops' # 0
<1>0. Ordered /\ Behind
  BY DEF OrderInv
<1>1. ASSUME NEW k \in 1..MaxBatch, Publish(k) PROVE Ordered'
  <2> DEFINE e == [j \in 1..k |-> published + j]
  <2>1. AtEnd(queue', queue, e) /\ Len(e) = k
    BY <1>1, PublishLists
  <2>2. published \in Nat /\ k \in Nat
    BY WriteQueueAssumption DEF TypeInv, Scalars
  <2>3. \A j \in 1..Len(e) : e[j] > published /\ e[j] \in Nat
    BY <2>1, <2>2
  <2> HIDE DEF e
  <2>4. ASSUME NEW l, GoodList(l, published) PROVE AllOlder(l, e)
    <3>1. \A j \in 1..Len(l) : \A a \in 1..Len(l[j]) : l[j][a] \in 1..published
      BY <2>4 DEF GoodList, Good
    <3>2. \A j \in 1..Len(l) : \A a \in 1..Len(l[j]) : \A b \in 1..Len(e) : l[j][a] < e[b]
      BY <2>2, <2>3, <3>1
    <3> QED
      BY <3>2 DEF AllOlder, Older
  <2>5. Sorted(queue') /\ Before(processing, queue')
    BY <1>0, <2>1, <2>4, OrderAtEnd, BeforeAtEnd DEF Ordered, TypeInv
  <2> QED
    BY <1>0, <1>1, <2>5 DEF Publish, Ordered
<1>2. CASE RecoverOne
  <2>1. AtEnd(processing, processing', Last(processing)) /\ AtFront(queue', queue, Last(processing))
    BY <1>2, RecoverLists
  <2>2. /\ Sorted(processing') /\ AllOlder(processing', Last(processing))
        /\ Before(processing', queue) /\ AllYounger(queue, Last(processing))
    BY <1>0, <2>1, OrderAtEnd DEF Ordered
  <2> QED
    BY <1>0, <2>1, <2>2, OrderAtFront DEF Ordered
<1>3. ASSUME queue # <<>>, Move PROVE Ordered'
  <2>1. AtFront(queue, queue', Head(queue)) /\ AtEnd(processing', processing, Head(queue))
    BY <1>3, MoveLists
  <2>2. /\ Sorted(queue') /\ AllYounger(queue', Head(queue))
        /\ Before(processing, queue') /\ AllOlder(processing, Head(queue))
    BY <1>0, <2>1, OrderAtFront DEF Ordered
  <2> QED
    BY <1>0, <2>1, <2>2, OrderAtEnd DEF Ordered
<1>4. CASE Ack
  <2>1. AtEnd(processing, processing', delivery) /\ queue' = queue
    BY <1>4, AckLists DEF Ack
  <2> QED
    BY <1>0, <2>1, OrderAtEnd DEF Ordered
<1>5. CASE UNCHANGED redis
  BY <1>0, <1>5 DEF Ordered, redis
<1>6. CASE Requeue \/ RequeueFails
  BY <1>0, <1>6 DEF Requeue, RequeueFails, Behind
<1> QED
  BY <1>1, <1>2, <1>3, <1>4, <1>5, <1>6
     DEF Next, Recovery, Take, Batch, Process, Finish, Lifecycle, RecoverDone, Reserve, ReserveFails,
         ReserveIdle, BeginItem,
         BatchInterrupted, BatchDone, ItemStored, ItemUnprocessable, ItemRetried, ItemFailed, ItemInterrupted, AckFails,
         Stop, RunEnds, StartWriter, vars

\* What the writer leaves behind is settled when it takes the next entry.
LEMMA BehindStep ==
  ASSUME TypeInv, OrderInv, stops = 0, [Next]_vars
  PROVE  Behind' \/ stops' # 0
<1>0. Behind /\ stops \in Nat
  BY DEF OrderInv, TypeInv, Scalars
<1>1. ASSUME NEW k \in 1..MaxBatch, Publish(k) PROVE Behind'
  BY <1>0, <1>1 DEF Publish, Behind, Holding, AllSettled, Settled, disposed
<1>2. CASE RecoverOne
  <2>1. ~stopping' /\ pc' = "replay"
    BY <1>0, <1>2 DEF RecoverOne, Behind
  <2> QED
    BY <2>1 DEF Behind, Holding
<1>3. CASE RecoverDone
  <2>1. ~stopping' /\ pc' = "ready" /\ processing' = <<>>
    BY <1>0, <1>3 DEF RecoverDone, Behind, redis
  <2> QED
    BY <2>1 DEF Behind, Holding
<1>4. CASE Reserve
  <2>1. /\ AtEnd(processing', processing, Head(queue)) /\ ~stopping' /\ pc' = "batch" /\ i' = 1 /\ UNCHANGED <<final, gaveUp>>
    BY <1>0, <1>4, MoveLists DEF Reserve, Behind, disposed
  <2>2. Len(processing) \in Nat /\ Len(processing') = Len(processing) + 1 /\ \A k \in 1..Len(processing) : processing'[k] = processing[k]
    BY <2>1 DEF AtEnd, Lists
  <2>3. \A k \in 1..(Len(processing') - 1) : k \in 1..Len(processing)
    BY <2>2
  <2>4. \A k \in 1..Len(processing) : AllSettled(processing[k])
    BY <1>0, <1>4 DEF Reserve, Behind
  <2>5. \A k \in 1..(Len(processing') - 1) : \A j \in 1..Len(processing'[k]) : processing'[k][j] \in Settled'
    BY <2>1, <2>2, <2>3, <2>4 DEF AllSettled, Settled
  <2> QED
    BY <2>1, <2>5 DEF Behind, Holding, AllSettled
<1>5. CASE ReserveFails
  <2>1. ~stopping' /\ pc' = "replay"
    BY <1>0, <1>5 DEF ReserveFails, Behind
  <2> QED
    BY <2>1 DEF Behind, Holding
<1>6. CASE BeginItem \/ ItemRetried
  <2>1. UNCHANGED <<processing, stopping, delivery, i, final, gaveUp>> /\ pc \in {"batch", "item"} /\ pc' = "item"
    BY <1>6 DEF BeginItem, ItemRetried, redis, disposed
  <2> QED
    BY <1>0, <2>1 DEF Behind, Holding, AllSettled, Settled
<1>7. CASE BatchDone
  <2>1. /\ UNCHANGED <<processing, stopping, delivery, final, gaveUp>> /\ pc = "batch"
        /\ i > Len(delivery) /\ pc' = "ack"
    BY <1>7 DEF BatchDone, redis, disposed
  <2>2. \A j \in 1..Len(delivery) : j \in 1..(i - 1)
    BY <2>1, HeldGood, WriteQueueAssumption DEF Holding
  <2> QED
    BY <1>0, <2>1, <2>2 DEF Behind, Holding, AllSettled, Settled
<1>8. CASE ItemStored \/ ItemUnprocessable \/ ItemFailed
  <2>1. /\ UNCHANGED <<processing, stopping, delivery>> /\ pc = "item" /\ pc' = "batch" /\ i' = i + 1
        /\ Settled' = Settled \cup {delivery[i]}
    BY <1>8 DEF ItemStored, ItemUnprocessable, ItemFailed, NextItem, redis, Settled, Item
  <2>2. \A j \in 1..(i' - 1) : j \in 1..(i - 1) \/ j = i
    BY <2>1, ItemPublished
  <2>3. \A j \in 1..(i' - 1) : delivery[j] \in Settled'
    BY <1>0, <2>1, <2>2 DEF Behind
  <2>4. \A k \in 1..(Len(processing) - 1) : \A j \in 1..Len(processing[k]) : processing[k][j] \in Settled'
    BY <1>0, <2>1 DEF Behind, Holding, AllSettled
  <2> QED
    BY <1>0, <2>1, <2>3, <2>4 DEF Behind, Holding, AllSettled
<1>9. CASE Ack
  <2>1. /\ AtEnd(processing, processing', delivery) /\ UNCHANGED <<stopping, final, gaveUp>>
        /\ pc = "ack" /\ pc' = "ready"
    BY <1>0, <1>9, AckLists DEF Ack, Loop, disposed, Behind
  <2>2. /\ Len(processing') \in Nat /\ Len(processing) = Len(processing') + 1 /\ \A k \in 1..Len(processing') : processing[k] = processing'[k]
    BY <2>1 DEF AtEnd, Lists
  <2>3. \A k \in 1..Len(processing') : k \in 1..(Len(processing) - 1)
    BY <2>2
  <2>4. \A k \in 1..Len(processing') : \A j \in 1..Len(processing'[k]) : processing'[k][j] \in Settled'
    BY <1>0, <2>1, <2>2, <2>3 DEF Behind, Holding, AllSettled, Settled
  <2> QED
    BY <1>0, <2>1, <2>4 DEF Behind, Holding, AllSettled
<1>10. CASE AckFails
  <2>1. UNCHANGED <<processing, stopping, final, gaveUp>> /\ pc = "ack" /\ pc' = "ready"
    BY <1>0, <1>10 DEF AckFails, Loop, disposed, redis, Behind
  <2>2. delivery = processing[Len(processing)] /\ Len(processing) \in Nat
    BY <2>1 DEF TypeInv, Held, Holding, GoodList, Lists
  <2>3. \A k \in 1..Len(processing) : k \in 1..(Len(processing) - 1) \/ k = Len(processing)
    BY <2>2
  <2>4. \A k \in 1..Len(processing) : AllSettled(processing[k])
    BY <1>0, <2>1, <2>2, <2>3 DEF Behind, Holding
  <2> QED
    BY <1>0, <2>1, <2>4 DEF Behind, Holding, AllSettled, Settled
<1>11. CASE StartWriter
  <2>1. ~stopping' /\ pc' = "replay"
    BY <1>11 DEF StartWriter
  <2> QED
    BY <2>1 DEF Behind, Holding
<1>12. CASE BatchInterrupted \/ ItemInterrupted \/ Requeue \/ RequeueFails \/ RunEnds
  BY <1>0, <1>12 DEF BatchInterrupted, ItemInterrupted, Requeue, RequeueFails, RunEnds, Behind
<1>13. CASE Stop
  BY <1>0, <1>13 DEF Stop
<1>14. CASE UNCHANGED vars
  BY <1>0, <1>14 DEF vars, redis, disposed, Behind, Holding, AllSettled, Settled
<1> QED
  BY <1>1, <1>2, <1>3, <1>4, <1>5, <1>6, <1>7, <1>8, <1>9, <1>10, <1>11, <1>12, <1>13, <1>14
     DEF Next, Recovery, Take, ReserveIdle, Batch, Process, Finish, Lifecycle

\* An item that can still be processed is in one of the lists.
LEMMA LiveIsListed ==
  ASSUME TypeInv, NEW x, Live(x) > 0
  PROVE  \/ \E k \in 1..Len(queue) : \E j \in 1..Len(queue[k]) : queue[k][j] = x
         \/ \E k \in 1..Len(processing) : \E j \in 1..Len(processing[k]) : processing[k][j] = x
<1>1. Copies(queue, x) # 0 \/ Copies(processing, x) # 0
  BY LiveType DEF Live
<1>2. Places(queue, x) # {} \/ Places(processing, x) # {}
  BY <1>1, CopiesCount DEF TypeInv, GoodList
<1> QED
  BY <1>2 DEF Places

\* Before the first shutdown the item the writer is at is the oldest one that is
\* not settled.
LEMMA ItemIsNext ==
  ASSUME TypeInv, CountInv, OrderInv, stops = 0, pc = "item", NEW y \in 1..Item, y # Item
  PROVE  y \in Settled
<1>0. Ordered /\ Behind
  BY DEF OrderInv
<1>1. /\ i \in 1..Len(delivery) /\ Item \in 1..published /\ Item = delivery[i] /\ Good(delivery, published)
      /\ Len(processing) \in 1..Len(processing) /\ delivery = processing[Len(processing)] /\ Len(processing) \in Nat
      /\ published \in Nat
  <2>1. i \in 1..Len(delivery) /\ Item \in 1..published /\ Item = delivery[i]
    BY ItemPublished DEF Item
  <2>2. /\ Good(delivery, published) /\ Len(processing) \in 1..Len(processing)
        /\ delivery = processing[Len(processing)]
    BY HeldGood DEF Holding, TypeInv, Held
  <2>3. Len(processing) \in Nat
    BY DEF TypeInv, GoodList, Lists
  <2>4. published \in Nat
    BY WriteQueueAssumption DEF TypeInv, Scalars
  <2> QED
    BY <2>1, <2>2, <2>3, <2>4
<1>2. y \in 1..published /\ y < Item /\ Item \in Nat
  BY <1>1
<1>3. SUFFICES ASSUME y \notin Settled PROVE FALSE
  OBVIOUS
<1>4. Live(y) > 0
  BY <1>2, <1>3 DEF CountInv
<1>5. ASSUME NEW k \in 1..Len(queue), NEW j \in 1..Len(queue[k]), queue[k][j] = y PROVE FALSE
  <2>1. delivery[i] < queue[k][j]
    BY <1>0, <1>1, <1>5 DEF Ordered, Before, AllYounger, Older
  <2> QED
    BY <1>1, <1>2, <1>5, <2>1
<1>6. ASSUME NEW k \in 1..Len(processing), NEW j \in 1..Len(processing[k]), processing[k][j] = y PROVE FALSE
  <2>1. CASE k # Len(processing)
    <3>1. k \in 1..(Len(processing) - 1)
      BY <1>1, <2>1
    <3> QED
      BY <1>0, <1>3, <1>6, <3>1 DEF Behind, Holding, AllSettled
  <2>2. CASE k = Len(processing)
    <3>1. delivery[j] = y /\ j \in 1..Len(delivery)
      BY <1>1, <1>6, <2>2
    <3>2. CASE j <= i - 1
      <4>1. j \in 1..(i - 1)
        BY <1>1, <3>1, <3>2 DEF Good
      <4> QED
        BY <1>0, <1>3, <3>1, <4>1 DEF Behind
    <3>3. CASE j = i
      BY <1>1, <1>2, <3>1, <3>3
    <3>4. CASE i < j
      <4>1. delivery[i] < delivery[j]
        BY <1>1, <3>1, <3>4 DEF Good
      <4> QED
        BY <1>1, <1>2, <3>1, <4>1
    <3>5. j <= i - 1 \/ j = i \/ i < j
      BY <1>1, <3>1 DEF Good
    <3> QED
      BY <3>2, <3>3, <3>4, <3>5
  <2> QED
    BY <2>1, <2>2
<1> QED
  BY <1>4, <1>5, <1>6, LiveIsListed

\* Shutdowns are counted and never forgotten.
LEMMA StopsStay == TypeInv /\ [Next]_vars /\ stops' = 0 => stops = 0
<1> SUFFICES ASSUME TypeInv, [Next]_vars PROVE stops' = 0 => stops = 0
  OBVIOUS
<1>0. stops \in Nat
  BY DEF TypeInv, Scalars
<1>1. CASE Stop
  BY <1>0, <1>1 DEF Stop
<1>2. CASE ~Stop
  <2>1. ASSUME NEW k \in 1..MaxBatch, Publish(k) PROVE stops' = stops
    BY <2>1 DEF Publish
  <2>2. Recovery \/ Take \/ Batch => stops' = stops
    BY DEF Recovery, Take, Batch, RecoverOne, RecoverDone, Reserve, ReserveFails, ReserveIdle, BeginItem,
       BatchInterrupted, BatchDone, vars
  <2>3. Process \/ Finish => stops' = stops
    BY DEF Process, Finish, ItemStored, ItemUnprocessable, ItemRetried, ItemFailed, ItemInterrupted,
       Requeue, RequeueFails,
       Ack, AckFails
  <2>4. Lifecycle \/ UNCHANGED vars => stops' = stops
    BY <1>2 DEF Lifecycle, RunEnds, StartWriter, vars
  <2> QED
    BY <2>1, <2>2, <2>3, <2>4 DEF Next
<1> QED
  BY <1>1, <1>2

\* Items are settled in order as long as no shutdown has requeued a tail.
LEMMA SettledStep ==
  ASSUME TypeInv, CountInv, OrderInv, SettledInOrder, [Next]_vars
  PROVE  SettledInOrder'
<1>0. stops' = 0 => stops = 0
  BY StopsStay
<1>1. CASE ItemStored \/ ItemUnprocessable \/ ItemFailed
  <2>1. pc = "item" /\ Settled' = Settled \cup {Item}
    BY <1>1 DEF ItemStored, ItemUnprocessable, ItemFailed, Settled
  <2>2. stops = 0 => \A y \in 1..Item : y # Item => y \in Settled
    BY <2>1, ItemIsNext
  <2> QED
    BY <1>0, <2>1, <2>2 DEF SettledInOrder
<1>2. CASE ~(ItemStored \/ ItemUnprocessable \/ ItemFailed)
  <2>1. UNCHANGED <<final, gaveUp>>
    BY <1>2 DEF Next, Recovery, Take, Batch, Process, Finish, Lifecycle, Publish, RecoverOne, RecoverDone,
       Reserve, ReserveFails, ReserveIdle, BeginItem, BatchInterrupted, BatchDone, ItemRetried, ItemInterrupted,
       Requeue, RequeueFails, Ack, AckFails, Stop, RunEnds, StartWriter, vars, disposed
  <2> QED
    BY <1>0, <2>1 DEF SettledInOrder, Settled
<1> QED
  BY <1>1, <1>2

-----------------------------------------------------------------------------
(* The results. *)

\* An item is never alive less than no time, and it is alive while the writer is at it.
LEMMA LiveNat ==
  ASSUME TypeInv, NEW x
  PROVE  Live(x) >= 0 /\ (pc = "item" /\ x = Item => Live(x) >= 1)
<1>1. Copies(queue, x) \in Nat /\ Copies(processing, x) \in Nat
  BY LiveType
<1>2. CASE Holding
  <2>1. AtEnd(processing, Front(processing), delivery)
    BY <1>2, HeldGood, FrontAtEnd DEF TypeInv, GoodList
  <2>2. /\ Copies(processing, x) = Copies(Front(processing), x) + Holds(delivery, x)
        /\ Copies(Front(processing), x) \in Nat
    BY <2>1, CopiesAtEnd, CopiesCount DEF AtEnd
  <2>3. Taken(x) <= Holds(delivery, x) /\ Holds(delivery, x) \in {0, 1} /\ Taken(x) \in {0, 1}
    BY <1>2, HeldCounts
  <2>4. ASSUME pc = "item", x = Item PROVE Taken(x) = 0 /\ Holds(delivery, x) = 1
    <3>1. i \in 1..Len(delivery) /\ Good(delivery, published) /\ x = delivery[i]
      BY <2>4, ItemPublished, HeldGood DEF Holding, Item
    <3>2. \A j \in 1..(i - 1) : delivery[j] # x
      BY <3>1, SMTT(20) DEF Good
    <3> QED
      BY <2>4, <3>1, <3>2 DEF Taken, Holds
  <2> QED
    BY <1>1, <2>2, <2>3, <2>4 DEF Live
<1>3. CASE ~Holding
  BY <1>1, <1>3 DEF Taken, Holding, Live
<1> QED
  BY <1>2, <1>3

\* The inductive invariant holds initially.
LEMMA IInit == Init => IInv
<1> SUFFICES ASSUME Init PROVE IInv
  OBVIOUS
<1>1. /\ published = 0 /\ Settled = {} /\ TypeInv /\ pc = "replay" /\ ~stopping /\ queue = <<>>
      /\ processing = <<>> /\ faults = 0
  BY TypeInit DEF Init, Settled
<1>2. ASSUME NEW x \in Items PROVE ran[x] = 0 /\ Live(x) = 0
  <2>1. x \in Nat /\ x > published
    BY <1>1, WriteQueueAssumption DEF Items
  <2> QED
    BY <1>1, <2>1, Unpublished DEF Live, Init
<1>3. CountInv
  BY <1>1, <1>2 DEF CountInv
<1>4. OrderInv /\ SettledInOrder
  BY <1>1 DEF OrderInv, Ordered, Behind, Sorted, Before, Holding, SettledInOrder
<1>5. TornInv
  <2>1. /\ \A x \in Items : torn[x] = 0
        /\ ~stopping /\ stops = 0 /\ faults = 0
    BY DEF Init
  <2>2. ASSUME NEW x \in Items PROVE Credit(x) = 1 /\ Used(x) = 0
    BY <1>1, <1>2, <2>1 DEF Credit, Used, Spare
  <2>3. MaxRetries \in Nat /\ MaxRetries * 1 = MaxRetries
    BY WriteQueueAssumption
  <2> QED
    BY <2>1, <2>2, <2>3 DEF TornInv
<1> QED
  BY <1>1, <1>3, <1>4, <1>5 DEF IInv

\* Every step keeps the inductive invariant.
LEMMA IStep == IInv /\ [Next]_vars => IInv'
<1> SUFFICES ASSUME IInv, [Next]_vars PROVE IInv'
  OBVIOUS
<1>1. TypeInv' /\ CountInv' /\ SettledInOrder'
  BY TypeStep, CountStep, SettledStep DEF IInv
<1>4. TornInv'
  BY TornStep DEF IInv
<1>2. stops' = 0 => stops = 0
  BY StopsStay DEF IInv
<1>3. OrderInv'
  BY <1>2, OrderedStep, BehindStep DEF IInv, OrderInv
<1> QED
  BY <1>1, <1>3, <1>4 DEF IInv

\* Whatever crashes, stops or fails between the writer and Redis: every published
\* item is settled or still in a list; what was stored in full is stored again only
\* after a fault; an event is repeated by attempts that failed part-way at most
\* MaxRetries times for each fault or shutdown that had it taken again; and until the
\* first shutdown no item is settled before an older one.
THEOREM WriteQueueSafe == Spec => []QueueSafe
<1>1. IInv => QueueSafe
  <2> SUFFICES ASSUME IInv PROVE QueueSafe
    OBVIOUS
  <2>1. TypeOK /\ SettledInOrder
    BY TypesOK DEF IInv
  <2>2. NothingLost
    <3>1. ASSUME NEW x \in 1..published, x \notin Settled PROVE x \in InList(queue) \cup InList(processing)
      <4>1. Live(x) > 0
        BY <3>1 DEF IInv, CountInv
      <4>2. ASSUME NEW l, GoodList(l, published), NEW k \in 1..Len(l), NEW j \in 1..Len(l[k]), l[k][j] = x
            PROVE  x \in InList(l)
        <5>1. j \in DOMAIN l[k]
          BY <4>2 DEF GoodList, Good
        <5>2. x \in Range(l[k])
          BY <4>2, <5>1 DEF Range
        <5> QED
          BY <4>2, <5>2 DEF InList
      <4> QED
        BY <4>1, <4>2, LiveIsListed DEF IInv, TypeInv
    <3> QED
      BY <3>1 DEF NothingLost
  <2>3. RepeatsHaveACause
    <3>1. ASSUME NEW x \in Items \ Telemetry PROVE ran[x] <= 1 + faults
      <4>1. Copies(queue, x) \in Nat /\ Copies(processing, x) \in Nat /\ ran[x] \in Nat /\ faults \in Nat
        BY LiveType DEF IInv, TypeInv, Scalars
      <4>2. Live(x) >= 0
        BY LiveNat DEF IInv
      <4>3. ran[x] + Live(x) <= 1 + faults
        BY DEF IInv, CountInv
      <4> QED
        BY <4>1, <4>2, <4>3, LiveType DEF IInv
    <3>2. ASSUME NEW x \in Items PROVE torn[x] <= MaxRetries * (1 + faults + stops)
      <4>1. /\ faults \in Nat /\ stops \in Nat /\ Spare \in Int /\ Spare <= stops
            /\ MaxRetries \in Nat /\ torn[x] \in Nat
            /\ Used(x) \in Int /\ Used(x) <= MaxRetries - 1 /\ Credit(x) \in Int
            /\ (pc # "item" \/ x # Item => Used(x) = 0)
        BY TornTypes DEF TornTyped, IInv
      <4>2. Live(x) \in Int /\ Live(x) >= 0 /\ (pc = "item" /\ x = Item => Live(x) >= 1)
        BY LiveType, LiveNat DEF IInv
      <4>3. PICK m \in Nat, c \in Int, u \in Int, t \in Nat, d \in Nat :
              m = MaxRetries /\ c = Credit(x) /\ u = Used(x) /\ t = torn[x] /\ d = 1 + faults + stops
        BY <4>1
      <4>4. t <= (m * c) + u
        BY <4>3 DEF IInv, TornInv
      <4>5. \/ d >= c /\ u = 0
            \/ d >= c + 1 /\ u <= m
        BY <4>1, <4>2, <4>3 DEF Credit
      <4>6. \/ d >= c /\ t + u <= 0 + t
            \/ d >= c + 1 /\ t + u <= 0 + t + m
        BY <4>5
      <4>7. t <= (m * d) + 0
        BY <4>4, <4>6, TornBound
      <4>8. m * d \in Nat
        OBVIOUS
      <4> QED
        BY <4>3, <4>7, <4>8
    <3> QED
      BY <3>1, <3>2 DEF RepeatsHaveACause
  <2> QED
    BY <2>1, <2>2, <2>3 DEF QueueSafe
<1> QED
  BY <1>1, IInit, IStep, PTL DEF Spec

\* A writer that is killed at any point but never shut down in order (an orderly
\* shutdown hands the tail back behind younger entries) is, with its queue, an ordered
\* at-least-once queue: a replayed item that was settled before is a stuttering step.
THEOREM WriteQueueImplementsQueue == ASSUME MaxStops = 0 PROVE Spec => ImplementsQueue
<1>1. Init => Queue!QInit
  BY DEF Init, Queue!QInit, Settled
<1>2. ASSUME IInv, [Next]_vars PROVE [Queue!QNext]_(Queue!qvars)
  <2>0. published \in Nat /\ stops = 0 /\ TypeInv /\ CountInv /\ OrderInv
    BY <1>2 DEF IInv, TypeInv, Scalars
  <2>1. ASSUME NEW k \in 1..MaxBatch, Publish(k) PROVE Queue!Submit
    <3>1. k \in Nat /\ k >= 1 /\ published' = published + k /\ Settled' = Settled
      BY <2>1, WriteQueueAssumption DEF Publish, Settled, disposed
    <3> QED
      BY <2>0, <3>1 DEF Queue!Submit
  <2>2. CASE ItemStored \/ ItemUnprocessable \/ ItemFailed
    <3>1. pc = "item" /\ Settled' = Settled \cup {Item} /\ published' = published
      BY <2>2 DEF ItemStored, ItemUnprocessable, ItemFailed, Settled
    <3>2. Item \in 1..published
      BY <2>0, <3>1, ItemPublished
    <3>3. \A y \in 1..(Item - 1) : y \in Settled
      <4>1. \A y \in 1..(Item - 1) : y \in 1..Item /\ y # Item
        BY <3>2
      <4> QED
        BY <2>0, <3>1, <4>1, ItemIsNext
    <3>4. CASE Item \in Settled
      BY <3>1, <3>4 DEF Queue!qvars
    <3>5. CASE Item \notin Settled
      BY <3>1, <3>2, <3>3, <3>5 DEF Queue!QNext, Queue!Complete
    <3> QED
      BY <3>4, <3>5
  <2>3. CASE ~(ItemStored \/ ItemUnprocessable \/ ItemFailed) /\ ~(\E k \in 1..MaxBatch : Publish(k))
    <3>1. UNCHANGED <<final, gaveUp, published>>
      BY <1>2, <2>3 DEF Next, Recovery, Take, Batch, Process, Finish, Lifecycle, RecoverOne, RecoverDone,
         Reserve, ReserveFails, ReserveIdle, BeginItem, BatchInterrupted, BatchDone, ItemRetried, ItemInterrupted,
         Requeue, RequeueFails, Ack, AckFails, Stop, RunEnds, StartWriter, vars, disposed
    <3> QED
      BY <3>1 DEF Queue!qvars, Settled
  <2> QED
    BY <2>1, <2>2, <2>3 DEF Queue!QNext
<1> QED
  BY <1>1, <1>2, IInit, IStep, PTL DEF Spec, ImplementsQueue, Queue!QSpec
=============================================================================
