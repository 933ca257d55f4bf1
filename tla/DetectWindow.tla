---------------------------- MODULE DetectWindow ----------------------------
(***************************************************************************)
(* Security detections (internal/detect): records are counted per group in *)
(* a ring of Slots buckets, at most MaxGroups groups are kept, least       *)
(* recently used first out, and a group over the threshold is reported     *)
(* once per cooldown.  Reports go through a bounded channel to one         *)
(* goroutine that persists them.  One tick is one bucket of the window.    *)
(***************************************************************************)
EXTENDS Integers, FiniteSets, Sequences

CONSTANTS
  DetGroups, MaxGroups, Slots, DetThreshold, DetCooldown,
  DetectionBuffer, EmitAttempts,
  DetMaxTime,      \* bound: ticks
  DetMaxRecords,   \* bound: records observed
  DetMaxFaults     \* bound: failed persists, restarts and rule changes

ASSUME DetAssumption ==
  {MaxGroups, Slots, DetThreshold, DetCooldown, DetectionBuffer, EmitAttempts} \subseteq Nat \ {0}

VARIABLES
  detNow,
  detLru,       \* the groups, most recently used first: [key, c]
  detOut,       \* Engine.out, the detections waiting
  detEmit,      \* the emitter: idle, or a detection and the attempts made
  detHistory,   \* per group: the buckets of its records, and of its firings
  detCount, detFaults

detVars == <<detNow, detLru, detOut, detEmit, detHistory, detCount, detFaults>>

NoFiring == 0
NewCounter == [head |-> 0, ids |-> [i \in 0 .. Slots - 1 |-> 0],
               counts |-> [i \in 0 .. Slots - 1 |-> 0], lastFired |-> NoFiring]
NoDetection == [group |-> "none", tries |-> 0]
NoHistory == [g \in DetGroups |-> [added |-> <<>>, fired |-> <<>>]]

----------------------------------------------------------------------------
\* The counter

\* The buckets inside the window, and the records they hold.
Live(c) == {i \in DOMAIN c.ids : c.ids[i] > c.head - Slots /\ c.ids[i] <= c.head}
Total(c) == Cardinality(UNION {{i} \X (1 .. c.counts[i]) : i \in Live(c)})

\* Mutant: a bucket of an earlier round of the ring is counted on.
AddKeepsBucket(c, ts) ==
  LET head == IF ts > c.head THEN ts ELSE c.head
      i == ts % Slots
  IN IF ts <= head - Slots THEN [c EXCEPT !.head = head]
     ELSE [c EXCEPT !.head = head, !.ids[i] = ts, !.counts[i] = @ + 1]

\* add: a record older than the window only leaves the head where it was.
Add(c, ts) ==
  LET head == IF ts > c.head THEN ts ELSE c.head
      i == ts % Slots
  IN IF ts <= head - Slots THEN [c EXCEPT !.head = head]
     ELSE [c EXCEPT !.head = head, !.ids[i] = ts, !.counts[i] = (IF c.ids[i] = ts THEN @ ELSE 0) + 1]

\* Where group g is: behind the last entry when it is not kept.
Place(lru, g) ==
  IF \E k \in DOMAIN lru : lru[k].key = g THEN CHOOSE k \in DOMAIN lru : lru[k].key = g ELSE Len(lru) + 1

\* lru.get: an entry is moved to the front, a new one may push the last one out.
LruGet(lru, g) ==
  LET p == Place(lru, g)
      entry == IF p > Len(lru) THEN [key |-> g, c |-> NewCounter] ELSE lru[p]
      size == IF p > Len(lru) /\ p <= MaxGroups THEN p ELSE Len(lru)
  IN [k \in 1 .. size |-> IF k = 1 THEN entry ELSE IF k <= p THEN lru[k - 1] ELSE lru[k]]

Kept(lru) == {lru[k].key : k \in DOMAIN lru}
CooledDown(last, at) == last = NoFiring \/ at - last >= DetCooldown

----------------------------------------------------------------------------
\* A full channel drops the detection: ingest never waits for the emitter.
Emit(out, d) == IF Len(out) < DetectionBuffer THEN Append(out, d) ELSE out

\* ObserveSecurity: one record of group g that the rule matches and does not
\* exclude.  A missing or future timestamp is taken for now.
ObserveSecurity(g, stamp) ==
  LET ts == IF stamp = 0 \/ stamp > detNow THEN detNow ELSE stamp
      lru == LruGet(detLru, g)
      c == Add(lru[1].c, ts)
      fires == Total(c) >= DetThreshold /\ CooledDown(c.lastFired, ts)
      history == [k \in DetGroups |-> IF k \in Kept(lru) THEN detHistory[k] ELSE NoHistory[k]]
  IN /\ detCount < DetMaxRecords
     /\ detCount' = detCount + 1
     /\ detLru' = [lru EXCEPT ![1].c = IF fires THEN [c EXCEPT !.lastFired = ts] ELSE c]
     /\ detOut' = IF fires THEN Emit(detOut, [group |-> g, tries |-> 0]) ELSE detOut
     /\ detHistory' = [history EXCEPT ![g] = [added |-> Append(@.added, ts),
                                              fired |-> IF fires THEN Append(@.fired, ts) ELSE @.fired]]
     /\ UNCHANGED <<detNow, detEmit, detFaults>>

\* A record that does not match, or that the rule excludes, is not counted.
ObserveExcluded ==
  /\ detCount < DetMaxRecords
  /\ detCount' = detCount + 1
  /\ UNCHANGED <<detNow, detLru, detOut, detEmit, detHistory, detFaults>>

\* SetRules: counts and cooldowns start over.
SetRules ==
  /\ detLru # <<>> /\ detFaults < DetMaxFaults
  /\ detFaults' = detFaults + 1
  /\ detLru' = <<>> /\ detHistory' = NoHistory
  /\ UNCHANGED <<detNow, detOut, detEmit, detCount>>

----------------------------------------------------------------------------
\* The emitter

EmitTake ==
  /\ detEmit = NoDetection /\ detOut # <<>>
  /\ detEmit' = Head(detOut) /\ detOut' = Tail(detOut)
  /\ UNCHANGED <<detNow, detLru, detHistory, detCount, detFaults>>

EmitPersisted ==
  /\ detEmit # NoDetection
  /\ detEmit' = NoDetection
  /\ UNCHANGED <<detNow, detLru, detOut, detHistory, detCount, detFaults>>

\* A retryable failure is tried again after a pause, until the pauses run out;
\* any other one loses the detection at once.
EmitFails(retryable) ==
  /\ detEmit # NoDetection /\ detFaults < DetMaxFaults
  /\ detFaults' = detFaults + 1
  /\ detEmit' = IF retryable /\ detEmit.tries + 1 < EmitAttempts
                THEN [detEmit EXCEPT !.tries = @ + 1] ELSE NoDetection
  /\ UNCHANGED <<detNow, detLru, detOut, detHistory, detCount>>

DetTick ==
  /\ detNow < DetMaxTime
  /\ detNow' = detNow + 1
  /\ UNCHANGED <<detLru, detOut, detEmit, detHistory, detCount, detFaults>>

\* A new writer starts with no counts and an empty channel.
DetRestart ==
  /\ detFaults < DetMaxFaults
  /\ detFaults' = detFaults + 1
  /\ detLru' = <<>> /\ detOut' = <<>> /\ detEmit' = NoDetection /\ detHistory' = NoHistory
  /\ UNCHANGED <<detNow, detCount>>

DetInit ==
  /\ detNow = Slots /\ detLru = <<>> /\ detOut = <<>> /\ detEmit = NoDetection
  /\ detHistory = NoHistory /\ detCount = 0 /\ detFaults = 0

DetNext ==
  \/ \E g \in DetGroups, stamp \in 0 .. detNow + 1 : ObserveSecurity(g, stamp)
  \/ ObserveExcluded \/ SetRules \/ EmitTake \/ EmitPersisted
  \/ \E retryable \in BOOLEAN : EmitFails(retryable)
  \/ DetTick \/ DetRestart

DetSpec == DetInit /\ [][DetNext]_detVars

----------------------------------------------------------------------------
\* Correctness

\* The ring counts what it says: for every group that is kept, whatever the
\* order and the age of its records, the total is the number of its records
\* within the window that ends at the newest of them.
WindowCountExact ==
  \A k \in DOMAIN detLru :
    LET e == detLru[k]  added == detHistory[e.key].added
    IN Total(e.c) = Cardinality({n \in DOMAIN added : added[n] > e.c.head - Slots})

\* A group is never reported twice within the cooldown while it is kept.
CooldownKept ==
  \A g \in DetGroups : LET fired == detHistory[g].fired
                       IN \A m, n \in DOMAIN fired : m < n => fired[n] - fired[m] >= DetCooldown

\* A rule's window counts right and its cooldown is kept.
WindowsSound == WindowCountExact /\ CooldownKept
=============================================================================
