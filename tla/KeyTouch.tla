------------------------------ MODULE KeyTouch ------------------------------
(***************************************************************************)
(* Last-use times of API keys (internal/keytouch).  A reader cannot write, *)
(* so it collects the keys it served and sends them to the writer; a send  *)
(* that fails on the way back is applied and put back as well.             *)
(***************************************************************************)
EXTENDS Integers, FiniteSets, FiniteSetsExt

CONSTANTS
  TouchReaders, TouchKeys,
  MaxPending,        \* keys a reader remembers
  TouchFreshFor,     \* age a signed batch may have (sessionstore.FreshTS)
  KtMaxTime, KtMaxTouches, KtMaxFaults   \* bounds

ASSUME KtAssumption == MaxPending \in Nat \ {0} /\ TouchFreshFor \in Nat

VARIABLES
  ktNow,
  ktPending,   \* per reader: the last use of each key not yet sent, 0 for none
  ktBatch,     \* per reader: the batch a Flush is sending, no use at all when idle
  ktPosts,     \* batches on the way to the writer: [from, at, touches], and whether the
               \* reader still waits for the answer
  ktAnswered,  \* readers whose batch the writer has answered with 200
  ktRow,       \* api_keys.last_used_at
  ktUsed,      \* history: the last use of each key at each reader
  ktDropped,   \* history: uses a full map or an exit dropped
  ktTouches, ktFaults

ktVars == <<ktNow, ktPending, ktBatch, ktPosts, ktAnswered, ktRow, ktUsed, ktDropped, ktTouches, ktFaults>>

NoUses == [k \in TouchKeys |-> 0]
Held(uses) == {k \in TouchKeys : uses[k] > 0}
Later(a, b) == IF a < b THEN b ELSE a

\* Touch: a use of a key at a reader.
TouchKey(r, k) ==
  /\ ktTouches < KtMaxTouches
  /\ ktTouches' = ktTouches + 1
  /\ ktUsed' = [ktUsed EXCEPT ![r][k] = ktNow]
  /\ IF k \notin Held(ktPending[r]) /\ Cardinality(Held(ktPending[r])) >= MaxPending
     THEN /\ ktDropped' = ktDropped \cup {<<r, k>>}
          /\ UNCHANGED ktPending
     ELSE /\ ktPending' = [ktPending EXCEPT ![r][k] = ktNow]
          /\ ktDropped' = ktDropped \ {<<r, k>>}
  /\ UNCHANGED <<ktNow, ktBatch, ktPosts, ktAnswered, ktRow, ktFaults>>

\* Flush takes everything collected and posts it; the request may never arrive.
FlushTake(r, arrives) ==
  /\ Held(ktPending[r]) # {} /\ ktBatch[r] = NoUses
  /\ ~arrives => ktFaults < KtMaxFaults
  /\ ktFaults' = ktFaults + (IF arrives THEN 0 ELSE 1)
  /\ ktBatch' = [ktBatch EXCEPT ![r] = ktPending[r]]
  /\ ktPending' = [ktPending EXCEPT ![r] = NoUses]
  /\ ktPosts' = IF arrives THEN ktPosts \cup {[from |-> r, at |-> ktNow, touches |-> ktPending[r], awaited |-> TRUE]} ELSE ktPosts
  /\ UNCHANGED <<ktNow, ktAnswered, ktRow, ktUsed, ktDropped, ktTouches>>

\* Mutant: a late batch sets the time it carries.
MovesTo(row, touches) == [k \in TouchKeys |-> IF touches[k] > 0 THEN touches[k] ELSE row[k]]

\* TouchAPIKeysAt: a row only moves forward.
TouchAPIKeysAt(row, touches) == [k \in TouchKeys |-> Later(row[k], touches[k])]

\* serveInternalKeyTouch: a batch that is too old is refused, any other is
\* applied under a deadline of its own, also when the reader has given up.
ServeKeyTouch(p) ==
  /\ ktPosts' = ktPosts \ {p}
  /\ IF ktNow - p.at > TouchFreshFor
     THEN UNCHANGED <<ktRow, ktAnswered>>
     ELSE /\ ktRow' = TouchAPIKeysAt(ktRow, p.touches)
          /\ ktAnswered' = IF p.awaited THEN ktAnswered \cup {p.from} ELSE ktAnswered
  /\ UNCHANGED <<ktNow, ktPending, ktBatch, ktUsed, ktDropped, ktTouches, ktFaults>>

\* The answer was 200.
FlushDone(r) ==
  /\ r \in ktAnswered
  /\ ktAnswered' = ktAnswered \ {r}
  /\ ktBatch' = [ktBatch EXCEPT ![r] = NoUses]
  /\ UNCHANGED <<ktNow, ktPending, ktPosts, ktRow, ktUsed, ktDropped, ktTouches, ktFaults>>

\* Mutant: the batch that failed replaces what was collected since.
PutBackOver(pending, batch) == {[k \in TouchKeys |-> IF batch[k] > 0 THEN batch[k] ELSE pending[k]]}

\* What Flush may put back: the newer time of each key; a full map takes no new
\* key, and which of the new keys find room is the order of the batch.
PutBack(pending, batch) ==
  LET new  == Held(batch) \ Held(pending)
      room == Later(0, MaxPending - Cardinality(Held(pending)))
  IN {[k \in TouchKeys |-> IF k \in Held(pending) \cup kept THEN Later(pending[k], batch[k]) ELSE 0] :
        kept \in {S \in SUBSET new : Cardinality(S) = Min({room, Cardinality(new)})}}

\* The posts of a reader that has stopped waiting.
Unawaited(r) == {IF p.from = r THEN [p EXCEPT !.awaited = FALSE] ELSE p : p \in ktPosts}

\* The send returned an error.
SendFailed(r) ==
  \E back \in PutBack(ktPending[r], ktBatch[r]) :
    /\ ktPending' = [ktPending EXCEPT ![r] = back]
    /\ ktDropped' = ktDropped \cup {<<r, k>> : k \in Held(ktBatch[r]) \ Held(back)}
    /\ ktBatch' = [ktBatch EXCEPT ![r] = NoUses]
    /\ ktAnswered' = ktAnswered \ {r}
    /\ ktPosts' = Unawaited(r)

\* The send failed: refused, timed out with the batch still under way, or its
\* answer was lost.
FlushFails(r) ==
  /\ ktBatch[r] # NoUses /\ ktFaults < KtMaxFaults
  /\ ktFaults' = ktFaults + 1
  /\ SendFailed(r)
  /\ UNCHANGED <<ktNow, ktRow, ktUsed, ktTouches>>

\* The batch never arrived, or the writer refused it.
FlushRefused(r) ==
  /\ ktBatch[r] # NoUses /\ r \notin ktAnswered
  /\ \A p \in ktPosts : ~(p.from = r /\ p.awaited)
  /\ SendFailed(r)
  /\ UNCHANGED <<ktNow, ktRow, ktUsed, ktTouches, ktFaults>>

\* Run ends: the final Flush got nowhere, or the process was killed.
ReaderExits(r) ==
  /\ ktFaults < KtMaxFaults
  /\ ktFaults' = ktFaults + 1
  /\ ktDropped' = ktDropped \cup {<<r, k>> : k \in Held(ktPending[r]) \cup Held(ktBatch[r])}
  /\ ktPending' = [ktPending EXCEPT ![r] = NoUses]
  /\ ktBatch' = [ktBatch EXCEPT ![r] = NoUses]
  /\ ktAnswered' = ktAnswered \ {r}
  /\ ktPosts' = Unawaited(r)
  /\ UNCHANGED <<ktNow, ktRow, ktUsed, ktTouches>>

KtTick ==
  /\ ktNow < KtMaxTime
  /\ ktNow' = ktNow + 1
  /\ UNCHANGED <<ktPending, ktBatch, ktPosts, ktAnswered, ktRow, ktUsed, ktDropped, ktTouches, ktFaults>>

KtInit ==
  /\ ktNow = 1 /\ ktPosts = {} /\ ktAnswered = {} /\ ktDropped = {} /\ ktTouches = 0 /\ ktFaults = 0
  /\ ktPending = [r \in TouchReaders |-> NoUses] /\ ktBatch = ktPending /\ ktUsed = ktPending
  /\ ktRow = NoUses

KtNext ==
  \/ \E r \in TouchReaders, k \in TouchKeys : TouchKey(r, k)
  \/ \E r \in TouchReaders, arrives \in BOOLEAN : FlushTake(r, arrives)
  \/ \E p \in ktPosts : ServeKeyTouch(p)
  \/ \E r \in TouchReaders : FlushDone(r) \/ FlushFails(r) \/ FlushRefused(r) \/ ReaderExits(r)
  \/ KtTick

KtSpec == KtInit /\ [][KtNext]_ktVars

----------------------------------------------------------------------------
\* Correctness

\* A use of a key that no full map and no exit dropped is in the key's row or
\* still with the reader, whatever send was lost, repeated or overtaken: the
\* newer time survives the put-back, and a late batch never rewinds the row.
UseReachesTheRow ==
  \A r \in TouchReaders, k \in TouchKeys :
    (ktUsed[r][k] > 0 /\ <<r, k>> \notin ktDropped)
      => ktUsed[r][k] <= Max({ktRow[k], ktPending[r][k], ktBatch[r][k]})
=============================================================================
