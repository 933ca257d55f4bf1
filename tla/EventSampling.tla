---------------------------- MODULE EventSampling ----------------------------
(***************************************************************************)
(* Event sampling: past a threshold the write path stores one event of an  *)
(* issue in K, with K as its weight (storage/sampling.go).  Whether a      *)
(* project is sampled is its policy, read through a cache that a change of *)
(* the policy invalidates (storage/project_limits.go) while the ingest and *)
(* the issue lists of the same process fill it.                            *)
(***************************************************************************)
EXTENDS Integers, FiniteSets

CONSTANTS
  SampleBase,           \* the ladder's factor (10)
  SamplingLadderSteps,
  DefaultSampleAfter,
  GlobalSampleAfter,    \* BUGBARN_EVENT_SAMPLE_AFTER; 0 switches sampling off
  LimitsReaders,        \* who reads the policy: the ingest and the lists
  LimitsCacheTTL,
  EsMaxTime,            \* bound: ticks
  EsMaxEvents,          \* bound: events of the issue
  EsMaxChanges,         \* bound: changes of the policy
  EsMaxFaults           \* bound: failed statements

ASSUME EventSamplingAssumption ==
  /\ SampleBase \in Nat /\ SampleBase > 1
  /\ {SamplingLadderSteps, DefaultSampleAfter, LimitsCacheTTL} \subseteq Nat \ {0}
  /\ {GlobalSampleAfter, EsMaxTime, EsMaxEvents, EsMaxChanges, EsMaxFaults} \subseteq Nat
  /\ "ingest" \in LimitsReaders

VARIABLES
  esNow,
  esMode, esVersion,   \* projects.sampling_mode, and how often it was changed
  esCache,     \* limitsCache's entry: mode, version read, fetchedAt; or NoLimits
  esReads,     \* [LimitsReaders -> limitsFor between its query and its put, what it returned, and esAcked when it began]
  esUpdate,    \* UpdateProjectLimits between its commit and its invalidation: the version; 0 for none
  esAcked,     \* the version the last UpdateProjectLimits returned at
  esRaced,     \* versions whose invalidation something undid or skipped
  esUsed,      \* the policy the last event was sampled under
  esCount, esWeight,   \* the issue's event_count, and the sum of its rows' sample_weight
  esPending,   \* the last event is counted, and its row not yet decided
  esLost,      \* the sum of the weights of rows that were to be stored and were not
  esSwitches,  \* how often the threshold in use changed
  esFaults

esVars == <<esNow, esMode, esVersion, esCache, esReads, esUpdate, esAcked, esRaced, esUsed,
            esCount, esWeight, esPending, esLost, esSwitches, esFaults>>

\* What the steps around the policy leave alone.
esIssue == <<esUsed, esCount, esWeight, esPending, esLost, esSwitches>>

SamplingModes == {"", "on", "off"}
NoLimits == [mode |-> "", ver |-> -1, at |-> 0]
NotReading == [pc |-> "idle", limits |-> NoLimits, acked |-> 0]

\* sampleRateFor: the rates k of the loop, the rung of n, and K.
Ladder[s \in 0 .. SamplingLadderSteps] == IF s = 0 THEN 1 ELSE SampleBase * Ladder[s - 1]

Rung(n, keepAll) ==
  LET fits == {s \in 1 .. SamplingLadderSteps : n <= keepAll * Ladder[s]}
  IN IF fits = {} THEN SamplingLadderSteps ELSE CHOOSE s \in fits : \A t \in fits : s <= t

SampleRateFor(n, keepAll) ==
  IF keepAll <= 0 \/ n <= keepAll THEN 1 ELSE Ladder[Rung(n, keepAll)]

\* Mutant: the rung is chosen from the count before this event.
RungBefore(n, keepAll) == IF n % SampleRateFor(n - 1, keepAll) # 0 THEN 0 ELSE SampleRateFor(n - 1, keepAll)

\* sampleFor: the weight of the n-th event's row, 0 when none is stored.
SampleFor(n, keepAll) == IF n % SampleRateFor(n, keepAll) # 0 THEN 0 ELSE SampleRateFor(n, keepAll)

\* sampleAfterFor
SampleAfterFor(mode) ==
  CASE mode = "off" -> 0
    [] mode = "on" -> IF GlobalSampleAfter > 0 THEN GlobalSampleAfter ELSE DefaultSampleAfter
    [] OTHER -> GlobalSampleAfter

----------------------------------------------------------------------------
\* The policy and its cache

CacheHit == esCache # NoLimits /\ esNow - esCache.at <= LimitsCacheTTL

\* The ingest asks for the policy when it has counted an event.
Asks(r) == esReads[r].pc = "idle" /\ (r = "ingest" => esPending)

\* limitsFor: the cache, or a query ...
LimitsFor(r) ==
  /\ Asks(r)
  /\ esReads' = [esReads EXCEPT ![r] =
       IF CacheHit THEN [pc |-> "got", limits |-> esCache, acked |-> esAcked]
       ELSE [pc |-> "put", limits |-> [mode |-> esMode, ver |-> esVersion, at |-> 0], acked |-> esAcked]]
  /\ UNCHANGED <<esNow, esMode, esVersion, esCache, esUpdate, esAcked, esRaced, esIssue, esFaults>>

\* ... that may fail, which means inherit everything ...
LimitsForFails(r) ==
  /\ Asks(r) /\ ~CacheHit /\ esFaults < EsMaxFaults
  /\ esFaults' = esFaults + 1
  /\ esReads' = [esReads EXCEPT ![r] = 
       [pc |-> "got", limits |-> [mode |-> "", ver |-> esVersion, at |-> esNow], acked |-> esAcked]]
  /\ UNCHANGED <<esNow, esMode, esVersion, esCache, esUpdate, esAcked, esRaced, esIssue>>

\* ... and whose result is put in the cache.
PutLimits(r) ==
  /\ esReads[r].pc = "put"
  /\ LET limits == [esReads[r].limits EXCEPT !.at = esNow]
     IN /\ esCache' = limits
        /\ esReads' = [esReads EXCEPT ![r] = [@ EXCEPT !.pc = "got", !.limits = limits]]
        /\ esRaced' = IF limits.ver < esAcked THEN esRaced \cup {esAcked} ELSE esRaced
  /\ UNCHANGED <<esNow, esMode, esVersion, esUpdate, esAcked, esIssue, esFaults>>

\* updateProjectLimits: the new mode is committed ...
UpdateProjectLimits(mode) ==
  /\ esUpdate = 0 /\ esVersion < EsMaxChanges /\ mode # esMode
  /\ esMode' = mode /\ esVersion' = esVersion + 1 /\ esUpdate' = esVersion'
  /\ UNCHANGED <<esNow, esCache, esReads, esAcked, esRaced, esIssue, esFaults>>

\* Mutant: the entry is left to expire.
KeepLimits == esCache

DropLimits == NoLimits

\* ... and the cached policy dropped, unless the project's id is no longer found.
InvalidateLimits(found) ==
  /\ esUpdate > 0 /\ (~found => esFaults < EsMaxFaults)
  /\ esCache' = IF found THEN DropLimits ELSE esCache
  /\ esRaced' = IF found THEN esRaced ELSE esRaced \cup {esUpdate}
  /\ esFaults' = IF found THEN esFaults ELSE esFaults + 1
  /\ esAcked' = esUpdate /\ esUpdate' = 0
  /\ UNCHANGED <<esNow, esMode, esVersion, esReads, esIssue>>

----------------------------------------------------------------------------
\* Storing events

\* PersistProcessedEvent: the upsert of the issue commits the count; limitsFor
\* follows, and then, in another transaction, the row.
CountEvent ==
  /\ ~esPending /\ esCount < EsMaxEvents
  /\ esCount' = esCount + 1 /\ esPending' = TRUE
  /\ UNCHANGED <<esNow, esMode, esVersion, esCache, esReads, esUpdate, esAcked, esRaced, esUsed, esWeight, esLost,
                 esSwitches, esFaults>>

KeepAll == SampleAfterFor(esReads["ingest"].limits.mode)

\* The sampling decision for the event that was counted.
Decides ==
  /\ esPending /\ esReads["ingest"].pc = "got"
  /\ LET limits == esReads["ingest"].limits
     IN /\ esUsed' = [keepAll |-> KeepAll, ver |-> limits.ver, acked |-> esReads["ingest"].acked, age |-> esNow - limits.at]
        /\ esSwitches' = IF esCount > 1 /\ KeepAll # esUsed.keepAll THEN esSwitches + 1 ELSE esSwitches
  /\ esPending' = FALSE
  /\ esReads' = [esReads EXCEPT !["ingest"] = NotReading]
  /\ UNCHANGED <<esNow, esMode, esVersion, esCache, esUpdate, esAcked, esRaced, esCount>>

\* The row is stored when the ladder says so.  When the facets that follow fail
\* the event comes again, and is counted and decided on again.
PersistSampled ==
  /\ Decides
  /\ esWeight' = esWeight + SampleFor(esCount, KeepAll)
  /\ UNCHANGED <<esLost, esFaults>>

\* insertEvent fails: the event is counted, and its row left out.
InsertEventFails ==
  /\ Decides /\ SampleFor(esCount, KeepAll) > 0 /\ esFaults < EsMaxFaults
  /\ esLost' = esLost + SampleFor(esCount, KeepAll)
  /\ esFaults' = esFaults + 1
  /\ UNCHANGED esWeight

\* The process stops, perhaps between the two transactions, and starts again
\* with an empty cache.
EsRestart ==
  /\ esFaults < EsMaxFaults
  /\ esFaults' = esFaults + 1
  /\ esCache' = NoLimits /\ esReads' = [r \in LimitsReaders |-> NotReading] /\ esUpdate' = 0
  /\ esPending' = FALSE
  /\ esLost' = IF esPending THEN esLost + SampleFor(esCount, esUsed.keepAll) ELSE esLost
  /\ UNCHANGED <<esNow, esMode, esVersion, esAcked, esRaced, esUsed, esCount, esWeight, esSwitches>>

\* A list uses the policy for the rates it shows (annotateSampleRates).
ListDone(r) ==
  /\ r # "ingest" /\ esReads[r].pc = "got"
  /\ esReads' = [esReads EXCEPT ![r] = NotReading]
  /\ UNCHANGED <<esNow, esMode, esVersion, esCache, esUpdate, esAcked, esRaced, esIssue, esFaults>>

EsTick ==
  /\ esNow < EsMaxTime
  /\ \A r \in LimitsReaders : esReads[r].pc # "got"     \* a policy is used at once
  /\ esNow' = esNow + 1
  /\ UNCHANGED <<esMode, esVersion, esCache, esReads, esUpdate, esAcked, esRaced, esIssue, esFaults>>

EsInit ==
  /\ esNow = 0 /\ esMode = "" /\ esVersion = 0 /\ esCache = NoLimits /\ esUpdate = 0 /\ esAcked = 0 /\ esRaced = {}
  /\ esReads = [r \in LimitsReaders |-> NotReading]
  /\ esUsed = [keepAll |-> GlobalSampleAfter, ver |-> 0, acked |-> 0, age |-> 0]
  /\ esCount = 0 /\ esWeight = 0 /\ esPending = FALSE /\ esLost = 0 /\ esSwitches = 0 /\ esFaults = 0

EsNext ==
  \/ \E r \in LimitsReaders : LimitsFor(r) \/ LimitsForFails(r) \/ PutLimits(r) \/ ListDone(r)
  \/ \E mode \in SamplingModes : UpdateProjectLimits(mode)
  \/ \E found \in BOOLEAN : InvalidateLimits(found)
  \/ CountEvent \/ PersistSampled \/ InsertEventFails \/ EsRestart \/ EsTick

EsSpec == EsInit /\ [][EsNext]_esVars

----------------------------------------------------------------------------
\* Correctness

\* The events whose row was decided on, or given up with a stopped process, and
\* the weights that should stand for them.
Decided == IF esPending THEN esCount - 1 ELSE esCount
Weights == esWeight + esLost

\* The summed weights stay within one K of the issue's count for every switch of
\* the threshold in use, and with no switch and a threshold that is a multiple of
\* the ladder's factor they only ever trail it.  Count and row are transactions
\* of their own: what an attempt that failed or stopped between them leaves out
\* of the sum is the weight of that one row, at most one K for each failure.
SummedCountClose ==
  LET k == Ladder[SamplingLadderSteps]
      now == SampleRateFor(Decided, esUsed.keepAll)
      behind == Decided - Weights
  IN /\ behind < (esSwitches + 1) * k /\ behind > - (esSwitches + 1) * k
     /\ esSwitches = 0 /\ esUsed.keepAll % SampleBase = 0 => behind \in 0 .. now - 1
     /\ esLost <= esFaults * k

\* An event is sampled under a policy older than the last change this process
\* made only when a lookup of that moment put the old row back after the
\* invalidation, or the invalidation did not find the project; and never under
\* one that was cached longer than LimitsCacheTTL ago.
StalePolicyHasACause ==
  /\ esUsed.ver >= esUsed.acked \/ esUsed.acked \in esRaced
  /\ esUsed.age <= LimitsCacheTTL

\* What the stored sample can be trusted for: the weights sum to the count, and
\* the policy in use is the one that was set, but for the causes named.
SamplingSound == SummedCountClose /\ StalePolicyHasACause
=============================================================================
