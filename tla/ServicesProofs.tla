---------------------------- MODULE ServicesProofs ----------------------------
(***************************************************************************)
(* Proofs about the smaller services, for every value of their constants:  *)
(* one section per service, each with the invariant its result rests on.   *)
(***************************************************************************)
EXTENDS DetectionRules, HostWatch, Silence, TelemetryDB, CfPoller, IngestHealth, Retention, Monitors,
        CronExpr, FiniteSetTheorems, WellFoundedInduction, TLAPS

-----------------------------------------------------------------------------
(* The largest and the smallest number of a set. *)

\* The larger of two numbers.
LEMMA MaxOfTwo == \A m, n \in Int : Max({m, n}) = IF m >= n THEN m ELSE n
<1> SUFFICES ASSUME NEW m \in Int, NEW n \in Int PROVE Max({m, n}) = IF m >= n THEN m ELSE n
  OBVIOUS
<1> DEFINE P(x) == x \in {m, n} /\ \A y \in {m, n} : x >= y
<1>1. P(IF m >= n THEN m ELSE n) /\ \A x : P(x) => x = IF m >= n THEN m ELSE n
  OBVIOUS
<1>2. P(CHOOSE x : P(x))
  BY <1>1
<1>3. Max({m, n}) = CHOOSE x : P(x)
  BY DEF Max
<1> QED
  BY <1>1, <1>2, <1>3

\* The smaller of two numbers.
LEMMA MinOfTwo == \A m, n \in Int : Min({m, n}) = IF m <= n THEN m ELSE n
<1> SUFFICES ASSUME NEW m \in Int, NEW n \in Int PROVE Min({m, n}) = IF m <= n THEN m ELSE n
  OBVIOUS
<1> DEFINE P(x) == x \in {m, n} /\ \A y \in {m, n} : x <= y
<1>1. P(IF m <= n THEN m ELSE n) /\ \A x : P(x) => x = IF m <= n THEN m ELSE n
  OBVIOUS
<1>2. P(CHOOSE x : P(x))
  BY <1>1
<1>3. Min({m, n}) = CHOOSE x : P(x)
  BY DEF Min
<1> QED
  BY <1>1, <1>2, <1>3

\* A set of times has a first one.
LEMMA FirstTime ==
  ASSUME NEW S \in SUBSET Nat, S # {}
  PROVE  Min(S) \in S /\ \A y \in S : Min(S) <= y
<1>1. PICK x \in S : \A y \in S : ~(<<y, x>> \in OpToRel(<, Nat))
  BY NatLessThanWellFounded, WFMin
<1>2. ASSUME NEW y \in S, ~(x <= y) PROVE FALSE
  <2>1. <<y, x>> \in Nat \X Nat /\ y < x
    BY <1>2
  <2> QED
    BY <1>1, <2>1 DEF OpToRel
<1>3. \A y \in S : x <= y
  BY <1>2
<1> QED
  BY <1>3 DEF Min

-----------------------------------------------------------------------------
(* Detection rules: the engine runs what is stored. *)

EngineSets == [RuleIds -> RuleVersions \cup {Absent, Shipped}]
RequestRecords == [pc : {"idle", "stored", "read"}, set : EngineSets \cup {Shipped}, old : BOOLEAN, late : BOOLEAN]

RuleTypes ==
  /\ ruleStored \in RuleTable
  /\ ruleStale \in BOOLEAN
  /\ ruleReqs \in [RuleRequests -> RequestRecords]

\* Some request will hand over what is stored now.
Refreshes(x) == x.pc = "stored" \/ (x.pc = "read" /\ ~x.old)
RefreshComing == \E p \in RuleRequests : Refreshes(ruleReqs[p])

\* What a request holds: a set that is not old is the stored one, and a set that
\* is old but not yet overtaken leaves the engine known stale or is followed by a newer one.
RequestInv(p) ==
  LET x == ruleReqs[p]
  IN /\ x.pc # "read" => ~x.old /\ ~x.late
     /\ (x.pc = "read" /\ ~x.old) => ~x.late /\ x.set = Effective(ruleStored)
     /\ (x.pc = "read" /\ x.old /\ ~x.late) => ruleStale \/ RefreshComing

EngineInv == ruleStale \/ ruleEngine = Effective(ruleStored) \/ RefreshComing

RuleIInv == RuleTypes /\ EngineInv /\ \A p \in RuleRequests : RequestInv(p)

\* What Merge returns is a set of rules the engine can run.
LEMMA EffectiveTypes == \A t : Effective(t) \in EngineSets
BY DEF Effective, EngineSets

\* A request is idle before it arrives, and its rule is stored after it.
LEMMA IdleRequestType == IdleRequest \in RequestRecords /\ [IdleRequest EXCEPT !.pc = "stored"] \in RequestRecords
BY DEF IdleRequest, RequestRecords

\* The invariant of the rule sets holds initially.
LEMMA RuleInitInv == RuleInit => RuleIInv
<1> SUFFICES ASSUME RuleInit PROVE RuleIInv
  OBVIOUS
<1>1. RuleTypes
  BY IdleRequestType DEF RuleInit, RuleTypes, RuleTable
<1>2. EngineInv
  BY DEF RuleInit, EngineInv
<1>3. \A p \in RuleRequests : RequestInv(p)
  BY DEF RuleInit, RequestInv, IdleRequest
<1> QED
  BY <1>1, <1>2, <1>3 DEF RuleIInv

\* A request that has stored its change is one refresh to come.
LEMMA ChangeStored ==
  ASSUME RuleIInv, NEW q \in RuleRequests, ruleReqs' = StoredBy(q), ruleStored' \in RuleTable, UNCHANGED ruleStale
  PROVE  RuleIInv'
<1> USE DEF RuleIInv
<1>1. ASSUME NEW p \in RuleRequests, p # q
      PROVE  /\ ruleReqs'[p] = [ruleReqs[p] EXCEPT !.old = ruleReqs[p].old \/ ruleReqs[p].pc = "read"]
             /\ ruleReqs'[p] \in RequestRecords
             /\ ruleReqs'[p].pc = ruleReqs[p].pc /\ ruleReqs'[p].late = ruleReqs[p].late
             /\ ruleReqs'[p].old = (ruleReqs[p].old \/ ruleReqs[p].pc = "read")
  <2>1. ruleReqs[p] \in RequestRecords
    BY DEF RuleTypes
  <2>2. ruleReqs'[p] = [ruleReqs[p] EXCEPT !.old = ruleReqs[p].old \/ ruleReqs[p].pc = "read"]
    BY <1>1 DEF StoredBy
  <2> QED
    BY <2>1, <2>2 DEF RequestRecords
<1>2. ruleReqs'[q] = [IdleRequest EXCEPT !.pc = "stored"]
  BY DEF StoredBy
<1>3. ruleReqs'[q].pc = "stored" /\ ~ruleReqs'[q].old /\ ~ruleReqs'[q].late
  BY <1>2 DEF IdleRequest
<1>4. ruleReqs' \in [RuleRequests -> RequestRecords]
  <2>1. \A p \in RuleRequests : ruleReqs'[p] \in RequestRecords
    BY <1>1, <1>2, IdleRequestType
  <2>2. ruleReqs' = [p \in RuleRequests |-> ruleReqs'[p]]
    BY DEF StoredBy
  <2> QED
    BY <2>1, <2>2
<1>5. RefreshComing'
  BY <1>3 DEF RefreshComing, Refreshes
<1>6. \A p \in RuleRequests : RequestInv(p)'
  <2> TAKE p \in RuleRequests
  <2>1. CASE p = q
    BY <1>3, <2>1 DEF RequestInv
  <2>2. CASE p # q
    BY <1>1, <1>5, <2>2 DEF RequestInv
  <2> QED
    BY <2>1, <2>2
<1> QED
  BY <1>4, <1>5, <1>6 DEF RuleTypes, EngineInv

\* Every step of the rule sets keeps it.
LEMMA RuleStep == RuleIInv /\ [RuleNext]_ruleVars => RuleIInv'
<1> SUFFICES ASSUME RuleIInv, [RuleNext]_ruleVars PROVE RuleIInv'
  OBVIOUS
<1>0. RuleTypes /\ EngineInv /\ \A p \in RuleRequests : RequestInv(p) /\ ruleReqs[p] \in RequestRecords
  BY DEF RuleIInv, RuleTypes
<1>1. ASSUME NEW q \in RuleRequests, NEW r \in RuleIds, NEW v \in RuleVersions, Put(q, r, v) PROVE RuleIInv'
  <2>1. ruleStored' \in RuleTable
    BY <1>0, <1>1 DEF Put, RuleTypes, RuleTable
  <2> QED
    BY <1>1, <2>1, ChangeStored DEF Put
<1>2. ASSUME NEW q \in RuleRequests, NEW r \in RuleIds, DeleteRule(q, r) PROVE RuleIInv'
  <2>1. ruleStored' \in RuleTable
    BY <1>0, <1>2 DEF DeleteRule, RuleTypes, RuleTable
  <2> QED
    BY <1>2, <2>1, ChangeStored DEF DeleteRule
<1>3. ASSUME NEW q \in RuleRequests, ReloadRead(q) PROVE RuleIInv'
  <2> DEFINE x == [ruleReqs[q] EXCEPT !.pc = "read", !.set = Effective(ruleStored)]
  <2>1. /\ ruleReqs' = [ruleReqs EXCEPT ![q] = x] /\ ruleReqs[q].pc = "stored"
        /\ UNCHANGED <<ruleStored, ruleEngine, ruleStale>>
    BY <1>3 DEF ReloadRead
  <2>2. /\ x \in RequestRecords /\ x.pc = "read" /\ x.old = ruleReqs[q].old /\ x.late = ruleReqs[q].late
        /\ x.set = Effective(ruleStored)
    BY <1>0, EffectiveTypes DEF RequestRecords
  <2>3. ~ruleReqs[q].old /\ ~ruleReqs[q].late
    BY <1>0, <2>1 DEF RequestInv
  <2> HIDE DEF x
  <2>4. ruleReqs' \in [RuleRequests -> RequestRecords] /\ ruleReqs'[q] = x /\ \A p \in RuleRequests \ {q} : ruleReqs'[p] = ruleReqs[p]
    BY <1>0, <2>1, <2>2 DEF RuleTypes
  <2>5. RefreshComing'
    BY <2>2, <2>3, <2>4 DEF RefreshComing, Refreshes
  <2>6. \A p \in RuleRequests : RequestInv(p)'
    <3> TAKE p \in RuleRequests
    <3>1. CASE p = q
      BY <2>1, <2>2, <2>3, <2>4, <3>1 DEF RequestInv
    <3>2. CASE p # q
      BY <1>0, <2>1, <2>4, <2>5, <3>2 DEF RequestInv
    <3> QED
      BY <3>1, <3>2
  <2> QED
    BY <1>0, <2>1, <2>4, <2>5, <2>6 DEF RuleIInv, RuleTypes, EngineInv
<1>4. ASSUME NEW q \in RuleRequests, ReloadApply(q) PROVE RuleIInv'
  <2>1. /\ ruleReqs[q].pc = "read" /\ ruleEngine' = ruleReqs[q].set /\ ruleStored' = ruleStored
        /\ ruleStale' = (ruleReqs[q].late \/ (ruleReqs[q].old /\ ruleStale))
    BY <1>4 DEF ReloadApply
  <2>2. ruleReqs'[q] = IdleRequest
    BY <1>4 DEF ReloadApply
  <2>3. ASSUME NEW p \in RuleRequests, p # q
        PROVE  /\ ruleReqs'[p] \in RequestRecords
               /\ ruleReqs'[p].pc = ruleReqs[p].pc /\ ruleReqs'[p].old = ruleReqs[p].old /\ ruleReqs'[p].set = ruleReqs[p].set
               /\ ruleReqs'[p].late = (ruleReqs[p].late \/ (ruleReqs[p].old /\ ~ruleReqs[q].old))
    <3>1. ruleReqs'[p] = [ruleReqs[p] EXCEPT !.late = ruleReqs[p].late \/ (ruleReqs[p].old /\ ~ruleReqs[q].old)]
      BY <1>4, <2>3 DEF ReloadApply
    <3>2. ruleReqs[p] \in RequestRecords /\ ruleReqs[q] \in RequestRecords
      BY <1>0
    <3> QED
      BY <3>1, <3>2 DEF RequestRecords
  <2>4. ruleReqs' \in [RuleRequests -> RequestRecords]
    <3>1. \A p \in RuleRequests : ruleReqs'[p] \in RequestRecords
      BY <2>2, <2>3, IdleRequestType
    <3>2. ruleReqs' = [p \in RuleRequests |-> ruleReqs'[p]]
      BY <1>4 DEF ReloadApply
    <3> QED
      BY <3>1, <3>2
  <2>5. ruleStale' \in BOOLEAN
    BY <1>0, <2>1 DEF RequestRecords, RuleTypes
  <2>6. RequestInv(q)'
    BY <2>2 DEF RequestInv, IdleRequest
  <2>7. CASE ~ruleReqs[q].old
    <3>1. ruleReqs[q].set = Effective(ruleStored)
      BY <1>0, <2>1, <2>7 DEF RequestInv
    <3>2. \A p \in RuleRequests \ {q} : RequestInv(p)'
      BY <1>0, <2>1, <2>3, <2>7 DEF RequestInv
    <3> QED
      BY <1>0, <2>1, <2>4, <2>5, <2>6, <3>1, <3>2 DEF RuleIInv, RuleTypes, EngineInv
  <2>8. CASE ruleReqs[q].old
    <3>1. RefreshComing => RefreshComing'
      <4> SUFFICES ASSUME NEW p \in RuleRequests, Refreshes(ruleReqs[p]) PROVE RefreshComing'
        BY DEF RefreshComing
      <4>1. p # q
        BY <2>1, <2>8 DEF Refreshes
      <4>2. Refreshes(ruleReqs'[p])
        BY <2>3, <4>1 DEF Refreshes
      <4> QED
        BY <4>2 DEF RefreshComing
    <3>2. ruleStale => ruleStale'
      BY <2>1, <2>8
    <3>3. ruleReqs[q].late => ruleStale'
      BY <2>1
    <3>4. ruleStale' \/ RefreshComing'
      BY <1>0, <2>1, <2>8, <3>1, <3>2, <3>3 DEF RequestInv
    <3>5. \A p \in RuleRequests \ {q} : RequestInv(p)'
      BY <1>0, <2>1, <2>3, <2>8, <3>4 DEF RequestInv
    <3> QED
      BY <1>0, <2>1, <2>4, <2>5, <2>6, <3>4, <3>5 DEF RuleIInv, RuleTypes, EngineInv
  <2> QED
    BY <2>7, <2>8
<1>5. ASSUME NEW q \in RuleRequests, ReloadFails(q) PROVE RuleIInv'
  <2>1. ruleReqs' = [ruleReqs EXCEPT ![q] = IdleRequest] /\ ruleStale' = TRUE /\ UNCHANGED <<ruleStored, ruleEngine>>
    BY <1>5 DEF ReloadFails
  <2>2. ruleReqs' \in [RuleRequests -> RequestRecords] /\ ruleReqs'[q] = IdleRequest /\ \A p \in RuleRequests \ {q} : ruleReqs'[p] = ruleReqs[p]
    BY <1>0, <2>1, IdleRequestType DEF RuleTypes
  <2>3. \A p \in RuleRequests : RequestInv(p)'
    <3> TAKE p \in RuleRequests
    <3>1. CASE p = q
      BY <2>2, <3>1 DEF RequestInv, IdleRequest
    <3>2. CASE p # q
      BY <1>0, <2>1, <2>2, <3>2 DEF RequestInv
    <3> QED
      BY <3>1, <3>2
  <2> QED
    BY <1>0, <2>1, <2>2, <2>3 DEF RuleIInv, RuleTypes, EngineInv
<1>6. ASSUME NEW loaded \in BOOLEAN, NEW broken \in SUBSET RuleIds, RuleRestart(loaded, broken) PROVE RuleIInv'
  <2>1. ruleReqs' = [q \in RuleRequests |-> IdleRequest] /\ ruleStale' = ~loaded
    BY <1>6 DEF RuleRestart
  <2>2. ruleStored' \in RuleTable
    BY <1>0, <1>6 DEF RuleRestart, RuleTypes, RuleTable
  <2>3. loaded => ruleEngine' = Effective(ruleStored')
    BY <1>6 DEF RuleRestart
  <2>4. ruleReqs' \in [RuleRequests -> RequestRecords] /\ \A p \in RuleRequests : ruleReqs'[p] = IdleRequest
    BY <2>1, IdleRequestType
  <2>5. \A p \in RuleRequests : RequestInv(p)'
    BY <2>4 DEF RequestInv, IdleRequest
  <2>6. EngineInv'
    BY <2>1, <2>3 DEF EngineInv, Effective
  <2> QED
    BY <2>1, <2>2, <2>4, <2>5, <2>6 DEF RuleIInv, RuleTypes
<1>7. CASE UNCHANGED ruleVars
  BY <1>0, <1>7 DEF ruleVars, RuleIInv, RuleTypes, EngineInv, RequestInv, RefreshComing, Refreshes, Effective
<1> QED
  BY <1>1, <1>2, <1>3, <1>4, <1>5, <1>6, <1>7 DEF RuleNext

\* However many requests change rules at once, and in whatever order they hand over
\* what they read: between changes the engine runs the stored rules, unless a reload
\* failed or an overtaken request handed its older set over last.
THEOREM EngineRunsStoredRules == RuleSpec => []EngineFollowsStore
<1>1. RuleIInv => EngineFollowsStore
  BY DEF RuleIInv, EngineInv, RefreshComing, Refreshes, EngineFollowsStore
<1> QED
  BY <1>1, RuleInitInv, RuleStep, PTL DEF RuleSpec

-----------------------------------------------------------------------------
(* Heartbeats: a silence is reported once. *)

HostRecords == [seen : Int, cores : Nat, silent : SUBSET HeartbeatRules]
HostRows == [seen : Int, cores : Nat]
HostReports == [raised : Nat, waits : BOOLEAN, tries : Nat, stored : Nat, lost : BOOLEAN]

HwTypes ==
  /\ hwNow \in Int /\ hwStarted \in Int
  /\ hwHosts \in [Hosts -> HostRecords]
  /\ hwTable \in [Hosts -> HostRows]
  /\ hwReports \in [Hosts -> [HeartbeatRules -> HostReports]] /\ hwFaults \in Nat

\* The silent flag of a rule is what was raised in this silence, or came with the seed.
Flagged(h) ==
  \A r \in HeartbeatRules :
    /\ r \notin hwHosts[h].silent => hwReports[h][r].raised = 0
    /\ r \in hwHosts[h].silent => hwReports[h][r].raised = 1 \/ (hwReports[h][r].raised = 0 /\ h \in hwSeeded)

\* What was raised is on its way, filed or lost; a filing beyond the first, and one still
\* to come, has its failed attempt; failures and losses cost faults.
Fate(rep, faults) ==
  /\ rep.raised = 0 => ~rep.waits /\ rep.stored = 0 /\ ~rep.lost
  /\ rep.raised > 0 => rep.waits \/ rep.stored > 0 \/ rep.lost
  /\ rep.stored <= rep.raised + rep.tries /\ (rep.waits => rep.stored <= rep.tries)
  /\ faults = 0 => ~rep.lost /\ rep.tries = 0
Fated == \A h \in Hosts, r \in HeartbeatRules : Fate(hwReports[h][r], hwFaults)

\* A check leaves no silence that is too long without its flag.
Settled(h) ==
  (hwChecked /\ Known(h)) =>
    \A r \in HeartbeatRules :
      (hwNow - hwHosts[h].seen > SilenceWindow[r] /\ hwNow - hwStarted > SilenceWindow[r]) => r \in hwHosts[h].silent

HwIInv == HwTypes /\ Fated /\ \A h \in Hosts : Flagged(h) /\ Settled(h)

\* Nothing raised is a report whatever has failed.
LEMMA NoneIsFated ==
  /\ NoReport \in HostReports /\ NoReport.raised = 0 /\ NoneRaised \in [HeartbeatRules -> HostReports]
  /\ \A faults \in Nat : Fate(NoReport, faults)
  BY DEF NoReport, NoneRaised, HostReports, Fate

\* A report keeps its fate while faults are added.
LEMMA FateStays ==
  ASSUME NEW rep \in HostReports, NEW faults \in Nat, NEW more \in Nat, more >= faults, Fate(rep, faults)
  PROVE  Fate(rep, more)
  BY DEF Fate

\* The invariant of the hosts holds initially.
LEMMA HwInitInv == HwInit => HwIInv
<1> SUFFICES ASSUME HwInit PROVE HwIInv
  OBVIOUS
<1>1. /\ UnknownHost \in HostRecords /\ [seen |-> Never, cores |-> 0] \in HostRows
      /\ NoneRaised \in [HeartbeatRules -> HostReports]
  BY NoneIsFated DEF UnknownHost, HostRecords, HostRows, Never
<1>2. HwTypes
  BY <1>1 DEF HwInit, HwTypes
<1>3. \A h \in Hosts : Flagged(h) /\ Settled(h)
  BY NoneIsFated DEF HwInit, Flagged, Settled, UnknownHost, NoneRaised
<1>4. Fated
  BY NoneIsFated DEF HwInit, Fated, NoneRaised
<1> QED
  BY <1>2, <1>3, <1>4 DEF HwIInv

\* A report is newer and ends the silence, or leaves the host as it was.
LEMMA TouchTypes ==
  ASSUME NEW st \in HostRecords, NEW ts \in Int, NEW cores \in Nat
  PROVE  /\ Touch(st, ts, cores) \in HostRecords
         /\ ts > st.seen => Touch(st, ts, cores).silent = {}
         /\ ~(ts > st.seen) => Touch(st, ts, cores).silent = st.silent
<1>1. st.seen \in Int /\ st.cores \in Nat /\ st.silent \in SUBSET HeartbeatRules
  BY DEF HostRecords
<1>2. Max({st.seen, ts}) \in Int
  BY <1>1, MaxOfTwo
<1> QED
  BY <1>1, <1>2 DEF Touch, HostRecords

\* Storing a heartbeat leaves a host row.
LEMMA StoreHostTypes ==
  ASSUME NEW row \in HostRows, NEW ts \in Int, NEW cores \in Nat
  PROVE  StoreHost(row, ts, cores) \in HostRows
<1>1. row.seen \in Int /\ row.cores \in Nat
  BY DEF HostRows
<1>2. Max({row.seen, ts}) \in Int
  BY <1>1, MaxOfTwo
<1> QED
  BY <1>1, <1>2 DEF StoreHost, HostRows

\* A batch of samples keeps the invariant of the hosts.
LEMMA ObserveMetricsInv ==
  ASSUME HwIInv, NEW h \in Hosts, NEW ts \in Int, NEW cores \in Nat, NEW over \in BOOLEAN, NEW stored \in BOOLEAN,
         ObserveMetrics(h, ts, cores, over, stored)
  PROVE  HwIInv'
<1>1. /\ HwTypes /\ Fated /\ \A g \in Hosts : Flagged(g) /\ Settled(g)
      /\ hwHosts[h] \in HostRecords /\ hwTable[h] \in HostRows
  BY DEF HwIInv, HwTypes
<1>2. /\ hwHosts' = [hwHosts EXCEPT ![h] = Touch(hwHosts[h], ts, cores)] /\ hwChecked' = FALSE
      /\ hwReports' = IF ts > hwHosts[h].seen THEN [hwReports EXCEPT ![h] = NoneRaised] ELSE hwReports
      /\ hwSeeded' = IF ts > hwHosts[h].seen THEN hwSeeded \ {h} ELSE hwSeeded
      /\ UNCHANGED <<hwNow, hwStarted>>
  BY DEF ObserveMetrics
<1>3. Touch(hwHosts[h], ts, cores) \in HostRecords
  BY <1>1, TouchTypes
<1>4. hwHosts' \in [Hosts -> HostRecords]
  BY <1>1, <1>2, <1>3 DEF HwTypes
<1>5. hwTable' \in [Hosts -> HostRows]
  <2>1. hwTable' = hwTable \/ hwTable' = [hwTable EXCEPT ![h] = StoreHost(hwTable[h], ts, cores)]
    BY DEF ObserveMetrics
  <2>2. StoreHost(hwTable[h], ts, cores) \in HostRows
    BY <1>1, StoreHostTypes
  <2> QED
    BY <1>1, <2>1, <2>2 DEF HwTypes
<1>6. hwReports' \in [Hosts -> [HeartbeatRules -> HostReports]]
  BY <1>1, <1>2, NoneIsFated DEF HwTypes
<1>7. hwFaults' \in Nat /\ hwFaults' >= hwFaults
  <2>1. hwFaults \in Nat /\ (hwFaults' = hwFaults \/ hwFaults' = hwFaults + 1)
    BY <1>1 DEF ObserveMetrics, HwTypes
  <2> QED
    BY <2>1
<1>8. \A g \in Hosts : hwReports'[g] = hwReports[g] \/ hwReports'[g] = NoneRaised
  BY <1>1, <1>2 DEF HwTypes
<1>9. Fated'
  <2> SUFFICES ASSUME NEW g \in Hosts, NEW r \in HeartbeatRules PROVE Fate(hwReports'[g][r], hwFaults')
    BY DEF Fated
  <2>1. Fate(hwReports[g][r], hwFaults) /\ hwReports[g][r] \in HostReports /\ hwFaults \in Nat
    BY <1>1 DEF Fated, HwTypes
  <2>2. Fate(hwReports[g][r], hwFaults')
    BY <1>7, <2>1, FateStays
  <2>3. Fate(NoneRaised[r], hwFaults')
    BY <1>7, NoneIsFated DEF NoneRaised
  <2> QED
    BY <1>8, <2>2, <2>3
<1>10. \A g \in Hosts : Flagged(g)'
  <2> TAKE g \in Hosts
  <2>1. CASE g # h
    <3>1. hwHosts'[g] = hwHosts[g] /\ hwReports'[g] = hwReports[g] /\ (g \in hwSeeded' <=> g \in hwSeeded)
      BY <1>1, <1>2, <2>1 DEF HwTypes
    <3> QED
      BY <1>1, <3>1 DEF Flagged
  <2>2. CASE g = h /\ ts > hwHosts[h].seen
    <3>1. hwHosts'[g].silent = {} /\ hwReports'[g] = NoneRaised
      BY <1>1, <1>2, <2>2, TouchTypes DEF HwTypes
    <3> QED
      BY <3>1, NoneIsFated DEF Flagged, NoneRaised
  <2>3. CASE g = h /\ ~(ts > hwHosts[h].seen)
    <3>1. hwHosts'[g].silent = hwHosts[g].silent /\ hwReports'[g] = hwReports[g] /\ hwSeeded' = hwSeeded
      BY <1>1, <1>2, <2>3, TouchTypes DEF HwTypes
    <3> QED
      BY <1>1, <3>1 DEF Flagged
  <2> QED
    BY <2>1, <2>2, <2>3
<1>11. \A g \in Hosts : Settled(g)'
  BY <1>2 DEF Settled
<1> QED
  BY <1>1, <1>2, <1>4, <1>5, <1>6, <1>7, <1>9, <1>10, <1>11 DEF HwIInv, HwTypes

\* Emitting a detection that was not raised leaves it waiting or dropped.
LEMMA EmitHeartbeatFate ==
  ASSUME NEW rep \in HostReports, NEW dropped, NEW faults \in Nat, NEW more \in Nat,
         rep.raised = 0, Fate(rep, faults), more >= faults, dropped => more > 0
  PROVE  /\ EmitHeartbeat(rep, dropped) \in HostReports /\ EmitHeartbeat(rep, dropped).raised = 1
         /\ Fate(EmitHeartbeat(rep, dropped), more)
<1>1. rep.stored = 0 /\ ~rep.waits /\ ~rep.lost /\ rep.tries \in Nat /\ (faults = 0 => rep.tries = 0)
  BY DEF Fate, HostReports
<1>y. PICK yes \in BOOLEAN : yes = TRUE
  OBVIOUS
<1>n. PICK one \in Nat : one = rep.raised + 1 /\ one = 1
  OBVIOUS
<1>2. yes = TRUE /\ one = rep.raised + 1 /\ one = 1
  BY <1>y, <1>n
<1>3. CASE dropped
  <2>1. PICK new : new = [rep EXCEPT !.raised = one, !.lost = yes]
    OBVIOUS
  <2>2. /\ new \in HostReports /\ new.raised = 1 /\ new.waits = rep.waits /\ new.lost = yes
        /\ new.tries = rep.tries /\ new.stored = rep.stored
    BY <1>2, <2>1 DEF HostReports
  <2>3. Fate(new, more)
    BY <1>1, <1>2, <1>3, <2>2 DEF Fate
  <2>4. new = EmitHeartbeat(rep, dropped)
    BY <1>2, <1>3, <2>1 DEF EmitHeartbeat
  <2> QED
    BY <2>2, <2>3, <2>4
<1>4. CASE ~dropped
  <2>1. PICK new : new = [rep EXCEPT !.raised = one, !.waits = yes]
    OBVIOUS
  <2>2. /\ new \in HostReports /\ new.raised = 1 /\ new.waits = yes /\ new.lost = rep.lost
        /\ new.tries = rep.tries /\ new.stored = rep.stored
    BY <1>2, <2>1 DEF HostReports
  <2>3. Fate(new, more)
    BY <1>1, <1>2, <2>2 DEF Fate
  <2>4. new = EmitHeartbeat(rep, dropped)
    BY <1>2, <1>4, <2>1 DEF EmitHeartbeat
  <2> QED
    BY <2>2, <2>3, <2>4
<1> QED
  BY <1>3, <1>4

\* The minute's check keeps it: what is due has not been raised in this silence.
LEMMA CheckHeartbeatsInv == ASSUME HwIInv, NEW full, CheckHeartbeats(full) PROVE HwIInv'
<1>0. /\ HwTypes /\ Fated /\ \A h \in Hosts : Flagged(h) /\ Settled(h)
      /\ \A h \in Hosts : hwHosts[h] \in HostRecords /\ hwReports[h] \in [HeartbeatRules -> HostReports]
      /\ hwFaults \in Nat
  BY DEF HwIInv, HwTypes
<1>u. UnknownHost \in HostRecords
  BY DEF UnknownHost, HostRecords, Never
<1>1. /\ hwHosts' = [h \in Hosts |-> IF ~Known(h) \/ Forgotten(h) THEN UnknownHost
                                     ELSE [hwHosts[h] EXCEPT !.silent = hwHosts[h].silent \cup Due(h)]]
      /\ hwReports' = [h \in Hosts |-> IF ~Known(h) \/ Forgotten(h) THEN NoneRaised
                        ELSE [r \in HeartbeatRules |->
                                IF r \in Due(h) THEN EmitHeartbeat(hwReports[h][r], <<h, r>> \in full) ELSE hwReports[h][r]]]
      /\ hwSeeded' = {h \in hwSeeded : ~Forgotten(h)}
      /\ hwFaults' = IF full = {} THEN hwFaults ELSE hwFaults + 1
      /\ UNCHANGED <<hwNow, hwStarted, hwTable>>
  BY DEF CheckHeartbeats
<1>2. hwFaults' \in Nat /\ hwFaults' >= hwFaults /\ (full # {} => hwFaults' > 0)
  BY <1>0, <1>1
<1>3. ASSUME NEW h \in Hosts, ~Known(h) \/ Forgotten(h)
      PROVE  /\ hwHosts'[h] \in HostRecords /\ hwReports'[h] \in [HeartbeatRules -> HostReports]
             /\ \A r \in HeartbeatRules : Fate(hwReports'[h][r], hwFaults')
             /\ Flagged(h)' /\ Settled(h)'
  <2>1. hwHosts'[h] = UnknownHost /\ hwReports'[h] = NoneRaised
    BY <1>1, <1>3
  <2>2. Flagged(h)'
    BY <2>1, NoneIsFated DEF Flagged, UnknownHost, NoneRaised
  <2>3. Settled(h)'
    BY <2>1 DEF Settled, Known, UnknownHost
  <2>4. \A r \in HeartbeatRules : Fate(hwReports'[h][r], hwFaults')
    BY <1>2, <2>1, NoneIsFated DEF NoneRaised
  <2> QED
    BY <1>u, <2>1, <2>2, <2>3, <2>4, NoneIsFated
<1>4. ASSUME NEW h \in Hosts, Known(h), ~Forgotten(h)
      PROVE  /\ hwHosts'[h] \in HostRecords /\ hwReports'[h] \in [HeartbeatRules -> HostReports]
             /\ \A r \in HeartbeatRules : Fate(hwReports'[h][r], hwFaults')
             /\ Flagged(h)' /\ Settled(h)'
  <2>1. /\ hwHosts'[h] = [hwHosts[h] EXCEPT !.silent = hwHosts[h].silent \cup Due(h)]
        /\ hwReports'[h] = [r \in HeartbeatRules |->
                             IF r \in Due(h) THEN EmitHeartbeat(hwReports[h][r], <<h, r>> \in full) ELSE hwReports[h][r]]
    BY <1>1, <1>4
  <2>2. Due(h) \subseteq HeartbeatRules /\ \A r \in Due(h) : r \notin hwHosts[h].silent
    BY DEF Due
  <2>3. /\ hwHosts'[h] \in HostRecords /\ hwHosts'[h].silent = hwHosts[h].silent \cup Due(h)
        /\ hwHosts'[h].seen = hwHosts[h].seen
    BY <1>0, <2>1, <2>2 DEF HostRecords
  <2>4. ASSUME NEW r \in HeartbeatRules
        PROVE  /\ hwReports'[h][r] \in HostReports /\ Fate(hwReports'[h][r], hwFaults')
               /\ hwReports'[h][r].raised = IF r \in Due(h) THEN 1 ELSE hwReports[h][r].raised
    <3>1. hwReports[h][r] \in HostReports /\ Fate(hwReports[h][r], hwFaults)
      BY <1>0 DEF Fated
    <3>2. CASE r \in Due(h)
      <4>1. hwReports[h][r].raised = 0
        BY <1>0, <2>2, <3>2 DEF Flagged
      <4>2. <<h, r>> \in full => hwFaults' > 0
        BY <1>2
      <4>3. PICK rep : rep = EmitHeartbeat(hwReports[h][r], <<h, r>> \in full)
        OBVIOUS
      <4>4. rep \in HostReports /\ rep.raised = 1 /\ Fate(rep, hwFaults')
        BY <1>0, <1>2, <3>1, <4>1, <4>2, <4>3, EmitHeartbeatFate
      <4>5. hwReports'[h][r] = rep
        BY <2>1, <3>2, <4>3
      <4> QED
        BY <3>2, <4>4, <4>5
    <3>3. CASE r \notin Due(h)
      <4>1. hwReports'[h][r] = hwReports[h][r]
        BY <2>1, <3>3
      <4>2. Fate(hwReports[h][r], hwFaults')
        BY <1>0, <1>2, <3>1, FateStays
      <4> QED
        BY <3>1, <3>3, <4>1, <4>2
    <3> QED
      BY <3>2, <3>3
  <2>5. hwReports'[h] \in [HeartbeatRules -> HostReports]
    <3>1. hwReports'[h] = [r \in HeartbeatRules |-> hwReports'[h][r]]
      BY <2>1
    <3> QED
      BY <2>4, <3>1
  <2>6. h \in hwSeeded' <=> h \in hwSeeded
    BY <1>1, <1>4
  <2>7. Flagged(h)'
    <3> SUFFICES ASSUME NEW r \in HeartbeatRules
                 PROVE  /\ r \notin hwHosts'[h].silent => hwReports'[h][r].raised = 0
                        /\ r \in hwHosts'[h].silent =>
                             hwReports'[h][r].raised = 1 \/ (hwReports'[h][r].raised = 0 /\ h \in hwSeeded')
      BY DEF Flagged
    <3>1. /\ r \notin hwHosts[h].silent => hwReports[h][r].raised = 0
          /\ r \in hwHosts[h].silent => hwReports[h][r].raised = 1 \/ (hwReports[h][r].raised = 0 /\ h \in hwSeeded)
      BY <1>0 DEF Flagged
    <3> QED
      BY <2>2, <2>3, <2>4, <2>6, <3>1
  <2>8. Settled(h)'
    <3> SUFFICES ASSUME NEW r \in HeartbeatRules, hwNow - hwHosts[h].seen > SilenceWindow[r], hwNow - hwStarted > SilenceWindow[r]
                 PROVE  r \in hwHosts'[h].silent
      BY <1>1, <2>3 DEF Settled
    <3>1. SilenceOf(h) > SilenceWindow[r]
      BY DEF SilenceOf
    <3> QED
      BY <2>3, <3>1 DEF Due
  <2> QED
    BY <2>3, <2>4, <2>5, <2>7, <2>8
<1>5. \A h \in Hosts : /\ hwHosts'[h] \in HostRecords /\ hwReports'[h] \in [HeartbeatRules -> HostReports]
                       /\ \A r \in HeartbeatRules : Fate(hwReports'[h][r], hwFaults')
                       /\ Flagged(h)' /\ Settled(h)'
  BY <1>3, <1>4
<1>6. hwHosts' = [h \in Hosts |-> hwHosts'[h]] /\ hwReports' = [h \in Hosts |-> hwReports'[h]]
  BY <1>1
<1>7. hwHosts' \in [Hosts -> HostRecords] /\ hwReports' \in [Hosts -> [HeartbeatRules -> HostReports]]
  BY <1>5, <1>6
<1>8. Fated'
  BY <1>5 DEF Fated
<1> QED
  BY <1>0, <1>1, <1>2, <1>5, <1>7, <1>8 DEF HwIInv, HwTypes

\* A step of the emitter that leaves the number raised and a fate keeps it.
LEMMA EmitterInv ==
  ASSUME HwIInv, NEW h \in Hosts, NEW r \in HeartbeatRules, NEW rep \in HostReports,
         hwReports' = [hwReports EXCEPT ![h] = [hwReports[h] EXCEPT ![r] = rep]],
         rep.raised = hwReports[h][r].raised, hwFaults' \in Nat, hwFaults' >= hwFaults, Fate(rep, hwFaults'),
         UNCHANGED <<hwNow, hwStarted, hwHosts, hwTable, hwSeeded, hwChecked>>
  PROVE  HwIInv'
<1>1. HwTypes /\ Fated /\ (\A g \in Hosts : Flagged(g) /\ Settled(g)) /\ hwFaults \in Nat
  BY DEF HwIInv, HwTypes
<1>2. /\ hwReports' \in [Hosts -> [HeartbeatRules -> HostReports]]
      /\ \A g \in Hosts, q \in HeartbeatRules :
           hwReports'[g][q] = IF g = h /\ q = r THEN rep ELSE hwReports[g][q]
  BY <1>1 DEF HwTypes
<1>3. Fated'
  <2> SUFFICES ASSUME NEW g \in Hosts, NEW q \in HeartbeatRules PROVE Fate(hwReports'[g][q], hwFaults')
    BY DEF Fated
  <2>1. hwReports[g][q] \in HostReports /\ Fate(hwReports[g][q], hwFaults)
    BY <1>1 DEF Fated, HwTypes
  <2>2. Fate(hwReports[g][q], hwFaults')
    BY <1>1, <2>1, FateStays
  <2> QED
    BY <1>2, <2>2
<1>4. \A g \in Hosts, q \in HeartbeatRules : hwReports'[g][q].raised = hwReports[g][q].raised
  BY <1>2
<1>5. \A g \in Hosts : Flagged(g)'
  BY <1>1, <1>4 DEF Flagged
<1>6. \A g \in Hosts : Settled(g)'
  BY <1>1 DEF Settled, Known
<1> QED
  BY <1>1, <1>2, <1>3, <1>5, <1>6 DEF HwIInv, HwTypes

\* Filing a detection uses up what waits.
LEMMA EmitterStoresInv ==
  ASSUME HwIInv, NEW h \in Hosts, NEW r \in HeartbeatRules, EmitterStores(h, r) PROVE HwIInv'
<1>1. /\ hwReports \in [Hosts -> [HeartbeatRules -> HostReports]] /\ hwReports[h][r] \in HostReports
      /\ Fate(hwReports[h][r], hwFaults) /\ hwReports[h][r].waits /\ hwFaults \in Nat /\ hwFaults' = hwFaults
      /\ UNCHANGED <<hwNow, hwStarted, hwHosts, hwTable, hwSeeded, hwChecked>>
  BY DEF HwIInv, HwTypes, Fated, EmitterStores
<1>2. PICK old \in HostReports : old = hwReports[h][r]
  BY <1>1
<1>b. PICK no \in BOOLEAN : no = FALSE
  OBVIOUS
<1>n. PICK k \in Nat : k = old.stored + 1
  BY DEF HostReports
<1>0. no = FALSE /\ k = old.stored + 1
  BY <1>b, <1>n
<1>3. PICK rep : rep = [old EXCEPT !.waits = no, !.stored = k]
  OBVIOUS
<1>4. /\ rep \in HostReports /\ rep.raised = old.raised /\ rep.waits = no /\ rep.tries = old.tries
      /\ rep.stored = old.stored + 1 /\ rep.lost = old.lost
  BY <1>0, <1>3 DEF HostReports
<1>5. hwReports' = [hwReports EXCEPT ![h] = [hwReports[h] EXCEPT ![r] = rep]]
  BY <1>0, <1>1, <1>2, <1>3 DEF EmitterStores
<1>6. /\ old.raised \in Nat /\ old.raised > 0 /\ old.stored \in Nat /\ old.tries \in Nat /\ old.stored <= old.tries
      /\ hwFaults = 0 => ~old.lost /\ old.tries = 0
  BY <1>1, <1>2 DEF Fate, HostReports
<1>7. Fate(rep, hwFaults')
  <2>1. rep.stored > 0 /\ rep.stored <= rep.raised + rep.tries /\ rep.raised # 0
    BY <1>4, <1>6
  <2> QED
    BY <1>0, <1>1, <1>4, <1>6, <2>1 DEF Fate
<1>8. hwFaults' \in Nat /\ hwFaults' >= hwFaults /\ rep.raised = hwReports[h][r].raised
  BY <1>1, <1>2, <1>4
<1> QED
  BY <1>1, <1>4, <1>5, <1>7, <1>8, EmitterInv

\* A failed attempt may file it as well, and is counted.
LEMMA EmitterFailsInv ==
  ASSUME HwIInv, NEW h \in Hosts, NEW r \in HeartbeatRules, NEW retryable \in BOOLEAN, NEW stored \in BOOLEAN,
         EmitterFails(h, r, retryable, stored)
  PROVE  HwIInv'
<1>1. /\ hwReports \in [Hosts -> [HeartbeatRules -> HostReports]] /\ hwReports[h][r] \in HostReports
      /\ Fate(hwReports[h][r], hwFaults) /\ hwReports[h][r].waits /\ hwFaults \in Nat /\ hwFaults' = hwFaults + 1
      /\ UNCHANGED <<hwNow, hwStarted, hwHosts, hwTable, hwSeeded, hwChecked>>
  BY DEF HwIInv, HwTypes, Fated, EmitterFails
<1>2. PICK old \in HostReports : old = hwReports[h][r]
  BY <1>1
<1>3. PICK again \in BOOLEAN : again = (retryable /\ old.tries + 1 < HwEmitAttempts)
  OBVIOUS
<1>4. PICK more \in {0, 1} : more = IF stored THEN 1 ELSE 0
  OBVIOUS
<1>b. PICK over \in BOOLEAN : over = ~again
  OBVIOUS
<1>n. PICK j \in Nat, k \in Nat : j = old.tries + 1 /\ k = old.stored + more
  BY <1>4 DEF HostReports
<1>0. over = ~again /\ j = old.tries + 1 /\ k = old.stored + more
  BY <1>b, <1>n
<1>5. PICK rep : rep = [old EXCEPT !.tries = j, !.stored = k, !.waits = again, !.lost = over]
  OBVIOUS
<1>6. /\ rep \in HostReports /\ rep.raised = old.raised /\ rep.waits = again /\ rep.lost = over
      /\ rep.tries = old.tries + 1 /\ rep.stored = old.stored + more
  BY <1>0, <1>5 DEF HostReports
<1>7. hwReports' = [hwReports EXCEPT ![h] = [hwReports[h] EXCEPT ![r] = rep]]
  BY <1>0, <1>1, <1>2, <1>3, <1>4, <1>5 DEF EmitterFails
<1>8. /\ old.raised \in Nat /\ old.raised > 0 /\ old.stored \in Nat /\ old.tries \in Nat /\ old.stored <= old.tries
  BY <1>1, <1>2 DEF Fate, HostReports
<1>9. hwFaults' \in Nat /\ hwFaults' >= hwFaults /\ hwFaults' # 0
  BY <1>1
<1>10. Fate(rep, hwFaults')
  <2>1. rep.stored <= rep.tries /\ rep.stored <= rep.raised + rep.tries /\ rep.raised # 0
    BY <1>4, <1>6, <1>8
  <2> QED
    BY <1>0, <1>6, <1>9, <2>1 DEF Fate
<1>11. rep.raised = hwReports[h][r].raised
  BY <1>2, <1>6
<1> QED
  BY <1>1, <1>6, <1>7, <1>9, <1>10, <1>11, EmitterInv

\* A new writer knows the hosts of the table, and nothing has been raised in it.
LEMMA HwRestartInv == ASSUME HwIInv, NEW read \in BOOLEAN, HwRestart(read) PROVE HwIInv'
<1>0. HwTypes /\ UnknownHost \in HostRecords
  BY DEF HwIInv, UnknownHost, HostRecords, Never
<1>1. /\ hwHosts' = [h \in Hosts |-> IF read THEN Seed(h) ELSE UnknownHost] /\ hwReports' = [h \in Hosts |-> NoneRaised]
      /\ hwSeeded' = (IF read THEN {h \in Hosts : AlreadySilent(h)} ELSE {}) /\ hwChecked' = FALSE
      /\ hwStarted' = hwNow /\ hwFaults' = hwFaults + 1 /\ UNCHANGED <<hwNow, hwTable>>
  BY DEF HwRestart
<1>2. \A h \in Hosts : Seed(h) \in HostRecords
  BY <1>0 DEF Seed, HostRecords, HostRows, HwTypes
<1>3. hwHosts' \in [Hosts -> HostRecords]
  BY <1>0, <1>1, <1>2
<1>4. \A h \in Hosts : Flagged(h)'
  <2> TAKE h \in Hosts
  <2>1. hwReports'[h] = NoneRaised
    BY <1>1
  <2>2. hwHosts'[h].silent # {} => h \in hwSeeded'
    BY <1>1 DEF Seed, UnknownHost
  <2> QED
    BY <2>1, <2>2, NoneIsFated DEF Flagged, NoneRaised
<1>5. \A h \in Hosts : Settled(h)'
  BY <1>1 DEF Settled
<1>6. hwFaults' \in Nat
  BY <1>0, <1>1 DEF HwTypes
<1>7. Fated'
  BY <1>1, <1>6, NoneIsFated DEF Fated, NoneRaised
<1>8. hwReports' \in [Hosts -> [HeartbeatRules -> HostReports]]
  BY <1>1, NoneIsFated
<1> QED
  BY <1>0, <1>1, <1>3, <1>4, <1>5, <1>6, <1>7, <1>8 DEF HwIInv, HwTypes

\* Every step of the hosts keeps it.
LEMMA HwStep == HwIInv /\ [HwNext]_hwVars => HwIInv'
<1> SUFFICES ASSUME HwIInv, [HwNext]_hwVars PROVE HwIInv'
  OBVIOUS
<1>0. HwTypes /\ Fated /\ \A h \in Hosts : Flagged(h) /\ Settled(h)
  BY DEF HwIInv
<1>1. ASSUME NEW h \in Hosts, NEW ts \in {1, hwNow - 1, hwNow} \ {0}, NEW cores \in {0, 4}, NEW over \in BOOLEAN, NEW stored \in BOOLEAN,
             ObserveMetrics(h, ts, cores, over, stored)
      PROVE  HwIInv'
  <2>1. ts \in Int /\ cores \in Nat
    BY <1>0 DEF HwTypes
  <2> QED
    BY <1>1, <2>1, ObserveMetricsInv
<1>2. ASSUME NEW full, CheckHeartbeats(full) PROVE HwIInv'
  BY <1>2, CheckHeartbeatsInv
<1>3. ASSUME NEW h \in Hosts, NEW r \in HeartbeatRules,
             EmitterStores(h, r) \/ \E retryable, stored \in BOOLEAN : EmitterFails(h, r, retryable, stored)
      PROVE  HwIInv'
  BY <1>3, EmitterStoresInv, EmitterFailsInv
<1>4. CASE HwSetRules
  <2>1. /\ UNCHANGED <<hwNow, hwStarted, hwHosts, hwTable, hwReports, hwSeeded, hwChecked>>
        /\ hwFaults \in Nat /\ hwFaults' = hwFaults + 1
    BY <1>0, <1>4 DEF HwSetRules, HwTypes
  <2>2. hwFaults' \in Nat /\ hwFaults' >= hwFaults
    BY <2>1
  <2>3. Fated'
    <3> SUFFICES ASSUME NEW g \in Hosts, NEW q \in HeartbeatRules PROVE Fate(hwReports[g][q], hwFaults')
      BY <2>1 DEF Fated
    <3>1. hwReports[g][q] \in HostReports /\ Fate(hwReports[g][q], hwFaults)
      BY <1>0 DEF Fated, HwTypes
    <3> QED
      BY <2>1, <2>2, <3>1, FateStays
  <2> QED
    BY <1>0, <2>1, <2>2, <2>3 DEF HwIInv, HwTypes, Flagged, Settled, Known
<1>5. CASE HwTick
  <2>1. \A h \in Hosts : Flagged(h)'
    BY <1>0, <1>5 DEF HwTick, Flagged
  <2>2. \A h \in Hosts : Settled(h)'
    BY <1>5 DEF HwTick, Settled
  <2>3. Fated'
    BY <1>0, <1>5 DEF HwTick, Fated
  <2> QED
    BY <1>0, <1>5, <2>1, <2>2, <2>3 DEF HwTick, HwIInv, HwTypes
<1>6. ASSUME NEW read \in BOOLEAN, HwRestart(read) PROVE HwIInv'
  BY <1>6, HwRestartInv
<1>7. CASE UNCHANGED hwVars
  BY <1>0, <1>7 DEF hwVars, HwIInv, HwTypes, Fated, Flagged, Settled, Known
<1> QED
  BY <1>1, <1>2, <1>3, <1>4, <1>5, <1>6, <1>7 DEF HwNext

\* Whatever batches arrive late, however full the queue and however often the writer is
\* restarted: a silence raises one detection per rule and process, one that is long enough
\* does not go without, save for a host that was already silent when its process was seeded,
\* and the detection is lost or filed again only by a failure.
THEOREM SilencesReportedOnce == HwSpec => []SilenceReportedOnce
<1>1. ASSUME HwIInv PROVE SilenceReportedOnce
  <2>1. ASSUME NEW h \in Hosts, NEW r \in HeartbeatRules
        PROVE  /\ hwReports[h][r].raised <= 1
               /\ Overdue(h, r) /\ h \notin hwSeeded =>
                    /\ hwReports[h][r].raised = 1
                    /\ hwReports[h][r].waits \/ hwReports[h][r].stored > 0 \/ hwReports[h][r].lost
               /\ hwReports[h][r].stored <= hwReports[h][r].raised + hwReports[h][r].tries
               /\ hwFaults = 0 => ~hwReports[h][r].lost /\ hwReports[h][r].stored <= 1
    <3>1. /\ Flagged(h) /\ Settled(h) /\ hwHosts[h].seen \in Int /\ hwNow \in Int /\ hwStarted \in Int
          /\ SilenceWindow[r] \in Int /\ Fate(hwReports[h][r], hwFaults) /\ hwReports[h][r] \in HostReports
      BY <1>1, HwAssumption DEF HwIInv, HwTypes, HostRecords, Fated
    <3>2. hwReports[h][r].raised <= 1 /\ hwReports[h][r].raised \in Nat /\ hwReports[h][r].stored \in Nat
      BY <3>1 DEF Flagged, HostReports
    <3>3. ASSUME Overdue(h, r), h \notin hwSeeded PROVE hwReports[h][r].raised = 1
      <4>1. hwNow - hwHosts[h].seen > SilenceWindow[r] /\ hwNow - hwStarted > SilenceWindow[r]
        BY <3>1, <3>3, MaxOfTwo DEF Overdue
      <4>2. r \in hwHosts[h].silent
        BY <3>1, <3>3, <4>1 DEF Settled, Overdue
      <4> QED
        BY <3>1, <3>3, <4>2 DEF Flagged
    <3>4. /\ hwReports[h][r].raised = 1 => hwReports[h][r].waits \/ hwReports[h][r].stored > 0 \/ hwReports[h][r].lost
          /\ hwReports[h][r].stored <= hwReports[h][r].raised + hwReports[h][r].tries
          /\ hwFaults = 0 => ~hwReports[h][r].lost /\ hwReports[h][r].tries = 0
      BY <3>1 DEF Fate
    <3>5. hwFaults = 0 => hwReports[h][r].stored <= 1
      BY <3>2, <3>4
    <3> QED
      BY <3>2, <3>3, <3>4, <3>5
  <2> QED
    BY <2>1 DEF SilenceReportedOnce
<1> QED
  BY <1>1, HwInitInv, HwStep, PTL DEF HwSpec

-----------------------------------------------------------------------------
(* The silence monitor: one alert per silent episode. *)

QuietTypes ==
  /\ silenceNow \in Nat /\ silenceNow > 0 /\ silenceFaults \in 0 .. SilenceMaxFaults
  /\ lastSeen \in [QuietProjects -> [QuietIssues -> Nat]]
  /\ silenceAlerted \in SUBSET QuietProjects
  /\ silenceSent \in [QuietProjects -> Nat]

\* A project whose mail went out has reported nothing since and is remembered.
MailedInv(p) ==
  /\ silenceSent[p] <= 1
  /\ silenceSent[p] > 0 => p \in silenceAlerted /\ Recent(p) = {}

\* A project that is still remembered although it has reported did so no longer
\* ago than checks have failed since, and the check that is due.
ForgottenSoon(p) ==
  (p \in silenceAlerted /\ silenceSent[p] = 0) =>
    \E i \in QuietIssues : /\ lastSeen[p][i] > 0
                           /\ silenceNow - lastSeen[p][i] <= silenceFaults + (IF silenceChecked = "due" THEN 1 ELSE 0)

AllMailed == silenceChecked = "done" => \A p \in QuietProjects : WentQuiet(p) => silenceSent[p] = 1

QuietInv == AllMailed /\ \A p \in QuietProjects : MailedInv(p) /\ ForgottenSoon(p)

QuietIInv == QuietTypes /\ QuietInv

\* The invariant of the silence monitor holds initially.
LEMMA QuietInitInv == SilenceInit => QuietIInv
<1> SUFFICES ASSUME SilenceInit PROVE QuietIInv
  OBVIOUS
<1>1. QuietTypes
  BY SilenceAssumption DEF SilenceInit, QuietTypes
<1>2. AllMailed
  BY DEF SilenceInit, AllMailed
<1>3. \A p \in QuietProjects : MailedInv(p)
  BY DEF SilenceInit, MailedInv
<1>4. \A p \in QuietProjects : ForgottenSoon(p)
  BY DEF SilenceInit, ForgottenSoon
<1> QED
  BY <1>1, <1>2, <1>3, <1>4 DEF QuietIInv, QuietInv

\* A project that must still be taken off the list has reported within SilentFor.
LEMMA StillRecent ==
  ASSUME QuietIInv, NEW p \in QuietProjects, p \in silenceAlerted, silenceSent[p] = 0
  PROVE  Recent(p) # {}
<1>1. PICK i \in QuietIssues : /\ lastSeen[p][i] > 0
                               /\ silenceNow - lastSeen[p][i] <= silenceFaults + (IF silenceChecked = "due" THEN 1 ELSE 0)
  BY DEF QuietIInv, QuietInv, ForgottenSoon
<1>2. /\ silenceFaults \in Int /\ silenceNow \in Int /\ lastSeen[p][i] \in Int /\ SilentFor \in Int
      /\ silenceFaults + 1 <= SilentFor
  BY SilenceAssumption DEF QuietIInv, QuietTypes
<1>3. lastSeen[p][i] >= silenceNow - SilentFor
  BY <1>1, <1>2
<1> QED
  BY <1>1, <1>3 DEF Recent

\* Every step of the silence monitor keeps it.
LEMMA QuietStep == QuietIInv /\ [SilenceNext]_silenceVars => QuietIInv'
<1> SUFFICES ASSUME QuietIInv, [SilenceNext]_silenceVars PROVE QuietIInv'
  OBVIOUS
<1>0. /\ QuietTypes /\ AllMailed /\ \A p \in QuietProjects : MailedInv(p) /\ ForgottenSoon(p)
      /\ silenceNow \in Nat /\ silenceNow > 0 /\ silenceFaults \in Nat /\ silenceFaults <= SilenceMaxFaults
      /\ SilenceMaxFaults \in Nat /\ SilentFor \in Nat
      /\ \A p \in QuietProjects : silenceSent[p] \in Nat /\ \A i \in QuietIssues : lastSeen[p][i] \in Nat
  BY SilenceAssumption DEF QuietIInv, QuietInv, QuietTypes
<1>1. ASSUME NEW p \in QuietProjects, NEW i \in QuietIssues, Report(p, i) PROVE QuietIInv'
  <2>1. /\ lastSeen' = [lastSeen EXCEPT ![p][i] = silenceNow] /\ silenceSent' = [silenceSent EXCEPT ![p] = 0]
        /\ silenceChecked' # "done" /\ (silenceChecked' = "due" <=> silenceChecked = "due")
        /\ UNCHANGED <<silenceNow, silenceAlerted, silenceFaults>>
    BY <1>1 DEF Report
  <2>2. QuietTypes'
    BY <1>0, <2>1 DEF QuietTypes
  <2>3. ASSUME NEW q \in QuietProjects PROVE MailedInv(q)' /\ ForgottenSoon(q)'
    <3>1. CASE q = p
      <4>1. silenceSent'[q] = 0 /\ lastSeen'[q][i] = silenceNow
        BY <1>0, <2>1, <3>1 DEF QuietTypes
      <4>2. MailedInv(q)'
        BY <4>1 DEF MailedInv
      <4>3. lastSeen'[q][i] > 0 /\ silenceNow' - lastSeen'[q][i] <= silenceFaults' + (IF silenceChecked' = "due" THEN 1 ELSE 0)
        BY <1>0, <2>1, <4>1
      <4> QED
        BY <4>2, <4>3 DEF ForgottenSoon
    <3>2. CASE q # p
      <4>1. silenceSent'[q] = silenceSent[q] /\ lastSeen'[q] = lastSeen[q]
        BY <1>0, <2>1, <3>2 DEF QuietTypes
      <4>2. MailedInv(q)'
        BY <1>0, <2>1, <4>1 DEF MailedInv, Recent
      <4>3. ForgottenSoon(q)'
        BY <1>0, <2>1, <4>1 DEF ForgottenSoon
      <4> QED
        BY <4>2, <4>3
    <3> QED
      BY <3>1, <3>2
  <2>4. AllMailed'
    BY <2>1 DEF AllMailed
  <2> QED
    BY <2>2, <2>3, <2>4 DEF QuietIInv, QuietInv
<1>2. ASSUME NEW failing \in SUBSET QuietProjects, SilenceCheck(failing) PROVE QuietIInv'
  <2> DEFINE due == {p \in QuietProjects : WentQuiet(p) /\ p \notin silenceAlerted}
             sent == due \ failing
  <2>1. /\ silenceChecked = "due" /\ silenceFaults + Cardinality(failing) <= SilenceMaxFaults
        /\ silenceFaults' = silenceFaults + Cardinality(failing)
        /\ silenceAlerted' = StillAlerted \cup sent
        /\ silenceSent' = [p \in QuietProjects |-> silenceSent[p] + (IF p \in sent THEN 1 ELSE 0)]
        /\ silenceChecked' = IF failing = {} THEN "done" ELSE "failed"
        /\ UNCHANGED <<silenceNow, lastSeen>>
    BY <1>2 DEF SilenceCheck
  <2>2. Cardinality(failing) \in Nat
    BY SilenceAssumption, FS_Subset, FS_CardinalityType
  <2>3. silenceFaults' \in 0 .. SilenceMaxFaults
    BY <1>0, <2>1, <2>2
  <2>4. QuietTypes'
    BY <1>0, <2>1, <2>3 DEF QuietTypes, StillAlerted
  <2>5. ASSUME NEW p \in QuietProjects
        PROVE  /\ MailedInv(p)' /\ ForgottenSoon(p)'
               /\ (WentQuiet(p) /\ p \notin failing) => silenceSent'[p] = 1
    <3>1. Recent(p)' = Recent(p) /\ silenceSent'[p] = IF p \in sent THEN silenceSent[p] + 1 ELSE silenceSent[p]
      BY <1>0, <2>1 DEF Recent
    <3>2. MailedInv(p) /\ silenceSent[p] \in Nat /\ (p \in silenceAlerted /\ silenceSent[p] = 0 => Recent(p) # {})
      BY <1>0, StillRecent
    <3>3. p \in silenceAlerted' <=> (p \in sent \/ (p \in silenceAlerted /\ Recent(p) = {}))
      BY <2>1 DEF StillAlerted
    <3>4. p \in sent => Recent(p) = {} /\ p \notin silenceAlerted
      BY DEF WentQuiet
    <3>5. WentQuiet(p) /\ p \notin failing => Recent(p) = {} /\ (p \in sent \/ p \in silenceAlerted)
      BY DEF WentQuiet
    <3> HIDE DEF sent, due
    <3>6. silenceSent[p] = 0 \/ (silenceSent[p] = 1 /\ p \in silenceAlerted /\ Recent(p) = {})
      BY <3>2 DEF MailedInv
    <3>7. CASE p \in sent
      <4>1. silenceSent'[p] = 1 /\ p \in silenceAlerted' /\ Recent(p)' = {}
        BY <3>1, <3>3, <3>4, <3>6, <3>7
      <4> QED
        BY <4>1 DEF MailedInv, ForgottenSoon
    <3>8. CASE p \notin sent
      <4>1. silenceSent'[p] = silenceSent[p]
        BY <3>1, <3>8
      <4>2. MailedInv(p)'
        BY <3>1, <3>3, <3>6, <4>1 DEF MailedInv
      <4>3. ~(p \in silenceAlerted' /\ silenceSent'[p] = 0)
        BY <3>2, <3>3, <3>8, <4>1
      <4>4. ForgottenSoon(p)'
        BY <4>3 DEF ForgottenSoon
      <4>5. WentQuiet(p) /\ p \notin failing => silenceSent'[p] = 1
        BY <3>2, <3>5, <3>6, <3>8, <4>1
      <4> QED
        BY <4>2, <4>4, <4>5
    <3> QED
      BY <3>7, <3>8
  <2>6. \A p \in QuietProjects : WentQuiet(p)' <=> WentQuiet(p)
    BY <2>1 DEF WentQuiet, Recent, Earlier
  <2>7. AllMailed'
    <3>1. silenceChecked' = "done" => failing = {}
      BY <2>1
    <3> QED
      BY <2>5, <2>6, <3>1 DEF AllMailed
  <2> QED
    BY <2>4, <2>5, <2>7 DEF QuietIInv, QuietInv
<1>3. CASE SilenceCheckFails
  <2>1. /\ silenceChecked = "due" /\ silenceFaults < SilenceMaxFaults /\ silenceFaults' = silenceFaults + 1
        /\ silenceChecked' = "failed" /\ UNCHANGED <<silenceNow, lastSeen, silenceAlerted, silenceSent>>
    BY <1>3 DEF SilenceCheckFails
  <2>2. QuietTypes'
    BY <1>0, <2>1 DEF QuietTypes
  <2>3. \A p \in QuietProjects : MailedInv(p)'
    BY <1>0, <2>1 DEF MailedInv, Recent
  <2>4. \A p \in QuietProjects : ForgottenSoon(p)'
    BY <1>0, <2>1 DEF ForgottenSoon
  <2> QED
    BY <2>1, <2>2, <2>3, <2>4 DEF QuietIInv, QuietInv, AllMailed
<1>4. CASE SilenceRestart
  <2>1. /\ silenceFaults < SilenceMaxFaults /\ silenceFaults' = silenceFaults + 1 /\ silenceAlerted' = {}
        /\ silenceSent' = [p \in QuietProjects |-> 0] /\ silenceChecked' = "failed" /\ UNCHANGED <<silenceNow, lastSeen>>
    BY <1>4 DEF SilenceRestart
  <2>2. QuietTypes'
    BY <1>0, <2>1 DEF QuietTypes
  <2>3. \A p \in QuietProjects : MailedInv(p)' /\ ForgottenSoon(p)'
    BY <2>1 DEF MailedInv, ForgottenSoon
  <2> QED
    BY <2>1, <2>2, <2>3 DEF QuietIInv, QuietInv, AllMailed
<1>5. CASE SilenceTick
  <2>1. /\ silenceChecked # "due" /\ silenceNow' = silenceNow + 1 /\ silenceChecked' = "due"
        /\ UNCHANGED <<lastSeen, silenceAlerted, silenceSent, silenceFaults>>
    BY <1>5 DEF SilenceTick
  <2>2. QuietTypes'
    BY <1>0, <2>1 DEF QuietTypes
  <2>3. \A p \in QuietProjects : Recent(p)' \subseteq Recent(p)
    BY <1>0, <2>1 DEF Recent
  <2>4. \A p \in QuietProjects : MailedInv(p)'
    BY <1>0, <2>1, <2>3 DEF MailedInv
  <2>5. \A p \in QuietProjects : ForgottenSoon(p)'
    BY <1>0, <2>1 DEF ForgottenSoon
  <2> QED
    BY <2>1, <2>2, <2>4, <2>5 DEF QuietIInv, QuietInv, AllMailed
<1>6. CASE UNCHANGED silenceVars
  BY <1>0, <1>6 DEF silenceVars, QuietIInv, QuietInv, QuietTypes, AllMailed, MailedInv, ForgottenSoon,
     WentQuiet, Recent, Earlier
<1> QED
  BY <1>1, <1>2, <1>3, <1>4, <1>5, <1>6 DEF SilenceNext

\* Whatever reads, mails and processes fail, as long as fewer fail in a row than there
\* are checks within SilentFor: one mail per silent episode and process, and after a
\* check that went through no silent project without one.
THEOREM OneAlertPerSilence == SilenceSpec => []OneAlertPerEpisode
<1>1. QuietIInv => OneAlertPerEpisode
  BY DEF QuietIInv, QuietInv, AllMailed, MailedInv, OneAlertPerEpisode
<1> QED
  BY <1>1, QuietInitInv, QuietStep, PTL DEF SilenceSpec

-----------------------------------------------------------------------------
(* Telemetry: no sample misses its hour's rollup. *)

\* The hour of a minute begins at most Hour - 1 minutes before it.
LEMMA HourOfMinute ==
  ASSUME NEW ts \in Nat
  PROVE  HourOf(ts) \in Nat /\ HourOf(ts) <= ts /\ ts < HourOf(ts) + Hour /\ \E k \in Nat : HourOf(ts) = k * Hour
<1>1. Hour \in Nat /\ Hour > 0
  BY TdAssumption
<1>4. ts % Hour \in 0 .. (Hour - 1)
  BY <1>1
<1>5. ts \div Hour \in Nat
  BY <1>1
<1>6. ts = Hour * (ts \div Hour) + (ts % Hour)
  BY <1>1
<1>2. ts = Hour * (ts \div Hour) + (ts % Hour) /\ ts % Hour \in 0 .. (Hour - 1) /\ ts \div Hour \in Nat
  BY <1>4, <1>5, <1>6
<1>3. HourOf(ts) = (ts \div Hour) * Hour
  BY <1>1, <1>2 DEF HourOf
<1> QED
  BY <1>1, <1>2, <1>3 DEF HourOf

\* Two hour starts less than an hour apart in one direction are ordered the other way.
LEMMA HourStartsApart ==
  ASSUME NEW j \in Nat, NEW k \in Nat, j * Hour < k * Hour + Hour
  PROVE  j * Hour <= k * Hour
<1>1. Hour \in Nat \ {0}
  BY TdAssumption
<1>2. ASSUME j >= k + 1 PROVE FALSE
  <2>1. j * Hour = (k + 1) * Hour + (j - k - 1) * Hour
    BY <1>1
  <2>2. (j - k - 1) * Hour >= 0 /\ (k + 1) * Hour = k * Hour + Hour
    BY <1>1, <1>2
  <2> QED
    BY <1>1, <2>1, <2>2
<1>3. j <= k
  BY <1>2
<1> QED
  BY <1>1, <1>3

\* The cursor is an hour's start, and no hour is behind it before its grace has passed.
TdIInv ==
  /\ tdNow \in Nat /\ tdNow >= Hour
  /\ tdSamples \in SUBSET Nat
  /\ \E k \in Nat : tdCursor = k * Hour
  /\ tdCursor = 0 \/ tdCursor <= tdNow - RollupGrace
  /\ InTimeSamplesRolledUp

\* The invariant of the telemetry file holds initially.
LEMMA TdInitInv == TdInit => TdIInv
<1>1. Hour \in Nat \ {0} /\ 0 = 0 * Hour
  BY TdAssumption
<1> QED
  BY <1>1 DEF TdInit, TdIInv, InTimeSamplesRolledUp

\* Every step of the telemetry file keeps it.
LEMMA TdStep == TdIInv /\ [TdNext]_tdVars => TdIInv'
<1> SUFFICES ASSUME TdIInv, [TdNext]_tdVars PROVE TdIInv'
  OBVIOUS
<1>0. /\ tdNow \in Nat /\ tdNow >= Hour /\ tdSamples \in SUBSET Nat /\ tdCursor \in Nat
      /\ Hour \in Nat /\ Hour > 0 /\ RollupGrace \in Nat
  <2>1. Hour \in Nat /\ Hour > 0 /\ RollupGrace \in Nat
    BY TdAssumption
  <2> QED
    BY <2>1 DEF TdIInv
<1>1. ASSUME NEW ts \in {0, tdNow - Hour, tdNow - 1, tdNow, tdNow + Hour}, InsertMetrics(ts) PROVE TdIInv'
  <2>1. ts \in Nat
    BY <1>0
  <2>2. CASE tdFull
    BY <1>1, <2>2 DEF InsertMetrics, TdIInv, InTimeSamplesRolledUp
  <2>3. CASE ~tdFull
    <3>1. /\ tdSamples' = tdSamples \cup {ts}
          /\ tdLate' = (IF tdNow >= HourOf(ts) + Hour + RollupGrace THEN tdLate \cup {ts} ELSE tdLate)
          /\ UNCHANGED <<tdNow, tdCursor, tdRolled>>
      BY <1>1, <2>3 DEF InsertMetrics
    <3>2. ts < tdCursor => tdNow >= HourOf(ts) + Hour + RollupGrace
      <4> SUFFICES ASSUME ts < tdCursor, ~(tdNow >= HourOf(ts) + Hour + RollupGrace) PROVE FALSE
        OBVIOUS
      <4>1. PICK k \in Nat : tdCursor = k * Hour
        BY DEF TdIInv
      <4>2. PICK j \in Nat : HourOf(ts) = j * Hour
        BY <2>1, HourOfMinute
      <4>3. HourOf(ts) \in Nat /\ HourOf(ts) <= ts
        BY <2>1, HourOfMinute
      <4>4. tdCursor <= tdNow - RollupGrace
        BY <1>0, <2>1 DEF TdIInv
      <4>5. tdCursor < HourOf(ts) + Hour
        BY <1>0, <4>3, <4>4
      <4>6. tdCursor <= HourOf(ts)
        BY <4>1, <4>2, <4>5, HourStartsApart
      <4> QED
        BY <1>0, <2>1, <4>3, <4>6
    <3>3. InTimeSamplesRolledUp'
      BY <3>1, <3>2 DEF TdIInv, InTimeSamplesRolledUp
    <3> QED
      BY <1>0, <2>1, <3>1, <3>3 DEF TdIInv
  <2> QED
    BY <2>2, <2>3
<1>2. CASE RollupNextHour
  <2> DEFINE start == NextRollupHour
             rows == {ts \in tdSamples : ts >= start /\ ts < start + Hour}
  <2>1. /\ Pending # {} /\ start + Hour <= RollupLimit /\ tdCursor' = start + Hour
        /\ tdRolled' = tdRolled \cup rows /\ UNCHANGED <<tdNow, tdSamples, tdLate>>
    BY <1>2 DEF RollupNextHour
  <2>2. Pending \in SUBSET Nat
    BY <1>0 DEF Pending
  <2>3. Min(Pending) \in Nat /\ \A y \in Pending : Min(Pending) <= y
    BY <2>1, <2>2, FirstTime
  <2>4. start \in Nat /\ start <= Min(Pending) /\ \E k \in Nat : start = k * Hour
    BY <2>3, HourOfMinute DEF NextRollupHour
  <2>5. \E k \in Nat : tdCursor' = k * Hour
    <3>1. PICK k \in Nat : start = k * Hour
      BY <2>4
    <3>2. start + Hour = (k + 1) * Hour
      BY <1>0, <3>1
    <3> QED
      BY <2>1, <3>2
  <2> HIDE DEF start
  <2>6. tdCursor' <= tdNow - RollupGrace
    BY <2>1 DEF RollupLimit
  <2>7. \A ts \in tdSamples : ts < tdCursor' => ts \in tdRolled' \/ ts \in tdLate
    <3> SUFFICES ASSUME NEW ts \in tdSamples, ts < start + Hour PROVE ts \in tdRolled' \/ ts \in tdLate
      BY <2>1
    <3>1. CASE ts < tdCursor
      BY <2>1, <3>1 DEF TdIInv, InTimeSamplesRolledUp
    <3>2. CASE ~(ts < tdCursor)
      <4>1. ts \in Pending
        BY <1>0, <3>2 DEF Pending
      <4>2. ts >= start
        BY <1>0, <2>3, <2>4, <4>1
      <4> QED
        BY <2>1, <4>2
    <3> QED
      BY <3>1, <3>2
  <2> QED
    BY <1>0, <2>1, <2>5, <2>6, <2>7 DEF TdIInv, InTimeSamplesRolledUp
<1>3. ASSUME NEW cut \in 1 .. TdMaxTime, ApplyRetention(cut) PROVE TdIInv'
  BY <1>3 DEF ApplyRetention, TdIInv, InTimeSamplesRolledUp
<1>4. ASSUME NEW blocked \in BOOLEAN, Maintain(blocked) PROVE TdIInv'
  BY <1>4 DEF Maintain, TdIInv, InTimeSamplesRolledUp
<1>5. ASSUME NEW blocked \in BOOLEAN, EvictOldest(blocked) PROVE TdIInv'
  <2>1. PICK rows \in SUBSET tdSamples : tdSamples' = rows /\ tdLate' = tdLate \cap rows /\ UNCHANGED <<tdNow, tdCursor, tdRolled>>
    BY <1>5 DEF EvictOldest
  <2> QED
    BY <2>1 DEF TdIInv, InTimeSamplesRolledUp
<1>6. ASSUME NEW blocked \in BOOLEAN, EvictDone(blocked) PROVE TdIInv'
  BY <1>6 DEF EvictDone, TdIInv, InTimeSamplesRolledUp
<1>7. CASE TdTick
  <2>1. tdNow' = tdNow + 1 /\ UNCHANGED <<tdSamples, tdCursor, tdRolled, tdLate>>
    BY <1>7 DEF TdTick
  <2>2. tdNow' \in Nat /\ tdNow' >= Hour /\ (tdCursor' = 0 \/ tdCursor' <= tdNow' - RollupGrace)
    BY <1>0, <2>1 DEF TdIInv
  <2> QED
    BY <2>1, <2>2 DEF TdIInv, InTimeSamplesRolledUp
<1>8. CASE TdRestart
  BY <1>8 DEF TdRestart, TdIInv, InTimeSamplesRolledUp
<1>9. CASE UNCHANGED tdVars
  BY <1>9 DEF tdVars, TdIInv, InTimeSamplesRolledUp
<1> QED
  BY <1>1, <1>2, <1>3, <1>4, <1>5, <1>6, <1>7, <1>8, <1>9 DEF TdNext

\* However far a rollup falls behind and whatever retention and eviction remove around
\* it: a stored minute the cursor has passed was counted in its hour, unless it came
\* after the grace period.
THEOREM NoSampleMissesItsHour == TdSpec => []InTimeSamplesRolledUp
<1>1. TdIInv => InTimeSamplesRolledUp
  BY DEF TdIInv
<1> QED
  BY <1>1, TdInitInv, TdStep, PTL DEF TdSpec

-----------------------------------------------------------------------------
(* The Cloudflare poller: every event is stored exactly once. *)

\* A bounded set of seconds has a last one.
LEMMA LastSecond ==
  ASSUME NEW S \in SUBSET Nat, S # {}, NEW b \in Nat, \A x \in S : x <= b
  PROVE  Max(S) \in S /\ \A y \in S : Max(S) >= y
<1> DEFINE T == {b - x : x \in S}
<1>0. \A x \in S : b - x \in Nat
  OBVIOUS
<1>1. T \in SUBSET Nat /\ T # {}
  BY <1>0, Zenon
<1>2. Min(T) \in T /\ \A y \in T : Min(T) <= y
  BY <1>1, FirstTime
<1>3. PICK m \in S : Min(T) = b - m
  BY <1>2
<1>4. \A y \in S : m >= y
  <2> TAKE y \in S
  <2>1. b - y \in T
    OBVIOUS
  <2>2. b - m <= b - y
    BY <1>2, <1>3, <2>1
  <2> QED
    BY <2>2
<1> QED
  BY <1>4 DEF Max

CfEventRecords == [at : Nat, id : CfIds]
Cursors == [ts : Int, seen : SUBSET CfEventRecords]
PassRecords == [pc : {"idle", "fetch", "drain", "store"}, until : Int, now : Int, cur : Cursors, pages : Int,
                fresh : SUBSET CfEventRecords, next : Cursors, done : BOOLEAN]

CfTypes ==
  /\ cfNow \in Nat /\ cfNow >= CfLag
  /\ cfEvents \in SUBSET CfEventRecords /\ IsFiniteSet(cfEvents)
  /\ cfCursor \in Cursors /\ cfPass \in PassRecords
  /\ cfRows \in [DOMAIN cfRows -> Nat] /\ DOMAIN cfRows \subseteq cfEvents

\* An event the cursor c has passed.
Passed(c, e) == e.at < c.ts \/ (e.at = c.ts /\ e \in c.seen)

\* A cursor has passed whatever is stored, and whatever it has passed is stored, known
\* lost, or among the events about to be stored; no event can show up behind it.
CursorInv(c, fresh) ==
  /\ c.seen \subseteq cfEvents /\ c.ts <= cfNow - CfLag + 1
  /\ \A e \in cfEvents : Stored(e) > 0 => Passed(c, e)
  /\ \A e \in cfEvents : (e.at < c.ts \/ e \in c.seen) => Stored(e) > 0 \/ e \in cfSkipped \/ e \in fresh

PassInv ==
  /\ cfPass.pc # "idle" => cfPass.until \in Nat /\ cfPass.until <= cfNow - CfLag
  /\ cfPass.pc \in {"fetch", "drain"} => CursorInv(cfPass.cur, {}) /\ cfPass.cur.ts >= 0
  /\ cfPass.pc = "drain" => cfPass.cur.ts <= cfPass.until
  /\ cfPass.pc = "store" => /\ CursorInv(cfPass.next, cfPass.fresh) /\ cfPass.next.ts >= 0
                            /\ \A e \in cfPass.fresh : e \in cfEvents /\ Stored(e) = 0 /\ Passed(cfPass.next, e)

OnceInv == \A e \in cfEvents : Stored(e) <= 1

CfIInv == CfTypes /\ OnceInv /\ CursorInv(cfCursor, {}) /\ (cfCursor = NoCursor \/ cfCursor.ts >= 0) /\ PassInv

\* The invariant of the poller holds initially.
LEMMA CfInitInv == CfInit => CfIInv
<1> SUFFICES ASSUME CfInit PROVE CfIInv
  OBVIOUS
<1>1. NoCursor \in Cursors /\ NoCursor.ts = -1 /\ NoCursor.seen = {}
  BY DEF NoCursor, Cursors
<1>2. IdlePass \in PassRecords /\ IdlePass.pc = "idle"
  BY <1>1 DEF IdlePass, PassRecords
<1>3. cfEvents = {} /\ IsFiniteSet(cfEvents) /\ CfLag \in Nat
  BY FS_EmptySet, CfAssumption DEF CfInit
<1>4. cfRows \in [DOMAIN cfRows -> Nat] /\ DOMAIN cfRows \subseteq cfEvents
  BY DEF CfInit
<1>5. CfTypes
  BY <1>1, <1>2, <1>3, <1>4 DEF CfInit, CfTypes
<1>6. CursorInv(cfCursor, {})
  BY <1>1, <1>3 DEF CfInit, CursorInv
<1> QED
  BY <1>2, <1>3, <1>5, <1>6 DEF CfInit, CfIInv, PassInv, OnceInv

\* How often an event is stored is a number.
LEMMA StoredType == ASSUME CfTypes, NEW e PROVE Stored(e) \in Nat
BY DEF CfTypes, Stored

\* A cursor stays good while nothing but the clock and the losses grow.
LEMMA CursorKept ==
  ASSUME NEW c, NEW F, CursorInv(c, F), CfTypes, c \in Cursors, cfNow' \in Nat, cfNow' >= cfNow,
         UNCHANGED <<cfEvents, cfRows>>, cfSkipped \subseteq cfSkipped'
  PROVE  /\ c.seen \subseteq cfEvents' /\ c.ts <= cfNow' - CfLag + 1
         /\ \A e \in cfEvents' : Stored(e)' > 0 => Passed(c, e)
         /\ \A e \in cfEvents' : (e.at < c.ts \/ e \in c.seen) => Stored(e)' > 0 \/ e \in cfSkipped' \/ e \in F
<1>1. c.ts \in Int /\ CfLag \in Nat /\ cfNow \in Nat
  BY CfAssumption DEF Cursors, CfTypes
<1>2. c.ts <= cfNow' - CfLag + 1
  BY <1>1 DEF CursorInv
<1>3. \A e : Stored(e)' = Stored(e)
  BY DEF Stored
<1> QED
  BY <1>2, <1>3 DEF CursorInv

\* What a query answers: a part of the events it asks for, the earliest first, and all
\* of them when they are fewer than its limit.
LEMMA AnswerFacts ==
  ASSUME CfTypes, NEW from \in Int, NEW to \in Int, NEW limit \in Nat, NEW R, R \in Answers(from, to, limit)
  PROVE  /\ \A e \in R : e \in cfEvents /\ e.at >= from /\ e.at <= to
         /\ \A e \in R : \A f \in cfEvents : (f.at >= from /\ f.at <= to /\ f \notin R) => e.at <= f.at
         /\ Cardinality(R) \in Nat
         /\ Cardinality(R) < limit => \A f \in cfEvents : (f.at >= from /\ f.at <= to) => f \in R
<1> DEFINE all == {e \in cfEvents : e.at >= from /\ e.at <= to}
<1>1. R \in SUBSET all /\ Cardinality(R) = Min({limit, Cardinality(all)}) /\ \A e \in R, f \in all \ R : e.at <= f.at
  BY DEF Answers
<1>2. IsFiniteSet(all) /\ IsFiniteSet(R)
  BY <1>1, FS_Subset DEF CfTypes
<1>3. Cardinality(all) \in Nat /\ Cardinality(R) \in Nat
  BY <1>2, FS_CardinalityType
<1>4. Cardinality(R) < limit => R = all
  <2> SUFFICES ASSUME Cardinality(R) < limit PROVE R = all
    OBVIOUS
  <2>1. Cardinality(R) = Cardinality(all)
    BY <1>1, <1>3, MinOfTwo
  <2> QED
    BY <1>1, <1>2, <2>1, FS_Subset
<1> QED
  BY <1>1, <1>3, <1>4

\* apply: the new cursor is at the last new event, or where it was.
LEMMA ApplyFacts ==
  ASSUME NEW cur \in Cursors, NEW to \in Nat, cur.ts >= 0, cur.ts <= to, NEW R \in SUBSET CfEventRecords,
         \A e \in R : e.at <= to
  PROVE  /\ Apply(cur, R) \in Cursors /\ Apply(cur, R).ts >= cur.ts /\ Apply(cur, R).ts <= to
         /\ \A e \in Fresh(cur, R) : e.at <= Apply(cur, R).ts
         /\ \A e \in Fresh(cur, R) : e.at = Apply(cur, R).ts => e \in Apply(cur, R).seen
         /\ Apply(cur, R).ts = cur.ts \/ \E e \in Fresh(cur, R) : e.at = Apply(cur, R).ts
         /\ Apply(cur, R).ts = cur.ts => cur.seen \subseteq Apply(cur, R).seen
         /\ \A e \in Apply(cur, R).seen : e \in Fresh(cur, R) \/ (e \in cur.seen /\ Apply(cur, R).ts = cur.ts)
<1> DEFINE F == Fresh(cur, R)
           S == {cur.ts} \cup {e.at : e \in F}
           ts == Max(S)
           at == {e \in F : e.at = ts}
<1>1. F \in SUBSET R /\ cur.ts \in Nat /\ cur.seen \in SUBSET CfEventRecords
  BY DEF Fresh, Cursors
<1>2. \A e \in F : e.at \in Nat /\ e.at <= to
  BY <1>1 DEF CfEventRecords
<1>3. S \in SUBSET Nat /\ S # {}
  BY <1>1, <1>2, Zenon
<1>4. \A x \in S : x <= to
  BY <1>2
<1>5. ts \in S /\ \A y \in S : ts >= y
  BY <1>3, <1>4, LastSecond
<1>6. Apply(cur, R) = [ts |-> ts, seen |-> IF ts = cur.ts THEN cur.seen \cup at ELSE at]
  BY DEF Apply
<1>7. ts \in Nat /\ ts >= cur.ts /\ ts <= to
  BY <1>1, <1>3, <1>4, <1>5
<1>8. \A e \in F : e.at <= ts
  BY <1>2, <1>5, <1>7
<1>9. ts = cur.ts \/ \E e \in F : e.at = ts
  BY <1>5
<1>10. at \in SUBSET CfEventRecords /\ at \subseteq F /\ \A e \in F : e.at = ts => e \in at
  BY <1>1
<1> HIDE DEF ts, at, F
<1>11. /\ Apply(cur, R).ts = ts
       /\ Apply(cur, R).seen = IF ts = cur.ts THEN cur.seen \cup at ELSE at
  BY <1>6
<1>12. Apply(cur, R) \in Cursors
  BY <1>1, <1>6, <1>7, <1>10 DEF Cursors
<1>13. \A e \in F : e.at = ts => e \in Apply(cur, R).seen
  BY <1>10, <1>11
<1>14. ts = cur.ts => cur.seen \subseteq Apply(cur, R).seen
  BY <1>11
<1>15. \A e \in Apply(cur, R).seen : e \in F \/ (e \in cur.seen /\ ts = cur.ts)
  BY <1>10, <1>11
<1> QED
  BY <1>7, <1>8, <1>9, <1>11, <1>12, <1>13, <1>14, <1>15 DEF F

\* What a page brings is new, and the cursor after it has passed what it should.
LEMMA PageFacts ==
  ASSUME CfIInv, cfPass.pc = "fetch", cfPass.cur.ts <= cfPass.until, NEW R \in SUBSET cfEvents,
         R \in Answers(cfPass.cur.ts, cfPass.until, PageSize)
  PROVE  LET cur == cfPass.cur
             next == Apply(cur, R)
             c == IF Cardinality(R) < PageSize /\ next.ts < cfPass.until THEN [ts |-> cfPass.until, seen |-> {}] ELSE next
         IN /\ c \in Cursors /\ c.ts >= 0 /\ CursorInv(c, Fresh(cur, R))
            /\ \A e \in Fresh(cur, R) : e \in cfEvents /\ Stored(e) = 0 /\ Passed(c, e)
<1> DEFINE cur == cfPass.cur
           until == cfPass.until
           next == Apply(cur, R)
           F == Fresh(cur, R)
           short == Cardinality(R) < PageSize
           c == IF short /\ next.ts < until THEN [ts |-> until, seen |-> {}] ELSE next
<1>1. /\ CfTypes /\ cur \in Cursors /\ cur.ts \in Int /\ until \in Nat /\ until <= cfNow - CfLag /\ CursorInv(cur, {}) /\ cur.ts >= 0
      /\ CfLag \in Nat /\ cfNow \in Nat /\ PageSize \in Nat
  BY CfAssumption DEF CfIInv, CfTypes, PassInv, PassRecords, Cursors
<1>2. /\ \A e \in R : e \in cfEvents /\ e.at >= cur.ts /\ e.at <= until
      /\ \A e \in R : \A f \in cfEvents : (f.at >= cur.ts /\ f.at <= until /\ f \notin R) => e.at <= f.at
      /\ short => \A f \in cfEvents : (f.at >= cur.ts /\ f.at <= until) => f \in R
  BY <1>1, AnswerFacts
<1>3. R \in SUBSET CfEventRecords
  BY <1>1 DEF CfTypes
<1>4. /\ next \in Cursors /\ next.ts >= cur.ts /\ next.ts <= until
      /\ \A e \in F : e.at <= next.ts
      /\ \A e \in F : e.at = next.ts => e \in next.seen
      /\ next.ts = cur.ts \/ \E e \in F : e.at = next.ts
      /\ next.ts = cur.ts => cur.seen \subseteq next.seen
      /\ \A e \in next.seen : e \in F \/ (e \in cur.seen /\ next.ts = cur.ts)
  BY <1>1, <1>2, <1>3, ApplyFacts
<1>5. /\ \A e \in F : e \in R /\ ~(e.at = cur.ts /\ e \in cur.seen)
      /\ \A e \in R : e \in F \/ (e.at = cur.ts /\ e \in cur.seen)
  BY DEF Fresh
<1>6. \A e \in cfEvents : e.at \in Nat /\ Stored(e) \in Nat
  BY <1>1, StoredType DEF CfTypes, CfEventRecords
<1>7. next.ts \in Int
  BY <1>4 DEF Cursors
<1> HIDE DEF cur, until, next, F, short
<1>8. /\ \A e \in cfEvents : Stored(e) > 0 => Passed(cur, e)
      /\ \A e \in cfEvents : (e.at < cur.ts \/ e \in cur.seen) => Stored(e) > 0 \/ e \in cfSkipped
      /\ cur.seen \subseteq cfEvents
  BY <1>1 DEF CursorInv
<1>9. \A e \in F : e \in cfEvents /\ Stored(e) = 0
  <2> TAKE e \in F
  <2>1. e \in cfEvents /\ e.at >= cur.ts /\ ~(e.at = cur.ts /\ e \in cur.seen) /\ e.at \in Nat
    BY <1>2, <1>5, <1>6
  <2>2. ~Passed(cur, e)
    BY <1>1, <2>1 DEF Passed
  <2> QED
    BY <1>6, <1>8, <2>1, <2>2
<1>10. \A e \in cfEvents : Stored(e) > 0 => Passed(next, e)
  <2> TAKE e \in cfEvents
  <2>1. CASE e.at < cur.ts
    BY <1>1, <1>4, <1>6, <1>7, <2>1 DEF Passed
  <2>2. CASE e.at = cur.ts /\ e \in cur.seen /\ next.ts = cur.ts
    BY <1>4, <2>2 DEF Passed
  <2>3. CASE e.at = cur.ts /\ next.ts # cur.ts
    BY <1>1, <1>4, <1>6, <1>7, <2>3 DEF Passed
  <2> QED
    BY <1>8, <2>1, <2>2, <2>3 DEF Passed
<1>11. \A e \in F : Passed(next, e)
  <2> TAKE e \in F
  <2>1. e.at \in Nat /\ e.at <= next.ts /\ (e.at = next.ts => e \in next.seen)
    BY <1>4, <1>6, <1>9
  <2> QED
    BY <1>7, <2>1 DEF Passed
<1>12. ASSUME NEW e \in cfEvents, e.at < next.ts \/ e \in next.seen PROVE Stored(e) > 0 \/ e \in cfSkipped \/ e \in F
  <2>1. CASE e \in next.seen
    BY <1>4, <1>8, <2>1
  <2>2. CASE e.at < cur.ts
    BY <1>8, <2>2
  <2>3. CASE e.at < next.ts /\ ~(e.at < cur.ts)
    <3>1. PICK g \in F : g.at = next.ts
      BY <1>1, <1>4, <1>6, <1>7, <2>3
    <3>2. e.at >= cur.ts /\ e.at <= until /\ ~(g.at <= e.at)
      BY <1>1, <1>4, <1>6, <1>7, <2>3, <3>1
    <3>3. e \in R
      BY <1>2, <1>5, <3>1, <3>2
    <3> QED
      BY <1>5, <1>8, <3>3
  <2> QED
    BY <1>12, <2>1, <2>2, <2>3
<1>13. next.seen \subseteq cfEvents
  BY <1>4, <1>8, <1>9
<1>14. CASE ~(short /\ next.ts < until)
  <2>1. c = next
    BY <1>14
  <2>2. next.ts <= cfNow - CfLag + 1 /\ next.ts >= 0
    BY <1>1, <1>4, <1>7
  <2>3. CursorInv(next, F)
    BY <1>10, <1>12, <1>13, <2>2 DEF CursorInv
  <2> QED
    BY <1>4, <1>9, <1>11, <2>1, <2>2, <2>3 DEF cur, F, next, until, short
<1>15. CASE short /\ next.ts < until
  <2>1. c = [ts |-> until, seen |-> {}]
    BY <1>15
  <2>2. c \in Cursors /\ c.ts = until /\ c.seen = {}
    BY <1>1, <2>1 DEF Cursors
  <2> HIDE DEF c
  <2>3. \A e \in cfEvents : Passed(next, e) => Passed(c, e)
    BY <1>1, <1>6, <1>7, <1>15, <2>2 DEF Passed
  <2>4. ASSUME NEW e \in cfEvents, e.at < until PROVE Stored(e) > 0 \/ e \in cfSkipped \/ e \in F
    <3>1. CASE e.at < cur.ts
      BY <1>8, <3>1
    <3>2. CASE ~(e.at < cur.ts)
      <4>1. e.at >= cur.ts /\ e.at <= until
        BY <1>1, <1>6, <2>4, <3>2
      <4>2. e \in R
        BY <1>2, <1>15, <4>1
      <4> QED
        BY <1>5, <1>8, <4>2
    <3> QED
      BY <3>1, <3>2
  <2>5. c.ts <= cfNow - CfLag + 1 /\ c.ts >= 0
    BY <1>1, <2>2
  <2>6. CursorInv(c, F)
    BY <1>10, <2>2, <2>3, <2>4, <2>5 DEF CursorInv
  <2>7. \A e \in F : e \in cfEvents /\ Stored(e) = 0 /\ Passed(c, e)
    BY <1>9, <1>11, <2>3
  <2> QED
    BY <2>2, <2>5, <2>6, <2>7 DEF cur, F, next, until, short, c
<1> QED
  BY <1>14, <1>15

\* What a step that stores nothing and brings no event leaves as it was.
LEMMA NothingStored ==
  ASSUME CfIInv, UNCHANGED <<cfEvents, cfRows, cfCursor>>, cfSkipped \subseteq cfSkipped',
         cfNow' \in Nat, cfNow' >= cfNow, cfPass' \in PassRecords, PassInv'
  PROVE  CfIInv'
<1>1. CfTypes'
  BY CfAssumption DEF CfIInv, CfTypes
<1>2. OnceInv'
  BY DEF CfIInv, OnceInv, Stored
<1>3. CursorInv(cfCursor, {})'
  <2>1. cfCursor \in Cursors /\ CursorInv(cfCursor, {}) /\ CfTypes
    BY DEF CfIInv, CfTypes
  <2>2. /\ cfCursor.seen \subseteq cfEvents' /\ cfCursor.ts <= cfNow' - CfLag + 1
        /\ \A e \in cfEvents' : Stored(e)' > 0 => Passed(cfCursor, e)
        /\ \A e \in cfEvents' : (e.at < cfCursor.ts \/ e \in cfCursor.seen) => Stored(e)' > 0 \/ e \in cfSkipped' \/ e \in {}
    BY <2>1, CursorKept
  <2> QED
    BY <2>2 DEF CursorInv
<1> QED
  BY <1>1, <1>2, <1>3 DEF CfIInv

\* The pass that has not begun, and the cursor that was never stored.
LEMMA IdleType == IdlePass \in PassRecords /\ IdlePass.pc = "idle" /\ NoCursor \in Cursors /\ NoCursor.ts = -1
<1>1. NoCursor \in Cursors /\ NoCursor.ts = -1
  BY DEF NoCursor, Cursors
<1> QED
  BY <1>1 DEF IdlePass, PassRecords

\* A pass that ends without storing.
LEMMA PassEnded ==
  ASSUME CfIInv, cfPass' = IdlePass, UNCHANGED <<cfNow, cfEvents, cfCursor, cfRows, cfSkipped>>
  PROVE  CfIInv'
<1>1. PassInv'
  BY IdleType DEF PassInv
<1>2. cfNow' \in Nat /\ cfNow' >= cfNow
  BY DEF CfIInv, CfTypes
<1> QED
  BY <1>1, <1>2, IdleType, NothingStored

\* An event never shows up behind a cursor.
LEMMA EventAhead ==
  ASSUME CfTypes, NEW c \in Cursors, NEW F, CursorInv(c, F), NEW x \in CfEventRecords, x \notin cfEvents,
         cfNow - x.at < CfLag, cfEvents' = cfEvents \cup {x}, UNCHANGED <<cfNow, cfRows, cfSkipped>>
  PROVE  /\ c.seen \subseteq cfEvents' /\ c.ts <= cfNow' - CfLag + 1
         /\ \A e \in cfEvents' : Stored(e)' > 0 => Passed(c, e)
         /\ \A e \in cfEvents' : (e.at < c.ts \/ e \in c.seen) => Stored(e)' > 0 \/ e \in cfSkipped' \/ e \in F
<1>1. c.ts \in Int /\ CfLag \in Nat /\ cfNow \in Nat /\ x.at \in Nat
  BY CfAssumption DEF Cursors, CfTypes, CfEventRecords
<1>2. \A e : Stored(e)' = Stored(e)
  BY DEF Stored
<1>3. Stored(x) = 0
  BY DEF Stored, CfTypes
<1>4. ~(x.at < c.ts) /\ x \notin c.seen
  BY <1>1 DEF CursorInv
<1> QED
  BY <1>2, <1>3, <1>4 DEF CursorInv

\* Events may appear at any time, some with a late timestamp.
LEMMA EventStep ==
  ASSUME CfIInv, NEW at \in 0 .. CfMaxTime, NEW i \in CfIds, CfEvent(at, i)
  PROVE  CfIInv'
<1> DEFINE x == [at |-> at, id |-> i]
<1>1. /\ cfNow - x.at < CfLag /\ x \notin cfEvents /\ cfEvents' = cfEvents \cup {x}
      /\ UNCHANGED <<cfNow, cfRows, cfSkipped, cfCursor, cfPass>>
  BY DEF CfEvent
<1>2. /\ x \in CfEventRecords /\ CfTypes /\ CursorInv(cfCursor, {}) /\ PassInv /\ cfCursor \in Cursors
      /\ cfPass \in PassRecords
  BY DEF CfEventRecords, CfIInv, CfTypes
<1> HIDE DEF x
<1>3. CfTypes'
  BY <1>1, <1>2, FS_AddElement DEF CfTypes
<1>4. OnceInv'
  <2>1. \A e : Stored(e)' = Stored(e)
    BY <1>1 DEF Stored
  <2>2. Stored(x) = 0
    BY <1>1, <1>2 DEF Stored, CfTypes
  <2> QED
    BY <1>1, <2>1, <2>2 DEF CfIInv, OnceInv
<1>5. CursorInv(cfCursor, {})'
  <2>1. /\ cfCursor.seen \subseteq cfEvents' /\ cfCursor.ts <= cfNow' - CfLag + 1
        /\ \A e \in cfEvents' : Stored(e)' > 0 => Passed(cfCursor, e)
        /\ \A e \in cfEvents' : (e.at < cfCursor.ts \/ e \in cfCursor.seen) => Stored(e)' > 0 \/ e \in cfSkipped' \/ e \in {}
    BY <1>1, <1>2, EventAhead
  <2> QED
    BY <1>1, <2>1 DEF CursorInv
<1>6. cfPass.pc \in {"fetch", "drain"} => CursorInv(cfPass.cur, {})'
  <2> SUFFICES ASSUME cfPass.pc \in {"fetch", "drain"} PROVE CursorInv(cfPass.cur, {})'
    OBVIOUS
  <2>1. cfPass.cur \in Cursors /\ CursorInv(cfPass.cur, {})
    BY <1>2 DEF PassInv, PassRecords
  <2>2. /\ cfPass.cur.seen \subseteq cfEvents' /\ cfPass.cur.ts <= cfNow' - CfLag + 1
        /\ \A e \in cfEvents' : Stored(e)' > 0 => Passed(cfPass.cur, e)
        /\ \A e \in cfEvents' : (e.at < cfPass.cur.ts \/ e \in cfPass.cur.seen) => Stored(e)' > 0 \/ e \in cfSkipped' \/ e \in {}
    BY <1>1, <1>2, <2>1, EventAhead
  <2> QED
    BY <1>1, <2>2 DEF CursorInv
<1>7. cfPass.pc = "store" => CursorInv(cfPass.next, cfPass.fresh)'
  <2> SUFFICES ASSUME cfPass.pc = "store" PROVE CursorInv(cfPass.next, cfPass.fresh)'
    OBVIOUS
  <2>1. cfPass.next \in Cursors /\ CursorInv(cfPass.next, cfPass.fresh)
    BY <1>2 DEF PassInv, PassRecords
  <2>2. /\ cfPass.next.seen \subseteq cfEvents' /\ cfPass.next.ts <= cfNow' - CfLag + 1
        /\ \A e \in cfEvents' : Stored(e)' > 0 => Passed(cfPass.next, e)
        /\ \A e \in cfEvents' : (e.at < cfPass.next.ts \/ e \in cfPass.next.seen) => Stored(e)' > 0 \/ e \in cfSkipped' \/ e \in cfPass.fresh
    BY <1>1, <1>2, <2>1, EventAhead
  <2> QED
    BY <1>1, <2>2 DEF CursorInv
<1>8. PassInv'
  <2>1. \A e : Stored(e)' = Stored(e)
    BY <1>1 DEF Stored
  <2> QED
    BY <1>1, <1>2, <1>6, <1>7, <2>1 DEF PassInv
<1> QED
  BY <1>1, <1>3, <1>4, <1>5, <1>8 DEF CfIInv

\* A pass begins at the cursor, or at the look-back floor.
LEMMA LoadStep == ASSUME CfIInv, LoadCursor PROVE CfIInv'
<1> DEFINE floor == cfNow - MaxLookback
           skip == cfCursor = NoCursor \/ cfCursor.ts < floor
           cur == IF skip THEN [ts |-> Max({floor, 0}), seen |-> {}] ELSE cfCursor
<1>1. /\ cfPass' = [IdlePass EXCEPT !.pc = "fetch", !.until = cfNow - CfLag, !.now = cfNow, !.cur = cur, !.pages = MaxPagesPerZone]
      /\ cfSkipped' = cfSkipped \cup {e \in cfEvents : Stored(e) = 0 /\ e.at < cur.ts}
      /\ UNCHANGED <<cfNow, cfEvents, cfCursor, cfRows>>
  BY DEF LoadCursor
<1>2. /\ CfTypes /\ CursorInv(cfCursor, {}) /\ cfCursor \in Cursors /\ (cfCursor = NoCursor \/ cfCursor.ts >= 0)
      /\ cfNow \in Nat /\ CfLag \in Nat /\ cfNow >= CfLag /\ MaxLookback \in Nat /\ MaxLookback > CfLag /\ MaxPagesPerZone \in Nat
      /\ cfCursor.ts \in Int
  BY CfAssumption DEF CfIInv, CfTypes, Cursors
<1>3. \A e \in cfEvents : e.at \in Nat /\ Stored(e) \in Nat
  BY <1>2, StoredType DEF CfTypes, CfEventRecords
<1>4. cur \in Cursors /\ cur.ts >= 0 /\ cur.ts \in Int /\ cur.seen \subseteq cfEvents /\ cur.ts <= cfNow - CfLag + 1
  <2>1. CASE skip
    <3>1. Max({floor, 0}) = (IF floor >= 0 THEN floor ELSE 0)
      BY <1>2, MaxOfTwo
    <3>2. Max({floor, 0}) \in Int /\ Max({floor, 0}) >= 0 /\ Max({floor, 0}) <= cfNow - CfLag + 1
      BY <1>2, <3>1
    <3>3. cur = [ts |-> Max({floor, 0}), seen |-> {}]
      BY <2>1
    <3> QED
      BY <3>2, <3>3 DEF Cursors
  <2>2. CASE ~skip
    BY <1>2, <2>2 DEF CursorInv
  <2> QED
    BY <2>1, <2>2
<1>5. \A e \in cfEvents : Stored(e) > 0 => Passed(cur, e)
  <2>1. CASE skip
    <3>1. cur.ts = (IF floor >= 0 THEN floor ELSE 0)
      BY <1>2, <2>1, MaxOfTwo
    <3>2. cfCursor.ts < floor \/ cfCursor.ts = -1
      BY <2>1, IdleType
    <3>3. \A e \in cfEvents : Stored(e) > 0 => e.at <= cfCursor.ts
      BY <1>2, <1>3 DEF CursorInv, Passed
    <3> HIDE DEF cur
    <3> QED
      BY <1>2, <1>3, <3>1, <3>2, <3>3 DEF Passed
  <2>2. CASE ~skip
    BY <1>2, <2>2 DEF CursorInv
  <2> QED
    BY <2>1, <2>2
<1>6. \A e \in cur.seen : e \in cfEvents => Stored(e) > 0 \/ e \in cfSkipped
  <2>1. CASE skip
    BY <2>1
  <2>2. CASE ~skip
    BY <1>2, <2>2 DEF CursorInv
  <2> QED
    BY <2>1, <2>2
<1> HIDE DEF cur
<1>7. cfPass' \in PassRecords /\ cfPass'.pc = "fetch" /\ cfPass'.until = cfNow - CfLag /\ cfPass'.cur = cur
  <2>1. cfPass' = [pc |-> "fetch", until |-> cfNow - CfLag, now |-> cfNow, cur |-> cur, pages |-> MaxPagesPerZone,
                   fresh |-> {}, next |-> NoCursor, done |-> FALSE]
    BY <1>1 DEF IdlePass
  <2>2. cfNow - CfLag \in Int /\ cfNow \in Int /\ MaxPagesPerZone \in Int /\ NoCursor \in Cursors
    BY <1>2, IdleType
  <2> QED
    BY <1>4, <2>1, <2>2 DEF PassRecords
<1>8. \A e : Stored(e)' = Stored(e)
  BY <1>1 DEF Stored
<1>9. PassInv'
  <2>1. CursorInv(cfPass.cur, {})'
    BY <1>1, <1>3, <1>4, <1>5, <1>6, <1>7, <1>8 DEF CursorInv
  <2>2. cfPass'.until \in Nat /\ cfPass'.until <= cfNow' - CfLag
    BY <1>1, <1>2, <1>7
  <2> QED
    BY <1>4, <1>7, <2>1, <2>2 DEF PassInv
<1> QED
  BY <1>1, <1>2, <1>7, <1>9, NothingStored

\* A page is fetched from where the pass stands.
LEMMA FetchStep == ASSUME CfIInv, NEW R \in SUBSET cfEvents, FetchPage(R) PROVE CfIInv'
<1> DEFINE cur == cfPass.cur
           next == Apply(cur, R)
           short == Cardinality(R) < PageSize
           stalled == ~short /\ Fresh(cur, R) = {} /\ next.ts = cur.ts
           c == IF short /\ next.ts < cfPass.until THEN [ts |-> cfPass.until, seen |-> {}] ELSE next
<1>1. /\ cfPass.pc = "fetch" /\ cur.ts <= cfPass.until /\ R \in Answers(cur.ts, cfPass.until, PageSize)
      /\ cfPass' = [cfPass EXCEPT !.pc = IF stalled THEN "drain" ELSE "store", !.fresh = Fresh(cur, R), !.next = c, !.done = short]
      /\ UNCHANGED <<cfNow, cfEvents, cfCursor, cfRows, cfSkipped>>
  BY DEF FetchPage
<1>2. /\ c \in Cursors /\ c.ts >= 0 /\ CursorInv(c, Fresh(cur, R))
      /\ \A e \in Fresh(cur, R) : e \in cfEvents /\ Stored(e) = 0 /\ Passed(c, e)
  BY <1>1, PageFacts
<1>3. CfTypes /\ PassInv /\ cfPass \in PassRecords /\ cur \in Cursors /\ Fresh(cur, R) \in SUBSET CfEventRecords
  BY DEF CfIInv, CfTypes, PassRecords, Fresh
<1>4. stalled \in BOOLEAN /\ short \in BOOLEAN
  OBVIOUS
<1>5. CursorInv(cur, {}) /\ cur.ts >= 0 /\ cfPass.until \in Nat /\ cfPass.until <= cfNow - CfLag
  BY <1>1, <1>3 DEF PassInv
<1> HIDE DEF c, short, stalled, next
<1>6. /\ cfPass' \in PassRecords /\ cfPass'.pc = (IF stalled THEN "drain" ELSE "store") /\ cfPass'.until = cfPass.until
      /\ cfPass'.cur = cur /\ cfPass'.fresh = Fresh(cur, R) /\ cfPass'.next = c
  BY <1>1, <1>2, <1>3, <1>4 DEF PassRecords
<1> HIDE DEF cur
<1>7. CursorInv(cfPass.cur, {})' /\ CursorInv(cfPass.next, cfPass.fresh)'
  <2>1. \A e : Stored(e)' = Stored(e)
    BY <1>1 DEF Stored
  <2>2. CursorInv(cfPass.cur, {})'
    BY <1>1, <1>5, <1>6, <2>1 DEF CursorInv
  <2>3. CursorInv(cfPass.next, cfPass.fresh)'
    BY <1>1, <1>2, <1>6, <2>1 DEF CursorInv
  <2> QED
    BY <2>2, <2>3
<1>8. PassInv'
  <2>1. \A e : Stored(e)' = Stored(e)
    BY <1>1 DEF Stored
  <2>2. cfPass'.pc \in {"drain", "store"} /\ cfPass'.until \in Nat /\ cfPass'.until <= cfNow' - CfLag
    BY <1>1, <1>5, <1>6
  <2>3. cfPass'.cur.ts >= 0 /\ cfPass'.cur.ts <= cfPass'.until /\ cfPass'.next.ts >= 0
    BY <1>1, <1>2, <1>5, <1>6
  <2>4. \A e \in cfPass'.fresh : e \in cfEvents' /\ Stored(e)' = 0 /\ Passed(cfPass'.next, e)
    BY <1>1, <1>2, <1>6, <2>1
  <2> QED
    BY <1>7, <2>2, <2>3, <2>4 DEF PassInv
<1>9. cfNow' \in Nat /\ cfNow' >= cfNow
  BY <1>1, <1>3 DEF CfTypes
<1> QED
  BY <1>1, <1>6, <1>8, <1>9, NothingStored

\* A second with more events than a page is paged by key.
LEMMA DrainStep == ASSUME CfIInv, NEW R \in SUBSET cfEvents, DrainSecond(R) PROVE CfIInv'
<1> DEFINE cur == cfPass.cur
           c == [ts |-> cur.ts + 1, seen |-> {}]
<1>1. /\ cfPass.pc = "drain" /\ R \in Answers(cur.ts, cur.ts, SecondLimit)
      /\ cfPass' = [cfPass EXCEPT !.pc = "store", !.fresh = Fresh(cur, R), !.next = c]
      /\ cfSkipped' = (IF Cardinality(R) >= SecondLimit
                       THEN cfSkipped \cup {e \in cfEvents : e.at = cur.ts /\ e \notin R /\ Stored(e) = 0} ELSE cfSkipped)
      /\ UNCHANGED <<cfNow, cfEvents, cfCursor, cfRows>>
  BY DEF DrainSecond
<1>2. /\ CfTypes /\ PassInv /\ cfPass \in PassRecords /\ cur \in Cursors /\ Fresh(cur, R) \in SUBSET CfEventRecords
      /\ cur.ts \in Int /\ SecondLimit \in Nat /\ CfLag \in Nat /\ cfNow \in Nat
  BY CfAssumption DEF CfIInv, CfTypes, PassRecords, Fresh, Cursors
<1>3. /\ CursorInv(cur, {}) /\ cur.ts >= 0 /\ cur.ts <= cfPass.until /\ cfPass.until \in Nat /\ cfPass.until <= cfNow - CfLag
  BY <1>1, <1>2 DEF PassInv
<1>4. /\ \A e \in R : e \in cfEvents /\ e.at >= cur.ts /\ e.at <= cur.ts
      /\ Cardinality(R) \in Nat
      /\ Cardinality(R) < SecondLimit => \A f \in cfEvents : (f.at >= cur.ts /\ f.at <= cur.ts) => f \in R
  BY <1>1, <1>2, AnswerFacts
<1>5. c \in Cursors /\ c.ts = cur.ts + 1 /\ c.seen = {} /\ c.ts >= 0 /\ c.ts <= cfNow - CfLag + 1
  BY <1>2, <1>3 DEF Cursors
<1> HIDE DEF c
<1>6. /\ cfPass' \in PassRecords /\ cfPass'.pc = "store" /\ cfPass'.until = cfPass.until
      /\ cfPass'.fresh = Fresh(cur, R) /\ cfPass'.next = c
  BY <1>1, <1>2, <1>5 DEF PassRecords
<1>7. \A e \in cfEvents : e.at \in Nat /\ Stored(e) \in Nat
  BY <1>2, StoredType DEF CfTypes, CfEventRecords
<1> HIDE DEF cur
<1>8. \A e : Stored(e)' = Stored(e)
  BY <1>1 DEF Stored
<1>9. /\ \A e \in Fresh(cur, R) : e \in R /\ ~(e.at = cur.ts /\ e \in cur.seen)
      /\ \A e \in R : e \in Fresh(cur, R) \/ (e.at = cur.ts /\ e \in cur.seen)
  BY DEF Fresh
<1>10. \A e \in Fresh(cur, R) : e \in cfEvents /\ Stored(e) = 0 /\ Passed(c, e)
  <2> TAKE e \in Fresh(cur, R)
  <2>1. e \in cfEvents /\ e.at = cur.ts /\ e \notin cur.seen
    BY <1>2, <1>4, <1>7, <1>9
  <2>2. Stored(e) = 0
    BY <1>2, <1>3, <1>7, <2>1 DEF CursorInv, Passed
  <2> QED
    BY <1>2, <1>5, <2>1, <2>2 DEF Passed
<1>11. \A e \in cfEvents : Stored(e) > 0 => Passed(c, e)
  BY <1>2, <1>3, <1>5, <1>7 DEF CursorInv, Passed
<1>12. ASSUME NEW e \in cfEvents, e.at < c.ts PROVE Stored(e) > 0 \/ e \in cfSkipped' \/ e \in Fresh(cur, R)
  <2>1. cfSkipped \subseteq cfSkipped'
    BY <1>1
  <2>2. CASE e.at < cur.ts \/ e \in cur.seen
    BY <1>3, <2>1, <2>2 DEF CursorInv
  <2>3. CASE e.at = cur.ts /\ e \in R
    BY <1>3, <1>9, <2>1, <2>3 DEF CursorInv
  <2>4. CASE e.at = cur.ts /\ e \notin R
    <3>1. Cardinality(R) >= SecondLimit
      BY <1>2, <1>4, <2>4
    <3> QED
      BY <1>1, <1>7, <2>4, <3>1
  <2> QED
    BY <1>2, <1>5, <1>7, <1>12, <2>2, <2>3, <2>4
<1>13. PassInv'
  <2>1. CursorInv(cfPass.next, cfPass.fresh)'
    BY <1>1, <1>5, <1>6, <1>8, <1>11, <1>12 DEF CursorInv
  <2>2. cfPass'.until \in Nat /\ cfPass'.until <= cfNow' - CfLag /\ cfPass'.next.ts >= 0
    BY <1>1, <1>3, <1>5, <1>6
  <2>3. \A e \in cfPass'.fresh : e \in cfEvents' /\ Stored(e)' = 0 /\ Passed(cfPass'.next, e)
    BY <1>1, <1>6, <1>8, <1>10
  <2> QED
    BY <1>6, <2>1, <2>2, <2>3 DEF PassInv
<1>14. cfNow' \in Nat /\ cfNow' >= cfNow /\ cfSkipped \subseteq cfSkipped'
  BY <1>1, <1>2
<1> QED
  BY <1>1, <1>6, <1>13, <1>14, NothingStored

\* The rows and the cursor are stored in one transaction.
LEMMA StoreStep == ASSUME CfIInv, NEW full \in BOOLEAN, StorePage(full) PROVE CfIInv'
<1> DEFINE next == cfPass.next
           F == cfPass.fresh
<1>1. /\ cfPass.pc = "store" /\ cfCursor' = next /\ UNCHANGED <<cfNow, cfEvents>>
      /\ cfRows' = (IF full THEN cfRows ELSE [e \in DOMAIN cfRows \cup F |-> Stored(e) + (IF e \in F THEN 1 ELSE 0)])
      /\ cfSkipped' = IF full THEN cfSkipped \cup F ELSE cfSkipped
  BY DEF StorePage
<1>2. /\ CfTypes /\ PassInv /\ OnceInv /\ cfPass \in PassRecords /\ next \in Cursors /\ F \in SUBSET CfEventRecords
      /\ cfNow \in Nat /\ cfPass.pages \in Int /\ next.ts \in Int
  BY DEF CfIInv, CfTypes, PassRecords, Cursors
<1>3. /\ CursorInv(next, F) /\ next.ts >= 0 /\ cfPass.until \in Nat /\ cfPass.until <= cfNow - CfLag
      /\ \A e \in F : e \in cfEvents /\ Stored(e) = 0 /\ Passed(next, e)
  BY <1>1, <1>2 DEF PassInv
<1>4. \A e : Stored(e) \in Nat
  BY <1>2, StoredType
<1>5. /\ cfPass' \in PassRecords
      /\ cfPass'.pc = "idle" \/ (cfPass'.pc = "fetch" /\ cfPass'.cur = next /\ cfPass'.until = cfPass.until)
  <2>1. CASE cfPass.done
    <3>1. cfPass' = IdlePass
      BY <2>1 DEF StorePage, PassEnds
    <3> QED
      BY <3>1, IdleType
  <2>2. CASE ~cfPass.done
    <3>1. cfPass' = [cfPass EXCEPT !.pc = "fetch", !.cur = next, !.pages = cfPass.pages - 1, !.fresh = {}]
      BY <2>2 DEF StorePage
    <3>2. cfPass.pages - 1 \in Int
      BY <1>2
    <3> HIDE DEF next
    <3> QED
      BY <1>2, <3>1, <3>2 DEF PassRecords
  <2> QED
    BY <2>1, <2>2
<1> HIDE DEF next, F
<1>6. /\ \A e : Stored(e)' = IF ~full /\ e \in F THEN Stored(e) + 1 ELSE Stored(e)
      /\ cfRows' \in [DOMAIN cfRows' -> Nat] /\ DOMAIN cfRows' \subseteq cfEvents
  <2>1. CASE full
    BY <1>1, <1>2, <2>1 DEF Stored, CfTypes
  <2>2. CASE ~full
    <3>1. cfRows' = [e \in DOMAIN cfRows \cup F |-> Stored(e) + (IF e \in F THEN 1 ELSE 0)]
      BY <1>1, <2>2
    <3>2. \A e \in DOMAIN cfRows \cup F : cfRows'[e] = (IF e \in F THEN Stored(e) + 1 ELSE Stored(e)) /\ cfRows'[e] \in Nat
      BY <1>4, <3>1
    <3>3. DOMAIN cfRows' = DOMAIN cfRows \cup F
      BY <3>1
    <3>4. cfRows' \in [DOMAIN cfRows' -> Nat]
      BY <3>1, <3>2, <3>3
    <3>5. DOMAIN cfRows' \subseteq cfEvents
      BY <1>2, <1>3, <3>3 DEF CfTypes
    <3>6. ASSUME NEW e PROVE Stored(e)' = IF e \in F THEN Stored(e) + 1 ELSE Stored(e)
      <4>1. CASE e \in DOMAIN cfRows \cup F
        BY <3>2, <3>3, <4>1 DEF Stored
      <4>2. CASE e \notin DOMAIN cfRows \cup F
        BY <3>3, <4>2 DEF Stored
      <4> QED
        BY <4>1, <4>2
    <3> QED
      BY <2>2, <3>4, <3>5, <3>6
  <2> QED
    BY <2>1, <2>2
<1>7. OnceInv'
  BY <1>1, <1>2, <1>3, <1>4, <1>6 DEF OnceInv
<1>8. CfTypes'
  BY <1>1, <1>2, <1>5, <1>6 DEF CfTypes
<1>9. /\ next.seen \subseteq cfEvents' /\ next.ts <= cfNow' - CfLag + 1
      /\ \A e \in cfEvents' : Stored(e)' > 0 => Passed(next, e)
      /\ \A e \in cfEvents' : (e.at < next.ts \/ e \in next.seen) => Stored(e)' > 0 \/ e \in cfSkipped' \/ e \in {}
  <2>1. next.seen \subseteq cfEvents' /\ next.ts <= cfNow' - CfLag + 1
    BY <1>1, <1>3 DEF CursorInv
  <2>2. \A e \in cfEvents' : Stored(e)' > 0 => Passed(next, e)
    BY <1>1, <1>3, <1>6 DEF CursorInv
  <2>3. ASSUME NEW e \in cfEvents, e.at < next.ts \/ e \in next.seen PROVE Stored(e)' > 0 \/ e \in cfSkipped'
    <3>1. CASE e \in F
      BY <1>1, <1>4, <1>6, <3>1
    <3>2. CASE e \notin F
      BY <1>1, <1>3, <1>6, <2>3, <3>2 DEF CursorInv
    <3> QED
      BY <3>1, <3>2
  <2> QED
    BY <1>1, <2>1, <2>2, <2>3
<1>10. CursorInv(cfCursor, {})'
  BY <1>1, <1>9 DEF CursorInv
<1>11. PassInv'
  <2>1. CASE cfPass'.pc = "idle"
    BY <2>1 DEF PassInv
  <2>2. CASE cfPass'.pc = "fetch" /\ cfPass'.cur = next /\ cfPass'.until = cfPass.until
    <3>1. CursorInv(cfPass.cur, {})'
      BY <1>9, <2>2 DEF CursorInv
    <3> QED
      BY <1>1, <1>3, <2>2, <3>1 DEF PassInv
  <2> QED
    BY <1>5, <2>1, <2>2
<1> QED
  BY <1>1, <1>3, <1>7, <1>8, <1>10, <1>11 DEF CfIInv

\* Time passes.
LEMMA TickStep == ASSUME CfIInv, CfTick PROVE CfIInv'
<1>1. cfNow' = cfNow + 1 /\ UNCHANGED <<cfEvents, cfCursor, cfRows, cfPass, cfSkipped>>
  BY DEF CfTick
<1>2. /\ CfTypes /\ PassInv /\ cfPass \in PassRecords /\ cfNow' \in Nat /\ cfNow' >= cfNow
      /\ CfLag \in Nat /\ cfNow \in Nat
  BY <1>1, CfAssumption DEF CfIInv, CfTypes
<1>3. \A c \in Cursors, F \in SUBSET CfEventRecords : CursorInv(c, F) =>
        /\ c.seen \subseteq cfEvents' /\ c.ts <= cfNow' - CfLag + 1
        /\ \A e \in cfEvents' : Stored(e)' > 0 => Passed(c, e)
        /\ \A e \in cfEvents' : (e.at < c.ts \/ e \in c.seen) => Stored(e)' > 0 \/ e \in cfSkipped' \/ e \in F
  BY <1>1, <1>2, CursorKept
<1>4. cfPass.cur \in Cursors /\ cfPass.next \in Cursors /\ cfPass.fresh \in SUBSET CfEventRecords
  BY <1>2 DEF PassRecords
<1>5. cfPass.pc \in {"fetch", "drain"} => CursorInv(cfPass.cur, {})'
  <2> SUFFICES ASSUME cfPass.pc \in {"fetch", "drain"} PROVE CursorInv(cfPass.cur, {})'
    OBVIOUS
  <2>1. CursorInv(cfPass.cur, {})
    BY <1>2 DEF PassInv
  <2>2. /\ cfPass.cur.seen \subseteq cfEvents' /\ cfPass.cur.ts <= cfNow' - CfLag + 1
        /\ \A e \in cfEvents' : Stored(e)' > 0 => Passed(cfPass.cur, e)
        /\ \A e \in cfEvents' : (e.at < cfPass.cur.ts \/ e \in cfPass.cur.seen) => Stored(e)' > 0 \/ e \in cfSkipped' \/ e \in {}
    BY <1>3, <1>4, <2>1
  <2> QED
    BY <1>1, <2>2 DEF CursorInv
<1>6. cfPass.pc = "store" => CursorInv(cfPass.next, cfPass.fresh)'
  BY <1>1, <1>2, <1>3, <1>4 DEF PassInv, CursorInv
<1>7. cfPass.pc # "idle" => cfPass.until \in Nat /\ cfPass.until <= cfNow' - CfLag
  BY <1>1, <1>2 DEF PassInv
<1>8. \A e : Stored(e)' = Stored(e)
  BY <1>1 DEF Stored
<1>9. PassInv'
  BY <1>1, <1>2, <1>5, <1>6, <1>7, <1>8 DEF PassInv
<1> QED
  BY <1>1, <1>2, <1>9, NothingStored

\* Every step of the poller keeps its invariant.
LEMMA CfStep == CfIInv /\ [CfNext]_cfVars => CfIInv'
<1> SUFFICES ASSUME CfIInv, [CfNext]_cfVars PROVE CfIInv'
  OBVIOUS
<1>1. ASSUME NEW at \in 0 .. CfMaxTime, NEW i \in CfIds, CfEvent(at, i) PROVE CfIInv'
  BY <1>1, EventStep
<1>2. CASE LoadCursor
  BY <1>2, LoadStep
<1>3. CASE PollDone
  BY <1>3, PassEnded DEF PollDone, PassEnds
<1>4. ASSUME NEW R \in SUBSET cfEvents, FetchPage(R) PROVE CfIInv'
  BY <1>4, FetchStep
<1>5. ASSUME NEW R \in SUBSET cfEvents, DrainSecond(R) PROVE CfIInv'
  BY <1>5, DrainStep
<1>6. ASSUME NEW full \in BOOLEAN, StorePage(full) PROVE CfIInv'
  BY <1>6, StoreStep
<1>7. ASSUME NEW retryAfter \in {0, CfMaxBackoff}, PollFails(retryAfter) PROVE CfIInv'
  BY <1>7, PassEnded DEF PollFails, PassEnds
<1>8. CASE CfRestart
  BY <1>8, PassEnded DEF CfRestart
<1>9. CASE CfTick
  BY <1>9, TickStep
<1>10. CASE UNCHANGED cfVars
  BY <1>10 DEF cfVars, CfIInv, CfTypes, OnceInv, PassInv, CursorInv, Stored
<1> QED
  BY <1>1, <1>2, <1>3, <1>4, <1>5, <1>6, <1>7, <1>8, <1>9, <1>10 DEF CfNext

\* Wherever pages are cut, whatever second overflows, and whichever pass fails or
\* process restarts: no event is stored twice, and one the cursor has passed is stored
\* unless the poller reported it lost.
THEOREM EventsStoredExactlyOnce == CfSpec => []StoredExactlyOnce
<1>1. ASSUME CfIInv PROVE StoredExactlyOnce
  <2> SUFFICES ASSUME NEW e \in cfEvents
               PROVE  /\ Stored(e) <= 1
                      /\ (e.at < cfCursor.ts \/ e \in cfCursor.seen) => (Stored(e) = 1 \/ e \in cfSkipped)
    BY DEF StoredExactlyOnce
  <2>1. Stored(e) \in Nat /\ Stored(e) <= 1
    BY <1>1, StoredType DEF CfIInv, OnceInv
  <2>2. (e.at < cfCursor.ts \/ e \in cfCursor.seen) => Stored(e) > 0 \/ e \in cfSkipped
    BY <1>1 DEF CfIInv, CursorInv
  <2> QED
    BY <2>1, <2>2
<1> QED
  BY <1>1, CfInitInv, CfStep, PTL DEF CfSpec

----------------------------------------------------------------------------
(* The ingest health monitor                                               *)

PipeType == [queue : Nat, spool : Nat, lastEvent : Nat, lastAdvance : Nat, stuckSince : Nat]
MonitorState == [streak : Nat, clearAt : Nat, lastAlert : Nat, healthy : BOOLEAN]

HealthTypes ==
  /\ healthNow \in Nat \ {0} /\ healthSampled \in BOOLEAN
  /\ pipe \in PipeType /\ health \in MonitorState
  /\ healthSeen \in [waiting : Nat, gap : Nat]

\* The clocks do not run ahead, and a backlog stands no shorter than since the
\* last move of the cursor.
ClockInv == /\ pipe.lastAdvance <= pipe.stuckSince /\ pipe.stuckSince <= healthNow
            /\ health.clearAt <= healthNow /\ healthSeen.gap <= healthNow

\* The stall's clock starts with the backlog, or one sample after a gap: as long
\* as it has not started, the last sample was a gap.
StallClockInv ==
  /\ health.clearAt = Zero => healthSeen.gap >= healthNow - (IF healthSampled THEN 0 ELSE 1)
  /\ pipe.spool > 0 => health.clearAt <= pipe.stuckSince \/ health.clearAt <= healthSeen.gap + 1

\* Every sample since the stall's threshold has been a bad one.
LastSample == IF healthSampled THEN healthNow ELSE healthNow - 1
StreakInv ==
  pipe.spool > 0 =>
    \/ health.streak >= LastSample - pipe.stuckSince - 1 - SpoolStallAfter
    \/ health.streak >= LastSample - healthSeen.gap - 1 - SpoolStallAfter

\* The verdict is the streak's, and a bad sample has a cause.
VerdictInv == /\ healthSampled => health.healthy = (health.streak < ConfirmSamples)
              /\ health.streak <= healthSeen.waiting

HealthInv == HealthTypes /\ ClockInv /\ StallClockInv /\ StreakInv /\ VerdictInv

\* What the invariants say of the numbers the parts hold.
LEMMA HealthNumbers ==
  ASSUME HealthTypes
  PROVE  /\ healthNow \in Nat /\ healthNow > 0
         /\ pipe.queue \in Nat /\ pipe.spool \in Nat /\ pipe.lastEvent \in Nat
         /\ pipe.lastAdvance \in Nat /\ pipe.stuckSince \in Nat
         /\ health.streak \in Nat /\ health.clearAt \in Nat /\ health.lastAlert \in Nat /\ health.healthy \in BOOLEAN
         /\ healthSeen.waiting \in Nat /\ healthSeen.gap \in Nat
BY DEF HealthTypes, PipeType, MonitorState

\* A step of the pipeline that leaves the backlog's clock running or restarts it.
LEMMA PipeKeeps ==
  ASSUME HealthInv, NEW p \in PipeType, PipeStep(p),
         \/ p.lastAdvance = pipe.lastAdvance /\ p.stuckSince = pipe.stuckSince /\ pipe.spool > 0
         \/ p.lastAdvance = pipe.lastAdvance /\ p.stuckSince = pipe.stuckSince /\ p.spool = pipe.spool
         \/ p.lastAdvance \in {pipe.lastAdvance, healthNow} /\ p.stuckSince = healthNow
  PROVE  HealthInv'
<1>. USE HealthAssumption DEF Zero
<1>1. /\ pipe' = p /\ healthNow' = healthNow /\ health' = health /\ healthSeen' = healthSeen
      /\ healthSampled' = healthSampled
  BY DEF PipeStep
<1>2. HealthTypes /\ ClockInv /\ StallClockInv /\ StreakInv /\ VerdictInv
  BY DEF HealthInv
<1>3. HealthTypes'
  BY <1>1, <1>2 DEF HealthTypes
<1>4. /\ p.spool \in Nat /\ p.lastAdvance \in Nat /\ p.stuckSince \in Nat
      /\ SpoolStallAfter \in Nat
  BY DEF PipeType
<1>5. ClockInv'
  BY <1>1, <1>2, <1>4, HealthNumbers DEF ClockInv
<1>6. StallClockInv'
  BY <1>1, <1>2, <1>4, HealthNumbers DEF StallClockInv, ClockInv
<1>7. StreakInv'
  BY <1>1, <1>2, <1>4, HealthNumbers DEF StreakInv, ClockInv, LastSample, HealthTypes
<1>8. VerdictInv'
  BY <1>1, <1>2 DEF VerdictInv
<1>. QED  BY <1>3, <1>5, <1>6, <1>7, <1>8 DEF HealthInv

\* A sample: the numbers it leaves behind, and why.
LEMMA SampleFacts ==
  ASSUME HealthInv, NEW ok \in SUBSET Signals, Sample(ok)
  PROVE  /\ healthNow' = healthNow /\ pipe' = pipe /\ healthSampled = FALSE /\ healthSampled' = TRUE
         /\ HealthTypes'
         /\ health'.streak = Streak(Unhealthy(ok)) /\ health'.clearAt = ClearAt(ok)
         /\ health'.healthy = ~(Streak(Unhealthy(ok)) >= ConfirmSamples)
         /\ healthSeen'.gap = healthNow \/ (healthSeen'.gap = healthSeen.gap /\ "spool" \in ok)
         /\ healthSeen'.waiting = IF pipe.queue > 0 \/ pipe.spool > 0 \/ "queue" \notin ok
                                  THEN healthSeen.waiting + 1 ELSE 0
         /\ health'.lastAlert = health.lastAlert \/ Streak(Unhealthy(ok)) >= ConfirmSamples
<1>. DEFINE bad == Unhealthy(ok)
            confirmed == Streak(bad) >= ConfirmSamples
            lost == (IF QueueVisible THEN Signals ELSE Signals \ {"queue"}) \ ok
            alert == IF confirmed /\ ~Throttled THEN healthNow ELSE health.lastAlert
            w == IF pipe.queue > 0 \/ pipe.spool > 0 \/ "queue" \notin ok THEN healthSeen.waiting + 1 ELSE 0
            g == IF lost # {} THEN healthNow ELSE healthSeen.gap
<1>1. /\ ~healthSampled /\ healthSampled' = TRUE /\ healthNow' = healthNow /\ pipe' = pipe
      /\ health' = [streak |-> Streak(bad), clearAt |-> ClearAt(ok), healthy |-> ~confirmed, lastAlert |-> alert]
      /\ healthSeen' = [waiting |-> w, gap |-> g]
  BY DEF Sample
<1>2. HealthTypes
  BY DEF HealthInv
<1>3. Streak(bad) \in Nat
  <2>. HIDE DEF bad
  <2>. QED  BY <1>2, HealthNumbers DEF Streak
<1>4. ClearAt(ok) \in Nat
  BY <1>2, HealthNumbers DEF ClearAt
<1>5. alert \in Nat /\ (alert = health.lastAlert \/ confirmed)
  <2>. HIDE DEF bad
  <2>. QED  BY <1>2, HealthNumbers
<1>6. w \in Nat
  BY <1>2, HealthNumbers
<1>7. g \in Nat /\ (g = healthNow \/ (g = healthSeen.gap /\ "spool" \in ok))
  <2>1. g \in {healthNow, healthSeen.gap}
    OBVIOUS
  <2>2. lost = {} => "spool" \in ok
    BY DEF Signals
  <2>. QED  BY <1>2, <2>1, <2>2, HealthNumbers
<1>8. (~confirmed) \in BOOLEAN
  OBVIOUS
<1>. HIDE DEF bad, confirmed, lost, alert, w, g
<1>9. health' \in MonitorState /\ healthSeen' \in [waiting : Nat, gap : Nat]
  BY <1>1, <1>3, <1>4, <1>5, <1>6, <1>7, <1>8 DEF MonitorState
<1>10. HealthTypes'
  BY <1>1, <1>2, <1>9 DEF HealthTypes
<1>11. healthSampled = FALSE
  BY <1>1, <1>2 DEF HealthTypes
<1>. QED  BY <1>1, <1>5, <1>7, <1>10, <1>11 DEF bad, confirmed, w

\* A bad sample found something waiting, or could not see the queue.
LEMMA BadHasACause ==
  ASSUME HealthTypes, NEW ok, Unhealthy(ok)
  PROVE  pipe.queue > 0 \/ pipe.spool > 0 \/ "queue" \notin ok
<1>. USE HealthAssumption
<1>1. pipe.queue \in Nat /\ pipe.spool \in Nat /\ MaxQueueDepth \in Nat
  BY HealthNumbers
<1>2. ASSUME EventBad(ok) PROVE pipe.queue > 0 \/ "queue" \notin ok
  BY <1>1, <1>2 DEF EventBad
<1>3. ASSUME QueueBad(ok) PROVE pipe.queue > 0
  BY <1>1, <1>3 DEF QueueBad
<1>4. ASSUME SpoolBad(ok) PROVE pipe.spool > 0
  BY <1>4 DEF SpoolBad
<1>. QED  BY <1>2, <1>3, <1>4 DEF Unhealthy

\* A sample keeps the invariant.
LEMMA SampleKeeps ==
  ASSUME HealthInv, NEW ok \in SUBSET Signals, Sample(ok)
  PROVE  HealthInv'
<1>. DEFINE bad == Unhealthy(ok)
<1>0. HealthTypes /\ ClockInv /\ StallClockInv /\ StreakInv /\ VerdictInv
  BY DEF HealthInv
<1>1. /\ healthNow' = healthNow /\ pipe' = pipe /\ healthSampled = FALSE /\ healthSampled' = TRUE
      /\ HealthTypes'
  BY SampleFacts
<1>2. health'.streak = (IF bad THEN health.streak + 1 ELSE 0) /\ health'.clearAt = ClearAt(ok)
  BY SampleFacts DEF Streak
<1>3. healthSeen'.gap = healthNow \/ (healthSeen'.gap = healthSeen.gap /\ "spool" \in ok)
  BY SampleFacts
<1>n. /\ healthNow \in Nat /\ healthNow > 0 /\ pipe.spool \in Nat /\ pipe.lastAdvance \in Nat
      /\ pipe.stuckSince \in Nat /\ health.streak \in Nat /\ health.clearAt \in Nat
      /\ healthSeen.waiting \in Nat /\ healthSeen.gap \in Nat
  BY <1>0, HealthNumbers
<1>s. SpoolStallAfter \in Nat /\ ConfirmSamples \in Nat
  BY HealthAssumption
<1>c. \/ ClearAt(ok) = healthNow /\ "spool" \in ok /\ (health.clearAt = 0 \/ pipe.spool = 0)
      \/ ClearAt(ok) = health.clearAt /\ ("spool" \in ok => health.clearAt # 0)
  BY DEF ClearAt, Zero
<1>k. pipe.spool > 0 => \/ ClearAt(ok) <= pipe.stuckSince
                        \/ ClearAt(ok) <= healthSeen.gap + 1
  BY <1>0, <1>1, <1>n, <1>c DEF StallClockInv, Zero
<1>4. ClockInv'
  BY <1>0, <1>1, <1>2, <1>3, <1>n, <1>c DEF ClockInv
<1>5. StallClockInv'
  <2>1. ASSUME health'.clearAt = 0 PROVE healthSeen'.gap >= healthNow
    BY <1>2, <1>3, <1>n, <1>c, <2>1
  <2>2. ASSUME pipe.spool > 0 PROVE health'.clearAt <= pipe.stuckSince \/ health'.clearAt <= healthSeen'.gap + 1
    BY <1>0, <1>2, <1>3, <1>n, <1>c, <1>k, <2>2 DEF ClockInv
  <2>. QED  BY <1>1, <1>n, <2>1, <2>2 DEF StallClockInv, Zero
<1>6. StreakInv'
  <2>1. CASE healthSeen'.gap = healthNow
    <3>1. health'.streak \in Nat
      BY <1>1 , HealthNumbers DEF HealthTypes, MonitorState
    <3>. QED  BY <1>1, <1>n, <1>s, <2>1, <3>1 DEF StreakInv, LastSample
  <2>2. CASE healthSeen'.gap = healthSeen.gap /\ "spool" \in ok
    <3>1. CASE bad
      <4>1. health'.streak = health.streak + 1
        BY <1>2, <3>1
      <4>. QED  BY <1>0, <1>1, <1>n, <1>s, <2>2, <4>1 DEF StreakInv, LastSample
    <3>2. CASE ~bad
      <4>1. health'.streak = 0
        BY <1>2, <3>2
      <4>2. ClearAt(ok) \in Nat
        BY <1>n, <1>c
      <4>3. pipe.spool > 0 => ~(healthNow - Max({pipe.lastAdvance, ClearAt(ok)}) > SpoolStallAfter)
        BY <2>2, <3>2 DEF Unhealthy, SpoolBad, Stalled
      <4>4. Max({pipe.lastAdvance, ClearAt(ok)}) = IF pipe.lastAdvance >= ClearAt(ok) THEN pipe.lastAdvance ELSE ClearAt(ok)
        BY <1>n, <4>2, MaxOfTwo
      <4>5. pipe.spool > 0 => healthNow - pipe.lastAdvance <= SpoolStallAfter \/ healthNow - ClearAt(ok) <= SpoolStallAfter
        BY <1>n, <1>s, <4>2, <4>3, <4>4
      <4>6. pipe.spool > 0 => \/ 0 >= healthNow - pipe.stuckSince - 1 - SpoolStallAfter
                              \/ 0 >= healthNow - healthSeen.gap - 1 - SpoolStallAfter
        BY <1>0, <1>n, <1>s, <1>k, <4>2, <4>5 DEF ClockInv
      <4>. QED  BY <1>1, <2>2, <4>1, <4>6 DEF StreakInv, LastSample
    <3>. QED  BY <3>1, <3>2
  <2>. QED  BY <1>3, <2>1, <2>2
<1>7. VerdictInv'
  <2>1. health'.healthy = ~(health'.streak >= ConfirmSamples)
    BY SampleFacts
  <2>2. health'.streak \in Nat
    BY <1>1, HealthNumbers DEF HealthTypes, MonitorState
  <2>3. health'.healthy = (health'.streak < ConfirmSamples)
    BY <1>s, <2>1, <2>2
  <2>4. health'.streak <= healthSeen'.waiting
    <3>1. CASE bad
      <4>1. pipe.queue > 0 \/ pipe.spool > 0 \/ "queue" \notin ok
        BY <1>0, <3>1, BadHasACause
      <4>2. healthSeen'.waiting = healthSeen.waiting + 1
        BY <4>1, SampleFacts
      <4>. QED  BY <1>0, <1>2, <1>n, <3>1, <4>2 DEF VerdictInv
    <3>2. CASE ~bad
      <4>1. healthSeen'.waiting \in Nat
        BY <1>1 DEF HealthTypes
      <4>. QED  BY <1>2, <3>2, <4>1
    <3>. QED  BY <3>1, <3>2
  <2>. QED  BY <2>3, <2>4 DEF VerdictInv
<1>. QED  BY <1>1, <1>4, <1>5, <1>6, <1>7 DEF HealthInv

\* A step keeps the invariant.
LEMMA HealthStep == ASSUME HealthInv, HealthNext PROVE HealthInv'
<1>0. HealthTypes /\ ClockInv /\ StallClockInv /\ StreakInv /\ VerdictInv
  BY DEF HealthInv
<1>n. /\ pipe \in PipeType /\ pipe.queue \in Nat /\ pipe.spool \in Nat /\ pipe.lastEvent \in Nat
      /\ pipe.lastAdvance \in Nat /\ pipe.stuckSince \in Nat /\ healthNow \in Nat /\ healthNow > 0
      /\ health.streak \in Nat /\ health.clearAt \in Nat /\ healthSeen.waiting \in Nat /\ healthSeen.gap \in Nat
  BY <1>0, HealthNumbers DEF HealthTypes
<1>s. SpoolStallAfter \in Nat /\ ConfirmSamples \in Nat /\ ConfirmSamples > 0
  BY HealthAssumption
<1>1. CASE Enqueue
  <2>. DEFINE p == [pipe EXCEPT !.queue = @ + 1]
  <2>1. p \in PipeType /\ p.lastAdvance = pipe.lastAdvance /\ p.stuckSince = pipe.stuckSince /\ p.spool = pipe.spool
    BY <1>n DEF PipeType
  <2>2. PipeStep(p)
    BY <1>1 DEF Enqueue
  <2>. HIDE DEF p
  <2>. QED  BY <2>1, <2>2, PipeKeeps
<1>2. CASE Persist
  <2>. DEFINE p == [pipe EXCEPT !.queue = @ - 1, !.lastEvent = healthNow]
  <2>0. pipe.queue - 1 \in Nat
    BY <1>2, <1>n DEF Persist
  <2>1. p \in PipeType /\ p.lastAdvance = pipe.lastAdvance /\ p.stuckSince = pipe.stuckSince /\ p.spool = pipe.spool
    BY <1>n, <2>0 DEF PipeType
  <2>2. PipeStep(p)
    BY <1>2 DEF Persist
  <2>. HIDE DEF p
  <2>. QED  BY <2>1, <2>2, PipeKeeps
<1>3. CASE SpoolAppend
  <2>. DEFINE p == [pipe EXCEPT !.spool = @ + 1, !.stuckSince = IF pipe.spool = 0 THEN healthNow ELSE @]
  <2>1. p \in PipeType /\ p.lastAdvance = pipe.lastAdvance
          /\ p.stuckSince = IF pipe.spool = 0 THEN healthNow ELSE pipe.stuckSince
    <3>1. pipe.spool + 1 \in Nat /\ (IF pipe.spool = 0 THEN healthNow ELSE pipe.stuckSince) \in Nat
      BY <1>n
    <3>. QED  BY <1>n, <3>1 DEF PipeType
  <2>2. PipeStep(p)
    BY <1>3 DEF SpoolAppend
  <2>. HIDE DEF p
  <2>3. \/ p.lastAdvance = pipe.lastAdvance /\ p.stuckSince = pipe.stuckSince /\ pipe.spool > 0
        \/ p.lastAdvance \in {pipe.lastAdvance, healthNow} /\ p.stuckSince = healthNow
    BY <1>n, <2>1
  <2>. QED  BY <2>1, <2>2, <2>3, PipeKeeps
<1>4. CASE SpoolAdvance
  <2>. DEFINE p == [pipe EXCEPT !.spool = @ - 1, !.lastEvent = healthNow,
                                !.lastAdvance = healthNow, !.stuckSince = healthNow]
  <2>0. pipe.spool - 1 \in Nat
    BY <1>4, <1>n DEF SpoolAdvance
  <2>1. p \in PipeType /\ p.lastAdvance = healthNow /\ p.stuckSince = healthNow
    BY <1>n, <2>0 DEF PipeType
  <2>2. PipeStep(p)
    BY <1>4 DEF SpoolAdvance
  <2>. HIDE DEF p
  <2>. QED  BY <2>1, <2>2, PipeKeeps
<1>5. ASSUME NEW ok \in SUBSET Signals, Sample(ok) PROVE HealthInv'
  BY <1>5, SampleKeeps
<1>6. CASE HealthTick
  <2>1. /\ healthSampled = TRUE /\ healthNow' = healthNow + 1 /\ healthSampled' = FALSE
        /\ pipe' = pipe /\ health' = health /\ healthSeen' = healthSeen
    BY <1>6, <1>0 DEF HealthTick, HealthTypes
  <2>2. HealthTypes'
    <3>1. healthNow + 1 \in Nat \ {0}
      BY <1>n
    <3>. QED  BY <1>0, <2>1, <3>1 DEF HealthTypes
  <2>3. ClockInv' /\ StallClockInv'
    BY <1>0, <1>n, <2>1 DEF ClockInv, StallClockInv, Zero
  <2>4. StreakInv'
    BY <1>0, <1>n, <1>s, <2>1 DEF StreakInv, LastSample
  <2>5. VerdictInv'
    BY <1>0, <2>1 DEF VerdictInv
  <2>. QED  BY <2>2, <2>3, <2>4, <2>5 DEF HealthInv
<1>7. CASE HealthRestart
  <2>1. /\ health' = NewMonitorState /\ healthSampled' = FALSE /\ healthSeen' = [waiting |-> 0, gap |-> healthNow]
        /\ healthNow' = healthNow /\ pipe' = pipe
    BY <1>7 DEF HealthRestart
  <2>2. /\ health' \in MonitorState /\ health'.streak = 0 /\ health'.clearAt = 0
    BY <2>1 DEF NewMonitorState, MonitorState, Zero
  <2>3. healthSeen' \in [waiting : Nat, gap : Nat] /\ healthSeen'.waiting = 0 /\ healthSeen'.gap = healthNow
    BY <1>n, <2>1
  <2>4. HealthTypes'
    BY <1>0, <2>1, <2>2, <2>3 DEF HealthTypes
  <2>5. ClockInv' /\ StallClockInv'
    BY <1>0, <1>n, <2>1, <2>2, <2>3 DEF ClockInv, StallClockInv, Zero
  <2>6. StreakInv'
    BY <1>n, <1>s, <2>1, <2>2, <2>3 DEF StreakInv, LastSample
  <2>7. VerdictInv'
    BY <2>1, <2>2, <2>3 DEF VerdictInv
  <2>. QED  BY <2>4, <2>5, <2>6, <2>7 DEF HealthInv
<1>. QED
  BY <1>1, <1>2, <1>3, <1>4, <1>5, <1>6, <1>7 DEF HealthNext

\* Nothing was sampled yet.
LEMMA HealthInitInv == HealthInit => HealthInv
<1>. SUFFICES ASSUME HealthInit PROVE HealthInv
  OBVIOUS
<1>1. /\ healthNow = 1 /\ healthSampled = FALSE /\ health = NewMonitorState /\ healthSeen = [waiting |-> 0, gap |-> 1]
      /\ pipe = [queue |-> 0, spool |-> 0, lastEvent |-> Zero, lastAdvance |-> Zero, stuckSince |-> Zero]
  BY DEF HealthInit
<1>2. pipe \in PipeType /\ pipe.spool = 0 /\ pipe.lastAdvance = 0 /\ pipe.stuckSince = 0
  BY <1>1 DEF PipeType, Zero
<1>3. health \in MonitorState /\ health.streak = 0 /\ health.clearAt = 0
  BY <1>1 DEF NewMonitorState, MonitorState, Zero
<1>4. healthSeen \in [waiting : Nat, gap : Nat] /\ healthSeen.waiting = 0 /\ healthSeen.gap = 1
  BY <1>1
<1>5. HealthTypes
  <2>1. 1 \in Nat \ {0}
    OBVIOUS
  <2>. QED  BY <1>1, <1>2, <1>3, <1>4, <2>1 DEF HealthTypes
<1>6. ClockInv /\ StallClockInv /\ StreakInv /\ VerdictInv
  BY <1>1, <1>2, <1>3, <1>4 DEF ClockInv, StallClockInv, StreakInv, VerdictInv, Zero
<1>. QED  BY <1>5, <1>6 DEF HealthInv

\* The invariant holds in every state.
LEMMA HealthAlways == HealthSpec => []HealthInv
<1>1. HealthInv /\ [HealthNext]_healthVars => HealthInv'
  <2>1. HealthInv /\ UNCHANGED healthVars => HealthInv'
    BY DEF HealthInv, HealthTypes, ClockInv, StallClockInv, StreakInv, LastSample, VerdictInv, healthVars
  <2>. QED  BY <2>1, HealthStep
<1>. QED  BY <1>1, HealthInitInv, PTL DEF HealthSpec

\* A stalled spool turns the snapshot unhealthy in time, for every threshold,
\* every number of confirming samples and whatever the queue and the readings do.
THEOREM StallsAreSeen == HealthSpec => []StallIsSeen
<1>1. HealthInv => StallIsSeen
  <2>. SUFFICES ASSUME HealthInv, healthSampled, pipe.spool > 0,
                       healthNow - Max({pipe.stuckSince, healthSeen.gap}) > SpoolStallAfter + ConfirmSamples
                PROVE  ~health.healthy
    BY DEF StallIsSeen
  <2>0. HealthTypes /\ StreakInv /\ VerdictInv
    BY DEF HealthInv
  <2>1. /\ healthNow \in Nat /\ pipe.stuckSince \in Nat /\ healthSeen.gap \in Nat /\ health.streak \in Nat
        /\ health.healthy \in BOOLEAN
    BY <2>0, HealthNumbers
  <2>2. SpoolStallAfter \in Nat /\ ConfirmSamples \in Nat
    BY HealthAssumption
  <2>3. Max({pipe.stuckSince, healthSeen.gap}) = IF pipe.stuckSince >= healthSeen.gap THEN pipe.stuckSince ELSE healthSeen.gap
    BY <2>1, MaxOfTwo
  <2>4. health.streak >= ConfirmSamples
    BY <2>0, <2>1, <2>2, <2>3 DEF StreakInv, LastSample
  <2>5. health.healthy = (health.streak < ConfirmSamples)
    BY <2>0 DEF VerdictInv
  <2>6. ~(health.streak < ConfirmSamples)
    BY <2>1, <2>2, <2>4
  <2>. QED  BY <2>5, <2>6
<1>. QED  BY <1>1, HealthAlways, PTL

\* An alert goes out only after ConfirmSamples samples in a row that found
\* something waiting or could not see the queue.
THEOREM PagesHaveACause == HealthSpec => PageHasACause
<1>. DEFINE Page == health'.lastAlert # health.lastAlert => health'.lastAlert = Zero \/ healthSeen'.waiting >= ConfirmSamples
<1>1. ASSUME HealthInv, HealthInv', HealthNext PROVE Page
  <2>1. ASSUME NEW ok \in SUBSET Signals, Sample(ok) PROVE Page
    <3>1. health'.lastAlert = health.lastAlert \/ health'.streak >= ConfirmSamples
      BY <1>1, <2>1, SampleFacts
    <3>2. health'.streak <= healthSeen'.waiting /\ health'.streak \in Nat /\ healthSeen'.waiting \in Nat
      BY <1>1 DEF HealthInv, VerdictInv, HealthTypes, MonitorState
    <3>3. ConfirmSamples \in Nat
      BY HealthAssumption
    <3>. QED  BY <3>1, <3>2, <3>3
  <2>2. CASE Enqueue \/ Persist \/ SpoolAppend \/ SpoolAdvance \/ HealthTick
    BY <2>2 DEF Enqueue, Persist, SpoolAppend, SpoolAdvance, HealthTick, PipeStep
  <2>3. CASE HealthRestart
    BY <2>3 DEF HealthRestart, NewMonitorState
  <2>. QED  BY <1>1, <2>1, <2>2, <2>3 DEF HealthNext
<1>2. UNCHANGED healthVars => Page
  BY DEF healthVars
<1>3. HealthInv /\ HealthInv' /\ [HealthNext]_healthVars => [Page]_healthVars
  BY <1>1, <1>2
<1>. QED  BY <1>3, HealthAlways, PTL DEF HealthSpec, PageHasACause

----------------------------------------------------------------------------
(* Retention: a sweep deletes all it says it deleted, and nothing else. *)

EventRows == [id : Nat, project : RtProjects, at : Nat]
SweepRecords ==
  [pc : {"idle", "global", "windows", "visit", "project", "releases"}, scope : SUBSET RtProjects,
   cutoff : Int, deleted : Int, deadline : Int, windows : [RtProjects -> Nat], todo : SUBSET RtProjects]
PruneRecords ==
  [todo : SUBSET RtProjects, at : SUBSET RtProjects, cutoff : Int, room : Int, batches : Int]

RtTypes ==
  /\ rtNow \in Nat /\ rtNextId \in Nat
  /\ rtEvents \in SUBSET EventRows /\ IsFiniteSet(rtEvents)
  /\ rtWindow \in [RtProjects -> Nat]
  /\ rtReleases \in [RtProjects -> SUBSET Nat]
  /\ rtLast \in [RtProjects -> Nat]
  /\ rtSweep \in SweepRecords
  /\ rtPrune \in PruneRecords
  /\ rtDrained \in [RtProjects -> Int]

\* The cutoff of the pass under way never runs ahead of the window it is for.
SweepCutoffInv ==
  /\ rtSweep.pc = "global" => rtSweep.cutoff <= rtNow - RetentionDays
  /\ rtSweep.pc = "project" =>
       \A p \in rtSweep.scope : rtSweep.windows[p] > 0 /\ rtSweep.cutoff <= rtNow - rtSweep.windows[p]
  /\ \A p \in rtSweep.todo : rtSweep.windows[p] > 0

\* The cutoff of a release pass lies below the newest rows, and stays there
\* when releases are stored between its lookup and its delete.
PruneCutoffInv ==
  /\ \A p \in RtProjects : \A r \in rtReleases[p] : r <= rtLast[p]
  /\ \A p \in rtPrune.at : rtPrune.cutoff <= rtLast[p] - ReleasesKept

RtInv == RtTypes /\ SweepCutoffInv /\ PruneCutoffInv /\ DrainedMeansDrained /\ NewestReleasesKept

\* A batch that is not full holds every expired row: the oldest row it left
\* out would have had fewer older ones than the batch has room for.
LEMMA ShortBatchIsAll ==
  ASSUME RtTypes, NEW scope, NEW cutoff, LastBatch(Cardinality(Batch(scope, cutoff)))
  PROVE  Batch(scope, cutoff) = Expired(scope, cutoff)
<1> DEFINE due == Expired(scope, cutoff)
           in == Batch(scope, cutoff)
           rest == due \ in
           ats == {e.at : e \in rest}
<1>0. BatchSize \in Nat
  BY RtAssumption
<1>1. due \subseteq EventRows /\ IsFiniteSet(due)
  BY FS_Subset DEF RtTypes, Expired
<1>2. in \subseteq due /\ IsFiniteSet(in)
  BY <1>1, FS_Subset DEF Batch
<1>3. ASSUME rest # {} PROVE FALSE
  <2>1. ats \in SUBSET Nat /\ ats # {}
    BY <1>1, <1>3 DEF EventRows
  <2>2. Min(ats) \in ats /\ \A y \in ats : Min(ats) <= y
    BY <2>1, FirstTime
  <2>3. PICK a \in ats : \A y \in ats : a <= y
    BY <2>2
  <2> DEFINE ids == {e.id : e \in {f \in rest : f.at = a}}
  <2>4. ids \in SUBSET Nat /\ ids # {}
    BY <1>1, <2>3 DEF EventRows
  <2>5. Min(ids) \in ids /\ \A y \in ids : Min(ids) <= y
    BY <2>4, FirstTime
  <2>6. PICK e \in rest : e.at = a /\ \A f \in rest : f.at = a => e.id <= f.id
    BY <2>5
  <2> DEFINE older == {f \in due : OldestFirst(f, e)}
  <2>7. ASSUME NEW f \in older, f \notin in PROVE FALSE
    <3>1. f \in rest /\ f.at \in Nat /\ f.id \in Nat /\ e.at \in Nat /\ e.id \in Nat
      BY <1>1, <2>7 DEF EventRows
    <3>2. a <= f.at /\ (f.at = a => e.id <= f.id)
      BY <2>3, <2>6, <3>1
    <3>3. f.at < e.at \/ (f.at = e.at /\ f.id < e.id)
      BY DEF OldestFirst
    <3> QED
      BY <2>6, <3>1, <3>2, <3>3
  <2>8. older \in SUBSET in
    BY <2>7
  <2>9. Cardinality(older) <= Cardinality(in) /\ Cardinality(older) \in Nat /\ Cardinality(in) \in Nat
    BY <1>2, <2>8, FS_Subset, FS_CardinalityType
  <2>10. Cardinality(older) < BatchSize
    BY <1>0, <2>9 DEF LastBatch
  <2>11. e \in in
    BY <2>10 DEF Batch
  <2> QED
    BY <2>6, <2>11
<1> QED
  BY <1>2, <1>3

\* A row outside the kept ones has that many newer rows above it.
LEMMA RestIsOld ==
  ASSUME NEW R \in SUBSET Nat, NEW last \in Nat, \A q \in R : q <= last, NEW kept \in Nat,
         NEW r \in R, ~(Cardinality({q \in R : q > r}) < kept)
  PROVE  r <= last - kept
<1> DEFINE newer == {q \in R : q > r}
<1>1. r \in Nat /\ r <= last
  OBVIOUS
<1>2. newer \in SUBSET ((r + 1) .. last)
  <2>1. ASSUME NEW q \in newer PROVE q \in (r + 1) .. last
    <3>1. q \in Nat /\ q > r /\ q <= last
      BY <2>1
    <3> QED
      BY <1>1, <3>1
  <2> QED
    BY <2>1
<1>3. IsFiniteSet((r + 1) .. last) /\ Cardinality((r + 1) .. last) = last - r
  <2>1. r + 1 \in Int /\ last \in Int
    BY <1>1
  <2>2. /\ IsFiniteSet((r + 1) .. last)
        /\ Cardinality((r + 1) .. last) = IF r + 1 > last THEN 0 ELSE last - (r + 1) + 1
    BY <2>1, FS_Interval
  <2>3. last - r = IF r + 1 > last THEN 0 ELSE last - (r + 1) + 1
    BY <1>1
  <2> QED
    BY <2>2, <2>3
<1>4. Cardinality(newer) <= last - r /\ Cardinality(newer) \in Nat
  BY <1>2, <1>3, FS_Subset, FS_CardinalityType
<1> QED
  BY <1>1, <1>4

\* The sweep and its release pass are at rest.
LEMMA IdleTypes == IdleSweep \in SweepRecords /\ IdlePrune \in PruneRecords
BY DEF IdleSweep, IdlePrune, NoWindows, SweepRecords, PruneRecords

\* No step breaks it.
LEMMA RtStep == ASSUME RtInv, RtNext PROVE RtInv'
<1>0. RtTypes /\ SweepCutoffInv /\ PruneCutoffInv /\ DrainedMeansDrained /\ NewestReleasesKept
  BY DEF RtInv
<1>a. /\ RetentionDays \in Nat /\ BatchSize \in Nat /\ MaxReleaseBatches \in Nat /\ ReleasesKept \in Nat
      /\ SweepBudget \in Nat /\ Overrides \subseteq Nat
  BY RtAssumption
<1>1. ASSUME NEW p \in RtProjects, StoreRelease(p) PROVE RtInv'
  <2>1. rtLast' = [rtLast EXCEPT ![p] = @ + 1] /\ rtReleases' = [rtReleases EXCEPT ![p] = @ \cup {rtLast[p] + 1}]
        /\ UNCHANGED <<rtNow, rtEvents, rtNextId, rtWindow, rtSweep, rtPrune, rtDrained, rtBehind>>
    BY <1>1 DEF StoreRelease
  <2>2. RtTypes'
    BY <1>0, <2>1 DEF RtTypes
  <2>3. \A q \in RtProjects : rtLast[q] \in Nat /\ rtReleases[q] \in SUBSET Nat
    BY <1>0 DEF RtTypes
  <2>4. \A q \in RtProjects : rtLast'[q] = IF q = p THEN rtLast[q] + 1 ELSE rtLast[q]
    BY <1>0, <2>1 DEF RtTypes
  <2>5. \A q \in RtProjects : rtReleases'[q] = IF q = p THEN rtReleases[q] \cup {rtLast[q] + 1} ELSE rtReleases[q]
    BY <1>0, <2>1 DEF RtTypes
  <2>6. rtPrune.at \subseteq RtProjects /\ rtPrune.cutoff \in Int
    BY <1>0 DEF RtTypes, PruneRecords
  <2>7. PruneCutoffInv'
    <3>1. ASSUME NEW q \in RtProjects, NEW r \in rtReleases'[q] PROVE r <= rtLast'[q]
      <4>1. CASE r \in rtReleases[q]
        <5>1. r \in Nat /\ r <= rtLast[q] /\ rtLast[q] \in Nat
          BY <1>0, <2>3, <4>1 DEF PruneCutoffInv
        <5> QED
          BY <2>4, <5>1
      <4>2. CASE r \notin rtReleases[q]
        <5>1. q = p /\ r = rtLast[q] + 1
          BY <2>5, <3>1, <4>2
        <5> QED
          BY <2>3, <2>4, <5>1
      <4> QED
        BY <4>1, <4>2
    <3>2. ASSUME NEW q \in rtPrune.at PROVE rtPrune.cutoff <= rtLast'[q] - ReleasesKept
      BY <1>0, <1>a, <2>3, <2>4, <2>6, <3>2 DEF PruneCutoffInv
    <3> QED
      BY <2>1, <3>1, <3>2 DEF PruneCutoffInv
  <2>8. NewestReleasesKept'
    <3>1. ASSUME NEW q \in RtProjects, NEW r \in 1 .. rtLast'[q], r > rtLast'[q] - ReleasesKept
          PROVE  r \in rtReleases'[q]
      <4>1. r \in Nat /\ r >= 1 /\ (r = rtLast[q] + 1 \/ r <= rtLast[q])
        BY <2>3, <2>4, <3>1
      <4>2. CASE r = rtLast[q] + 1
        <5>1. q = p
          BY <2>3, <2>4, <3>1, <4>2
        <5> QED
          BY <2>5, <4>2, <5>1
      <4>3. CASE r <= rtLast[q]
        <5>1. r \in 1 .. rtLast[q] /\ r > rtLast[q] - ReleasesKept
          BY <1>a, <2>3, <2>4, <3>1, <4>1, <4>3
        <5>2. r \in rtReleases[q]
          BY <1>0, <5>1 DEF NewestReleasesKept
        <5> QED
          BY <2>5, <5>2
      <4> QED
        BY <4>1, <4>2, <4>3
    <3> QED
      BY <3>1 DEF NewestReleasesKept
  <2> QED
    BY <1>0, <2>1, <2>2, <2>7, <2>8 DEF RtInv, SweepCutoffInv, DrainedMeansDrained
<1>2. ASSUME NEW p \in RtProjects, VisitProject(p) PROVE RtInv'
  <2>1. /\ p \in rtSweep.todo
        /\ rtSweep' = [rtSweep EXCEPT !.pc = "project", !.scope = {p}, !.todo = @ \ {p}, !.deleted = 0,
                                      !.cutoff = rtNow - rtSweep.windows[p]]
        /\ UNCHANGED <<rtNow, rtEvents, rtNextId, rtWindow, rtReleases, rtLast, rtPrune, rtDrained, rtBehind>>
    BY <1>2 DEF VisitProject, rtData
  <2>2. rtNow \in Nat /\ rtSweep \in SweepRecords /\ rtSweep.windows \in [RtProjects -> Nat]
    BY <1>0 DEF RtTypes, SweepRecords
  <2>3. rtNow - rtSweep.windows[p] \in Int
    BY <2>2
  <2>4. rtSweep' \in SweepRecords
    <3> DEFINE c == rtNow - rtSweep.windows[p]
               left == rtSweep.todo \ {p}
    <3>1. c \in Int /\ left \in SUBSET RtProjects /\ {p} \in SUBSET RtProjects /\ 0 \in Int
      BY <2>2, <2>3 DEF SweepRecords
    <3>2. rtSweep' = [rtSweep EXCEPT !.pc = "project", !.scope = {p}, !.todo = left, !.deleted = 0, !.cutoff = c]
      BY <2>1, <2>2 DEF SweepRecords
    <3> HIDE DEF c, left
    <3> QED
      BY <2>2, <3>1, <3>2 DEF SweepRecords
  <2>5. /\ rtSweep'.pc = "project" /\ rtSweep'.scope = {p} /\ rtSweep'.todo \subseteq rtSweep.todo
        /\ rtSweep'.cutoff = rtNow - rtSweep.windows[p] /\ rtSweep'.windows = rtSweep.windows
    BY <2>1, <2>2 DEF SweepRecords
  <2>6. SweepCutoffInv'
    <3>1. \A q \in rtSweep.todo : rtSweep.windows[q] > 0
      BY <1>0 DEF SweepCutoffInv
    <3> QED
      BY <2>1, <2>3, <2>5, <3>1 DEF SweepCutoffInv
  <2> QED
    BY <1>0, <2>1, <2>4, <2>6 DEF RtInv, RtTypes, PruneCutoffInv, DrainedMeansDrained, NewestReleasesKept
<1>3. ASSUME NEW p \in RtProjects, PruneCutoff(p) PROVE RtInv'
  <2> DEFINE R == rtReleases[p]
             kept == {r \in R : Cardinality({q \in R : q > r}) < ReleasesKept}
             rest == R \ kept
             cut == IF rest = {} THEN 0 ELSE Max(rest)
  <2>1. /\ rtPrune' = [rtPrune EXCEPT !.todo = IF rtPrune.room = 0 THEN {} ELSE @ \ {p},
                                      !.at = IF rtPrune.room = 0 \/ rest = {} THEN {} ELSE {p},
                                      !.cutoff = cut]
        /\ UNCHANGED <<rtNow, rtEvents, rtNextId, rtWindow, rtReleases, rtLast, rtSweep, rtDrained, rtBehind>>
    BY <1>3 DEF PruneCutoff, rtData
  <2>2. R \in SUBSET Nat /\ rtLast[p] \in Nat /\ rtPrune \in PruneRecords
    BY <1>0 DEF RtTypes
  <2>3. \A r \in R : r <= rtLast[p]
    BY <1>0 DEF PruneCutoffInv
  <2>4. rest # {} => Max(rest) \in rest
    <3>1. rest \in SUBSET Nat /\ \A r \in rest : r <= rtLast[p]
      BY <2>2, <2>3
    <3> QED
      BY <2>2, <3>1, LastSecond
  <2>5. cut \in Nat
    BY <2>2, <2>4
  <2>6. rest # {} => cut <= rtLast[p] - ReleasesKept
    <3>1. ASSUME NEW r \in rest PROVE r <= rtLast[p] - ReleasesKept
      <4>1. r \in R /\ ~(Cardinality({q \in R : q > r}) < ReleasesKept)
        BY <3>1
      <4> QED
        BY <1>a, <2>2, <2>3, <4>1, RestIsOld
    <3> QED
      BY <2>4, <3>1
  <2>7. rtPrune' \in PruneRecords
    <3> DEFINE left == IF rtPrune.room = 0 THEN {} ELSE rtPrune.todo \ {p}
               now == IF rtPrune.room = 0 \/ rest = {} THEN {} ELSE {p}
    <3>1. left \in SUBSET RtProjects /\ now \in SUBSET RtProjects /\ cut \in Int
      BY <2>2, <2>5 DEF PruneRecords
    <3>2. rtPrune' = [rtPrune EXCEPT !.todo = left, !.at = now, !.cutoff = cut]
      BY <2>1, <2>2 DEF PruneRecords
    <3> HIDE DEF left, now, cut
    <3> QED
      BY <2>2, <3>1, <3>2 DEF PruneRecords
  <2>8. rtPrune'.cutoff = cut /\ rtPrune'.at \subseteq {p} /\ (rest = {} => rtPrune'.at = {})
    BY <2>1, <2>2 DEF PruneRecords
  <2>9. PruneCutoffInv'
    <3>1. \A q \in rtPrune'.at : rtPrune'.cutoff <= rtLast[q] - ReleasesKept
      BY <2>6, <2>8
    <3> QED
      BY <1>0, <2>1, <3>1 DEF PruneCutoffInv
  <2> QED
    BY <1>0, <2>1, <2>7, <2>9 DEF RtInv, RtTypes, SweepCutoffInv, DrainedMeansDrained, NewestReleasesKept
<1>4. ASSUME NEW p \in RtProjects, PruneDelete(p) PROVE RtInv'
  <2>1. /\ p \in rtPrune.at
        /\ rtReleases' = [rtReleases EXCEPT ![p] = @ \ Pruned(p)]
        /\ rtPrune' = [rtPrune EXCEPT !.at = {}, !.room = @ - Cardinality(Pruned(p))]
        /\ UNCHANGED <<rtNow, rtEvents, rtNextId, rtWindow, rtLast, rtSweep, rtDrained, rtBehind>>
    BY <1>4 DEF PruneDelete, rtData
  <2>2. rtReleases[p] \in SUBSET Nat /\ rtLast[p] \in Nat /\ rtPrune \in PruneRecords
    BY <1>0 DEF RtTypes
  <2>3. Pruned(p) \subseteq {r \in rtReleases[p] : r <= rtPrune.cutoff}
    BY DEF Pruned
  <2>4. Cardinality(Pruned(p)) \in Nat
    <3>1. \A r \in Pruned(p) : r <= rtLast[p]
      BY <1>0, <2>3 DEF PruneCutoffInv
    <3>2. Pruned(p) \in SUBSET Nat
      BY <2>2, <2>3
    <3> QED
      BY <2>2, <3>1, <3>2, FS_BoundedSetOfNaturals, FS_CardinalityType
  <2>5. rtPrune' \in PruneRecords /\ rtPrune'.at = {}
    <3> DEFINE room == rtPrune.room - Cardinality(Pruned(p))
    <3>1. room \in Int
      BY <2>2, <2>4 DEF PruneRecords
    <3>2. rtPrune' = [rtPrune EXCEPT !.at = {}, !.room = room]
      BY <2>1, <2>2 DEF PruneRecords
    <3> HIDE DEF room
    <3> QED
      BY <2>2, <3>1, <3>2 DEF PruneRecords
  <2>6. rtReleases' \in [RtProjects -> SUBSET Nat] /\ \A q \in RtProjects : rtReleases'[q] \subseteq rtReleases[q]
    BY <1>0, <2>1 DEF RtTypes
  <2>7. PruneCutoffInv'
    BY <1>0, <2>1, <2>5, <2>6 DEF PruneCutoffInv
  <2>8. NewestReleasesKept'
    <3>1. ASSUME NEW q \in RtProjects, NEW r \in 1 .. rtLast[q], r > rtLast[q] - ReleasesKept
          PROVE  r \in rtReleases'[q]
      <4>1. r \in rtReleases[q]
        BY <1>0, <3>1 DEF NewestReleasesKept
      <4>2. CASE q # p
        BY <1>0, <2>1, <4>1, <4>2 DEF RtTypes
      <4>3. CASE q = p
        <5>1. rtPrune.cutoff <= rtLast[p] - ReleasesKept /\ rtPrune.cutoff \in Int
          BY <1>0, <2>1, <2>2 DEF PruneCutoffInv, PruneRecords
        <5>2. ~(r <= rtPrune.cutoff)
          BY <1>a, <2>2, <3>1, <4>3, <5>1
        <5>3. r \notin Pruned(p)
          BY <2>3, <5>2
        <5> QED
          BY <1>0, <2>1, <4>1, <4>3, <5>3 DEF RtTypes
      <4> QED
        BY <4>2, <4>3
    <3> QED
      BY <2>1, <3>1 DEF NewestReleasesKept
  <2> QED
    BY <1>0, <2>1, <2>5, <2>6, <2>7, <2>8 DEF RtInv, RtTypes, SweepCutoffInv, DrainedMeansDrained
<1>5. ASSUME NEW p \in RtProjects, NEW days \in Overrides, SetWindow(p, days) PROVE RtInv'
  <2>1. /\ rtWindow' = [rtWindow EXCEPT ![p] = days]
        /\ UNCHANGED <<rtNow, rtEvents, rtNextId, rtReleases, rtLast, rtSweep, rtPrune, rtDrained, rtBehind>>
    BY <1>5 DEF SetWindow
  <2>2. RtTypes'
    BY <1>0, <1>a, <2>1 DEF RtTypes
  <2> QED
    BY <1>0, <2>1, <2>2 DEF RtInv, SweepCutoffInv, PruneCutoffInv, DrainedMeansDrained, NewestReleasesKept
<1>6. ASSUME NEW p \in RtProjects, NEW at \in 0 .. RtMaxTime, StoreEvent(p, at) PROVE RtInv'
  <2> DEFINE e == [id |-> rtNextId, project |-> p, at |-> at]
  <2>1. /\ at \in {rtNow, rtNow - 2} /\ at >= 0
        /\ rtNextId' = rtNextId + 1 /\ rtEvents' = rtEvents \cup {e} /\ rtBehind' = rtBehind \cup {e}
        /\ UNCHANGED <<rtNow, rtWindow, rtReleases, rtLast, rtSweep, rtPrune, rtDrained>>
    BY <1>6 DEF StoreEvent
  <2>2. rtNow \in Nat /\ rtNextId \in Nat /\ rtEvents \in SUBSET EventRows /\ IsFiniteSet(rtEvents)
    BY <1>0 DEF RtTypes
  <2>3. e \in EventRows
    BY <2>1, <2>2 DEF EventRows
  <2>4. RtTypes'
    <3>1. IsFiniteSet(rtEvents')
      BY <2>1, <2>2, FS_AddElement
    <3> QED
      BY <1>0, <2>1, <2>2, <2>3, <3>1 DEF RtTypes
  <2>5. DrainedMeansDrained'
    BY <1>0, <2>1 DEF DrainedMeansDrained
  <2> QED
    BY <1>0, <2>1, <2>4, <2>5 DEF RtInv, SweepCutoffInv, PruneCutoffInv, NewestReleasesKept
<1>7. ASSUME SweepStart PROVE RtInv'
  <2>1. /\ rtSweep' = [IdleSweep EXCEPT !.pc = "global", !.scope = RtProjects,
                                        !.cutoff = rtNow - RetentionDays, !.deadline = rtNow + SweepBudget]
        /\ UNCHANGED <<rtNow, rtEvents, rtNextId, rtWindow, rtReleases, rtLast, rtPrune, rtDrained, rtBehind>>
    BY <1>7 DEF SweepStart, rtData
  <2>2. rtNow - RetentionDays \in Int /\ rtNow + SweepBudget \in Int
    BY <1>0, <1>a DEF RtTypes
  <2>3. /\ rtSweep' \in SweepRecords
        /\ rtSweep'.pc = "global" /\ rtSweep'.cutoff = rtNow - RetentionDays /\ rtSweep'.todo = {}
    BY <2>1, <2>2, IdleTypes DEF SweepRecords, IdleSweep
  <2>4. SweepCutoffInv'
    BY <2>1, <2>2, <2>3 DEF SweepCutoffInv
  <2> QED
    BY <1>0, <2>1, <2>3, <2>4 DEF RtInv, RtTypes, PruneCutoffInv, DrainedMeansDrained, NewestReleasesKept
<1>8. ASSUME DrainBatch PROVE RtInv'
  <2> DEFINE gone == Batch(rtSweep.scope, rtSweep.cutoff)
             n == Cardinality(gone)
             total == rtSweep.deleted + n
             over == LastBatch(n) \/ rtNow >= rtSweep.deadline \/ total >= MaxDeletes
  <2>1. /\ rtEvents' = rtEvents \ gone
        /\ rtSweep' = [rtSweep EXCEPT !.deleted = total, !.pc = IF over THEN AfterPass ELSE @]
        /\ rtDrained' = [p \in RtProjects |-> IF LastBatch(n) /\ p \in rtSweep.scope THEN rtSweep.cutoff ELSE rtDrained[p]]
        /\ rtBehind' = IF LastBatch(n) THEN {e \in rtBehind : e.project \notin rtSweep.scope} ELSE rtBehind
        /\ UNCHANGED <<rtNow, rtNextId, rtWindow, rtReleases, rtLast, rtPrune>>
    BY <1>8 DEF DrainBatch, rtData
  <2>2. rtSweep.pc \in {"global", "project"}
    BY <1>8 DEF DrainBatch
  <2>3. rtSweep \in SweepRecords /\ rtSweep.deleted \in Int /\ rtSweep.cutoff \in Int
    BY <1>0 DEF RtTypes, SweepRecords
  <2>4. gone \in SUBSET rtEvents /\ n \in Nat
    <3>1. gone \in SUBSET rtEvents
      BY DEF Batch, Expired
    <3> QED
      BY <1>0, <3>1, FS_Subset, FS_CardinalityType DEF RtTypes
  <2>5. total \in Int /\ AfterPass \in {"windows", "visit"}
    BY <2>3, <2>4 DEF AfterPass
  <2>6. /\ rtSweep' \in SweepRecords /\ rtSweep'.scope = rtSweep.scope /\ rtSweep'.cutoff = rtSweep.cutoff
        /\ rtSweep'.windows = rtSweep.windows /\ rtSweep'.todo = rtSweep.todo
        /\ rtSweep'.pc \in {rtSweep.pc, "windows", "visit"}
    <3> HIDE DEF gone, n, total, over
    <3> QED
      BY <2>1, <2>3, <2>5 DEF SweepRecords
  <2>7. IsFiniteSet(rtEvents') /\ rtEvents' \in SUBSET EventRows
    BY <1>0, <2>1, FS_Subset DEF RtTypes
  <2>8. rtDrained' \in [RtProjects -> Int]
    <3> HIDE DEF n
    <3> QED
      BY <1>0, <2>1, <2>3 DEF RtTypes
  <2>9. RtTypes'
    BY <1>0, <2>1, <2>6, <2>7, <2>8 DEF RtTypes
  <2>10. SweepCutoffInv'
    BY <1>0, <2>1, <2>6 DEF SweepCutoffInv
  <2>11. DrainedMeansDrained'
    <3>1. ASSUME NEW e \in rtEvents \ gone, e.at < rtDrained'[e.project] PROVE e \in rtBehind'
      <4>1. e.project \in RtProjects
        BY <1>0, <3>1 DEF RtTypes, EventRows
      <4>2. CASE LastBatch(n) /\ e.project \in rtSweep.scope
        <5>1. gone = Expired(rtSweep.scope, rtSweep.cutoff)
          BY <1>0, <4>2, ShortBatchIsAll
        <5>2. rtDrained'[e.project] = rtSweep.cutoff
          BY <2>1, <4>1, <4>2
        <5>3. e \in Expired(rtSweep.scope, rtSweep.cutoff)
          BY <3>1, <4>2, <5>2 DEF Expired
        <5> QED
          BY <3>1, <5>1, <5>3
      <4>3. CASE ~(LastBatch(n) /\ e.project \in rtSweep.scope)
        <5> HIDE DEF n, gone
        <5>1. rtDrained'[e.project] = rtDrained[e.project]
          BY <2>1, <4>1, <4>3
        <5>2. e \in rtBehind
          BY <1>0, <3>1, <5>1 DEF DrainedMeansDrained
        <5> QED
          BY <2>1, <4>3, <5>2
      <4> QED
        BY <4>2, <4>3
    <3> QED
      BY <2>1, <3>1 DEF DrainedMeansDrained
  <2> QED
    BY <1>0, <2>1, <2>9, <2>10, <2>11 DEF RtInv, PruneCutoffInv, NewestReleasesKept
<1>9. ASSUME BatchFails \/ VisitsDone PROVE RtInv'
  <2>1. /\ rtSweep' = [rtSweep EXCEPT !.pc = "releases"]
        /\ rtPrune' = [IdlePrune EXCEPT !.batches = MaxReleaseBatches]
        /\ UNCHANGED <<rtNow, rtEvents, rtNextId, rtWindow, rtReleases, rtLast, rtDrained, rtBehind>>
    BY <1>9 DEF BatchFails, VisitsDone, rtData
  <2>2. rtPrune' \in PruneRecords /\ rtPrune'.at = {}
    BY <1>a, <2>1, IdleTypes DEF PruneRecords, IdlePrune
  <2>3. rtSweep \in SweepRecords
    BY <1>0 DEF RtTypes
  <2>4. /\ rtSweep' \in SweepRecords /\ rtSweep'.pc = "releases"
        /\ rtSweep'.windows = rtSweep.windows /\ rtSweep'.todo = rtSweep.todo
    BY <2>1, <2>3 DEF SweepRecords
  <2> QED
    BY <1>0, <2>1, <2>2, <2>4 DEF RtInv, RtTypes, SweepCutoffInv, PruneCutoffInv, DrainedMeansDrained,
       NewestReleasesKept
<1>10. ASSUME ReadWindows PROVE RtInv'
  <2>1. /\ rtSweep' = [rtSweep EXCEPT !.pc = "visit", !.windows = rtWindow, !.deadline = rtNow + SweepBudget,
                                      !.todo = {p \in RtProjects : Shorter(rtWindow[p])}]
        /\ UNCHANGED <<rtNow, rtEvents, rtNextId, rtWindow, rtReleases, rtLast, rtPrune, rtDrained, rtBehind>>
    BY <1>10 DEF ReadWindows, rtData
  <2>2. rtSweep \in SweepRecords /\ rtWindow \in [RtProjects -> Nat] /\ rtNow + SweepBudget \in Int
    BY <1>0, <1>a DEF RtTypes
  <2>3. /\ rtSweep' \in SweepRecords /\ rtSweep'.pc = "visit" /\ rtSweep'.windows = rtWindow
        /\ rtSweep'.todo = {p \in RtProjects : Shorter(rtWindow[p])}
    BY <2>1, <2>2 DEF SweepRecords
  <2>4. SweepCutoffInv'
    BY <2>3 DEF SweepCutoffInv, Shorter
  <2> QED
    BY <1>0, <2>1, <2>3, <2>4 DEF RtInv, RtTypes, PruneCutoffInv, DrainedMeansDrained, NewestReleasesKept
<1>11. ASSUME PruneReleases PROVE RtInv'
  <2>1. UNCHANGED <<rtNow, rtEvents, rtNextId, rtWindow, rtReleases, rtLast, rtDrained, rtBehind>> /\ rtPrune.at = {}
    BY <1>11 DEF PruneReleases, rtData
  <2>2. CASE rtSweep' = IdleSweep /\ rtPrune' = IdlePrune
    <3>1. rtSweep'.pc = "idle" /\ rtSweep'.todo = {} /\ rtPrune'.at = {}
      BY <2>2 DEF IdleSweep, IdlePrune
    <3> QED
      BY <1>0, <2>1, <2>2, <3>1, IdleTypes DEF RtInv, RtTypes, SweepCutoffInv, PruneCutoffInv,
         DrainedMeansDrained, NewestReleasesKept
  <2>3. CASE UNCHANGED rtSweep /\ rtPrune' = [rtPrune EXCEPT !.todo = OverCap, !.room = BatchSize, !.batches = @ - 1]
    <3>1. rtPrune \in PruneRecords /\ OverCap \subseteq RtProjects
      BY <1>0 DEF RtTypes, OverCap
    <3>2. rtPrune' \in PruneRecords /\ rtPrune'.at = {}
      <4> DEFINE left == rtPrune.batches - 1
      <4>1. left \in Int /\ BatchSize \in Int /\ OverCap \in SUBSET RtProjects
        BY <1>a, <3>1 DEF PruneRecords
      <4>2. rtPrune' = [rtPrune EXCEPT !.todo = OverCap, !.room = BatchSize, !.batches = left]
        BY <2>3, <3>1 DEF PruneRecords
      <4> HIDE DEF left
      <4> QED
        BY <2>1, <3>1, <4>1, <4>2 DEF PruneRecords
    <3> QED
      BY <1>0, <2>1, <2>3, <3>2 DEF RtInv, RtTypes, SweepCutoffInv, PruneCutoffInv, DrainedMeansDrained,
         NewestReleasesKept
  <2> QED
    BY <1>11, <2>2, <2>3 DEF PruneReleases
<1>12. ASSUME PruneFails \/ RtRestart PROVE RtInv'
  <2>1. /\ UNCHANGED <<rtNow, rtEvents, rtNextId, rtWindow, rtReleases, rtLast, rtDrained, rtBehind>>
        /\ rtSweep' = IdleSweep /\ rtPrune' = IdlePrune
    BY <1>12 DEF PruneFails, RtRestart, rtData
  <2>2. rtSweep'.pc = "idle" /\ rtSweep'.todo = {} /\ rtPrune'.at = {}
    BY <2>1 DEF IdleSweep, IdlePrune
  <2> QED
    BY <1>0, <2>1, <2>2, IdleTypes DEF RtInv, RtTypes, SweepCutoffInv, PruneCutoffInv,
       DrainedMeansDrained, NewestReleasesKept
<1>13. ASSUME RtTick PROVE RtInv'
  <2>1. /\ rtNow' = rtNow + 1
        /\ UNCHANGED <<rtEvents, rtNextId, rtWindow, rtReleases, rtLast, rtSweep, rtPrune, rtDrained, rtBehind>>
    BY <1>13 DEF RtTick
  <2>2. RtTypes'
    BY <1>0, <2>1 DEF RtTypes
  <2>3. /\ rtNow \in Nat /\ rtSweep.cutoff \in Int /\ rtSweep.scope \subseteq RtProjects
        /\ \A p \in RtProjects : rtSweep.windows[p] \in Nat
    BY <1>0 DEF RtTypes, SweepRecords
  <2>4. SweepCutoffInv'
    <3>1. \A p \in rtSweep.scope : rtSweep.cutoff <= rtNow - rtSweep.windows[p]
                                   => rtSweep.cutoff <= rtNow' - rtSweep.windows[p]
      BY <2>1, <2>3
    <3>2. rtSweep.cutoff <= rtNow - RetentionDays => rtSweep.cutoff <= rtNow' - RetentionDays
      BY <1>a, <2>1, <2>3
    <3> QED
      BY <1>0, <2>1, <3>1, <3>2 DEF SweepCutoffInv
  <2> QED
    BY <1>0, <2>1, <2>2, <2>4 DEF RtInv, PruneCutoffInv, DrainedMeansDrained, NewestReleasesKept
<1> QED
  BY <1>1, <1>2, <1>3, <1>4, <1>5, <1>6, <1>7, <1>8, <1>9, <1>10, <1>11, <1>12, <1>13 DEF RtNext

\* Nothing is stored, and no sweep has run.
LEMMA RtInitInv == RtInit => RtInv
<1> SUFFICES ASSUME RtInit PROVE RtInv
  OBVIOUS
<1>1. ReleasesKept \in Nat
  BY RtAssumption
<1>2. RtTypes
  BY FS_EmptySet, IdleTypes DEF RtInit, RtTypes, NoWindows
<1>3. SweepCutoffInv /\ PruneCutoffInv
  BY DEF RtInit, SweepCutoffInv, PruneCutoffInv, IdleSweep, IdlePrune
<1>4. DrainedMeansDrained
  BY DEF RtInit, DrainedMeansDrained
<1>5. NewestReleasesKept
  BY DEF RtInit, NewestReleasesKept, NoWindows
<1> QED
  BY <1>2, <1>3, <1>4, <1>5 DEF RtInv

\* The invariant of the retention sweeps holds for ever.
LEMMA RtAlways == RtSpec => []RtInv
<1>1. RtInv /\ UNCHANGED rtVars => RtInv'
  BY DEF rtVars, RtInv, RtTypes, SweepCutoffInv, PruneCutoffInv, DrainedMeansDrained, NewestReleasesKept
<1> QED
  BY <1>1, RtInitInv, RtStep, PTL DEF RtSpec

\* Deployments of any size: a pass of the retention sweep that ended on a
\* short batch left no older event, and no release pass takes one of the
\* newest rows of a project, whatever is stored between its statements and
\* wherever it fails or the writer stops.
THEOREM SweepsKeepTheirWord == RtSpec => []SweepsSound
<1>1. RtInv => SweepsSound
  BY DEF RtInv, SweepsSound
<1> QED
  BY <1>1, RtAlways, PTL

\* What DrainBatch deletes has outlived the deployment's window, or the
\* window of its project that the sweep read; nothing else deletes events.
THEOREM EventsLive == RtSpec => EventsLiveTheirWindow
<1>1. ASSUME RtInv, [RtNext]_rtVars
      PROVE  \A e \in rtEvents \ rtEvents' :
               \/ e.at < rtNow - RetentionDays
               \/ rtSweep.windows[e.project] > 0 /\ e.at < rtNow - rtSweep.windows[e.project]
  <2>1. CASE DrainBatch
    <3>1. ASSUME NEW e \in rtEvents \ rtEvents'
          PROVE  \/ e.at < rtNow - RetentionDays
                 \/ rtSweep.windows[e.project] > 0 /\ e.at < rtNow - rtSweep.windows[e.project]
      <4>1. rtSweep.pc \in {"global", "project"} /\ e \in Batch(rtSweep.scope, rtSweep.cutoff)
        BY <2>1, <3>1 DEF DrainBatch
      <4>2. e.project \in rtSweep.scope /\ e.at < rtSweep.cutoff
        BY <4>1 DEF Batch, Expired
      <4>3. /\ e.at \in Nat /\ rtNow \in Nat /\ rtSweep.cutoff \in Int /\ e.project \in RtProjects
            /\ rtSweep.windows[e.project] \in Nat /\ RetentionDays \in Nat
        BY <1>1, <3>1, RtAssumption DEF RtInv, RtTypes, SweepRecords, EventRows
      <4>4. CASE rtSweep.pc = "global"
        <5>1. rtSweep.cutoff <= rtNow - RetentionDays
          BY <1>1, <4>4 DEF RtInv, SweepCutoffInv
        <5> QED
          BY <4>2, <4>3, <5>1
      <4>5. CASE rtSweep.pc = "project"
        <5>1. rtSweep.windows[e.project] > 0 /\ rtSweep.cutoff <= rtNow - rtSweep.windows[e.project]
          BY <1>1, <4>2, <4>5 DEF RtInv, SweepCutoffInv
        <5> QED
          BY <4>2, <4>3, <5>1
      <4> QED
        BY <4>1, <4>4, <4>5
    <3> QED
      BY <3>1
  <2>2. CASE ~DrainBatch
    <3>1. rtEvents \subseteq rtEvents'
      BY <1>1, <2>2 DEF RtNext, rtVars, rtData, StoreRelease, VisitProject, PruneCutoff, PruneDelete, SetWindow,
         StoreEvent, SweepStart, BatchFails, ReadWindows, VisitsDone, PruneReleases, PruneFails, RtRestart, RtTick
    <3> QED
      BY <3>1
  <2> QED
    BY <2>1, <2>2
<1>2. RtInv /\ [RtNext]_rtVars
      => [\A e \in rtEvents \ rtEvents' :
            \/ e.at < rtNow - RetentionDays
            \/ rtSweep.windows[e.project] > 0 /\ e.at < rtNow - rtSweep.windows[e.project]]_rtVars
  BY <1>1
<1> QED
  BY <1>2, RtAlways, PTL DEF RtSpec, EventsLiveTheirWindow

-----------------------------------------------------------------------------
(* Check-in monitors: the incidents follow them. *)

\* a row as far as it decides when the monitor is due, and whether an incident has begun
MonRow == [id : Nat \ {0}, interval : Nat, grace : Nat, schedule : MonSchedules \cup {{}}, zone : MonZones \cup {0},
           created : Nat, last : Nat \ {0}, state : {"ok", "missed", "error"}, since : Nat, emitted : Nat]
Storing == [pc : {"store"}, slug : MonSlugs, body : CheckInBody, at : Nat \ {0}]
Reporting == [pc : {"errored", "emitted", "lookup", "recover", "resolve"}, slug : MonSlugs, id : Nat \ {0}, at : Nat,
              kinds : {{}, {"error"}, Kinds}]
Entry == [slug : MonSlugs, row : MonRow]
Scanning(d) == d.pc \in {"mark", "report", "emitted"}

MonTypes ==
  /\ monNow \in Nat \ {0} /\ monIds \in Nat
  /\ monRows \in [MonSlugs -> MonRow \cup {NoRow}]
  /\ monIssues \in [Incidents -> {"none", "open", "resolved", "muted"}]
  /\ monDetector \in [pc : {"idle", "mark", "report", "emitted"}, at : Nat, todo : SUBSET Entry, cur : Entry \cup {NoRow}]
  /\ monClient \in [MonClients -> {IdleClient} \cup Storing \cup Reporting]
  /\ monStray \subseteq Incidents /\ monHuman \subseteq Incidents

\* No stamp lies in the future, and a beat of a monitor with an interval is long
\* over when the monitor is missed.
RowTimes(m) ==
  /\ m.id <= monIds /\ m.last <= monNow /\ m.since <= monNow /\ m.emitted <= monNow
  /\ m.schedule = {} => m.interval \in MonIntervals
  /\ m.state # "missed" => m.emitted <= m.last + StoreTimeout
  /\ m.state = "missed" /\ m.schedule = {} => m.last + m.interval < m.since

\* A check-in is within its deadline; its stamp is its own.
Waits(r) == IF r.pc = "store" THEN StoreTimeout ELSE ReportTimeout
ClientTimes ==
  \A c \in MonClients : monClient[c].pc # "idle" =>
    LET r == monClient[c] IN
      /\ r.at <= monNow /\ monNow <= r.at + Waits(r)
      /\ r.pc \in {"errored", "emitted"} <=> (r.pc # "store" /\ r.kinds = {})
      /\ r.pc = "store" =>
           /\ \A d \in MonClients : monClient[d].pc = "store" /\ monClient[d].at = r.at => d = c
           /\ \A s \in MonSlugs : monRows[s] # NoRow => monRows[s].last # r.at
           /\ Scanning(monDetector) => \A e \in monDetector.todo \cup {monDetector.cur} : e.row.last # r.at
      /\ r.pc # "store" => /\ r.id <= monIds
                           /\ monRows[r.slug] # NoRow => r.at <= monRows[r.slug].last + StoreTimeout

\* What the scan read of a monitor still holds, unless the monitor is another one by
\* now or has checked in since.
SameTimings(m, n) ==
  /\ m.interval = n.interval /\ m.grace = n.grace /\ m.schedule = n.schedule
  /\ m.zone = n.zone /\ m.created = n.created /\ m.last = n.last

ReadOf(e, st, d) ==
  LET m == monRows[e.slug] IN
    m.id = e.row.id => IF m.last = e.row.last THEN SameTimings(m, e.row) /\ m.state = st
                       ELSE d.at <= m.last + StoreTimeout
ScanSound ==
  Scanning(monDetector) =>
    LET d == monDetector IN
      /\ d.at <= monNow /\ d.cur # NoRow
      /\ \A e \in d.todo \cup {d.cur} : e.row.id <= monIds /\ e.row.last <= monNow
      /\ \A e \in d.todo : ReadOf(e, e.row.state, d) /\ e.slug # d.cur.slug /\ Verdict(e.row, d.at) \in {"mark", "report"}
      /\ \A e, f \in d.todo : e.slug = f.slug => e = f
      /\ d.pc = "mark" => ReadOf(d.cur, "ok", d) /\ d.at > NextDue(d.cur.row)
      /\ d.pc \in {"report", "emitted"} => ReadOf(d.cur, "missed", d)

\* An incident that is open has a monitor that is down, a recovery, or was left.
Opened(i) == monIssues[i] = "open"
OpenHasCause ==
  \A i \in Incidents :
    (monRows[i[1]] = NoRow \/ monRows[i[1]].state = "ok") /\ Opened(i) => Recovering(i) \/ i \in monStray

\* A miss that was reported is open, or a user closed it.
Shown(s) == Opened(<<s, "missed">>) \/ <<s, "missed">> \in monHuman
MissShown ==
  /\ \A i \in Incidents : monIssues[i] = "muted" => i \in monHuman
  /\ monDetector.pc = "emitted" =>
       LET m == monRows[monDetector.cur.slug] IN
         m.id = monDetector.cur.row.id /\ m.state = "missed" /\ m.schedule = {} => Shown(monDetector.cur.slug)
  /\ DownIsOpen

MonInv ==
  /\ MonTypes /\ (\A s \in MonSlugs : monRows[s] # NoRow => RowTimes(monRows[s]))
  /\ ClientTimes /\ ScanSound /\ OpenHasCause /\ MissShown

\* A row is a monitor or none, and none has no id.
LEMMA RowIs ==
  ASSUME MonTypes, NEW s \in MonSlugs
  PROVE  /\ monRows[s] # NoRow => monRows[s] \in MonRow
         /\ NoRow.id = 0 /\ NoRow \notin MonRow
<1>1. NoRow.id = 0 /\ \A m \in MonRow : m.id # 0
  BY DEF NoRow, MonRow
<1>. QED  BY <1>1 DEF MonTypes

\* The recovery of an incident goes through the kinds one by one.
LEMMA KindByKind ==
  ASSUME NEW r \in Reporting
  PROVE  /\ r.kinds = Kinds => /\ NextKind(r) \in Reporting /\ NextKind(r).pc = "lookup" /\ NextKind(r).kinds = {"error"}
                               /\ NextKind(r).slug = r.slug /\ NextKind(r).id = r.id /\ NextKind(r).at = r.at
                               /\ Kind(r) = "missed"
         /\ r.kinds # Kinds => NextKind(r) = IdleClient
         /\ r.kinds = {"error"} => Kind(r) = "error"
<1>1. Cardinality({}) = 0 /\ Cardinality({"error"}) = 1 /\ Cardinality(Kinds) = 2
  <2>1. IsFiniteSet({"missed"}) /\ Cardinality({"missed"}) = 1 /\ Kinds = {"missed"} \cup {"error"}
    BY FS_Singleton DEF Kinds
  <2>2. Cardinality({"missed"} \cup {"error"}) = 2
    BY <2>1, FS_AddElement
  <2>. QED  BY <2>1, <2>2, FS_EmptySet, FS_Singleton
<1>2. CASE r.kinds = Kinds
  <2>1. PICK x : x = [[r EXCEPT !.pc = "lookup"] EXCEPT !.kinds = {"error"}]
    OBVIOUS
  <2>2. NextKind(r) = x
    BY <1>1, <1>2, <2>1 DEF NextKind
  <2>3. x \in Reporting /\ x.pc = "lookup" /\ x.kinds = {"error"} /\ x.slug = r.slug /\ x.id = r.id /\ x.at = r.at
    BY <2>1 DEF Reporting
  <2>4. "missed" \in Kinds /\ Kinds # {"error"}
    BY DEF Kinds
  <2>. QED  BY <1>2, <2>2, <2>3, <2>4 DEF Kind
<1>3. CASE r.kinds # Kinds
  <2>1. r.kinds = {} \/ r.kinds = {"error"}
    BY <1>3 DEF Reporting
  <2>. QED  BY <1>1, <1>3, <2>1 DEF NextKind, Kind
<1>. QED  BY <1>2, <1>3

\* The scan goes to one of the rows that are left.
LEMMA ScanGoesOn ==
  ASSUME NEW d, d.todo \in SUBSET Entry
  PROVE  \/ Advance(d) = IdleDetector
         \/ \E e \in d.todo : Advance(d) = [d EXCEPT !.pc = Verdict(e.row, d.at), !.cur = e, !.todo = d.todo \ {e}]
<1>. SUFFICES ASSUME d.todo # {} PROVE \E e \in d.todo : \A y \in d.todo : e.row.id <= y.row.id
  BY DEF Advance
<1>1. DEFINE T == {e.row.id : e \in d.todo}
<1>2. T \in SUBSET Nat /\ T # {}
  BY DEF Entry, MonRow
<1>3. Min(T) \in T /\ \A k \in T : Min(T) <= k
  BY <1>2, FirstTime
<1>4. PICK e \in d.todo : e.row.id = Min(T)
  BY <1>3
<1>. QED  BY <1>3, <1>4

\* A check-in that goes on is still the one it was.
Continues(r, r2) ==
  \/ r2 = r
  \/ r2 = IdleClient
  \/ /\ r \in Reporting /\ r2 \in Reporting /\ r2.slug = r.slug /\ r2.id = r.id /\ r2.at = r.at
     /\ r2.pc \in {"errored", "emitted"} <=> r2.kinds = {}

Entries(d) == IF Scanning(d) THEN d.todo \cup {d.cur} ELSE {}

\* Check-ins that go on or end keep their times, as long as no monitor checks in.
LEMMA ClientsGoOn ==
  ASSUME MonTypes, ClientTimes, \A c \in MonClients : Continues(monClient[c], monClient'[c]),
         monNow' = monNow, monIds' = monIds,
         \A s \in MonSlugs : monRows'[s] # NoRow => monRows[s] # NoRow /\ monRows'[s].last = monRows[s].last,
         Entries(monDetector') \subseteq Entries(monDetector)
  PROVE  ClientTimes'
<1>1. IdleClient.pc = "idle" /\ \A c \in MonClients : monClient[c].pc # "idle" => monClient[c] \in Storing \cup Reporting
  BY DEF IdleClient, MonTypes
<1>. SUFFICES ASSUME NEW c \in MonClients, monClient'[c].pc # "idle"
              PROVE  LET r == monClient'[c] IN
      /\ r.at <= monNow /\ monNow <= r.at + Waits(r)
      /\ r.pc \in {"errored", "emitted"} <=> (r.pc # "store" /\ r.kinds = {})
      /\ r.pc = "store" =>
           /\ \A d \in MonClients : monClient'[d].pc = "store" /\ monClient'[d].at = r.at => d = c
           /\ \A s \in MonSlugs : monRows'[s] # NoRow => monRows'[s].last # r.at
           /\ Scanning(monDetector') => \A e \in monDetector'.todo \cup {monDetector'.cur} : e.row.last # r.at
      /\ r.pc # "store" => /\ r.id <= monIds
                           /\ monRows'[r.slug] # NoRow => r.at <= monRows'[r.slug].last + StoreTimeout
  BY DEF ClientTimes, Waits
<1>2. \A d \in MonClients : monClient'[d].pc = "store" => monClient'[d] = monClient[d]
  BY <1>1 DEF Continues, Reporting
<1>3. CASE monClient'[c] = monClient[c]
  <2>1. Scanning(monDetector') => \A e \in monDetector'.todo \cup {monDetector'.cur} :
                               Scanning(monDetector) /\ e \in monDetector.todo \cup {monDetector.cur}
    BY DEF Entries
  <2>2. monClient[c].pc # "store" => monClient[c].slug \in MonSlugs
    BY <1>1, <1>3 DEF Reporting, Storing
  <2>. QED  BY <1>2, <1>3, <2>1, <2>2 DEF ClientTimes
<1>4. CASE monClient'[c] # monClient[c]
  <2>1. monClient[c] \in Reporting /\ monClient'[c] \in Reporting /\ monClient'[c].slug = monClient[c].slug
        /\ monClient'[c].id = monClient[c].id /\ monClient'[c].at = monClient[c].at
        /\ (monClient'[c].pc \in {"errored", "emitted"} <=> monClient'[c].kinds = {})
    BY <1>1, <1>4 DEF Continues
  <2>2. monClient[c].pc \notin {"idle", "store"} /\ monClient'[c].pc # "store" /\ monClient[c].slug \in MonSlugs
    BY <2>1 DEF Reporting
  <2>. QED  BY <2>1, <2>2 DEF ClientTimes, Waits
<1>. QED  BY <1>3, <1>4

\* A row as the scan sees it: the same monitor, another one, or one that checked in since.
RowStays(s) ==
  \/ monRows'[s] = NoRow
  \/ /\ monRows[s] # NoRow /\ monRows'[s].id = monRows[s].id /\ SameTimings(monRows'[s], monRows[s])
     /\ monRows'[s].state = monRows[s].state
  \/ /\ monNow <= monRows'[s].last + StoreTimeout
     /\ \A e \in Entries(monDetector) : e.row.last # monRows'[s].last

\* What was read stays true or is known to be old.
LEMMA ReadStays ==
  ASSUME MonTypes, MonTypes', NEW e \in Entry, NEW st, NEW d, NEW d2, d2.at = d.at, d.at \in Nat, d.at <= monNow,
         RowStays(e.slug), ReadOf(e, st, d), e \in Entries(monDetector)
  PROVE  LET m == monRows'[e.slug] IN
           m.id = e.row.id => IF m.last = e.row.last THEN SameTimings(m, e.row) /\ m.state = st
                              ELSE d2.at <= m.last + StoreTimeout
<1>. SUFFICES ASSUME monRows'[e.slug].id = e.row.id
              PROVE IF monRows'[e.slug].last = e.row.last THEN SameTimings(monRows'[e.slug], e.row) /\ monRows'[e.slug].state = st
                    ELSE d.at <= monRows'[e.slug].last + StoreTimeout
  OBVIOUS
<1>1. e.row.id # 0 /\ NoRow.id = 0 /\ e.slug \in MonSlugs
  BY DEF Entry, MonRow, NoRow
<1>2. CASE /\ monRows[e.slug] # NoRow /\ monRows'[e.slug].id = monRows[e.slug].id
           /\ SameTimings(monRows'[e.slug], monRows[e.slug]) /\ monRows'[e.slug].state = monRows[e.slug].state
  BY <1>2 DEF ReadOf, SameTimings
<1>3. CASE /\ monNow <= monRows'[e.slug].last + StoreTimeout
           /\ monRows'[e.slug].last # e.row.last
  <2>1. PICK x : x = monRows'[e.slug].last
    OBVIOUS
  <2>2. monRows'[e.slug] \in MonRow /\ monNow \in Nat /\ StoreTimeout \in Nat
    BY <1>1, MonAssumption DEF MonTypes
  <2>3. x \in Nat
    BY <2>1, <2>2 DEF MonRow
  <2>4. d.at <= x + StoreTimeout
    BY <1>3, <2>1, <2>2, <2>3
  <2>. QED  BY <1>3, <2>1, <2>4
<1>. QED  BY <1>1, <1>2, <1>3 DEF RowStays

\* A scan that is not moved stays sound.
LEMMA ScanStays ==
  ASSUME MonTypes, MonTypes', ScanSound, monDetector' = monDetector, monNow <= monNow', monIds <= monIds',
         monStarted' = monStarted, \A s \in MonSlugs : RowStays(s)
  PROVE  ScanSound'
<1>. SUFFICES ASSUME Scanning(monDetector) PROVE ScanSound'
  BY DEF ScanSound
<1>1. PICK d : d = monDetector
  OBVIOUS
<1>2. /\ d' = d /\ d.at \in Nat /\ d.todo \subseteq Entry /\ d.cur \in Entry /\ Entries(monDetector) = d.todo \cup {d.cur}
      /\ d.at <= monNow /\ d.cur # NoRow /\ {monNow, monNow', monIds, monIds'} \subseteq Nat
  BY <1>1 DEF MonTypes, ScanSound, Entries
<1>3. \A e \in Entry : e.row.id \in Nat /\ e.row.last \in Nat /\ e.slug \in MonSlugs
  BY DEF Entry, MonRow
<1>4. /\ \A e \in d.todo : ReadOf(e, e.row.state, d)
      /\ d.pc = "mark" => ReadOf(d.cur, "ok", d)
      /\ d.pc \in {"report", "emitted"} => ReadOf(d.cur, "missed", d)
  BY <1>1 DEF ScanSound
<1>5. /\ \A e \in d.todo : ReadOf(e, e.row.state, d)'
      /\ d.pc = "mark" => ReadOf(d.cur, "ok", d)'
      /\ d.pc \in {"report", "emitted"} => ReadOf(d.cur, "missed", d)'
  <2>1. ASSUME NEW e \in Entries(monDetector), NEW st, ReadOf(e, st, d) PROVE ReadOf(e, st, d)'
    BY <1>2, <1>3, <2>1, ReadStays DEF ReadOf
  <2>. QED  BY <1>2, <1>4, <2>1
<1>6. d.at <= monNow' /\ \A e \in d.todo \cup {d.cur} : e.row.id <= monIds' /\ e.row.last <= monNow'
  BY <1>1, <1>2, <1>3 DEF ScanSound
<1>7. /\ \A e \in d.todo : e.slug # d.cur.slug /\ Verdict(e.row, d.at)' \in {"mark", "report"}
      /\ \A e, f \in d.todo : e.slug = f.slug => e = f
      /\ d.pc = "mark" => d.at > NextDue(d.cur.row)
  BY <1>1, <1>2 DEF ScanSound, Verdict, Armed
<1>. QED  BY <1>1, <1>2, <1>5, <1>6, <1>7 DEF ScanSound

\* The scan leaves a row for the next one.
LEMMA ScanAdvances ==
  ASSUME MonTypes, MonTypes', ScanSound, monDetector' = Advance(monDetector), Scanning(monDetector),
         UNCHANGED <<monNow, monIds, monStarted>>,
         \A s \in MonSlugs : s # monDetector.cur.slug => RowStays(s)
  PROVE  ScanSound'
<1>1. PICK d : d = monDetector
  OBVIOUS
<1>2. /\ d.at \in Nat /\ d.todo \in SUBSET Entry /\ d.cur \in Entry /\ Entries(monDetector) = d.todo \cup {d.cur}
      /\ d.at <= monNow /\ {monNow, monIds} \subseteq Nat
  BY <1>1 DEF MonTypes, ScanSound, Entries
<1>3. CASE monDetector' = IdleDetector
  BY <1>3 DEF ScanSound, Scanning, IdleDetector
<1>4. ASSUME NEW e \in d.todo, monDetector' = [d EXCEPT !.pc = Verdict(e.row, d.at), !.cur = e, !.todo = d.todo \ {e}]
      PROVE  ScanSound'
  <2>1. PICK q, rest : q = Verdict(e.row, d.at) /\ rest = d.todo \ {e}
    OBVIOUS
  <2>2. PICK h : h = [[[d EXCEPT !.pc = q] EXCEPT !.cur = e] EXCEPT !.todo = rest]
    OBVIOUS
  <2>3. monDetector' = h
    BY <1>4, <2>1, <2>2
  <2>4. h.pc = q /\ h.cur = e /\ h.todo = rest /\ h.at = d.at
    BY <1>1, <2>2 DEF MonTypes
  <2>5. q \in {"mark", "report"} /\ (q = "mark" => e.row.state = "ok" /\ d.at > NextDue(e.row))
        /\ (q = "report" => e.row.state = "missed")
    BY <1>1, <2>1 DEF ScanSound, Verdict
  <2>6. \A f \in d.todo : ReadOf(f, f.row.state, d) /\ f.slug # d.cur.slug /\ f.slug \in MonSlugs /\ f \in Entry
    BY <1>1, <1>2 DEF ScanSound, Entry
  <2>7. \A f \in d.todo : ReadOf(f, f.row.state, h)'
    BY <1>1, <1>2, <2>4, <2>6, ReadStays DEF ReadOf
  <2>8. /\ ReadOf(e, e.row.state, h)'
        /\ \A f \in rest : ReadOf(f, f.row.state, h)' /\ f.slug # e.slug /\ Verdict(f.row, h.at)' \in {"mark", "report"}
        /\ \A f, g \in rest : f.slug = g.slug => f = g
        /\ \A f \in rest \cup {e} : f.row.id <= monIds' /\ f.row.last <= monNow'
    BY <1>1, <1>2, <2>1, <2>4, <2>6, <2>7 DEF ScanSound, Verdict, Armed
  <2>9. e # NoRow
    <3>1. e.row = e["row"] /\ "row" \in DOMAIN e /\ "row" \notin DOMAIN NoRow
      BY <1>2 DEF Entry, NoRow
    <3>. QED  BY <3>1
  <2>10. Scanning(monDetector')
    BY <2>3, <2>4, <2>5 DEF Scanning
  <2>. QED  BY <1>2, <2>3, <2>4, <2>5, <2>8, <2>9, <2>10 DEF ScanSound
<1>. QED  BY <1>1, <1>2, <1>3, <1>4, ScanGoesOn

RowsInTime == \A s \in MonSlugs : monRows[s] # NoRow => RowTimes(monRows[s])

\* A monitor with an interval is not missed while the recovery of an earlier miss is
\* still recorded: the deadlines of a check-in are shorter than any interval.
LEMMA NoLateRecovery ==
  ASSUME MonInv, NEW c \in MonClients, monClient[c] \in Reporting
  PROVE  LET m == monRows[monClient[c].slug] IN
           m # NoRow => ~(m.state = "missed" /\ m.schedule = {})
<1>1. PICK r, m : r = monClient[c] /\ m = monRows[r.slug]
  OBVIOUS
<1>. SUFFICES ASSUME m # NoRow, m.state = "missed", m.schedule = {} PROVE FALSE
  BY <1>1
<1>2. r \in Reporting /\ r.pc \notin {"idle", "store"} /\ r.slug \in MonSlugs /\ r.at \in Nat
  BY <1>1 DEF Reporting
<1>3. m \in MonRow
  BY <1>1, <1>2, RowIs DEF MonInv
<1>4. RowTimes(m) /\ monNow \in Nat
  BY <1>1, <1>2 DEF MonInv, MonTypes
<1>5. m.interval \in MonIntervals /\ m.last + m.interval < m.since /\ m.since <= monNow
  BY <1>4 DEF RowTimes
<1>6. monNow <= r.at + ReportTimeout /\ r.at <= m.last + StoreTimeout
  BY <1>1, <1>2 DEF MonInv, ClientTimes, Waits
<1>7. StoreTimeout + ReportTimeout < m.interval /\ {StoreTimeout, ReportTimeout, m.interval} \subseteq Nat
  BY <1>5, MonAssumption
<1>8. m.last \in Nat /\ m.since \in Nat
  BY <1>3 DEF MonRow
<1>9. PICK i, l, s : i = m.interval /\ l = m.last /\ s = m.since
  OBVIOUS
<1>10. l + i < s /\ s <= monNow /\ monNow <= r.at + ReportTimeout /\ r.at <= l + StoreTimeout
       /\ StoreTimeout + ReportTimeout < i /\ {i, l, s, StoreTimeout, ReportTimeout} \subseteq Nat
  BY <1>5, <1>6, <1>7, <1>8, <1>9
<1>. QED  BY <1>2, <1>4, <1>10

RecoveringBy(r, i) == r.pc \in {"lookup", "recover", "resolve"} /\ r.slug = i[1] /\ i[2] \in r.kinds
UpOrGone(s) == monRows[s] = NoRow \/ monRows[s].state = "ok"

\* An incident stays accounted for when what it had before is still there.
LEMMA OpenStays ==
  ASSUME MonTypes, OpenHasCause, NEW c \in MonClients, NEW r, monClient' = [monClient EXCEPT ![c] = r],
         \A i \in Incidents : monIssues'[i] = "open" /\ UpOrGone(i[1])' =>
            \/ i \in monStray' \/ RecoveringBy(r, i)
            \/ /\ monIssues[i] = "open" /\ UpOrGone(i[1]) /\ (i \in monStray => i \in monStray')
               /\ ~RecoveringBy(monClient[c], i)
  PROVE  OpenHasCause'
<1>1. monClient'[c] = r /\ \A d \in MonClients \ {c} : monClient'[d] = monClient[d]
  BY DEF MonTypes
<1>. SUFFICES ASSUME NEW i \in Incidents, monIssues'[i] = "open", UpOrGone(i[1])', i \notin monStray'
              PROVE  \E d \in MonClients : RecoveringBy(monClient'[d], i)
  BY DEF OpenHasCause, Recovering, RecoveringBy, Opened, UpOrGone
<1>2. CASE RecoveringBy(r, i)
  BY <1>1, <1>2
<1>3. CASE ~RecoveringBy(r, i)
  <2>1. monIssues[i] = "open" /\ UpOrGone(i[1]) /\ i \notin monStray /\ ~RecoveringBy(monClient[c], i)
    BY <1>3
  <2>2. PICK d \in MonClients : RecoveringBy(monClient[d], i)
    BY <2>1 DEF OpenHasCause, Recovering, RecoveringBy, Opened, UpOrGone
  <2>. QED  BY <1>1, <2>1, <2>2
<1>. QED  BY <1>2, <1>3

\* A reported miss stays shown when nothing closes its issue.
LEMMA MissStays ==
  ASSUME MonInv, UNCHANGED <<monRows, monDetector>>,
         \A i \in Incidents : monIssues'[i] = "muted" => i \in monHuman',
         \A s \in MonSlugs : monRows[s] # NoRow /\ monRows[s].state = "missed" /\ monRows[s].schedule = {} /\ Shown(s) => Shown(s)'
  PROVE  MissShown'
<1>1. monDetector.pc = "emitted" => monDetector.cur \in Entry
  BY DEF MonInv, ScanSound, Scanning, MonTypes
<1>2. ASSUME monDetector.pc = "emitted", monRows[monDetector.cur.slug].id = monDetector.cur.row.id,
             monRows[monDetector.cur.slug].state = "missed", monRows[monDetector.cur.slug].schedule = {}
      PROVE  Shown(monDetector.cur.slug)'
  <2>1. PICK e : e = monDetector.cur
    OBVIOUS
  <2>2. e \in Entry /\ e.slug \in MonSlugs /\ e.row.id # 0
    BY <1>1, <1>2, <2>1 DEF Entry, MonRow
  <2>3. monRows[e.slug] # NoRow
    BY <1>2, <2>1, <2>2, RowIs DEF MonInv
  <2>4. Shown(e.slug)
    BY <1>2, <2>1 DEF MonInv, MissShown
  <2>. QED  BY <1>2, <2>1, <2>2, <2>3, <2>4
<1>3. DownIsOpen'
  BY DEF MonInv, MissShown, DownIsOpen, Shown, Opened
<1>. QED  BY <1>2, <1>3 DEF MissShown

\* A step of a report touches no row and no scan.
LEMMA ReportStep ==
  ASSUME MonInv, MonTypes', UNCHANGED <<monNow, monRows, monDetector, monStarted, monIds>>,
         \A c \in MonClients : Continues(monClient[c], monClient'[c]), OpenHasCause', MissShown'
  PROVE  MonInv'
<1>1. RowsInTime'
  BY DEF MonInv, RowsInTime, RowTimes
<1>2. ClientTimes'
  BY ClientsGoOn DEF MonInv
<1>3. ScanSound'
  <2>1. \A s \in MonSlugs : RowStays(s)
    BY DEF RowStays, SameTimings
  <2>2. monNow <= monNow' /\ monIds <= monIds'
    BY DEF MonInv, MonTypes
  <2>. QED  BY <2>1, <2>2, ScanStays DEF MonInv
<1>. QED  BY <1>1, <1>2, <1>3 DEF MonInv, RowsInTime

\* A check-in that is lost leaves no trace.
LEMMA LostKeeps ==
  ASSUME MonInv, NEW c \in MonClients, CheckInLost(c)
  PROVE  MonInv'
<1>1. monClient' = [monClient EXCEPT ![c] = IdleClient] /\ monClient[c].pc = "store"
      /\ UNCHANGED <<monNow, monRows, monDetector, monStarted, monIds, monIssues, monStray, monHuman>>
  BY DEF CheckInLost
<1>2. MonTypes'
  BY <1>1 DEF MonInv, MonTypes
<1>3. \A d \in MonClients : Continues(monClient[d], monClient'[d])
  BY <1>1 DEF Continues, MonInv, MonTypes
<1>4. OpenHasCause'
  BY <1>1, OpenStays DEF MonInv, RecoveringBy, UpOrGone
<1>5. MissShown'
  BY <1>1, MissStays DEF MonInv, MissShown, Shown, Opened
<1>. QED  BY <1>1, <1>2, <1>3, <1>4, <1>5, ReportStep

\* An error that is reported while the monitor is in it is its incident; a late one is left.
LEMMA ErroredKeeps ==
  ASSUME MonInv, NEW c \in MonClients, ReportErrored(c)
  PROVE  MonInv'
<1>1. PICK r, i : r = monClient[c] /\ i = <<r.slug, "error">>
  OBVIOUS
<1>2. r.pc = "errored" /\ UNCHANGED <<monNow, monRows, monDetector, monStarted, monIds>>
      /\ monIssues' = Reported(i) /\ monHuman' = HumanAfter(i)
      /\ monStray' = IF Late(r.slug, "error") THEN monStray \cup {i} ELSE monStray
  BY <1>1 DEF ReportErrored
<1>3. r \in Reporting /\ r.kinds = {} /\ r.slug \in MonSlugs
  BY <1>1, <1>2 DEF MonInv, MonTypes, ClientTimes, Reporting, Storing, IdleClient
<1>4. PICK h : h = [r EXCEPT !.pc = "emitted"]
  OBVIOUS
<1>5. h \in Reporting /\ h.pc = "emitted" /\ h.slug = r.slug /\ h.id = r.id /\ h.at = r.at /\ h.kinds = {}
  BY <1>3, <1>4 DEF Reporting
<1>6. monClient' = [monClient EXCEPT ![c] = h] /\ i \in Incidents /\ i[1] = r.slug /\ i[2] = "error"
  <2>1. monClient' = [monClient EXCEPT ![c] = h]
    BY <1>1, <1>4 DEF ReportErrored
  <2>2. i \in Incidents
    BY <1>1, <1>3 DEF Incidents, Kinds
  <2>. QED  BY <1>1, <2>1, <2>2
<1>7. MonTypes'
  <2>1. monClient' \in [MonClients -> {IdleClient} \cup Storing \cup Reporting]
    BY <1>5, <1>6 DEF MonInv, MonTypes
  <2>2. monIssues' \in [Incidents -> {"none", "open", "resolved", "muted"}]
    BY <1>2, <1>6 DEF MonInv, MonTypes, Reported
  <2>3. monStray' \subseteq Incidents /\ monHuman' \subseteq Incidents
    BY <1>2, <1>6 DEF MonInv, MonTypes, HumanAfter
  <2>. QED  BY <1>2, <2>1, <2>2, <2>3 DEF MonInv, MonTypes
<1>8. \A d \in MonClients : Continues(monClient[d], monClient'[d])
  BY <1>1, <1>3, <1>5, <1>6 DEF Continues, MonInv, MonTypes
<1>9. OpenHasCause'
  <2>1. ASSUME NEW j \in Incidents, monIssues'[j] = "open", UpOrGone(j[1])'
        PROVE  j \in monStray' \/ (monIssues[j] = "open" /\ UpOrGone(j[1]) /\ (j \in monStray => j \in monStray')
                                   /\ ~RecoveringBy(monClient[c], j))
    <3>1. CASE j = i
      <4>1. Late(r.slug, "error")
        BY <1>2, <1>6, <2>1, <3>1 DEF Late, UpOrGone
      <4>. QED  BY <1>2, <3>1, <4>1
    <3>2. CASE j # i
      <4>1. monIssues'[j] = monIssues[j]
        BY <1>2, <1>6, <3>2 DEF Reported, MonInv, MonTypes
      <4>2. ~RecoveringBy(monClient[c], j)
        BY <1>1, <1>2 DEF RecoveringBy
      <4>3. j \in monStray => j \in monStray'
        BY <1>2
      <4>4. UpOrGone(j[1])
        BY <1>2, <2>1 DEF UpOrGone
      <4>. QED  BY <2>1, <4>1, <4>2, <4>3, <4>4
    <3>. QED  BY <3>1, <3>2
  <2>. QED  BY <1>6, <2>1, OpenStays DEF MonInv
<1>10. MissShown'
  <2>1. \A j \in Incidents : monIssues'[j] = "muted" => j \in monHuman'
    BY <1>2, <1>6 DEF Reported, HumanAfter, MonInv, MonTypes, MissShown
  <2>2. \A s \in MonSlugs : Shown(s) => Shown(s)'
    <3>1. \A s \in MonSlugs : <<s, "missed">> \in Incidents /\ <<s, "missed">> # i
      BY <1>1 DEF Incidents, Kinds
    <3>. QED  BY <1>2, <1>6, <3>1 DEF Reported, HumanAfter, MonInv, MonTypes, Shown, Opened
  <2>. QED  BY <1>2, <2>1, <2>2, MissStays
<1>. QED  BY <1>2, <1>7, <1>8, <1>9, <1>10, ReportStep

\* The recovery of a kind: only an open issue goes on, the others are passed over.
LEMMA LookupKeeps ==
  ASSUME MonInv, NEW c \in MonClients, RecoveredLookup(c)
  PROVE  MonInv'
<1>1. PICK r, i : r = monClient[c] /\ i = <<r.slug, Kind(r)>>
  OBVIOUS
<1>2. PICK h : h = IF monIssues[i] = "open" THEN [r EXCEPT !.pc = "recover"] ELSE NextKind(r)
  OBVIOUS
<1>3. r.pc = "lookup" /\ UNCHANGED <<monNow, monRows, monDetector, monStarted, monIds, monIssues, monStray, monHuman>>
      /\ monClient' = [monClient EXCEPT ![c] = h]
  BY <1>1, <1>2 DEF RecoveredLookup
<1>4. r \in Reporting /\ r.kinds \in {{"error"}, Kinds} /\ r.slug \in MonSlugs
  BY <1>1, <1>3 DEF MonInv, MonTypes, ClientTimes, Reporting, Storing, IdleClient
<1>5. i \in Incidents /\ i[1] = r.slug /\ i[2] = Kind(r) /\ {"error"} # {} /\ Kinds # {}
  BY <1>1, <1>4 DEF Incidents, Kinds, Kind
<1>6. CASE monIssues[i] = "open"
  <2>1. h \in Reporting /\ h.pc = "recover" /\ h.slug = r.slug /\ h.id = r.id /\ h.at = r.at /\ h.kinds = r.kinds
    BY <1>2, <1>4, <1>6 DEF Reporting
  <2>2. MonTypes'
    BY <1>3, <2>1 DEF MonInv, MonTypes
  <2>3. \A d \in MonClients : Continues(monClient[d], monClient'[d])
    BY <1>1, <1>3, <1>4, <1>5, <2>1 DEF Continues, MonInv, MonTypes
  <2>4. OpenHasCause'
    <3>1. \A j : RecoveringBy(h, j) <=> RecoveringBy(monClient[c], j)
      BY <1>1, <1>3, <2>1 DEF RecoveringBy
    <3>. QED  BY <1>3, <3>1, OpenStays DEF MonInv, UpOrGone
  <2>5. MissShown'
    BY <1>3, MissStays DEF MonInv, MissShown, Shown, Opened
  <2>. QED  BY <1>3, <2>2, <2>3, <2>4, <2>5, ReportStep
<1>7. CASE monIssues[i] # "open"
  <2>1. h = NextKind(r)
    BY <1>2, <1>7
  <2>2. h = IdleClient \/ (/\ h \in Reporting /\ h.slug = r.slug /\ h.id = r.id /\ h.at = r.at /\ h.pc = "lookup"
                           /\ h.kinds = {"error"} /\ r.kinds = Kinds /\ Kind(r) = "missed")
    BY <1>4, <2>1, KindByKind
  <2>3. MonTypes'
    BY <1>3, <2>2 DEF MonInv, MonTypes
  <2>4. \A d \in MonClients : Continues(monClient[d], monClient'[d])
    BY <1>1, <1>3, <1>4, <2>2 DEF Continues, MonInv, MonTypes
  <2>5. OpenHasCause'
    <3>1. ASSUME NEW j \in Incidents, monIssues[j] = "open", RecoveringBy(monClient[c], j) PROVE RecoveringBy(h, j)
      <4>1. j # i /\ j[1] = r.slug /\ j[2] \in r.kinds
        BY <1>1, <1>7, <3>1 DEF RecoveringBy
      <4>2. j[2] # Kind(r) /\ j[2] \in Kinds
        BY <1>1, <4>1 DEF Incidents
      <4>3. r.kinds = Kinds
        BY <1>4, <4>1, <4>2, KindByKind
      <4>4. h.kinds = {"error"} /\ h.pc = "lookup" /\ h.slug = r.slug /\ Kind(r) = "missed"
        BY <1>4, <2>1, <4>3, KindByKind
      <4>. QED  BY <4>1, <4>2, <4>4 DEF RecoveringBy, Kinds
    <3>. QED  BY <1>3, <3>1, OpenStays DEF MonInv, UpOrGone
  <2>6. MissShown'
    BY <1>3, MissStays DEF MonInv, MissShown, Shown, Opened
  <2>. QED  BY <1>3, <2>3, <2>4, <2>5, <2>6, ReportStep
<1>. QED  BY <1>6, <1>7

\* The recovery event may open an issue: the recovery goes on to resolve it.
LEMMA EventKeeps ==
  ASSUME MonInv, NEW c \in MonClients, RecoveredEvent(c)
  PROVE  MonInv'
<1>1. PICK r, i : r = monClient[c] /\ i = <<r.slug, Kind(r)>>
  OBVIOUS
<1>2. PICK h : h = [r EXCEPT !.pc = "resolve"]
  OBVIOUS
<1>3. r.pc = "recover" /\ UNCHANGED <<monNow, monRows, monDetector, monStarted, monIds, monStray, monHuman>>
      /\ monIssues' = Reported(i)
  BY <1>1 DEF RecoveredEvent
<1>4. monClient' = [monClient EXCEPT ![c] = h]
  BY <1>1, <1>2 DEF RecoveredEvent
<1>5. r \in Reporting /\ r.kinds \in {{"error"}, Kinds} /\ r.slug \in MonSlugs
  BY <1>1, <1>3 DEF MonInv, MonTypes, ClientTimes, Reporting, Storing, IdleClient
<1>6. i \in Incidents /\ i[1] = r.slug /\ i[2] = Kind(r) /\ {"error"} # {} /\ Kinds # {}
  BY <1>1, <1>5 DEF Incidents, Kinds, Kind
<1>7. h \in Reporting /\ h.pc = "resolve" /\ h.slug = r.slug /\ h.id = r.id /\ h.at = r.at /\ h.kinds = r.kinds
  BY <1>2, <1>5 DEF Reporting
<1>8. Kind(r) \in r.kinds
  BY <1>5 DEF Kind, Kinds
<1>9. MonTypes'
  <2>1. monClient' \in [MonClients -> {IdleClient} \cup Storing \cup Reporting]
    BY <1>4, <1>7 DEF MonInv, MonTypes
  <2>2. monIssues' \in [Incidents -> {"none", "open", "resolved", "muted"}]
    BY <1>3, <1>6 DEF MonInv, MonTypes, Reported
  <2>. QED  BY <1>3, <2>1, <2>2 DEF MonInv, MonTypes
<1>10. \A d \in MonClients : Continues(monClient[d], monClient'[d])
  BY <1>1, <1>4, <1>5, <1>6, <1>7 DEF Continues, MonInv, MonTypes
<1>11. \A j \in Incidents : j # i => monIssues'[j] = monIssues[j]
  BY <1>3, <1>6 DEF Reported, MonInv, MonTypes
<1>12. OpenHasCause'
  <2>1. \A j : RecoveringBy(h, j) <=> RecoveringBy(monClient[c], j)
    BY <1>1, <1>3, <1>7 DEF RecoveringBy
  <2>2. RecoveringBy(h, i)
    BY <1>6, <1>7, <1>8 DEF RecoveringBy
  <2>3. ASSUME NEW j \in Incidents, monIssues'[j] = "open", UpOrGone(j[1])', ~RecoveringBy(h, j)
        PROVE  /\ monIssues[j] = "open" /\ UpOrGone(j[1]) /\ (j \in monStray => j \in monStray')
               /\ ~RecoveringBy(monClient[c], j)
    <3>1. j # i /\ ~RecoveringBy(monClient[c], j)
      BY <2>1, <2>2, <2>3
    <3>. QED  BY <1>3, <1>11, <2>3, <3>1 DEF UpOrGone
  <2>4. \A j \in Incidents : monIssues'[j] = "open" /\ UpOrGone(j[1])' =>
            \/ j \in monStray' \/ RecoveringBy(h, j)
            \/ /\ monIssues[j] = "open" /\ UpOrGone(j[1]) /\ (j \in monStray => j \in monStray')
               /\ ~RecoveringBy(monClient[c], j)
    BY <2>3
  <2>5. MonTypes /\ OpenHasCause
    BY DEF MonInv
  <2>. QED  BY <1>4, <2>4, <2>5, OpenStays
<1>13. MissShown'
  <2>1. monIssues'[i] = "open" \/ (monIssues'[i] = "muted" /\ monIssues[i] = "muted")
    BY <1>3, <1>6 DEF Reported, MonInv, MonTypes
  <2>2. \A j \in Incidents : monIssues'[j] = "muted" => j \in monHuman'
    BY <1>3, <1>11, <2>1 DEF MonInv, MissShown
  <2>3. \A s \in MonSlugs : Shown(s) => Shown(s)'
    <3>1. \A s \in MonSlugs : <<s, "missed">> \in Incidents
      BY DEF Incidents, Kinds
    <3>2. ASSUME NEW s \in MonSlugs, Shown(s) PROVE Shown(s)'
      <4>1. CASE <<s, "missed">> = i
        BY <1>3, <2>1, <2>2, <3>1, <3>2, <4>1 DEF Shown, Opened
      <4>2. CASE <<s, "missed">> # i
        BY <1>3, <1>11, <3>1, <3>2, <4>2 DEF Shown, Opened
      <4>. QED  BY <4>1, <4>2
    <3>. QED  BY <3>2
  <2>. QED  BY <1>3, <2>2, <2>3, MissStays
<1>. QED  BY <1>3, <1>9, <1>10, <1>12, <1>13, ReportStep

\* The end of one kind: the next one is left to recover, this one is not.
LEMMA LeavesKind ==
  ASSUME MonInv, NEW c \in MonClients, monClient[c] \in Reporting, monClient[c].kinds \in {{"error"}, Kinds},
         NEW j \in Incidents, RecoveringBy(monClient[c], j), j # <<monClient[c].slug, Kind(monClient[c])>>
  PROVE  RecoveringBy(NextKind(monClient[c]), j)
<1>1. PICK r : r = monClient[c]
  OBVIOUS
<1>2. j[1] = r.slug /\ j[2] \in r.kinds /\ j[2] \in Kinds /\ j = <<j[1], j[2]>> /\ j # <<r.slug, Kind(r)>>
  BY <1>1 DEF RecoveringBy, Incidents
<1>3. j[2] # Kind(r)
  BY <1>2
<1>4. r.kinds = Kinds
  BY <1>1, <1>2, <1>3, KindByKind
<1>5. NextKind(r).kinds = {"error"} /\ NextKind(r).pc = "lookup" /\ NextKind(r).slug = r.slug /\ Kind(r) = "missed"
  BY <1>1, <1>4, KindByKind
<1>. QED  BY <1>1, <1>2, <1>3, <1>5 DEF RecoveringBy, Kinds

\* What NextKind makes of a report.
LEMMA NextGoesOn ==
  ASSUME MonInv, NEW c \in MonClients, monClient[c] \in Reporting,
         monClient' = [monClient EXCEPT ![c] = NextKind(monClient[c])]
  PROVE  /\ monClient' \in [MonClients -> {IdleClient} \cup Storing \cup Reporting]
         /\ \A d \in MonClients : Continues(monClient[d], monClient'[d])
<1>1. PICK r, h : r = monClient[c] /\ h = NextKind(r)
  OBVIOUS
<1>2. h = IdleClient \/ (/\ h \in Reporting /\ h.slug = r.slug /\ h.id = r.id /\ h.at = r.at /\ h.pc = "lookup"
                         /\ h.kinds = {"error"})
  BY <1>1, KindByKind
<1>3. monClient' = [monClient EXCEPT ![c] = h] /\ {"error"} # {}
  BY <1>1
<1>4. monClient' \in [MonClients -> {IdleClient} \cup Storing \cup Reporting]
  BY <1>2, <1>3 DEF MonInv, MonTypes
<1>. QED  BY <1>1, <1>2, <1>3, <1>4 DEF Continues, MonInv, MonTypes

\* A recovery closes the issue of a miss that is over.
LEMMA ResolveKeeps ==
  ASSUME MonInv, NEW c \in MonClients, RecoveredResolve(c)
  PROVE  MonInv'
<1>1. PICK r, i : r = monClient[c] /\ i = <<r.slug, Kind(r)>>
  OBVIOUS
<1>2. r.pc = "resolve" /\ UNCHANGED <<monNow, monRows, monDetector, monStarted, monIds, monHuman>>
      /\ monIssues' = [monIssues EXCEPT ![i] = "resolved"] /\ monStray' = monStray \ {i}
      /\ monClient' = [monClient EXCEPT ![c] = NextKind(r)]
  BY <1>1 DEF RecoveredResolve
<1>3. r \in Reporting /\ r.kinds \in {{"error"}, Kinds} /\ r.slug \in MonSlugs
  BY <1>1, <1>2 DEF MonInv, MonTypes, ClientTimes, Reporting, Storing, IdleClient
<1>4. i \in Incidents /\ i[1] = r.slug /\ i[2] = Kind(r)
  BY <1>1, <1>3 DEF Incidents, Kinds, Kind
<1>5. /\ monClient' \in [MonClients -> {IdleClient} \cup Storing \cup Reporting]
      /\ \A d \in MonClients : Continues(monClient[d], monClient'[d])
  BY <1>1, <1>2, <1>3, NextGoesOn
<1>6. MonTypes'
  <2>1. monIssues' \in [Incidents -> {"none", "open", "resolved", "muted"}] /\ monStray' \subseteq Incidents
    BY <1>2, <1>4 DEF MonInv, MonTypes
  <2>. QED  BY <1>2, <1>5, <2>1 DEF MonInv, MonTypes
<1>7. monIssues'[i] = "resolved" /\ \A j \in Incidents : j # i => monIssues'[j] = monIssues[j]
  BY <1>2, <1>4 DEF MonInv, MonTypes
<1>8. OpenHasCause'
  <2>1. ASSUME NEW j \in Incidents, monIssues'[j] = "open", UpOrGone(j[1])'
        PROVE  \/ RecoveringBy(NextKind(r), j)
               \/ /\ monIssues[j] = "open" /\ UpOrGone(j[1]) /\ (j \in monStray => j \in monStray')
                  /\ ~RecoveringBy(monClient[c], j)
    <3>1. j # i
      BY <1>7, <2>1
    <3>2. RecoveringBy(monClient[c], j) => RecoveringBy(NextKind(r), j)
      BY <1>1, <1>3, <3>1, LeavesKind
    <3>3. monIssues[j] = "open" /\ UpOrGone(j[1]) /\ (j \in monStray => j \in monStray')
      BY <1>2, <1>7, <2>1, <3>1 DEF UpOrGone
    <3>. QED  BY <3>2, <3>3
  <2>. QED  BY <1>2, <2>1, OpenStays DEF MonInv
<1>9. MissShown'
  <2>1. \A j \in Incidents : monIssues'[j] = "muted" => j \in monHuman'
    BY <1>2, <1>7 DEF MonInv, MissShown
  <2>2. ASSUME NEW s \in MonSlugs, monRows[s] # NoRow, monRows[s].state = "missed", monRows[s].schedule = {}, Shown(s)
        PROVE  Shown(s)'
    <3>1. s # r.slug
      BY <1>1, <1>3, <2>2, NoLateRecovery
    <3>2. <<s, "missed">> \in Incidents /\ <<s, "missed">> # i
      BY <1>1, <3>1 DEF Incidents, Kinds
    <3>. QED  BY <1>2, <1>7, <2>2, <3>2 DEF Shown, Opened
  <2>. QED  BY <1>2, <2>1, <2>2, MissStays
<1>. QED  BY <1>2, <1>5, <1>6, <1>8, <1>9, ReportStep

\* A failing report leaves the incident of its kind.
LEMMA FailKeeps ==
  ASSUME MonInv, NEW c \in MonClients, ReportFails(c)
  PROVE  MonInv'
<1>1. PICK r, i : r = monClient[c] /\ i = <<r.slug, Kind(r)>>
  OBVIOUS
<1>2. r.pc \notin {"idle", "store"} /\ UNCHANGED <<monNow, monRows, monDetector, monStarted, monIds, monHuman, monIssues>>
      /\ monStray' = (IF r.kinds = {} THEN monStray ELSE monStray \cup {i})
      /\ monClient' = [monClient EXCEPT ![c] = NextKind(r)]
  BY <1>1 DEF ReportFails
<1>3. r \in Reporting /\ r.slug \in MonSlugs
  BY <1>1, <1>2 DEF MonInv, MonTypes, Reporting, Storing, IdleClient
<1>4. i \in Incidents /\ i[1] = r.slug /\ i[2] = Kind(r)
  BY <1>1, <1>3 DEF Incidents, Kinds, Kind
<1>5. /\ monClient' \in [MonClients -> {IdleClient} \cup Storing \cup Reporting]
      /\ \A d \in MonClients : Continues(monClient[d], monClient'[d])
  BY <1>1, <1>2, <1>3, NextGoesOn
<1>6. MonTypes'
  BY <1>2, <1>4, <1>5 DEF MonInv, MonTypes
<1>7. OpenHasCause'
  <2>1. ASSUME NEW j \in Incidents, monIssues'[j] = "open", UpOrGone(j[1])'
        PROVE  \/ j \in monStray' \/ RecoveringBy(NextKind(r), j)
               \/ /\ monIssues[j] = "open" /\ UpOrGone(j[1]) /\ (j \in monStray => j \in monStray')
                  /\ ~RecoveringBy(monClient[c], j)
    <3>1. CASE RecoveringBy(monClient[c], j) /\ j # i
      <4>1. r.kinds \in {{"error"}, Kinds}
        BY <1>1, <1>3, <3>1 DEF RecoveringBy, Reporting
      <4>. QED  BY <1>1, <1>3, <3>1, <4>1, LeavesKind
    <3>2. CASE RecoveringBy(monClient[c], j) /\ j = i
      BY <1>1, <1>2, <3>2 DEF RecoveringBy
    <3>3. CASE ~RecoveringBy(monClient[c], j)
      BY <1>2, <2>1, <3>3 DEF UpOrGone
    <3>. QED  BY <3>1, <3>2, <3>3
  <2>. QED  BY <1>2, <2>1, OpenStays DEF MonInv
<1>8. MissShown'
  BY <1>2, MissStays DEF MonInv, MissShown, Shown, Opened
<1>. QED  BY <1>2, <1>5, <1>6, <1>7, <1>8, ReportStep

\* A row that is stamped as reported is the same monitor in the same state.
LEMMA StampedRow ==
  ASSUME MonTypes, NEW slug \in MonSlugs, NEW id \in Nat \ {0}, NEW n \in Nat, monRows' = Emitted(slug, id, n)
  PROVE  /\ monRows' \in [MonSlugs -> MonRow \cup {NoRow}]
         /\ \A s \in MonSlugs :
              monRows'[s] = monRows[s]
              \/ /\ s = slug /\ monRows[s].id = id /\ monRows[s] # NoRow /\ monRows'[s] # NoRow
                 /\ monRows'[s].id = id /\ SameTimings(monRows'[s], monRows[s])
                 /\ monRows'[s].state = monRows[s].state /\ monRows'[s].since = monRows[s].since
                 /\ monRows'[s].emitted = n
<1>1. CASE monRows[slug].id = id
  <2>1. PICK m : m = monRows[slug]
    OBVIOUS
  <2>2. m \in MonRow /\ m # NoRow /\ NoRow \notin MonRow
    BY <1>1, <2>1, RowIs DEF MonTypes
  <2>3. PICK h : h = [m EXCEPT !.emitted = n]
    OBVIOUS
  <2>4. h \in MonRow /\ h.id = m.id /\ SameTimings(h, m) /\ h.state = m.state /\ h.since = m.since /\ h.emitted = n
    BY <2>2, <2>3 DEF MonRow, SameTimings
  <2>5. monRows' = [monRows EXCEPT ![slug] = h]
    BY <1>1, <2>1, <2>3 DEF Emitted
  <2>6. monRows'[slug] = h /\ \A s \in MonSlugs : s # slug => monRows'[s] = monRows[s]
    BY <2>5 DEF MonTypes
  <2>7. monRows' \in [MonSlugs -> MonRow \cup {NoRow}]
    BY <2>4, <2>5 DEF MonTypes
  <2>8. h # NoRow
    BY <2>2, <2>4
  <2>. QED  BY <1>1, <2>1, <2>2, <2>4, <2>6, <2>7, <2>8
<1>2. CASE monRows[slug].id # id
  BY <1>2 DEF Emitted, MonTypes
<1>. QED  BY <1>1, <1>2

\* Stamping the report of an error leaves the miss of the monitor as it was.
LEMMA EmittedKeeps ==
  ASSUME MonInv, NEW c \in MonClients, MarkEmitted(c)
  PROVE  MonInv'
<1>1. PICK r : r = monClient[c]
  OBVIOUS
<1>2. r.pc = "emitted" /\ UNCHANGED <<monNow, monDetector, monStarted, monIds, monIssues, monStray, monHuman>>
      /\ monRows' = Emitted(r.slug, r.id, r.at) /\ monClient' = [monClient EXCEPT ![c] = IdleClient]
  BY <1>1 DEF MarkEmitted
<1>3. r \in Reporting /\ r.slug \in MonSlugs /\ r.id \in Nat \ {0} /\ r.at \in Nat /\ r.kinds = {}
  BY <1>1, <1>2 DEF MonInv, MonTypes, ClientTimes, Reporting, Storing, IdleClient
<1>4. PICK e : e = r.at
  OBVIOUS
<1>5. /\ monRows' \in [MonSlugs -> MonRow \cup {NoRow}]
      /\ \A s \in MonSlugs :
           monRows'[s] = monRows[s]
           \/ /\ s = r.slug /\ monRows[s].id = r.id /\ monRows[s] # NoRow /\ monRows'[s] # NoRow
              /\ monRows'[s].id = r.id /\ SameTimings(monRows'[s], monRows[s])
              /\ monRows'[s].state = monRows[s].state /\ monRows'[s].since = monRows[s].since
              /\ monRows'[s].emitted = e
  BY <1>2, <1>3, <1>4, StampedRow DEF MonInv
<1>6. MonTypes'
  BY <1>2, <1>5 DEF MonInv, MonTypes
<1>7. RowsInTime'
  <2>1. ASSUME NEW s \in MonSlugs, monRows'[s] # NoRow PROVE RowTimes(monRows[s]) /\ monRows[s] # NoRow
    BY <1>5, <2>1 DEF MonInv
  <2>2. e <= monNow /\ (monRows[r.slug] # NoRow => e <= monRows[r.slug].last + StoreTimeout)
    BY <1>1, <1>2, <1>4 DEF MonInv, ClientTimes
  <2>3. ASSUME NEW s \in MonSlugs, monRows'[s] # NoRow PROVE RowTimes(monRows[s])' /\ RowTimes(monRows'[s])
    BY <1>2, <1>5, <2>1, <2>2, <2>3 DEF RowTimes, SameTimings
  <2>. QED  BY <1>2, <2>3 DEF RowsInTime, RowTimes
<1>8. \A d \in MonClients : Continues(monClient[d], monClient'[d])
  BY <1>2 DEF Continues, MonInv, MonTypes
<1>9. ClientTimes'
  <2>1. \A s \in MonSlugs : monRows'[s] # NoRow => monRows[s] # NoRow /\ monRows'[s].last = monRows[s].last
    BY <1>5 DEF SameTimings
  <2>. QED  BY <1>2, <1>8, <2>1, ClientsGoOn DEF MonInv
<1>10. ScanSound'
  <2>1. \A s \in MonSlugs : RowStays(s)
    BY <1>5 DEF RowStays, SameTimings
  <2>2. monNow <= monNow' /\ monIds <= monIds'
    BY <1>2 DEF MonInv, MonTypes
  <2>. QED  BY <1>2, <1>6, <2>1, <2>2, ScanStays DEF MonInv
<1>11. OpenHasCause'
  <2>1. \A s \in MonSlugs : UpOrGone(s)' => UpOrGone(s)
    BY <1>5 DEF UpOrGone
  <2>2. \A j \in Incidents : j[1] \in MonSlugs /\ ~RecoveringBy(monClient[c], j)
    BY <1>1, <1>2 DEF Incidents, RecoveringBy
  <2>. QED  BY <1>2, <2>1, <2>2, OpenStays DEF MonInv
<1>12. MissShown'
  <2>1. \A s \in MonSlugs : Shown(s)' = Shown(s)
    BY <1>2 DEF Shown, Opened
  <2>2. \A j \in Incidents : monIssues'[j] = "muted" => j \in monHuman'
    BY <1>2 DEF MonInv, MissShown
  <2>3. ASSUME NEW s \in MonSlugs, monRows'[s] # NoRow, monRows'[s].state = "missed", monRows'[s].schedule = {},
               monRows'[s].emitted >= monRows'[s].since
        PROVE  Shown(s)
    <3>1. CASE monRows'[s] = monRows[s]
      BY <2>3, <3>1 DEF MonInv, MissShown, DownIsOpen, Shown, Opened
    <3>2. CASE monRows'[s] # monRows[s]
      <4>1. PICK m : m = monRows[s]
        OBVIOUS
      <4>2. /\ s = r.slug /\ m # NoRow /\ m.state = "missed" /\ m.schedule = {} /\ e >= m.since
        BY <1>5, <2>3, <3>2, <4>1 DEF SameTimings
      <4>3. RowTimes(m) /\ m \in MonRow
        BY <4>1, <4>2, RowIs DEF MonInv
      <4>4. m.last + m.interval < m.since /\ m.interval \in MonIntervals
        BY <4>2, <4>3 DEF RowTimes
      <4>5. e <= m.last + StoreTimeout
        BY <1>1, <1>2, <1>4, <4>1, <4>2 DEF MonInv, ClientTimes
      <4>6. StoreTimeout + ReportTimeout < m.interval /\ {StoreTimeout, ReportTimeout, m.interval} \subseteq Nat
        BY <4>4, MonAssumption
      <4>7. {m.last, m.since} \subseteq Nat
        BY <4>3 DEF MonRow
      <4>8. PICK l, n, i : l = m.last /\ n = m.since /\ i = m.interval
        OBVIOUS
      <4>9. l + i < n /\ e <= l + StoreTimeout /\ e >= n /\ StoreTimeout + ReportTimeout < i
            /\ {l, n, i, e, StoreTimeout, ReportTimeout} \subseteq Nat
        BY <1>3, <1>4, <4>2, <4>4, <4>5, <4>6, <4>7, <4>8
      <4>. QED  BY <4>9
    <3>. QED  BY <3>1, <3>2
  <2>4. DownIsOpen'
    BY <2>1, <2>3 DEF DownIsOpen, Shown, Opened
  <2>5. ASSUME monDetector.pc = "emitted", monRows'[monDetector.cur.slug].id = monDetector.cur.row.id,
               monRows'[monDetector.cur.slug].state = "missed", monRows'[monDetector.cur.slug].schedule = {}
        PROVE  Shown(monDetector.cur.slug)'
    <3>1. monDetector.cur \in Entry
      BY <2>5 DEF MonInv, ScanSound, Scanning, MonTypes
    <3>2. monDetector.cur.slug \in MonSlugs
      BY <3>1 DEF Entry
    <3>3. Shown(monDetector.cur.slug)
      BY <1>5, <2>5, <3>2 DEF MonInv, MissShown, SameTimings
    <3>. QED  BY <1>2, <3>3 DEF Shown, Opened
  <2>. QED  BY <1>2, <2>1, <2>2, <2>4, <2>5 DEF MissShown
<1>. QED  BY <1>6, <1>7, <1>9, <1>10, <1>11, <1>12 DEF MonInv, RowsInTime

\* A check-in takes a stamp of its own.
LEMMA CheckInKeeps ==
  ASSUME MonInv, NEW c \in MonClients, NEW s \in MonSlugs, NEW b \in CheckInBody, CheckIn(c, s, b)
  PROVE  MonInv'
<1>1. PICK r, n : r = [pc |-> "store", slug |-> s, body |-> b, at |-> n] /\ n = monNow + 1
  OBVIOUS
<1>2. MayTick /\ monNow' = n /\ monClient' = [monClient EXCEPT ![c] = r] /\ monClient[c].pc = "idle"
      /\ UNCHANGED <<monRows, monIssues, monDetector, monStarted, monIds, monStray, monHuman>>
  BY <1>1 DEF CheckIn
<1>3. monNow \in Nat /\ n \in Nat \ {0} /\ n > monNow
  BY <1>1 DEF MonInv, MonTypes
<1>4. r \in Storing /\ r.pc = "store" /\ r.at = n
  BY <1>1, <1>3 DEF Storing
<1>5. monClient'[c] = r /\ \A d \in MonClients \ {c} : monClient'[d] = monClient[d]
  BY <1>2 DEF MonInv, MonTypes
<1>6. MonTypes'
  BY <1>2, <1>3, <1>4 DEF MonInv, MonTypes
<1>7. RowsInTime'
  <2>1. ASSUME NEW x \in MonSlugs, monRows[x] # NoRow PROVE RowTimes(monRows[x])'
    <3>1. RowTimes(monRows[x]) /\ monRows[x] \in MonRow
      BY <2>1, RowIs DEF MonInv
    <3>. QED  BY <1>1, <1>2, <1>3, <3>1 DEF RowTimes, MonRow
  <2>. QED  BY <1>2, <2>1 DEF RowsInTime
<1>8. ClientTimes'
  <2>1. ASSUME NEW d \in MonClients \ {c}, monClient[d].pc # "idle"
        PROVE  monClient[d].at <= monNow /\ n <= monClient[d].at + Waits(monClient[d])
    <3>1. monClient[d].at \in Nat /\ {StoreTimeout, ReportTimeout} \subseteq Nat
      BY <2>1, MonAssumption DEF MonInv, MonTypes, Storing, Reporting, IdleClient
    <3>2. monClient[d].at <= monNow
      BY <2>1 DEF MonInv, ClientTimes
    <3>3. monNow - monClient[d].at < Waits(monClient[d])
      BY <1>2, <2>1 DEF MayTick, Waits
    <3>. QED  BY <1>1, <1>3, <3>1, <3>2, <3>3 DEF Waits
  <2>2. \A x \in MonSlugs : monRows[x] # NoRow => monRows[x].last <= monNow /\ monRows[x].last \in Nat
    BY RowIs DEF MonInv, RowTimes, MonRow
  <2>3. Scanning(monDetector) => \A e \in monDetector.todo \cup {monDetector.cur} : e.row.last <= monNow /\ e.row.last \in Nat
    <3>1. ASSUME Scanning(monDetector) PROVE monDetector.todo \cup {monDetector.cur} \subseteq Entry
      BY <3>1 DEF MonInv, MonTypes, ScanSound
    <3>. QED  BY <3>1 DEF MonInv, ScanSound, Entry, MonRow
  <2>4. \A d \in MonClients \ {c} : monClient[d].pc # "idle" => monClient[d].at \in Nat
    BY DEF MonInv, MonTypes, Storing, Reporting, IdleClient
  <2>5. ASSUME NEW d \in MonClients, monClient'[d].pc # "idle"
        PROVE  LET q == monClient'[d] IN
      /\ q.at <= monNow' /\ monNow' <= q.at + Waits(q)
      /\ q.pc \in {"errored", "emitted"} <=> (q.pc # "store" /\ q.kinds = {})
      /\ q.pc = "store" =>
           /\ \A o \in MonClients : monClient'[o].pc = "store" /\ monClient'[o].at = q.at => o = d
           /\ \A x \in MonSlugs : monRows'[x] # NoRow => monRows'[x].last # q.at
           /\ Scanning(monDetector') => \A e \in monDetector'.todo \cup {monDetector'.cur} : e.row.last # q.at
      /\ q.pc # "store" => /\ q.id <= monIds'
                           /\ monRows'[q.slug] # NoRow => q.at <= monRows'[q.slug].last + StoreTimeout
    <3>1. CASE d = c
      <4>1. \A o \in MonClients : monClient'[o].pc = "store" /\ monClient'[o].at = n => o = c
        BY <1>3, <1>5, <2>1, <2>4
      <4>2. n <= n + Waits(r)
        BY <1>3, <1>4, MonAssumption DEF Waits
      <4>3. \A x \in MonSlugs : monRows[x] # NoRow => monRows[x].last # n
        BY <1>3, <2>2
      <4>4. Scanning(monDetector) => \A e \in monDetector.todo \cup {monDetector.cur} : e.row.last # n
        BY <1>3, <2>3
      <4>. QED  BY <1>2, <1>3, <1>4, <1>5, <3>1, <4>1, <4>2, <4>3, <4>4
    <3>2. CASE d # c
      <4>1. monClient'[d] = monClient[d] /\ monClient[d].pc # "idle"
        BY <1>5, <2>5, <3>2
      <4>2. monClient[d].at <= n /\ n <= monClient[d].at + Waits(monClient[d]) /\ monClient[d].at # n
        BY <1>3, <2>1, <2>4, <3>2, <4>1
      <4>. QED  BY <1>2, <1>4, <1>5, <3>2, <4>1, <4>2 DEF MonInv, ClientTimes
    <3>. QED  BY <3>1, <3>2
  <2>. QED  BY <2>5 DEF ClientTimes, Waits
<1>9. ScanSound'
  <2>1. \A x \in MonSlugs : RowStays(x)
    BY <1>2 DEF RowStays, SameTimings
  <2>2. monNow <= monNow' /\ monIds <= monIds'
    BY <1>2, <1>3 DEF MonInv, MonTypes
  <2>. QED  BY <1>2, <1>6, <2>1, <2>2, ScanStays DEF MonInv
<1>10. OpenHasCause'
  BY <1>2, OpenStays DEF MonInv, RecoveringBy, UpOrGone
<1>11. MissShown'
  BY <1>2, MissStays DEF MonInv, MissShown, Shown, Opened
<1>. QED  BY <1>6, <1>7, <1>8, <1>9, <1>10, <1>11 DEF MonInv, RowsInTime

\* New timings replace the old ones; a monitor without a schedule has an interval that was sent.
LEMMA Timed ==
  ASSUME NEW m \in MonRow, NEW b \in CheckInBody,
         b.interval # Unset \/ b.schedule # {} \/ (m.schedule = {} => m.interval \in MonIntervals)
  PROVE  LET t == ApplyTimings(m, b) IN
           /\ t \in MonRow /\ t.id = m.id /\ t.created = m.created /\ t.last = m.last
           /\ t.state = m.state /\ t.since = m.since /\ t.emitted = m.emitted
           /\ t.schedule = {} => t.interval \in MonIntervals
<1>1. PICK g, z : /\ g = (IF b.grace = Unset THEN m.grace ELSE b.grace)
                  /\ z = (IF b.zone = Unset THEN m.zone ELSE b.zone)
  OBVIOUS
<1>2. g \in Nat /\ z \in MonZones \cup {0} /\ 0 \in Nat /\ {} \in MonSchedules \cup {{}} /\ 0 \in MonZones \cup {0}
  BY <1>1, MonAssumption DEF CheckInBody, MonRow
<1>3. CASE b.interval # Unset
  <2>1. PICK t : t = [[[[m EXCEPT !.interval = b.interval] EXCEPT !.schedule = {}] EXCEPT !.zone = 0] EXCEPT !.grace = g]
    OBVIOUS
  <2>2. ApplyTimings(m, b) = t
    BY <1>1, <1>3, <2>1 DEF ApplyTimings
  <2>3. b.interval \in MonIntervals /\ b.interval \in Nat
    BY <1>3, MonAssumption DEF CheckInBody
  <2>4. t \in MonRow /\ t.id = m.id /\ t.created = m.created /\ t.last = m.last /\ t.interval = b.interval
        /\ t.state = m.state /\ t.since = m.since /\ t.emitted = m.emitted
    BY <1>2, <2>1, <2>3 DEF MonRow
  <2>. QED  BY <2>2, <2>3, <2>4
<1>4. CASE b.interval = Unset /\ b.schedule # {}
  <2>1. PICK t : t = [[[[m EXCEPT !.interval = 0] EXCEPT !.schedule = b.schedule] EXCEPT !.zone = z] EXCEPT !.grace = g]
    OBVIOUS
  <2>2. ApplyTimings(m, b) = t
    BY <1>1, <1>4, <2>1 DEF ApplyTimings
  <2>3. b.schedule \in MonSchedules \cup {{}}
    BY DEF CheckInBody
  <2>4. t \in MonRow /\ t.id = m.id /\ t.created = m.created /\ t.last = m.last /\ t.schedule # {}
        /\ t.state = m.state /\ t.since = m.since /\ t.emitted = m.emitted
    BY <1>2, <1>4, <2>1, <2>3 DEF MonRow
  <2>. QED  BY <2>2, <2>4
<1>5. CASE b.interval = Unset /\ b.schedule = {}
  <2>1. PICK t : t = [[m EXCEPT !.zone = z] EXCEPT !.grace = g]
    OBVIOUS
  <2>2. ApplyTimings(m, b) = t
    BY <1>1, <1>5, <2>1 DEF ApplyTimings
  <2>3. t \in MonRow /\ t.id = m.id /\ t.created = m.created /\ t.last = m.last /\ t.schedule = m.schedule
        /\ t.interval = m.interval /\ t.state = m.state /\ t.since = m.since /\ t.emitted = m.emitted
    BY <1>2, <2>1 DEF MonRow
  <2>. QED  BY <1>5, <2>2, <2>3
<1>. QED  BY <1>3, <1>4, <1>5

\* The row after a check-in that was accepted.
StoredRow(r) ==
  IF monRows[r.slug] = NoRow THEN NewMonitor(r.body, r.at)
  ELSE [ApplyTimings(monRows[r.slug], r.body) EXCEPT
          !.last = r.at, !.state = StateOf(r.body.status),
          !.since = IF StateOf(r.body.status) # monRows[r.slug].state THEN r.at ELSE @]

\* It carries the stamp of the check-in and its state, and is the same monitor or a fresh one.
LEMMA NewRowIs ==
  ASSUME MonInv, NEW c \in MonClients, NEW r, r = monClient[c], r.pc = "store",
         monRows[r.slug] = NoRow => r.body.interval # Unset \/ r.body.schedule # {}
  PROVE  LET m == StoredRow(r) IN
           /\ m \in MonRow /\ m.last = r.at /\ m.state \in {"ok", "error"} /\ m.since <= monNow
           /\ m.schedule = {} => m.interval \in MonIntervals
           /\ IF monRows[r.slug] = NoRow THEN m.id = monIds + 1 /\ m.emitted = 0
              ELSE m.id = monRows[r.slug].id /\ m.emitted = monRows[r.slug].emitted
<1>1. r \in Storing /\ r.slug \in MonSlugs /\ r.body \in CheckInBody /\ r.at \in Nat \ {0} /\ monNow \in Nat /\ monIds \in Nat
  BY DEF MonInv, MonTypes, Storing, Reporting, IdleClient
<1>2. r.at <= monNow
  BY <1>1 DEF MonInv, ClientTimes
<1>3. PICK st : st = StateOf(r.body.status)
  OBVIOUS
<1>4. st \in {"ok", "error"}
  BY <1>3 DEF StateOf
<1>5. CASE monRows[r.slug] = NoRow
  <2>1. PICK base : base = [id |-> monIds + 1, interval |-> 0, grace |-> 0, schedule |-> {},
                 zone |-> 0, created |-> r.at, last |-> r.at, state |-> "ok", since |-> 0, emitted |-> 0]
    OBVIOUS
  <2>2. base \in MonRow /\ base.id = monIds + 1 /\ base.last = r.at /\ base.state = "ok" /\ base.since = 0 /\ base.emitted = 0
    BY <1>1, <2>1 DEF MonRow
  <2>3. PICK t : t = ApplyTimings(base, r.body)
    OBVIOUS
  <2>4. /\ t \in MonRow /\ t.id = monIds + 1 /\ t.last = r.at /\ t.emitted = 0
        /\ t.schedule = {} => t.interval \in MonIntervals
    BY <1>1, <1>5, <2>2, <2>3, Timed
  <2>5. PICK n : n = IF r.body.status = "error" THEN r.at ELSE 0
    OBVIOUS
  <2>6. PICK m : m = [[t EXCEPT !.state = st] EXCEPT !.since = n]
    OBVIOUS
  <2>7. StoredRow(r) = m
    BY <1>3, <1>5, <2>1, <2>3, <2>5, <2>6 DEF StoredRow, NewMonitor
  <2>8. n \in Nat /\ n <= monNow
    BY <1>1, <1>2, <2>5
  <2>9. m \in MonRow /\ m.id = t.id /\ m.last = t.last /\ m.emitted = t.emitted /\ m.state = st /\ m.since = n
        /\ m.schedule = t.schedule /\ m.interval = t.interval
    BY <1>4, <2>4, <2>6, <2>8 DEF MonRow
  <2>. QED  BY <1>4, <1>5, <2>4, <2>7, <2>8, <2>9
<1>6. CASE monRows[r.slug] # NoRow
  <2>1. PICK old, t : old = monRows[r.slug] /\ t = ApplyTimings(old, r.body)
    OBVIOUS
  <2>2. old \in MonRow /\ RowTimes(old)
    BY <1>1, <1>6, <2>1, RowIs DEF MonInv
  <2>3. /\ t \in MonRow /\ t.id = old.id /\ t.last = old.last /\ t.emitted = old.emitted /\ t.since = old.since
        /\ t.schedule = {} => t.interval \in MonIntervals
    BY <1>1, <2>1, <2>2, Timed DEF RowTimes
  <2>4. PICK n : n = IF st # old.state THEN r.at ELSE t.since
    OBVIOUS
  <2>5. PICK m : m = [[[t EXCEPT !.last = r.at] EXCEPT !.state = st] EXCEPT !.since = n]
    OBVIOUS
  <2>6. StoredRow(r) = m
    BY <1>3, <1>6, <2>1, <2>4, <2>5 DEF StoredRow
  <2>7. n \in Nat /\ n <= monNow
    BY <1>1, <1>2, <2>2, <2>3, <2>4 DEF RowTimes, MonRow
  <2>8. m \in MonRow /\ m.id = t.id /\ m.last = r.at /\ m.emitted = t.emitted /\ m.state = st /\ m.since = n
        /\ m.schedule = t.schedule /\ m.interval = t.interval
    BY <1>1, <1>4, <2>3, <2>5, <2>7 DEF MonRow
  <2>. QED  BY <1>4, <1>6, <2>1, <2>3, <2>6, <2>7, <2>8
<1>. QED  BY <1>5, <1>6

Follows(h, r, m, prev) ==
  /\ h = IdleClient \/ (/\ h \in Reporting /\ h.slug = r.slug /\ h.id = m.id /\ h.at = monNow
                        /\ (h.pc \in {"errored", "emitted"} <=> h.kinds = {}))
  /\ m.state = "ok" /\ prev # "ok" => h \in Reporting /\ h.slug = r.slug /\ h.pc = "lookup" /\ h.kinds = Kinds

\* What follows a stored check-in: a report of the error, the recovery of both kinds, or nothing.
LEMMA AfterIs ==
  ASSUME MonInv, NEW c \in MonClients, NEW r, r = monClient[c], r.pc = "store", NEW m \in MonRow, NEW prev,
         m.state \in {"ok", "error"}
  PROVE  Follows(AfterStore(r, m, prev), r, m, prev)
<1>. USE DEF Follows
<1>1. r.slug \in MonSlugs /\ monNow \in Nat /\ m.id \in Nat \ {0} /\ Kinds # {}
  BY DEF MonInv, MonTypes, Storing, Reporting, IdleClient, MonRow, Kinds
<1>2. CASE NeedsReport(m, r.at)
  <2>1. PICK h : h = [pc |-> "errored", slug |-> r.slug, id |-> m.id, at |-> monNow, kinds |-> {}]
    OBVIOUS
  <2>2. AfterStore(r, m, prev) = h /\ m.state # "ok"
    BY <1>2, <2>1 DEF AfterStore, NeedsReport
  <2>3. h \in Reporting /\ h.slug = r.slug /\ h.id = m.id /\ h.at = monNow /\ h.pc = "errored" /\ h.kinds = {}
    BY <1>1, <2>1 DEF Reporting
  <2>. QED  BY <2>2, <2>3
<1>3. CASE ~NeedsReport(m, r.at) /\ m.state = "ok" /\ prev # "ok"
  <2>1. PICK h : h = [pc |-> "lookup", slug |-> r.slug, id |-> m.id, at |-> monNow, kinds |-> Kinds]
    OBVIOUS
  <2>2. AfterStore(r, m, prev) = h
    BY <1>3, <2>1 DEF AfterStore
  <2>3. h \in Reporting /\ h.slug = r.slug /\ h.id = m.id /\ h.at = monNow /\ h.pc = "lookup" /\ h.kinds = Kinds
    BY <1>1, <2>1 DEF Reporting
  <2>. QED  BY <1>1, <2>2, <2>3
<1>4. CASE ~NeedsReport(m, r.at) /\ ~(m.state = "ok" /\ prev # "ok")
  BY <1>4 DEF AfterStore
<1>5. m.state = "ok" => ~NeedsReport(m, r.at)
  BY DEF NeedsReport
<1>. QED  BY <1>2, <1>3, <1>4, <1>5

\* A stored check-in resets the monitor, and its report or recovery begins.
LEMMA StoredKeeps ==
  ASSUME MonInv, NEW c \in MonClients, NEW r, r = monClient[c], r.pc = "store",
         monRows[r.slug] = NoRow => r.body.interval # Unset \/ r.body.schedule # {},
         NEW m, m = StoredRow(r), NEW h,
         h = AfterStore(r, m, IF monRows[r.slug] = NoRow THEN "ok" ELSE monRows[r.slug].state),
         monRows' = [monRows EXCEPT ![r.slug] = m], monClient' = [monClient EXCEPT ![c] = h],
         monIds' = IF monRows[r.slug] = NoRow THEN monIds + 1 ELSE monIds,
         UNCHANGED <<monNow, monIssues, monDetector, monStarted, monStray, monHuman>>
  PROVE  MonInv'
<1>1. r \in Storing /\ r.slug \in MonSlugs /\ r.at \in Nat /\ monNow \in Nat /\ monIds \in Nat /\ StoreTimeout \in Nat
      /\ ReportTimeout \in Nat
  BY MonAssumption DEF MonInv, MonTypes, Storing, Reporting, IdleClient
<1>2. r.at <= monNow /\ monNow <= r.at + StoreTimeout
  BY DEF MonInv, ClientTimes, Waits
<1>3. /\ m \in MonRow /\ m.last = r.at /\ m.state \in {"ok", "error"} /\ m.since <= monNow
      /\ m.schedule = {} => m.interval \in MonIntervals
      /\ IF monRows[r.slug] = NoRow THEN m.id = monIds + 1 /\ m.emitted = 0
         ELSE m.id = monRows[r.slug].id /\ m.emitted = monRows[r.slug].emitted
  BY NewRowIs
<1>4. m # NoRow /\ m.emitted \in Nat
  BY <1>1, <1>3, RowIs DEF MonInv, MonRow
<1>5. /\ h = IdleClient \/ (/\ h \in Reporting /\ h.slug = r.slug /\ h.id = m.id /\ h.at = monNow
                            /\ (h.pc \in {"errored", "emitted"} <=> h.kinds = {}))
      /\ m.state = "ok" /\ ~UpOrGone(r.slug) => h \in Reporting /\ h.slug = r.slug /\ h.pc = "lookup" /\ h.kinds = Kinds
  <2>1. PICK p : p = IF monRows[r.slug] = NoRow THEN "ok" ELSE monRows[r.slug].state
    OBVIOUS
  <2>2. ~UpOrGone(r.slug) => p # "ok"
    BY <2>1 DEF UpOrGone
  <2>3. h = AfterStore(r, m, p)
    BY <2>1
  <2>4. m \in MonRow /\ m.state \in {"ok", "error"}
    BY <1>3
  <2>5. Follows(AfterStore(r, m, p), r, m, p)
    BY <2>4, AfterIs
  <2>. QED  BY <2>2, <2>3, <2>5 DEF Follows
<1>6. /\ monRows'[r.slug] = m /\ \A s \in MonSlugs \ {r.slug} : monRows'[s] = monRows[s]
      /\ monClient'[c] = h /\ \A d \in MonClients \ {c} : monClient'[d] = monClient[d]
      /\ monIds <= monIds' /\ monIds' \in Nat
  BY <1>1 DEF MonInv, MonTypes
<1>7. MonTypes'
  BY <1>1, <1>3, <1>5 DEF MonInv, MonTypes
<1>8. RowsInTime'
  <2>1. ASSUME monRows[r.slug] # NoRow PROVE RowTimes(monRows[r.slug])
    BY <1>1, <2>1 DEF MonInv
  <2>2. m.emitted <= monNow /\ m.id <= monIds'
    BY <1>1, <1>3, <1>6, <2>1 DEF RowTimes
  <2>3. RowTimes(m)'
    <3>1. m.emitted <= r.at + StoreTimeout
      BY <1>1, <1>2, <1>4, <2>2
    <3>. QED  BY <1>2, <1>3, <2>2, <3>1 DEF RowTimes
  <2>4. ASSUME NEW s \in MonSlugs \ {r.slug}, monRows[s] # NoRow PROVE RowTimes(monRows[s])'
    <3>1. RowTimes(monRows[s]) /\ monRows[s] \in MonRow
      BY <2>4, RowIs DEF MonInv
    <3>2. monRows[s].id \in Nat
      BY <3>1 DEF MonRow
    <3>. QED  BY <1>1, <1>6, <3>1, <3>2 DEF RowTimes
  <2>5. ASSUME NEW s \in MonSlugs, monRows'[s] # NoRow PROVE RowTimes(monRows[s])'
    <3>1. CASE s = r.slug
      BY <1>6, <2>3, <3>1 DEF RowTimes
    <3>2. CASE s # r.slug
      BY <1>6, <2>4, <2>5, <3>2 DEF RowTimes
    <3>. QED  BY <3>1, <3>2
  <2>. QED  BY <2>5 DEF RowsInTime
<1>9. ClientTimes'
  <2>1. ASSUME NEW d \in MonClients, monClient'[d].pc # "idle"
        PROVE  LET q == monClient'[d] IN
      /\ q.at <= monNow /\ monNow <= q.at + Waits(q)
      /\ q.pc \in {"errored", "emitted"} <=> (q.pc # "store" /\ q.kinds = {})
      /\ q.pc = "store" =>
           /\ \A o \in MonClients : monClient'[o].pc = "store" /\ monClient'[o].at = q.at => o = d
           /\ \A x \in MonSlugs : monRows'[x] # NoRow => monRows'[x].last # q.at
           /\ Scanning(monDetector) => \A e \in monDetector.todo \cup {monDetector.cur} : e.row.last # q.at
      /\ q.pc # "store" => /\ q.id <= monIds'
                           /\ monRows'[q.slug] # NoRow => q.at <= monRows'[q.slug].last + StoreTimeout
    <3>1. CASE d = c
      <4>1. h \in Reporting /\ h.slug = r.slug /\ h.id = m.id /\ h.at = monNow
            /\ (h.pc \in {"errored", "emitted"} <=> h.kinds = {}) /\ h.pc # "store"
        <5>1. h.pc # "idle" /\ IdleClient.pc = "idle"
          BY <1>6, <2>1, <3>1 DEF IdleClient
        <5>2. h \in Reporting
          BY <1>5, <5>1
        <5>3. h.pc # "store"
          BY <5>2 DEF Reporting
        <5>. QED  BY <1>5, <5>1, <5>2, <5>3
      <4>2. monNow <= monNow + Waits(h)
        BY <1>1 DEF Waits
      <4>3. m.id <= monIds'
        BY <1>1, <1>3, <1>6 DEF MonInv, RowTimes
      <4>4. monClient'[d] = h /\ monRows'[h.slug] = m /\ h.pc # "store"
        BY <1>6, <3>1, <4>1
      <4>5. h.at <= monNow /\ monNow <= h.at + Waits(h) /\ h.id <= monIds' /\ h.at <= m.last + StoreTimeout
        BY <1>1, <1>2, <1>3, <4>1, <4>2, <4>3
      <4>. QED  BY <4>1, <4>4, <4>5
    <3>2. CASE d # c
      <4>1. PICK q : q = monClient[d]
        OBVIOUS
      <4>2. monClient'[d] = q /\ q.pc # "idle"
        BY <1>6, <2>1, <3>2, <4>1
      <4>3. /\ q.at <= monNow /\ monNow <= q.at + Waits(q)
            /\ q.pc \in {"errored", "emitted"} <=> (q.pc # "store" /\ q.kinds = {})
            /\ q.pc = "store" =>
                 /\ \A o \in MonClients : monClient[o].pc = "store" /\ monClient[o].at = q.at => o = d
                 /\ \A x \in MonSlugs : monRows[x] # NoRow => monRows[x].last # q.at
                 /\ Scanning(monDetector) => \A e \in monDetector.todo \cup {monDetector.cur} : e.row.last # q.at
            /\ q.pc # "store" => /\ q.id <= monIds
                                 /\ monRows[q.slug] # NoRow => q.at <= monRows[q.slug].last + StoreTimeout
        BY <4>1, <4>2 DEF MonInv, ClientTimes
      <4>4. q.pc = "store" => r.at # q.at
        BY <3>2, <4>3
      <4>5. q.pc # "store" => q \in Reporting /\ q.slug \in MonSlugs /\ q.id \in Nat /\ q.at \in Nat
        BY <4>1, <4>2 DEF MonInv, MonTypes, Storing, Reporting, IdleClient
      <4>6. h.pc # "store"
        <5>1. IdleClient.pc = "idle"
          BY DEF IdleClient
        <5>2. \A x \in Reporting : x.pc # "store"
          BY DEF Reporting
        <5>. QED  BY <1>5, <5>1, <5>2
      <4>7. q.pc = "store" =>
                 /\ \A o \in MonClients : monClient'[o].pc = "store" /\ monClient'[o].at = q.at => o = d
                 /\ \A x \in MonSlugs : monRows'[x] # NoRow => monRows'[x].last # q.at
        BY <1>3, <1>6, <4>3, <4>4, <4>6
      <4>8. q.pc # "store" => /\ q.id <= monIds'
                              /\ monRows'[q.slug] # NoRow => q.at <= monRows'[q.slug].last + StoreTimeout
        BY <1>1, <1>2, <1>3, <1>6, <4>3, <4>5
      <4>. QED  BY <4>2, <4>3, <4>7, <4>8
    <3>. QED  BY <3>1, <3>2
  <2>. QED  BY <2>1 DEF ClientTimes, Waits
<1>10. ScanSound'
  <2>1. \A e \in Entries(monDetector) : e.row.last # r.at
    BY DEF MonInv, ClientTimes, Entries
  <2>2. \A s \in MonSlugs : RowStays(s)
    BY <1>2, <1>3, <1>6, <2>1 DEF RowStays, SameTimings
  <2>3. monNow <= monNow'
    BY <1>1
  <2>. QED  BY <1>6, <1>7, <2>2, <2>3, ScanStays DEF MonInv
<1>11. OpenHasCause'
  <2>1. ASSUME NEW i \in Incidents, monIssues'[i] = "open", UpOrGone(i[1])'
        PROVE  \/ RecoveringBy(h, i)
               \/ /\ monIssues[i] = "open" /\ UpOrGone(i[1]) /\ (i \in monStray => i \in monStray')
                  /\ ~RecoveringBy(monClient[c], i)
    <3>1. i[1] \in MonSlugs /\ i[2] \in Kinds /\ ~RecoveringBy(monClient[c], i)
      BY DEF Incidents, RecoveringBy
    <3>2. CASE i[1] = r.slug /\ ~UpOrGone(r.slug)
      <4>1. m.state = "ok"
        BY <1>4, <1>6, <2>1, <3>2 DEF UpOrGone
      <4>. QED  BY <1>5, <3>1, <3>2, <4>1 DEF RecoveringBy
    <3>3. CASE i[1] # r.slug \/ UpOrGone(r.slug)
      BY <1>6, <2>1, <3>1, <3>3 DEF UpOrGone
    <3>. QED  BY <3>2, <3>3
  <2>. QED  BY <2>1, OpenStays DEF MonInv
<1>12. MissShown'
  <2>1. \A s \in MonSlugs : Shown(s)' = Shown(s)
    BY DEF Shown, Opened
  <2>2. \A j \in Incidents : monIssues'[j] = "muted" => j \in monHuman'
    BY DEF MonInv, MissShown
  <2>3. \A s \in MonSlugs : monRows'[s].state = "missed" => monRows'[s] = monRows[s]
    BY <1>3, <1>6
  <2>4. DownIsOpen'
    BY <2>1, <2>3 DEF DownIsOpen, Shown, Opened, MonInv, MissShown
  <2>5. ASSUME monDetector.pc = "emitted", monRows'[monDetector.cur.slug].id = monDetector.cur.row.id,
               monRows'[monDetector.cur.slug].state = "missed", monRows'[monDetector.cur.slug].schedule = {}
        PROVE  Shown(monDetector.cur.slug)'
    <3>1. monDetector.cur \in Entry
      BY <2>5 DEF MonInv, ScanSound, Scanning, MonTypes
    <3>2. monDetector.cur.slug \in MonSlugs
      BY <3>1 DEF Entry
    <3>3. Shown(monDetector.cur.slug)
      BY <2>3, <2>5, <3>2 DEF MonInv, MissShown
    <3>. QED  BY <3>3 DEF Shown, Opened
  <2>. QED  BY <2>2, <2>4, <2>5 DEF MissShown
<1>. QED  BY <1>7, <1>8, <1>9, <1>10, <1>11, <1>12 DEF MonInv, RowsInTime

\* A check-in is stored or refused.
LEMMA RecordKeeps ==
  ASSUME MonInv, NEW c \in MonClients, RecordCheckIn(c)
  PROVE  MonInv'
<1>1. PICK r : r = monClient[c]
  OBVIOUS
<1>2. r.pc = "store" /\ UNCHANGED <<monNow, monIssues, monDetector, monStarted, monStray, monHuman>>
  BY <1>1 DEF RecordCheckIn
<1>3. CASE /\ monClient' = [monClient EXCEPT ![c] = IdleClient]
           /\ UNCHANGED <<monRows, monIds>>
  <2>1. MonTypes'
    BY <1>2, <1>3 DEF MonInv, MonTypes
  <2>2. \A d \in MonClients : Continues(monClient[d], monClient'[d])
    BY <1>3 DEF Continues, MonInv, MonTypes
  <2>3. OpenHasCause'
    BY <1>1, <1>2, <1>3, OpenStays DEF MonInv, RecoveringBy, UpOrGone
  <2>4. MissShown'
    BY <1>2, <1>3, MissStays DEF MonInv, MissShown, Shown, Opened
  <2>. QED  BY <1>2, <1>3, <2>1, <2>2, <2>3, <2>4, ReportStep
<1>4. CASE ~(/\ monClient' = [monClient EXCEPT ![c] = IdleClient]
             /\ UNCHANGED <<monRows, monIds>>)
  <2>1. PICK m : m = StoredRow(r)
    OBVIOUS
  <2>2. PICK h : h = AfterStore(r, m, IF monRows[r.slug] = NoRow THEN "ok" ELSE monRows[r.slug].state)
    OBVIOUS
  <2>3. /\ monRows[r.slug] = NoRow => r.body.interval # Unset \/ r.body.schedule # {}
        /\ monIds' = IF monRows[r.slug] = NoRow THEN monIds + 1 ELSE monIds
    BY <1>1, <1>4 DEF RecordCheckIn
  <2>4. monRows' = [monRows EXCEPT ![r.slug] = m]
    BY <1>1, <1>4, <2>1 DEF RecordCheckIn, StoredRow
  <2>5. monClient' = [monClient EXCEPT ![c] = h]
    BY <1>1, <1>4, <2>1, <2>2 DEF RecordCheckIn, StoredRow
  <2>. QED  BY <1>1, <1>2, <2>1, <2>2, <2>3, <2>4, <2>5, StoredKeeps
<1>. QED  BY <1>3, <1>4

\* Steps of the scan leave the check-ins and the recoveries alone.
LEMMA ScanStep ==
  ASSUME MonInv, MonTypes', UNCHANGED <<monNow, monIds, monStarted, monClient>>, RowsInTime', ScanSound', MissShown',
         Entries(monDetector') \subseteq Entries(monDetector),
         \A s \in MonSlugs : /\ monRows'[s] # NoRow <=> monRows[s] # NoRow
                             /\ monRows[s] # NoRow => monRows'[s].last = monRows[s].last
                             /\ UpOrGone(s)' => UpOrGone(s),
         \A i \in Incidents : monIssues'[i] = "open" /\ UpOrGone(i[1])' =>
             i \in monStray' \/ (monIssues[i] = "open" /\ (i \in monStray => i \in monStray'))
  PROVE  MonInv'
<1>1. ClientTimes'
  BY ClientsGoOn DEF Continues, MonInv
<1>2. OpenHasCause'
  <2>1. ASSUME NEW i \in Incidents, monIssues'[i] = "open", UpOrGone(i[1])', i \notin monStray' PROVE Recovering(i)
    <3>1. i[1] \in MonSlugs
      BY DEF Incidents
    <3>. QED  BY <2>1, <3>1 DEF MonInv, OpenHasCause, Opened, UpOrGone
  <2>. QED  BY <2>1 DEF OpenHasCause, Opened, UpOrGone, Recovering
<1>. QED  BY <1>1, <1>2 DEF MonInv, RowsInTime

\* The row the scan is at, and what is left of the scan when it goes on.
LEMMA ScanGoes ==
  ASSUME MonInv, Scanning(monDetector)
  PROVE  /\ monDetector.cur \in Entry /\ monDetector.cur.slug \in MonSlugs /\ monDetector.cur.row \in MonRow
         /\ monDetector.at \in Nat
         /\ \/ Advance(monDetector) = IdleDetector
            \/ /\ Scanning(Advance(monDetector)) /\ Advance(monDetector).pc \in {"mark", "report"}
               /\ Advance(monDetector).at = monDetector.at
               /\ Advance(monDetector).cur \in monDetector.todo /\ Advance(monDetector).todo \subseteq monDetector.todo
         /\ Advance(monDetector) \in [pc : {"idle", "mark", "report", "emitted"}, at : Nat, todo : SUBSET Entry, cur : Entry \cup {NoRow}]
         /\ Entries(Advance(monDetector)) \subseteq Entries(monDetector)
         /\ Advance(monDetector).pc # "emitted"
<1>1. PICK d : d = monDetector
  OBVIOUS
<1>2. d \in [pc : {"idle", "mark", "report", "emitted"}, at : Nat, todo : SUBSET Entry, cur : Entry \cup {NoRow}]
      /\ d.cur \in Entry /\ Entries(d) = d.todo \cup {d.cur}
  BY <1>1 DEF MonInv, MonTypes, ScanSound, Entries
<1>3. d.cur.slug \in MonSlugs /\ d.cur.row \in MonRow /\ d.at \in Nat
  BY <1>2 DEF Entry
<1>4. CASE Advance(d) = IdleDetector
  <2>1. IdleDetector \in [pc : {"idle", "mark", "report", "emitted"}, at : Nat, todo : SUBSET Entry, cur : Entry \cup {NoRow}]
        /\ IdleDetector.pc = "idle"
    BY DEF IdleDetector
  <2>. QED  BY <1>1, <1>2, <1>3, <1>4, <2>1 DEF Entries, Scanning
<1>5. ASSUME NEW e \in d.todo, Advance(d) = [d EXCEPT !.pc = Verdict(e.row, d.at), !.cur = e, !.todo = d.todo \ {e}]
      PROVE  /\ Scanning(Advance(d)) /\ Advance(d).pc \in {"mark", "report"} /\ Advance(d).at = d.at /\ Advance(d).cur = e
             /\ Advance(d).todo \subseteq d.todo
             /\ Advance(d) \in [pc : {"idle", "mark", "report", "emitted"}, at : Nat, todo : SUBSET Entry, cur : Entry \cup {NoRow}]
             /\ Entries(Advance(d)) \subseteq Entries(d)
  <2>1. PICK q, rest : q = Verdict(e.row, d.at) /\ rest = d.todo \ {e}
    OBVIOUS
  <2>2. PICK h : h = [[[d EXCEPT !.pc = q] EXCEPT !.cur = e] EXCEPT !.todo = rest]
    OBVIOUS
  <2>3. Advance(d) = h
    BY <1>5, <2>1, <2>2
  <2>4. q \in {"mark", "report"} /\ rest \subseteq d.todo /\ rest \subseteq Entry /\ e \in Entry
    BY <1>1, <1>2, <2>1 DEF MonInv, ScanSound
  <2>5. h \in [pc : {"idle", "mark", "report", "emitted"}, at : Nat, todo : SUBSET Entry, cur : Entry \cup {NoRow}]
        /\ h.pc = q /\ h.at = d.at /\ h.cur = e /\ h.todo = rest
    BY <1>2, <2>2, <2>4
  <2>6. Scanning(h)
    BY <2>4, <2>5 DEF Scanning
  <2>7. Entries(h) \subseteq Entries(d)
    BY <1>2, <2>4, <2>5, <2>6 DEF Entries
  <2>. QED  BY <2>3, <2>4, <2>5, <2>6, <2>7
<1>6. d.todo \in SUBSET Entry
  BY <1>2
<1>7. Advance(d) = IdleDetector \/ \E e \in d.todo : Advance(d) = [d EXCEPT !.pc = Verdict(e.row, d.at), !.cur = e, !.todo = d.todo \ {e}]
  BY <1>6, ScanGoesOn
<1>. QED  BY <1>1, <1>2, <1>3, <1>4, <1>5, <1>7

\* When the scan fails at a row it goes to the next one.
LEMMA ScanFailKeeps ==
  ASSUME MonInv, DetectorFails
  PROVE  MonInv'
<1>1. /\ Scanning(monDetector) /\ monDetector' = Advance(monDetector)
      /\ UNCHANGED <<monNow, monRows, monIssues, monClient, monStarted, monIds, monStray, monHuman>>
  BY DEF DetectorFails, Scanning
<1>2. MonTypes'
  BY <1>1, ScanGoes DEF MonInv, MonTypes
<1>3. RowsInTime'
  BY <1>1 DEF MonInv, RowsInTime, RowTimes
<1>4. ScanSound'
  <2>1. \A s \in MonSlugs : RowStays(s)
    BY <1>1 DEF RowStays, SameTimings
  <2>. QED  BY <1>1, <1>2, <2>1, ScanAdvances DEF MonInv
<1>5. MissShown'
  <2>1. monDetector'.pc # "emitted"
    BY <1>1, ScanGoes
  <2>. QED  BY <1>1, <2>1 DEF MonInv, MissShown, DownIsOpen
<1>6. \A s \in MonSlugs : UpOrGone(s)' = UpOrGone(s)
  BY <1>1 DEF UpOrGone
<1>7. Entries(monDetector') \subseteq Entries(monDetector)
  BY <1>1, ScanGoes
<1>. QED  BY <1>1, <1>2, <1>3, <1>4, <1>5, <1>6, <1>7, ScanStep

\* The update applies to the monitor the scan saw, silent since.
LEMMA MarkKeeps ==
  ASSUME MonInv, MarkMonitorMissed
  PROVE  MonInv'
<1>1. PICK d, e : d = monDetector /\ e = monDetector.cur
  OBVIOUS
<1>2. Scanning(d) /\ d.pc = "mark" /\ UNCHANGED <<monNow, monIssues, monClient, monStarted, monIds, monStray, monHuman>>
  BY <1>1 DEF MarkMonitorMissed, Scanning
<1>3. e \in Entry /\ e.slug \in MonSlugs /\ e.row \in MonRow /\ d.at \in Nat /\ monNow \in Nat
      /\ d \in [pc : {"idle", "mark", "report", "emitted"}, at : Nat, todo : SUBSET Entry, cur : Entry \cup {NoRow}]
  BY <1>1, <1>2, ScanGoes DEF MonInv, MonTypes
<1>4. CASE MarkApplies(e)
  <2>1. PICK m : m = monRows[e.slug]
    OBVIOUS
  <2>2. m.id = e.row.id /\ m.state = "ok" /\ m.last = e.row.last /\ e.row.id # 0
    BY <1>3, <1>4, <2>1 DEF MarkApplies, MonRow
  <2>3. m # NoRow /\ m \in MonRow /\ RowTimes(m)
    BY <1>3, <2>1, <2>2, RowIs DEF MonInv
  <2>4. ReadOf(e, "ok", d) /\ d.at > NextDue(e.row) /\ d.at <= monNow /\ d.cur = e
    BY <1>1, <1>2 DEF MonInv, ScanSound
  <2>5. SameTimings(m, e.row)
    BY <2>1, <2>2, <2>4 DEF ReadOf
  <2>6. PICK h : h = [[m EXCEPT !.state = "missed"] EXCEPT !.since = d.at]
    OBVIOUS
  <2>7. monRows' = [monRows EXCEPT ![e.slug] = h]
    BY <1>1, <1>4, <2>1, <2>6 DEF MarkMonitorMissed
  <2>8. /\ h \in MonRow /\ h.id = m.id /\ h.interval = m.interval /\ h.grace = m.grace /\ h.schedule = m.schedule
        /\ h.zone = m.zone /\ h.created = m.created /\ h.last = m.last /\ h.state = "missed" /\ h.since = d.at
        /\ h.emitted = m.emitted
    BY <1>3, <2>3, <2>6 DEF MonRow
  <2>9. h # NoRow
    BY <1>3, <2>8, RowIs DEF MonInv
  <2>10. PICK g : g = [d EXCEPT !.pc = "report"]
    OBVIOUS
  <2>11. monDetector' = g
    BY <1>1, <1>4, <2>10 DEF MarkMonitorMissed
  <2>12. /\ g \in [pc : {"idle", "mark", "report", "emitted"}, at : Nat, todo : SUBSET Entry, cur : Entry \cup {NoRow}]
         /\ g.pc = "report" /\ g.at = d.at /\ g.todo = d.todo /\ g.cur = e
    BY <1>3, <2>4, <2>10
  <2>13. monRows'[e.slug] = h /\ \A s \in MonSlugs \ {e.slug} : monRows'[s] = monRows[s]
    BY <1>3, <2>7 DEF MonInv, MonTypes
  <2>14. MonTypes'
    BY <1>2, <2>7, <2>8, <2>11, <2>12 DEF MonInv, MonTypes
  <2>15. m.schedule = {} => m.last + m.interval < d.at /\ m.interval \in MonIntervals /\ m.emitted < d.at
    <3>1. SUFFICES ASSUME m.schedule = {} PROVE m.last + m.interval < d.at /\ m.interval \in MonIntervals /\ m.emitted < d.at
      OBVIOUS
    <3>2. PICK l, i, gr, em : l = m.last /\ i = m.interval /\ gr = m.grace /\ em = m.emitted
      OBVIOUS
    <3>3. {l, i, gr, em, d.at} \subseteq Nat /\ l # 0
      BY <1>3, <2>3, <3>2 DEF MonRow
    <3>4. NextDue(e.row) = l + i + gr
      BY <2>5, <3>1, <3>2, <3>3 DEF NextDue, SameTimings
    <3>5. i \in MonIntervals /\ em <= l + StoreTimeout
      BY <2>2, <2>3, <3>1, <3>2 DEF RowTimes
    <3>6. StoreTimeout + ReportTimeout < i /\ {StoreTimeout, ReportTimeout} \subseteq Nat
      BY <3>5, MonAssumption
    <3>7. l + i + gr < d.at
      BY <2>4, <3>3, <3>4
    <3>8. l + i < d.at /\ em < d.at
      BY <3>3, <3>5, <3>6, <3>7
    <3>. QED  BY <3>2, <3>5, <3>8
  <2>16. RowsInTime'
    <3>1. RowTimes(h)'
      BY <1>2, <2>3, <2>4, <2>8, <2>15 DEF RowTimes
    <3>2. ASSUME NEW s \in MonSlugs, monRows'[s] # NoRow PROVE RowTimes(monRows[s])'
      <4>1. CASE s = e.slug
        BY <2>13, <3>1, <4>1 DEF RowTimes
      <4>2. CASE s # e.slug
        <5>1. RowTimes(monRows[s]) /\ monRows'[s] = monRows[s]
          BY <2>13, <3>2, <4>2 DEF MonInv
        <5>. QED  BY <1>2, <5>1 DEF RowTimes
      <4>. QED  BY <4>1, <4>2
    <3>. QED  BY <3>2 DEF RowsInTime
  <2>17. ScanSound'
    <3>1. \A f \in d.todo : f.slug # e.slug /\ f.slug \in MonSlugs /\ ReadOf(f, f.row.state, d)
      BY <1>1, <1>2, <1>3 DEF MonInv, ScanSound, Entry
    <3>2. \A f \in d.todo : ReadOf(f, f.row.state, g)'
      BY <2>12, <2>13, <3>1 DEF ReadOf
    <3>3. ReadOf(e, "missed", g)'
      BY <2>2, <2>5, <2>8, <2>12, <2>13 DEF ReadOf, SameTimings
    <3>4. /\ \A f \in d.todo : Verdict(f.row, g.at)' \in {"mark", "report"}
          /\ \A f, k \in d.todo : f.slug = k.slug => f = k
          /\ \A f \in d.todo \cup {e} : f.row.id <= monIds' /\ f.row.last <= monNow'
          /\ e # NoRow
      BY <1>1, <1>2, <2>12 DEF MonInv, ScanSound, Verdict, Armed
    <3>. QED  BY <1>2, <2>4, <2>11, <2>12, <3>1, <3>2, <3>3, <3>4 DEF ScanSound
  <2>18. MissShown'
    <3>1. \A s \in MonSlugs : Shown(s)' = Shown(s)
      BY <1>2 DEF Shown, Opened
    <3>2. ASSUME NEW s \in MonSlugs, monRows'[s] # NoRow, monRows'[s].state = "missed", monRows'[s].schedule = {},
                 monRows'[s].emitted >= monRows'[s].since
          PROVE  Shown(s)
      <4>1. CASE s = e.slug
        <5>1. m.schedule = {} /\ m.emitted >= d.at
          BY <2>8, <2>13, <3>2, <4>1
        <5>2. m.emitted \in Nat /\ m.emitted < d.at
          BY <2>3, <2>15, <5>1 DEF MonRow
        <5>. QED  BY <1>3, <5>1, <5>2
      <4>2. CASE s # e.slug
        BY <2>13, <3>2, <4>2 DEF MonInv, MissShown, DownIsOpen, Shown, Opened
      <4>. QED  BY <4>1, <4>2
    <3>3. DownIsOpen'
      BY <3>1, <3>2 DEF DownIsOpen, Shown, Opened
    <3>. QED  BY <1>2, <2>11, <2>12, <3>3 DEF MonInv, MissShown
  <2>19. Entries(monDetector') \subseteq Entries(monDetector)
    BY <1>1, <1>2, <2>4, <2>11, <2>12 DEF Entries, Scanning
  <2>20. \A s \in MonSlugs : /\ monRows'[s] # NoRow <=> monRows[s] # NoRow
                             /\ monRows[s] # NoRow => monRows'[s].last = monRows[s].last
                             /\ UpOrGone(s)' => UpOrGone(s)
    BY <2>1, <2>3, <2>8, <2>9, <2>13 DEF UpOrGone
  <2>. QED  BY <1>2, <2>14, <2>16, <2>17, <2>18, <2>19, <2>20, ScanStep
<1>5. CASE ~MarkApplies(e)
  <2>1. monRows' = monRows /\ monDetector' = Advance(monDetector) /\ Scanning(monDetector)
    BY <1>1, <1>2, <1>5 DEF MarkMonitorMissed
  <2>2. MonTypes'
    BY <1>2, <2>1, ScanGoes DEF MonInv, MonTypes
  <2>3. RowsInTime'
    BY <1>2, <2>1 DEF MonInv, RowsInTime, RowTimes
  <2>4. ScanSound'
    <3>1. \A s \in MonSlugs : RowStays(s)
      BY <2>1 DEF RowStays, SameTimings
    <3>. QED  BY <1>2, <2>1, <2>2, <3>1, ScanAdvances DEF MonInv
  <2>5. MissShown'
    <3>1. monDetector'.pc # "emitted"
      BY <2>1, ScanGoes
    <3>. QED  BY <1>2, <2>1, <3>1 DEF MonInv, MissShown, DownIsOpen
  <2>6. \A s \in MonSlugs : UpOrGone(s)' = UpOrGone(s)
    BY <2>1 DEF UpOrGone
  <2>7. Entries(monDetector') \subseteq Entries(monDetector)
    BY <2>1, ScanGoes
  <2>. QED  BY <1>2, <2>1, <2>2, <2>3, <2>4, <2>5, <2>6, <2>7, ScanStep
<1>. QED  BY <1>4, <1>5

\* A miss that is reported is shown, or a user muted it; a late report is left.
LEMMA ReportMissedKeeps ==
  ASSUME MonInv, ReportMissed
  PROVE  MonInv'
<1>1. PICK d, e, i : d = monDetector /\ e = monDetector.cur /\ i = <<monDetector.cur.slug, "missed">>
  OBVIOUS
<1>2. /\ Scanning(d) /\ d.pc = "report" /\ UNCHANGED <<monNow, monRows, monClient, monStarted, monIds>>
      /\ monIssues' = Reported(i) /\ monHuman' = HumanAfter(i)
      /\ monStray' = IF Late(e.slug, "missed") THEN monStray \cup {i} ELSE monStray
  BY <1>1 DEF ReportMissed, Scanning
<1>3. e \in Entry /\ e.slug \in MonSlugs /\ e.row \in MonRow /\ d.at \in Nat /\ monNow \in Nat
      /\ d \in [pc : {"idle", "mark", "report", "emitted"}, at : Nat, todo : SUBSET Entry, cur : Entry \cup {NoRow}]
  BY <1>1, <1>2, ScanGoes DEF MonInv, MonTypes
<1>4. i \in Incidents /\ i[1] = e.slug
  BY <1>1, <1>3 DEF Incidents, Kinds
<1>5. PICK g : g = [d EXCEPT !.pc = "emitted"]
  OBVIOUS
<1>6. monDetector' = g
  BY <1>1, <1>5 DEF ReportMissed
<1>7. /\ g \in [pc : {"idle", "mark", "report", "emitted"}, at : Nat, todo : SUBSET Entry, cur : Entry \cup {NoRow}]
      /\ g.pc = "emitted" /\ g.at = d.at /\ g.todo = d.todo /\ g.cur = e
  BY <1>1, <1>3, <1>5
<1>8. MonTypes'
  <2>1. monIssues' \in [Incidents -> {"none", "open", "resolved", "muted"}]
    BY <1>2, <1>4 DEF MonInv, MonTypes, Reported
  <2>2. monStray' \subseteq Incidents /\ monHuman' \subseteq Incidents
    BY <1>2, <1>4 DEF MonInv, MonTypes, HumanAfter
  <2>. QED  BY <1>2, <1>6, <1>7, <2>1, <2>2 DEF MonInv, MonTypes
<1>9. RowsInTime'
  BY <1>2 DEF MonInv, RowsInTime, RowTimes
<1>10. ScanSound'
  <2>1. ReadOf(e, "missed", d) /\ \A f \in d.todo : ReadOf(f, f.row.state, d)
    BY <1>1, <1>2 DEF MonInv, ScanSound
  <2>2. ReadOf(e, "missed", g)' /\ \A f \in d.todo : ReadOf(f, f.row.state, g)'
    BY <1>2, <1>7, <2>1 DEF ReadOf
  <2>3. /\ \A f \in d.todo : Verdict(f.row, g.at)' \in {"mark", "report"} /\ f.slug # e.slug
        /\ \A f, k \in d.todo : f.slug = k.slug => f = k
        /\ \A f \in d.todo \cup {e} : f.row.id <= monIds' /\ f.row.last <= monNow'
        /\ e # NoRow /\ d.at <= monNow
    BY <1>1, <1>2, <1>7 DEF MonInv, ScanSound, Verdict, Armed
  <2>. QED  BY <1>2, <1>6, <1>7, <2>2, <2>3 DEF ScanSound
<1>11. (monIssues'[i] = "open" \/ (monIssues'[i] = "muted" /\ monIssues[i] = "muted"))
       /\ \A j \in Incidents : j # i => monIssues'[j] = monIssues[j] /\ (j \in monHuman => j \in monHuman')
  BY <1>2, <1>4 DEF Reported, HumanAfter, MonInv, MonTypes
<1>12. MissShown'
  <2>1. \A j \in Incidents : monIssues'[j] = "muted" => j \in monHuman'
    BY <1>2, <1>4, <1>11 DEF Reported, HumanAfter, MonInv, MonTypes, MissShown
  <2>2. Shown(e.slug)'
    BY <1>1, <1>4, <1>11, <2>1 DEF Shown, Opened
  <2>3. ASSUME NEW s \in MonSlugs, Shown(s) PROVE Shown(s)'
    <3>1. CASE s = e.slug
      BY <1>1, <1>4, <1>11, <2>1, <3>1 DEF Shown, Opened
    <3>2. CASE s # e.slug
      <4>1. <<s, "missed">> \in Incidents /\ <<s, "missed">> # i
        BY <1>1, <3>2 DEF Incidents, Kinds
      <4>. QED  BY <1>11, <2>3, <4>1 DEF Shown, Opened
    <3>. QED  BY <3>1, <3>2
  <2>4. DownIsOpen'
    BY <1>2, <2>3 DEF MonInv, MissShown, DownIsOpen, Shown, Opened
  <2>5. Shown(monDetector.cur.slug)'
    BY <1>1, <1>6, <1>7, <2>2 DEF Shown, Opened
  <2>. QED  BY <2>1, <2>4, <2>5 DEF MissShown
<1>13. Entries(monDetector') \subseteq Entries(monDetector)
  BY <1>1, <1>2, <1>6, <1>7 DEF Entries, Scanning
<1>14. ASSUME NEW j \in Incidents, monIssues'[j] = "open", UpOrGone(j[1])'
       PROVE  j \in monStray' \/ (monIssues[j] = "open" /\ (j \in monStray => j \in monStray'))
  <2>1. CASE j = i
    <3>1. Late(e.slug, "missed")
      BY <1>2, <1>4, <1>14, <2>1 DEF Late, UpOrGone
    <3>. QED  BY <1>2, <2>1, <3>1
  <2>2. CASE j # i
    BY <1>2, <1>11, <1>14, <2>2
  <2>. QED  BY <2>1, <2>2
<1>15. \A s \in MonSlugs : UpOrGone(s)' = UpOrGone(s)
  BY <1>2 DEF UpOrGone
<1>. QED  BY <1>2, <1>8, <1>9, <1>10, <1>12, <1>13, <1>14, <1>15, ScanStep

\* A miss that is stamped as reported is shown.
LEMMA MissedEmittedKeeps ==
  ASSUME MonInv, MarkMissedEmitted
  PROVE  MonInv'
<1>1. PICK d, e, n : d = monDetector /\ e = monDetector.cur /\ n = monDetector.at
  OBVIOUS
<1>2. /\ Scanning(monDetector) /\ d.pc = "emitted" /\ monDetector' = Advance(monDetector)
      /\ UNCHANGED <<monNow, monIssues, monClient, monStarted, monIds, monStray, monHuman>>
      /\ monRows' = Emitted(e.slug, e.row.id, n)
  BY <1>1 DEF MarkMissedEmitted, Scanning
<1>3. e \in Entry /\ e.slug \in MonSlugs /\ e.row \in MonRow /\ n \in Nat /\ monNow \in Nat /\ e.row.id \in Nat \ {0}
  BY <1>1, <1>2, ScanGoes DEF MonInv, MonTypes, MonRow
<1>4. PICK id : id = e.row.id
  OBVIOUS
<1>5. /\ monRows' \in [MonSlugs -> MonRow \cup {NoRow}]
      /\ \A s \in MonSlugs :
           monRows'[s] = monRows[s]
           \/ /\ s = e.slug /\ monRows[s].id = id /\ monRows[s] # NoRow /\ monRows'[s] # NoRow
              /\ monRows'[s].id = id /\ SameTimings(monRows'[s], monRows[s])
              /\ monRows'[s].state = monRows[s].state /\ monRows'[s].since = monRows[s].since
              /\ monRows'[s].emitted = n
  BY <1>2, <1>3, <1>4, StampedRow DEF MonInv
<1>6. MonTypes'
  BY <1>2, <1>5, ScanGoes DEF MonInv, MonTypes
<1>7. ReadOf(e, "missed", d) /\ n <= monNow /\ d.at = n
  BY <1>1, <1>2 DEF MonInv, ScanSound
<1>8. RowsInTime'
  <2>1. ASSUME NEW s \in MonSlugs, monRows'[s] # NoRow PROVE RowTimes(monRows[s]) /\ monRows[s] # NoRow
    BY <1>5, <2>1 DEF MonInv
  <2>2. monRows[e.slug].id = id => IF monRows[e.slug].last = e.row.last THEN monRows[e.slug].state = "missed"
                                   ELSE n <= monRows[e.slug].last + StoreTimeout
    BY <1>4, <1>7 DEF ReadOf
  <2>3. ASSUME NEW s \in MonSlugs, monRows'[s] # NoRow PROVE RowTimes(monRows[s])'
    <3>1. CASE monRows'[s] = monRows[s]
      BY <1>2, <2>1, <2>3, <3>1 DEF RowTimes
    <3>2. CASE monRows'[s] # monRows[s]
      <4>1. PICK m, k : m = monRows[s] /\ k = monRows'[s]
        OBVIOUS
      <4>2. /\ m.id = id /\ k.id = id /\ SameTimings(k, m) /\ k.state = m.state /\ k.since = m.since /\ k.emitted = n
            /\ s = e.slug
        BY <1>5, <3>2, <4>1
      <4>3. RowTimes(m) /\ (k.state # "missed" => n <= m.last + StoreTimeout)
        BY <2>1, <2>2, <2>3, <4>1, <4>2
      <4>4. RowTimes(k)
        BY <1>7, <4>2, <4>3 DEF RowTimes, SameTimings
      <4>. QED  BY <1>2, <4>1, <4>4 DEF RowTimes
    <3>. QED  BY <3>1, <3>2
  <2>. QED  BY <2>3 DEF RowsInTime
<1>9. ScanSound'
  <2>1. \A s \in MonSlugs : s # monDetector.cur.slug => RowStays(s)
    BY <1>1, <1>5 DEF RowStays, SameTimings
  <2>. QED  BY <1>2, <1>6, <2>1, ScanAdvances DEF MonInv
<1>10. MissShown'
  <2>1. monDetector'.pc # "emitted"
    BY <1>2, ScanGoes
  <2>2. \A s \in MonSlugs : Shown(s)' = Shown(s)
    BY <1>2 DEF Shown, Opened
  <2>3. ASSUME NEW s \in MonSlugs, monRows'[s] # NoRow, monRows'[s].state = "missed", monRows'[s].schedule = {},
               monRows'[s].emitted >= monRows'[s].since
        PROVE  Shown(s)
    <3>1. CASE monRows'[s] = monRows[s]
      BY <2>3, <3>1 DEF MonInv, MissShown, DownIsOpen, Shown, Opened
    <3>2. CASE monRows'[s] # monRows[s]
      BY <1>1, <1>2, <1>4, <1>5, <2>3, <3>2 DEF MonInv, MissShown, SameTimings
    <3>. QED  BY <3>1, <3>2
  <2>4. DownIsOpen'
    BY <2>2, <2>3 DEF DownIsOpen, Shown, Opened
  <2>. QED  BY <1>2, <2>1, <2>4 DEF MonInv, MissShown
<1>11. Entries(monDetector') \subseteq Entries(monDetector)
  BY <1>2, ScanGoes
<1>12. \A s \in MonSlugs : /\ monRows'[s] # NoRow <=> monRows[s] # NoRow
                           /\ monRows[s] # NoRow => monRows'[s].last = monRows[s].last
                           /\ UpOrGone(s)' => UpOrGone(s)
  BY <1>5 DEF UpOrGone, SameTimings
<1>. QED  BY <1>2, <1>6, <1>8, <1>9, <1>10, <1>11, <1>12, ScanStep


\* A scan reads the rows as they are; only what needs the detector is taken along.
LEMMA CheckKeeps ==
  ASSUME MonInv, DetectorCheck
  PROVE  MonInv'
<1>1. PICK due, T : /\ due = {s \in MonSlugs : monRows[s] # NoRow /\ Verdict(monRows[s], monNow) # "skip"}
                    /\ T = {[slug |-> s, row |-> monRows[s]] : s \in due}
  OBVIOUS
<1>2. PICK d : d = [[IdleDetector EXCEPT !.at = monNow] EXCEPT !.todo = T]
  OBVIOUS
<1>3. monDetector' = Advance(d) /\ monDetector.pc = "idle"
      /\ UNCHANGED <<monNow, monRows, monIssues, monClient, monStarted, monIds, monStray, monHuman>>
  BY <1>1, <1>2 DEF DetectorCheck
<1>4. d.pc = "idle" /\ d.at = monNow /\ d.todo = T /\ d.cur = NoRow /\ d = [pc |-> "idle", at |-> monNow, todo |-> T, cur |-> NoRow]
      /\ monNow \in Nat /\ monIds \in Nat
  BY <1>2 DEF IdleDetector, MonInv, MonTypes
<1>5. \A e \in T : /\ e \in Entry /\ e.slug \in MonSlugs /\ e.row = monRows[e.slug] /\ e.row \in MonRow /\ RowTimes(e.row)
                   /\ Verdict(e.row, monNow) \in {"mark", "report"} /\ e.row # NoRow
  <2>1. ASSUME NEW s \in due PROVE /\ monRows[s] \in MonRow /\ RowTimes(monRows[s]) /\ s \in MonSlugs /\ monRows[s] # NoRow
                                   /\ Verdict(monRows[s], monNow) \in {"mark", "report"}
    BY <1>1, RowIs DEF MonInv, Verdict
  <2>. QED  BY <1>1, <2>1 DEF Entry
<1>6. \A e, f \in T : e.slug = f.slug => e = f
  BY <1>1
<1>7. T \in SUBSET Entry
  BY <1>5
<1>8. CASE monDetector' = IdleDetector
  <2>1. Entries(monDetector') = {} /\ IdleDetector.pc = "idle"
    BY <1>8 DEF Entries, Scanning, IdleDetector
  <2>2. IdleDetector \in [pc : {"idle", "mark", "report", "emitted"}, at : Nat, todo : SUBSET Entry, cur : Entry \cup {NoRow}]
    BY DEF IdleDetector
  <2>3. MonTypes'
    BY <1>3, <1>8, <2>2 DEF MonInv, MonTypes
  <2>4. RowsInTime' /\ MissShown'
    BY <1>3, <1>8, <2>1 DEF MonInv, RowsInTime, RowTimes, MissShown, DownIsOpen
  <2>5. ScanSound'
    BY <1>8, <2>1 DEF ScanSound, Scanning
  <2>6. \A s \in MonSlugs : UpOrGone(s)' = UpOrGone(s)
    BY <1>3 DEF UpOrGone
  <2>. QED  BY <1>3, <2>1, <2>3, <2>4, <2>5, <2>6, ScanStep
<1>9. ASSUME NEW e \in T, monDetector' = [d EXCEPT !.pc = Verdict(e.row, d.at), !.cur = e, !.todo = d.todo \ {e}]
      PROVE  MonInv'
  <2>1. PICK q, rest : q = Verdict(e.row, monNow) /\ rest = T \ {e}
    OBVIOUS
  <2>2. PICK h : h = [[[d EXCEPT !.pc = q] EXCEPT !.cur = e] EXCEPT !.todo = rest]
    OBVIOUS
  <2>3. monDetector' = h
    BY <1>4, <1>9, <2>1, <2>2
  <2>4. q \in {"mark", "report"} /\ (q = "mark" => e.row.state = "ok" /\ monNow > NextDue(e.row))
        /\ (q = "report" => e.row.state = "missed")
    BY <1>5, <2>1 DEF Verdict
  <2>5. e \in Entry /\ rest \subseteq Entry /\ rest \subseteq T
    BY <1>7, <2>1
  <2>6. h.pc = q /\ h.at = monNow /\ h.todo = rest /\ h.cur = e
        /\ h \in [pc : {"idle", "mark", "report", "emitted"}, at : Nat, todo : SUBSET Entry, cur : Entry \cup {NoRow}]
    <3>1. d \in [pc : {"idle", "mark", "report", "emitted"}, at : Nat, todo : SUBSET Entry, cur : Entry \cup {NoRow}]
      BY <1>4, <1>7
    <3>. QED  BY <1>4, <2>2, <2>4, <2>5, <3>1
  <2>7. MonTypes'
    BY <1>3, <2>3, <2>6 DEF MonInv, MonTypes
  <2>8. RowsInTime'
    BY <1>3 DEF MonInv, RowsInTime, RowTimes
  <2>9. e # NoRow
    <3>1. "row" \in DOMAIN e /\ "row" \notin DOMAIN NoRow
      BY <2>5 DEF Entry, NoRow
    <3>. QED  BY <3>1
  <2>10. \A f \in T : ReadOf(f, f.row.state, h)'
    BY <1>3, <1>5 DEF ReadOf, SameTimings
  <2>11. \A f \in T : f.row.id <= monIds' /\ f.row.last <= monNow' /\ Verdict(f.row, h.at)' \in {"mark", "report"}
    BY <1>3, <1>5, <2>6 DEF RowTimes, Verdict, Armed
  <2>12. \A f \in rest : f.slug # e.slug
    BY <1>6, <2>1
  <2>13. ScanSound'
    <3>1. /\ h.at <= monNow' /\ e # NoRow
          /\ \A f \in rest \cup {e} : f.row.id <= monIds' /\ f.row.last <= monNow'
      BY <1>3, <1>4, <2>5, <2>6, <2>9, <2>11
    <3>2. /\ \A f \in rest : ReadOf(f, f.row.state, h)' /\ f.slug # e.slug /\ Verdict(f.row, h.at)' \in {"mark", "report"}
          /\ \A f, g \in rest : f.slug = g.slug => f = g
      BY <1>6, <2>5, <2>10, <2>11, <2>12
    <3>3. /\ h.pc = "mark" => ReadOf(e, "ok", h)' /\ h.at > NextDue(e.row)
          /\ h.pc = "report" => ReadOf(e, "missed", h)'
          /\ h.pc # "emitted"
      BY <2>4, <2>6, <2>10
    <3>. QED  BY <2>3, <2>6, <3>1, <3>2, <3>3 DEF ScanSound
  <2>14. MissShown'
    BY <1>3, <2>3, <2>4, <2>6 DEF MonInv, MissShown, DownIsOpen
  <2>15. ClientTimes'
    <3>1. \A f \in T : \A c \in MonClients : monClient[c].pc = "store" => f.row.last # monClient[c].at
      BY <1>5 DEF MonInv, ClientTimes
    <3>2. \A f \in monDetector'.todo \cup {monDetector'.cur} : f \in T
      BY <2>3, <2>5, <2>6
    <3>3. ASSUME NEW c \in MonClients, monClient[c].pc # "idle"
          PROVE  LET r == monClient[c] IN
      /\ r.at <= monNow /\ monNow <= r.at + Waits(r)
      /\ r.pc \in {"errored", "emitted"} <=> (r.pc # "store" /\ r.kinds = {})
      /\ r.pc = "store" =>
           /\ \A o \in MonClients : monClient[o].pc = "store" /\ monClient[o].at = r.at => o = c
           /\ \A s \in MonSlugs : monRows[s] # NoRow => monRows[s].last # r.at
      /\ r.pc # "store" => /\ r.id <= monIds
                           /\ monRows[r.slug] # NoRow => r.at <= monRows[r.slug].last + StoreTimeout
      BY <3>3 DEF MonInv, ClientTimes
    <3>. QED  BY <1>3, <3>1, <3>2, <3>3 DEF ClientTimes, Waits
  <2>16. OpenHasCause'
    BY <1>3 DEF MonInv, OpenHasCause, Opened, Recovering
  <2>. QED  BY <2>7, <2>8, <2>13, <2>14, <2>15, <2>16 DEF MonInv, RowsInTime
<1>. QED  BY <1>3, <1>4, <1>7, <1>8, <1>9, ScanGoesOn

\* A deleted monitor leaves its incidents open; its number is not used again.
LEMMA DeleteKeeps ==
  ASSUME MonInv, NEW s \in MonSlugs, DeleteMonitor(s)
  PROVE  MonInv'
<1>1. /\ monRows' = [monRows EXCEPT ![s] = NoRow] /\ monStray' = monStray \cup {<<s, k>> : k \in Kinds}
      /\ UNCHANGED <<monNow, monIssues, monDetector, monClient, monStarted, monIds, monHuman>>
  BY DEF DeleteMonitor
<1>2. monRows'[s] = NoRow /\ \A x \in MonSlugs \ {s} : monRows'[x] = monRows[x]
  BY <1>1 DEF MonInv, MonTypes
<1>3. MonTypes'
  <2>1. monStray' \subseteq Incidents
    BY <1>1 DEF MonInv, MonTypes, Incidents
  <2>. QED  BY <1>1, <2>1 DEF MonInv, MonTypes
<1>4. RowsInTime'
  BY <1>1, <1>2 DEF MonInv, RowsInTime, RowTimes
<1>5. \A x \in MonSlugs : RowStays(x)
  BY <1>2 DEF RowStays, SameTimings
<1>6. ScanSound'
  <2>1. monNow <= monNow' /\ monIds <= monIds'
    BY <1>1 DEF MonInv, MonTypes
  <2>. QED  BY <1>1, <1>3, <1>5, <2>1, ScanStays DEF MonInv
<1>7. ClientTimes'
  <2>1. \A x \in MonSlugs : monRows'[x] # NoRow => monRows[x] # NoRow /\ monRows'[x].last = monRows[x].last
    BY <1>2
  <2>2. \A c \in MonClients : Continues(monClient[c], monClient'[c])
    BY <1>1 DEF Continues
  <2>3. Entries(monDetector') \subseteq Entries(monDetector)
    BY <1>1 DEF Entries
  <2>. QED  BY <1>1, <2>1, <2>2, <2>3, ClientsGoOn DEF MonInv
<1>8. OpenHasCause'
  <2>1. ASSUME NEW i \in Incidents, monIssues[i] = "open", UpOrGone(i[1])', i \notin monStray' PROVE Recovering(i)
    <3>1. i[1] \in MonSlugs /\ i[2] \in Kinds /\ i = <<i[1], i[2]>>
      BY DEF Incidents
    <3>2. i[1] # s
      BY <1>1, <2>1, <3>1
    <3>. QED  BY <1>1, <1>2, <2>1, <3>1, <3>2 DEF MonInv, OpenHasCause, Opened, UpOrGone
  <2>2. \A i \in Incidents : Recovering(i)' = Recovering(i)
    BY <1>1 DEF Recovering
  <2>. QED  BY <1>1, <2>1, <2>2 DEF OpenHasCause, Opened, UpOrGone
<1>9. MissShown'
  <2>1. \A x \in MonSlugs : Shown(x)' = Shown(x)
    BY <1>1 DEF Shown, Opened
  <2>2. DownIsOpen'
    BY <1>1, <1>2 DEF MonInv, MissShown, DownIsOpen
  <2>3. monDetector.pc = "emitted" => monDetector.cur \in Entry
    BY DEF MonInv, ScanSound, Scanning, MonTypes
  <2>4. ASSUME monDetector.pc = "emitted", monRows'[monDetector.cur.slug].id = monDetector.cur.row.id,
               monRows'[monDetector.cur.slug].state = "missed", monRows'[monDetector.cur.slug].schedule = {}
        PROVE  Shown(monDetector.cur.slug)
    <3>1. monDetector.cur.slug \in MonSlugs /\ monDetector.cur.row.id # 0 /\ NoRow.id = 0
      BY <2>3, <2>4 DEF Entry, MonRow, NoRow
    <3>2. monDetector.cur.slug # s
      BY <1>2, <2>4, <3>1
    <3>. QED  BY <1>2, <2>4, <3>1, <3>2 DEF MonInv, MissShown
  <2>5. monDetector.pc = "emitted" => Shown(monDetector.cur.slug)' = Shown(monDetector.cur.slug)
    BY <1>1 DEF Shown, Opened
  <2>. QED  BY <1>1, <2>2, <2>4, <2>5 DEF MonInv, MissShown
<1>. QED  BY <1>3, <1>4, <1>6, <1>7, <1>8, <1>9 DEF MonInv, RowsInTime

\* What a user closes is remembered as such.
LEMMA CloseKeeps ==
  ASSUME MonInv, NEW i \in Incidents, NEW st \in {"resolved", "muted"}, CloseIncident(i, st)
  PROVE  MonInv'
<1>1. /\ monIssues' = [monIssues EXCEPT ![i] = st] /\ monStray' = monStray \ {i} /\ monHuman' = monHuman \cup {i}
      /\ UNCHANGED <<monNow, monRows, monDetector, monClient, monStarted, monIds>>
  BY DEF CloseIncident
<1>2. monIssues'[i] = st /\ \A j \in Incidents \ {i} : monIssues'[j] = monIssues[j]
  BY <1>1 DEF MonInv, MonTypes
<1>3. MonTypes'
  BY <1>1 DEF MonInv, MonTypes
<1>4. \A c \in MonClients : Continues(monClient[c], monClient'[c])
  BY <1>1 DEF Continues
<1>5. OpenHasCause'
  BY <1>1, <1>2 DEF MonInv, OpenHasCause, Opened, Recovering
<1>6. MissShown'
  <2>1. \A j \in Incidents : monIssues'[j] = "muted" => j \in monHuman'
    BY <1>1, <1>2 DEF MonInv, MissShown
  <2>2. ASSUME NEW s \in MonSlugs, Shown(s) PROVE Shown(s)'
    <3>1. <<s, "missed">> \in Incidents
      BY DEF Incidents, Kinds
    <3>. QED  BY <1>1, <1>2, <2>2, <3>1 DEF Shown, Opened
  <2>. QED  BY <1>1, <2>1, <2>2, MissStays
<1>. QED  BY <1>1, <1>3, <1>4, <1>5, <1>6, ReportStep

\* Time passes only within the deadlines.
LEMMA TickKeeps ==
  ASSUME MonInv, MonTick
  PROVE  MonInv'
<1>1. PICK n : n = monNow + 1
  OBVIOUS
<1>2. MayTick /\ monNow' = n
      /\ UNCHANGED <<monRows, monIssues, monDetector, monClient, monStarted, monIds, monStray, monHuman>>
  BY <1>1 DEF MonTick
<1>3. monNow \in Nat /\ n \in Nat \ {0} /\ n > monNow
  BY <1>1 DEF MonInv, MonTypes
<1>4. MonTypes'
  BY <1>2, <1>3 DEF MonInv, MonTypes
<1>5. RowsInTime'
  <2>1. ASSUME NEW x \in MonSlugs, monRows[x] # NoRow PROVE RowTimes(monRows[x])'
    <3>1. RowTimes(monRows[x]) /\ monRows[x] \in MonRow
      BY <2>1, RowIs DEF MonInv
    <3>. QED  BY <1>1, <1>2, <1>3, <3>1 DEF RowTimes, MonRow
  <2>. QED  BY <1>2, <2>1 DEF RowsInTime
<1>6. ClientTimes'
  <2>1. ASSUME NEW d \in MonClients, monClient[d].pc # "idle"
        PROVE  monClient[d].at <= n /\ n <= monClient[d].at + Waits(monClient[d])
    <3>1. monClient[d].at \in Nat /\ {StoreTimeout, ReportTimeout} \subseteq Nat
      BY <2>1, MonAssumption DEF MonInv, MonTypes, Storing, Reporting, IdleClient
    <3>2. monClient[d].at <= monNow
      BY <2>1 DEF MonInv, ClientTimes
    <3>3. monNow - monClient[d].at < Waits(monClient[d])
      BY <1>2, <2>1 DEF MayTick, Waits
    <3>. QED  BY <1>1, <1>3, <3>1, <3>2, <3>3 DEF Waits
  <2>. QED  BY <1>2, <2>1 DEF MonInv, ClientTimes, Waits
<1>7. ScanSound'
  <2>1. \A x \in MonSlugs : RowStays(x)
    BY <1>2 DEF RowStays, SameTimings
  <2>2. monNow <= monNow' /\ monIds <= monIds'
    BY <1>2, <1>3 DEF MonInv, MonTypes
  <2>. QED  BY <1>2, <1>4, <2>1, <2>2, ScanStays DEF MonInv
<1>8. OpenHasCause'
  BY <1>2 DEF MonInv, OpenHasCause, Opened, Recovering
<1>9. MissShown'
  BY <1>2, MissStays DEF MonInv, MissShown, Shown, Opened
<1>. QED  BY <1>4, <1>5, <1>6, <1>7, <1>8, <1>9 DEF MonInv, RowsInTime

\* A restart leaves open what was being recovered.
LEMMA RestartKeeps ==
  ASSUME MonInv, MonRestart
  PROVE  MonInv'
<1>1. /\ monDetector' = IdleDetector /\ monClient' = [c \in MonClients |-> IdleClient]
      /\ monStray' = monStray \cup UNION {{<<monClient[c].slug, k>> : k \in monClient[c].kinds} :
                                      c \in {x \in MonClients : monClient[x].pc \notin {"idle", "store"}}}
      /\ UNCHANGED <<monNow, monRows, monIssues, monIds, monHuman>>
  BY DEF MonRestart
<1>2. IdleDetector \in [pc : {"idle", "mark", "report", "emitted"}, at : Nat, todo : SUBSET Entry, cur : Entry \cup {NoRow}]
      /\ IdleDetector.pc = "idle" /\ IdleClient.pc = "idle"
  BY DEF IdleDetector, IdleClient
<1>3. MonTypes'
  <2>1. ASSUME NEW c \in MonClients, monClient[c].pc \notin {"idle", "store"}
        PROVE  {<<monClient[c].slug, k>> : k \in monClient[c].kinds} \subseteq Incidents
    <3>1. monClient[c] \in Reporting
      BY <2>1 DEF MonInv, MonTypes, IdleClient, Storing
    <3>. QED  BY <3>1 DEF Reporting, Incidents, Kinds
  <2>2. monStray' \subseteq Incidents
    BY <1>1, <2>1 DEF MonInv, MonTypes
  <2>. QED  BY <1>1, <1>2, <2>2 DEF MonInv, MonTypes
<1>4. RowsInTime'
  BY <1>1 DEF MonInv, RowsInTime, RowTimes
<1>5. ClientTimes'
  BY <1>1, <1>2 DEF ClientTimes
<1>6. ScanSound'
  BY <1>1, <1>2 DEF ScanSound, Scanning
<1>7. OpenHasCause'
  <2>1. ASSUME NEW i \in Incidents, monIssues[i] = "open", UpOrGone(i[1]) PROVE i \in monStray'
    <3>1. i \in monStray \/ Recovering(i)
      BY <2>1 DEF MonInv, OpenHasCause, Opened, UpOrGone
    <3>2. ASSUME NEW c \in MonClients, RecoveringBy(monClient[c], i) PROVE i \in monStray'
      <4>1. monClient[c].pc \notin {"idle", "store"} /\ i = <<monClient[c].slug, i[2]>> /\ i[2] \in monClient[c].kinds
        BY <3>2 DEF RecoveringBy, Incidents
      <4>. QED  BY <1>1, <4>1
    <3>. QED  BY <1>1, <3>1, <3>2 DEF Recovering, RecoveringBy
  <2>. QED  BY <1>1, <2>1 DEF OpenHasCause, Opened, UpOrGone
<1>8. MissShown'
  BY <1>1, <1>2 DEF MonInv, MissShown, DownIsOpen
<1>. QED  BY <1>3, <1>4, <1>5, <1>6, <1>7, <1>8 DEF MonInv, RowsInTime

\* Nothing has checked in yet.
LEMMA MonStart ==
  ASSUME MonInit
  PROVE  MonInv
<1>1. \A s \in MonSlugs : monRows[s] = NoRow
  BY DEF MonInit
<1>2. \A c \in MonClients : monClient[c] = IdleClient
  BY DEF MonInit
<1>3. IdleDetector \in [pc : {"idle", "mark", "report", "emitted"}, at : Nat, todo : SUBSET Entry, cur : Entry \cup {NoRow}]
      /\ IdleDetector.pc = "idle" /\ IdleClient.pc = "idle"
  BY DEF IdleDetector, IdleClient
<1>4. \A i \in Incidents : monIssues[i] = "none" /\ i[1] \in MonSlugs
  BY DEF MonInit, Incidents
<1>5. MonTypes
  BY <1>3 DEF MonInit, MonTypes
<1>6. ScanSound /\ ClientTimes
  BY <1>2, <1>3 DEF MonInit, ScanSound, Scanning, ClientTimes
<1>7. OpenHasCause /\ MissShown
  BY <1>1, <1>3, <1>4 DEF MonInit, OpenHasCause, Opened, MissShown, DownIsOpen
<1>. QED  BY <1>1, <1>5, <1>6, <1>7 DEF MonInv

\* Every step keeps the monitors and the scan consistent.
LEMMA MonStep ==
  ASSUME MonInv, [MonNext]_monVars
  PROVE  MonInv'
<1>1. ASSUME NEW c \in MonClients, CheckInStep(c) PROVE MonInv'
  BY <1>1, RecordKeeps, ErroredKeeps, EmittedKeeps, LookupKeeps, EventKeeps, ResolveKeeps DEF CheckInStep
<1>2. CASE DetectorStep \/ DetectorFails
  BY <1>2, CheckKeeps, MarkKeeps, ReportMissedKeeps, MissedEmittedKeeps, ScanFailKeeps DEF DetectorStep
<1>3. CASE UNCHANGED monVars
  <2>1. RowsInTime'
    BY <1>3 DEF MonInv, RowsInTime, RowTimes, monVars
  <2>2. MonTypes' /\ OpenHasCause'
    BY <1>3 DEF MonInv, MonTypes, monVars, OpenHasCause, Opened, Recovering
  <2>3. ClientTimes'
    BY <1>3 DEF MonInv, monVars, ClientTimes, Scanning
  <2>4. \A s \in MonSlugs : RowStays(s)
    BY <1>3 DEF RowStays, SameTimings, monVars
  <2>5. monNow <= monNow' /\ monIds <= monIds'
    BY <1>3 DEF MonInv, MonTypes, monVars
  <2>6. ScanSound'
    BY <1>3, <2>2, <2>4, <2>5, ScanStays DEF MonInv, monVars
  <2>7. MissShown'
    BY <1>3, MissStays DEF MonInv, MissShown, Shown, Opened, monVars
  <2>. QED  BY <2>1, <2>2, <2>3, <2>6, <2>7 DEF MonInv, RowsInTime
<1>. QED  BY <1>1, <1>2, <1>3, CheckInKeeps, LostKeeps, FailKeeps, DeleteKeeps, CloseKeeps, TickKeeps, RestartKeeps DEF MonNext

\* The issues of the incidents follow the monitors both ways, whatever the check-ins,
\* the scan, users, failures and restarts do in between.
THEOREM IncidentsStayTrue == MonSpec => []IncidentsFollowMonitors
<1>1. MonInit => MonInv
  BY MonStart
<1>2. MonInv /\ [MonNext]_monVars => MonInv'
  BY MonStep
<1>3. MonInv => IncidentsFollowMonitors
  <2>1. ASSUME MonInv PROVE OpenOnlyWhileDown
    BY <2>1 DEF MonInv, OpenHasCause, Opened, OpenOnlyWhileDown
  <2>. QED  BY <2>1 DEF MonInv, MissShown, IncidentsFollowMonitors
<1>. QED  BY <1>1, <1>2, <1>3, PTL DEF MonSpec

\* When a monitor is due is a time.
LEMMA DueIsATime ==
  ASSUME NEW m \in MonRow
  PROVE  NextDue(m) \in Nat
<1>1. PICK base, runs : /\ base = (IF m.last = 0 THEN m.created ELSE m.last)
                        /\ runs = {t \in {r - m.zone : r \in m.schedule} : t > base}
  OBVIOUS
<1>2. base \in Nat /\ m.interval \in Nat /\ m.grace \in Nat
  BY <1>1 DEF MonRow
<1>3. m.schedule \subseteq Nat /\ m.zone \in Int
  <2>1. m.schedule \in MonSchedules \cup {{}} /\ m.zone \in MonZones \cup {0}
    BY DEF MonRow
  <2>2. \A q \in MonSchedules \cup {{}} : q \in SUBSET Nat
    BY MonAssumption
  <2>3. m.schedule \in SUBSET Nat
    BY <2>1, <2>2
  <2>4. \A z \in MonZones \cup {0} : z \in Int
    BY MonAssumption
  <2>. QED  BY <2>1, <2>3, <2>4
<1>4. runs \subseteq Nat
  BY <1>1, <1>2, <1>3
<1>5. runs # {} => Min(runs) \in Nat
  BY <1>4, FirstTime
<1>6. NextRun(m, base) \in Nat
  BY <1>1, <1>5 DEF NextRun
<1>. QED  BY <1>1, <1>2, <1>6 DEF NextDue

\* The row a scan marks is the silent one it read.
LEMMA MarkIsDue ==
  ASSUME MonInv, [MonNext]_monVars, NEW s \in MonSlugs, monRows[s] # NoRow, monRows'[s] # NoRow,
         monRows[s].state # "missed", monRows'[s].state = "missed"
  PROVE  monNow > NextDue(monRows[s])
<1>1. monRows'[s] # monRows[s]
  OBVIOUS
<1>2. ASSUME NEW c \in MonClients, RecordCheckIn(c) PROVE FALSE
  <2>1. PICK r : r = monClient[c]
    OBVIOUS
  <2>2. PICK m : m = StoredRow(r)
    OBVIOUS
  <2>3. /\ r.pc = "store" /\ monRows' = [monRows EXCEPT ![r.slug] = m]
        /\ monRows[r.slug] = NoRow => r.body.interval # Unset \/ r.body.schedule # {}
    BY <1>1, <1>2, <2>1, <2>2 DEF RecordCheckIn, StoredRow
  <2>4. m.state \in {"ok", "error"}
    BY <2>1, <2>2, <2>3, NewRowIs
  <2>5. monRows'[s] = m
    BY <1>1, <2>3 DEF MonInv, MonTypes
  <2>. QED  BY <2>4, <2>5
<1>3. ASSUME NEW slug \in MonSlugs, NEW id \in Nat \ {0}, NEW n \in Nat, monRows' = Emitted(slug, id, n) PROVE FALSE
  BY <1>1, <1>3, StampedRow DEF MonInv
<1>4. ASSUME NEW c \in MonClients, MarkEmitted(c) PROVE FALSE
  <2>1. PICK r : r = monClient[c]
    OBVIOUS
  <2>2. r \in Reporting /\ r.slug \in MonSlugs /\ r.id \in Nat \ {0} /\ r.at \in Nat
    BY <1>4, <2>1 DEF MarkEmitted, MonInv, MonTypes, Reporting, Storing, IdleClient
  <2>. QED  BY <1>3, <1>4, <2>1, <2>2 DEF MarkEmitted
<1>5. ASSUME MarkMissedEmitted PROVE FALSE
  <2>1. monDetector.cur.slug \in MonSlugs /\ monDetector.cur.row.id \in Nat \ {0} /\ monDetector.at \in Nat
    BY <1>5, ScanGoes DEF MarkMissedEmitted, Scanning, MonRow
  <2>. QED  BY <1>3, <1>5, <2>1 DEF MarkMissedEmitted
<1>6. CASE MarkMonitorMissed
  <2>1. PICK d, e, m : d = monDetector /\ e = monDetector.cur /\ m = monRows[s]
    OBVIOUS
  <2>2. d.pc = "mark" /\ Scanning(d) /\ e \in Entry /\ e.slug \in MonSlugs /\ d.at \in Nat /\ monNow \in Nat
    BY <1>6, <2>1, ScanGoes DEF MarkMonitorMissed, Scanning, MonInv, MonTypes
  <2>3. MarkApplies(e) /\ s = e.slug
    BY <1>1, <1>6, <2>1, <2>2 DEF MarkMonitorMissed, MonInv, MonTypes
  <2>4. ReadOf(e, "ok", d) /\ d.at > NextDue(e.row) /\ d.at <= monNow
    BY <2>1, <2>2 DEF MonInv, ScanSound
  <2>5. SameTimings(m, e.row)
    BY <2>1, <2>3, <2>4 DEF MarkApplies, ReadOf
  <2>6. NextDue(m) = NextDue(e.row)
    BY <2>5 DEF NextDue, NextRun, SameTimings
  <2>7. NextDue(e.row) \in Nat
    BY <2>2, DueIsATime DEF Entry
  <2>. QED  BY <2>1, <2>2, <2>4, <2>6, <2>7
<1>7. ASSUME NEW x \in MonSlugs, DeleteMonitor(x) PROVE FALSE
  BY <1>1, <1>7 DEF DeleteMonitor, MonInv, MonTypes
<1>8. UNCHANGED monRows => FALSE
  BY <1>1
<1>9. ASSUME NEW c \in MonClients, CheckInStep(c) PROVE FALSE
  BY <1>2, <1>4, <1>8, <1>9 DEF CheckInStep, ReportErrored, RecoveredLookup, RecoveredEvent, RecoveredResolve
<1>10. CASE DetectorStep \/ DetectorFails
  BY <1>5, <1>6, <1>8, <1>10 DEF DetectorStep, DetectorFails, DetectorCheck, ReportMissed
<1>. QED  BY <1>7, <1>8, <1>9, <1>10 DEF MonNext, CheckIn, CheckInLost, ReportFails, CloseIncident, MonTick, MonRestart, monVars

\* A monitor is only marked missed when no check-in came in until its due time: the
\* compare-and-set of MarkMonitorMissed finds the monitor the scan read, or nothing.
THEOREM MissesAreSilent == MonSpec => MissedOnlyWhenSilent
<1>1. MonInit => MonInv
  BY MonStart
<1>2. MonInv /\ [MonNext]_monVars => MonInv'
  BY MonStep
<1>3. MonInv /\ [MonNext]_monVars =>
        [\A s \in MonSlugs :
       (monRows[s] # NoRow /\ monRows'[s] # NoRow /\ monRows[s].state # "missed"
          /\ monRows'[s].state = "missed")
       => monNow > NextDue(monRows[s])]_monVars
  BY MarkIsDue
<1>. QED  BY <1>1, <1>2, <1>3, PTL DEF MonSpec, MissedOnlyWhenSilent

-----------------------------------------------------------------------------
(* Cron expressions: a wall-clock time is a day, an hour and a minute, and *)
(* the search meets the earliest instant first, except within the hour a   *)
(* zone skips, where the minutes decide.                                   *)

\* A number has one quotient and one remainder.
LEMMA OneQuotient ==
  ASSUME NEW k \in Nat \ {0}, NEW q \in Nat, NEW m \in 0 .. (k - 1)
  PROVE  (q * k + m) \div k = q /\ (q * k + m) % k = m
<1>1. PICK n \in Nat : n = q * k + m
  <2>1. q * k \in Nat
    BY SMT
  <2> QED
    BY <2>1
<1>2. PICK p \in Int, x \in 0 .. (k - 1) : p = n \div k /\ x = n % k /\ n = k * p + x
  BY SMT
<1>3. p * k + x = q * k + m
  <2>1. k * p = p * k
    BY SMT
  <2> QED
    BY <1>1, <1>2, <2>1
<1>4. ASSUME p < q PROVE FALSE
  <2>1. PICK d \in Nat \ {0} : q = p + d
    BY <1>4
  <2>2. d * k >= k /\ d * k \in Nat
    BY SMT
  <2>3. q * k = p * k + d * k
    BY <2>1, SMT
  <2>4. p * k \in Int
    BY SMT
  <2> QED
    BY <1>3, <2>2, <2>3, <2>4
<1>5. ASSUME q < p PROVE FALSE
  <2>1. PICK d \in Nat \ {0} : p = q + d
    BY <1>5
  <2>2. d * k >= k /\ d * k \in Nat
    BY SMT
  <2>3. p * k = q * k + d * k
    BY <2>1, SMT
  <2>4. q * k \in Int
    BY SMT
  <2> QED
    BY <1>3, <2>2, <2>3, <2>4
<1>6. p = q
  BY <1>4, <1>5
<1>7. x = m
  <2>1. q * k \in Int
    BY SMT
  <2> QED
    BY <1>3, <1>6, <2>1
<1> QED
  BY <1>1, <1>2, <1>6, <1>7

\* Every number has a quotient and a remainder.
LEMMA QuotientAndRest ==
  ASSUME NEW n \in Nat, NEW k \in Nat \ {0}
  PROVE  \E q \in Nat, m \in 0 .. (k - 1) : n = q * k + m /\ q = n \div k /\ m = n % k
<1>1. PICK q \in Int, m \in 0 .. (k - 1) : q = n \div k /\ m = n % k /\ n = k * q + m
  BY SMT
<1>2. n = q * k + m
  <2>1. k * q = q * k
    BY SMT
  <2> QED
    BY <1>1, <2>1
<1>3. ASSUME q < 0 PROVE FALSE
  <2>1. q * k <= -k
    BY <1>3, SMT
  <2>2. q * k \in Int
    BY SMT
  <2> QED
    BY <1>2, <2>1, <2>2
<1>4. q \in Nat
  BY <1>3
<1> QED
  BY <1>1, <1>2, <1>4

\* The calendar's lengths.
LEMMA CronLengths ==
  /\ CronHours \in Nat \ {0} /\ CronMinutes \in Nat \ {0} /\ DayLength \in Nat \ {0}
  /\ DayLength = CronHours * CronMinutes /\ CronMinutes <= DayLength
  /\ CronShift \in Nat /\ CronSearchDays \in Nat /\ CronLast \in Nat /\ CronShift < CronLast
<1>1. \A h, m \in Nat \ {0} : h * m \in Nat \ {0} /\ m <= h * m
  BY SMT
<1> QED
  BY <1>1, CronAssumption DEF DayLength

\* The wall-clock time of a day, an hour and a minute, and back.
LEMMA WallParts ==
  ASSUME NEW d \in Nat, NEW h \in 0 .. (CronHours - 1), NEW m \in 0 .. (CronMinutes - 1)
  PROVE  LET w == d * DayLength + h * CronMinutes + m
         IN /\ w \in Nat /\ w \div DayLength = d /\ (w % DayLength) \div CronMinutes = h /\ w % CronMinutes = m
            /\ w \div CronMinutes = d * CronHours + h
<1>1. PICK H \in Nat \ {0}, M \in Nat \ {0}, D \in Nat \ {0} :
        H = CronHours /\ M = CronMinutes /\ D = DayLength /\ D = H * M
  BY CronLengths
<1>2. h \in Nat /\ h <= H - 1 /\ m \in 0 .. (M - 1)
  BY <1>1
<1>3. h * M + m \in 0 .. (D - 1)
  <2>1. (H - 1) * M = H * M - M /\ H * M \in Nat
    BY SMT
  <2>2. h * M <= (H - 1) * M /\ h * M \in Nat
    BY <1>2, SMT
  <2>3. PICK a \in Nat : a = h * M
    BY <2>2
  <2>4. a <= D - M
    BY <1>1, <2>1, <2>2, <2>3
  <2> QED
    BY <1>2, <2>3, <2>4
<1>4. PICK r \in 0 .. (D - 1) : r = h * M + m
  BY <1>3
<1>5. PICK w \in Nat : w = d * D + h * M + m /\ w = d * D + r
  <2>1. d * D \in Nat /\ h * M \in Nat
    BY <1>2, SMT
  <2> QED
    BY <1>2, <1>4, <2>1
<1>6. w \div D = d /\ w % D = r
  BY <1>5, OneQuotient
<1>7. r \div M = h
  BY <1>2, <1>4, OneQuotient
<1>8. w \div M = d * H + h /\ w % M = m
  <2>1. d * D = (d * H) * M
    BY <1>1, SMT
  <2>2. (d * H + h) * M = (d * H) * M + h * M /\ d * H + h \in Nat
    BY <1>2, SMT
  <2>3. w = (d * H + h) * M + m
    BY <1>5, <2>1, <2>2
  <2> QED
    BY <1>2, <2>2, <2>3, OneQuotient
<1> QED
  BY <1>1, <1>5, <1>6, <1>7, <1>8

\* Every wall-clock time has these parts.
LEMMA WallHasParts ==
  ASSUME NEW w \in Nat
  PROVE  \E d \in Nat, h \in 0 .. (CronHours - 1), m \in 0 .. (CronMinutes - 1) :
           /\ w = d * DayLength + h * CronMinutes + m
           /\ d = w \div DayLength /\ h = (w % DayLength) \div CronMinutes /\ m = w % CronMinutes
<1>1. PICK H \in Nat \ {0}, M \in Nat \ {0}, D \in Nat \ {0} :
        H = CronHours /\ M = CronMinutes /\ D = DayLength /\ D = H * M
  BY CronLengths
<1>2. PICK d \in Nat, r \in 0 .. (D - 1) : w = d * D + r
  BY QuotientAndRest
<1>3. PICK h \in Nat, m \in 0 .. (M - 1) : r = h * M + m /\ h = r \div M /\ m = r % M
  <2>1. r \in Nat
    OBVIOUS
  <2> QED
    BY <2>1, QuotientAndRest
<1>4. ASSUME h >= H PROVE FALSE
  <2>1. h * M >= H * M /\ h * M \in Nat
    BY <1>4, SMT
  <2> QED
    BY <1>1, <1>2, <1>3, <2>1
<1>5. h \in 0 .. (CronHours - 1) /\ m \in 0 .. (CronMinutes - 1)
  BY <1>1, <1>3, <1>4
<1>6. w = d * D + h * M + m
  <2>1. d * D \in Nat /\ h * M \in Nat
    BY SMT
  <2> QED
    BY <1>2, <1>3, <2>1
<1>7. w = d * DayLength + h * CronMinutes + m
  BY <1>1, <1>6
<1> QED
  BY <1>5, <1>7, WallParts

CronZones == {"utc", "gap", "fold"}

\* The skipped hour apart, later on the wall is later in time; no wall-clock time is
\* an hour ahead of its instant's.
LEMMA InstantFacts ==
  ASSUME NEW zone \in CronZones, NEW w \in Nat, NEW at \in Nat
  PROVE  /\ CronInstant(zone, w) \in Nat /\ w <= CronWall(zone, CronInstant(zone, w))
         /\ CronWall(zone, at) \in Nat /\ CronWall(zone, at) <= at + CronMinutes
         /\ CronInstant(zone, w) > at => w > CronWall(zone, at) - CronMinutes
         /\ \A v \in Nat : w <= v =>
              \/ CronInstant(zone, w) <= CronInstant(zone, v)
              \/ /\ zone = "gap" /\ CronShift <= w /\ w < CronShift + CronMinutes
                 /\ CronShift + CronMinutes <= v /\ v - CronMinutes < w
                 /\ CronInstant(zone, v) = v - CronMinutes
                 /\ CronInstant(zone, v - CronMinutes) = v - CronMinutes
<1>1. PICK c \in Nat, M \in Nat \ {0} : c = CronShift /\ M = CronMinutes
  BY CronLengths
<1>2. CASE zone = "utc"
  BY <1>1, <1>2 DEF CronInstant, CronWall
<1>3. CASE zone = "gap"
  BY <1>1, <1>3 DEF CronInstant, CronWall
<1>4. CASE zone = "fold"
  BY <1>1, <1>4 DEF CronInstant, CronWall
<1> QED
  BY <1>2, <1>3, <1>4 DEF CronZones

\* Parse keeps hours and minutes within a day.
InDay(s) == s.hours \subseteq 0 .. (CronHours - 1) /\ s.minutes \subseteq 0 .. (CronMinutes - 1)

\* A wall-clock time that the schedule names.
Scheduled(s, w) ==
  /\ MatchesDay(s, w \div DayLength)
  /\ (w % DayLength) \div CronMinutes \in s.hours /\ w % CronMinutes \in s.minutes

\* What firstRunOn looks through is what the schedule names on that day.
LEMMA RunsOnDay ==
  ASSUME NEW s, InDay(s), NEW zone \in CronZones, NEW at \in Nat, NEW d \in Nat
  PROVE  /\ RunsOn(s, zone, d, at) \subseteq Nat
         /\ \A w \in RunsOn(s, zone, d, at) :
              /\ w \div DayLength = d /\ CronInstant(zone, w) > at
              /\ (w % DayLength) \div CronMinutes \in s.hours /\ w % CronMinutes \in s.minutes
         /\ \A w \in Nat : /\ w \div DayLength = d /\ CronInstant(zone, w) > at
                           /\ (w % DayLength) \div CronMinutes \in s.hours /\ w % CronMinutes \in s.minutes
                           => w \in RunsOn(s, zone, d, at)
<1>1. ASSUME NEW w \in RunsOn(s, zone, d, at)
      PROVE  /\ w \in Nat /\ w \div DayLength = d /\ CronInstant(zone, w) > at
             /\ (w % DayLength) \div CronMinutes \in s.hours /\ w % CronMinutes \in s.minutes
  <2>1. PICK h \in s.hours, m \in s.minutes : w = d * DayLength + h * CronMinutes + m
    BY DEF RunsOn
  <2>2. CronInstant(zone, w) > at
    BY DEF RunsOn
  <2>3. h \in 0 .. (CronHours - 1) /\ m \in 0 .. (CronMinutes - 1)
    BY DEF InDay
  <2> QED
    BY <2>1, <2>2, <2>3, WallParts
<1>2. ASSUME NEW w \in Nat, w \div DayLength = d, CronInstant(zone, w) > at,
             (w % DayLength) \div CronMinutes \in s.hours, w % CronMinutes \in s.minutes
      PROVE  w \in RunsOn(s, zone, d, at)
  <2>1. w = d * DayLength + ((w % DayLength) \div CronMinutes) * CronMinutes + (w % CronMinutes)
    BY <1>2, WallHasParts
  <2> QED
    BY <1>2, <2>1 DEF RunsOn
<1> QED
  BY <1>1, <1>2

\* No scheduled time on the day of the answer, or on a later one, comes earlier.
LEMMA FirstOnItsDay ==
  ASSUME NEW s, InDay(s), NEW zone \in CronZones, NEW at \in Nat, NEW d \in Nat,
         NEW first \in RunsOn(s, zone, d, at), \A w \in RunsOn(s, zone, d, at) : first <= w,
         NEW v \in Nat, Scheduled(s, v), CronInstant(zone, v) > at, d <= v \div DayLength
  PROVE  CronInstant(zone, first) <= CronInstant(zone, v)
<1>1. PICK D \in Nat \ {0}, H \in Nat \ {0}, M \in Nat \ {0}, c \in Nat :
        D = DayLength /\ H = CronHours /\ M = CronMinutes /\ c = CronShift
  BY CronLengths
<1>2. first \in Nat /\ first \div DayLength = d
  BY RunsOnDay
<1>3. first <= v
  <2>1. CASE v \div DayLength = d
    <3>1. v \in RunsOn(s, zone, d, at)
      BY <2>1, RunsOnDay DEF Scheduled
    <3> QED
      BY <3>1
  <2>2. CASE v \div DayLength # d
    <3>1. PICK r \in 0 .. (D - 1) : first = d * D + r
      BY <1>1, <1>2, QuotientAndRest
    <3>2. PICK q \in Nat, t \in 0 .. (D - 1) : v = q * D + t /\ q = v \div DayLength
      BY <1>1, QuotientAndRest
    <3>3. q >= d + 1
      BY <2>2, <3>2
    <3>4. q * D >= (d + 1) * D /\ (d + 1) * D = d * D + D
      BY <3>3, SMT
    <3>5. q * D \in Nat /\ d * D \in Nat
      BY SMT
    <3> QED
      BY <3>1, <3>2, <3>4, <3>5
  <2> QED
    BY <2>1, <2>2
<1>4. ASSUME c <= first, first < c + M, c + M <= v, v - M < first, CronInstant(zone, v) = v - M,
             CronInstant(zone, v - M) = v - M
      PROVE  FALSE
  \* The instant of v is that of a time in the hour of first, with the minute of v.
  <2>1. PICK m \in 0 .. (M - 1) : m = v - M - c
    BY <1>2, <1>4
  <2>2. PICK k \in Nat : c = k * M
    <3>1. c % M = 0
      BY <1>1, CronAssumption
    <3>2. PICK k \in Nat, x \in 0 .. (M - 1) : c = k * M + x /\ x = c % M
      BY QuotientAndRest
    <3>3. k * M \in Nat
      BY SMT
    <3> QED
      BY <3>1, <3>2, <3>3
  <2>3. v % M = m
    <3>1. (k + 1) * M = k * M + M
      BY SMT
    <3>2. v = (k + 1) * M + m
      BY <2>1, <2>2, <3>1
    <3>3. k + 1 \in Nat
      OBVIOUS
    <3> QED
      BY <3>2, <3>3, OneQuotient
  <2>4. PICK h \in 0 .. (H - 1), y \in 0 .. (M - 1) :
          first = d * D + h * M + y /\ h = (first % DayLength) \div CronMinutes
    BY <1>1, <1>2, WallHasParts
  <2>5. h \in s.hours
    BY <2>4, RunsOnDay
  <2>6. c = d * D + h * M
    <3>1. first \div M = d * H + h
      <4>1. h \in 0 .. (CronHours - 1) /\ y \in 0 .. (CronMinutes - 1) /\ first = d * DayLength + h * CronMinutes + y
        BY <1>1, <2>4
      <4>2. first \div CronMinutes = d * CronHours + h
        BY <4>1, WallParts
      <4> QED
        BY <1>1, <4>2
    <3>2. first \div M = k
      <4>1. PICK x \in 0 .. (M - 1) : x = first - c
        BY <1>2, <1>4
      <4>2. first = k * M + x
        BY <1>2, <2>2, <4>1
      <4> QED
        BY <4>2, OneQuotient
    <3>3. k = d * H + h
      BY <3>1, <3>2
    <3>4. h \in Nat
      BY <2>4
    <3>5. (d * H + h) * M = (d * H) * M + h * M
      BY <3>4, SMT
    <3>6. (d * H) * M = d * D
      <4>1. D = H * M
        BY <1>1, CronLengths
      <4> QED
        BY <4>1, SMT
    <3> QED
      BY <2>2, <3>3, <3>5, <3>6
  <2>7. PICK u \in Nat : u = v - M /\ u = d * D + h * M + m
    <3>1. v - M \in Nat
      BY <1>4
    <3>2. v - M = c + m
      BY <2>1
    <3> QED
      BY <2>6, <3>1, <3>2
  <2>8. u \div DayLength = d /\ (u % DayLength) \div CronMinutes = h /\ u % CronMinutes = m
    <3>1. h \in 0 .. (CronHours - 1) /\ m \in 0 .. (CronMinutes - 1) /\ u = d * DayLength + h * CronMinutes + m
      BY <1>1, <2>1, <2>4, <2>7
    <3> QED
      BY <3>1, WallParts
  <2>9. u \in RunsOn(s, zone, d, at)
    <3>1. m \in s.minutes
      BY <1>1, <2>3 DEF Scheduled
    <3>2. CronInstant(zone, u) > at
      BY <1>4, <2>7
    <3> QED
      BY <2>5, <2>8, <3>1, <3>2, RunsOnDay
  <2>10. first <= u
    BY <2>9
  <2> QED
    BY <1>2, <1>4, <2>7, <2>10
<1> QED
  BY <1>1, <1>2, <1>3, <1>4, InstantFacts

\* The days Next looks through.
SearchedDays(s, zone, at) ==
  LET today == CronWall(zone, at) \div DayLength
  IN {d \in (today - 1) .. (today - 2 + CronSearchDays) :
        d >= 0 /\ MatchesDay(s, d) /\ RunsOn(s, zone, d, at) # {}}

\* A scheduled time whose instant is still to come lies on a day the search has not
\* yet passed when it begins.
LEMMA DayIsAhead ==
  ASSUME NEW zone \in CronZones, NEW at \in Nat, NEW v \in Nat, CronInstant(zone, v) > at
  PROVE  v \div DayLength >= (CronWall(zone, at) \div DayLength) - 1
<1>1. PICK D \in Nat \ {0}, M \in Nat \ {0} : D = DayLength /\ M = CronMinutes /\ M <= D
  BY CronLengths
<1>2. PICK a \in Nat : a = CronWall(zone, at)
  BY InstantFacts
<1>3. v > a - M
  BY <1>1, <1>2, InstantFacts
<1>4. PICK today \in Nat, x \in 0 .. (D - 1) : a = today * D + x /\ today = a \div DayLength
  BY <1>1, QuotientAndRest
<1>5. PICK q \in Nat, y \in 0 .. (D - 1) : v = q * D + y /\ q = v \div DayLength
  BY <1>1, QuotientAndRest
<1>6. ASSUME q + 2 <= today PROVE FALSE
  <2>1. (q + 2) * D <= today * D /\ (q + 2) * D = q * D + D + D
    BY <1>6, SMT
  <2>2. q * D \in Nat /\ today * D \in Nat
    BY SMT
  <2> QED
    BY <1>1, <1>3, <1>4, <1>5, <2>1, <2>2
<1>7. q >= today - 1
  BY <1>6
<1> QED
  BY <1>2, <1>4, <1>5, <1>7

\* Next answers with the first scheduled instant after the one asked about, and
\* finds one if there is one on a day it looks through.
LEMMA NextIsFirst ==
  ASSUME NEW s, InDay(s), NEW zone \in CronZones, NEW at \in Nat
  PROVE  LET n == CronNextRun(s, zone, at)
             today == CronWall(zone, at) \div DayLength
         IN /\ n # CronNever =>
                 \E w \in Nat : /\ Scheduled(s, w) /\ n = CronInstant(zone, w) /\ n > at
                                /\ w \div DayLength <= today - 2 + CronSearchDays
                                /\ \A v \in Nat : Scheduled(s, v) /\ CronInstant(zone, v) > at => n <= CronInstant(zone, v)
            /\ \A v \in Nat : Scheduled(s, v) /\ CronInstant(zone, v) > at
                              /\ v \div DayLength <= today - 2 + CronSearchDays => n # CronNever
<1> DEFINE n == CronNextRun(s, zone, at)
           days == SearchedDays(s, zone, at)
<1>1. PICK today \in Nat : today = CronWall(zone, at) \div DayLength
  BY InstantFacts, CronLengths, QuotientAndRest
<1>2. PICK S \in Nat : S = CronSearchDays
  BY CronLengths
<1>3. /\ n = IF days = {} THEN CronNever ELSE CronInstant(zone, Min(RunsOn(s, zone, Min(days), at)))
      /\ days = {d \in (today - 1) .. (today - 2 + S) : d >= 0 /\ MatchesDay(s, d) /\ RunsOn(s, zone, d, at) # {}}
  BY <1>1, <1>2 DEF CronNextRun, SearchedDays
<1> HIDE DEF n, days
<1>4. days \in SUBSET Nat
  BY <1>3
<1>5. ASSUME NEW v \in Nat, Scheduled(s, v), CronInstant(zone, v) > at, v \div DayLength <= today - 2 + S
      PROVE  v \div DayLength \in days
  <2>1. PICK d \in Nat : d = v \div DayLength
    BY CronLengths, QuotientAndRest
  <2>2. d >= today - 1
    BY <1>1, <1>5, <2>1, DayIsAhead
  <2>3. d \in (today - 1) .. (today - 2 + S) /\ d >= 0
    BY <1>5, <2>1, <2>2
  <2>4. v \in RunsOn(s, zone, d, at) /\ MatchesDay(s, d)
    BY <1>5, <2>1, RunsOnDay DEF Scheduled
  <2> QED
    BY <1>3, <2>1, <2>3, <2>4
<1>6. CASE days = {}
  <2>1. n = CronNever
    BY <1>3, <1>6
  <2> QED
    BY <1>1, <1>2, <1>5, <1>6, <2>1 DEF n
<1>7. CASE days # {}
  <2>1. PICK d \in days : d = Min(days) /\ \A e \in days : d <= e
    <3>1. Min(days) \in days /\ \A e \in days : Min(days) <= e
      BY <1>4, <1>7, FirstTime
    <3> QED
      BY <3>1
  <2>2. d \in Nat /\ MatchesDay(s, d) /\ RunsOn(s, zone, d, at) # {} /\ d <= today - 2 + S
    <3>1. d \in {e \in (today - 1) .. (today - 2 + S) : e >= 0 /\ MatchesDay(s, e) /\ RunsOn(s, zone, e, at) # {}}
      BY <1>3
    <3>2. d \in (today - 1) .. (today - 2 + S) /\ d >= 0 /\ MatchesDay(s, d) /\ RunsOn(s, zone, d, at) # {}
      BY <3>1
    <3>3. today - 1 \in Int /\ today - 2 + S \in Int
      OBVIOUS
    <3> QED
      BY <3>2, <3>3
  <2>3. PICK first \in RunsOn(s, zone, d, at) :
          first = Min(RunsOn(s, zone, d, at)) /\ \A w \in RunsOn(s, zone, d, at) : first <= w
    <3>1. RunsOn(s, zone, d, at) \in SUBSET Nat
      BY <2>2, RunsOnDay
    <3> QED
      BY <2>2, <3>1, FirstTime
  <2>4. n = CronInstant(zone, first)
    BY <1>3, <1>7, <2>1, <2>3
  <2>5. /\ first \in Nat /\ first \div DayLength = d /\ CronInstant(zone, first) > at
        /\ (first % DayLength) \div CronMinutes \in s.hours /\ first % CronMinutes \in s.minutes
    BY <2>2, RunsOnDay
  <2>6. Scheduled(s, first)
    BY <2>2, <2>5 DEF Scheduled
  <2>7. CronInstant(zone, first) \in Nat
    BY <2>5, InstantFacts
  <2>8. n # CronNever
    <3>1. CronNever \notin Nat
      BY DEF CronNever
    <3> QED
      BY <2>4, <2>7, <3>1
  <2>9. ASSUME NEW v \in Nat, Scheduled(s, v), CronInstant(zone, v) > at PROVE n <= CronInstant(zone, v)
    <3>1. PICK e \in Nat : e = v \div DayLength
      BY CronLengths, QuotientAndRest
    <3>2. d <= e
      <4>1. CASE e <= today - 2 + S
        BY <1>5, <2>1, <2>9, <3>1, <4>1
      <4>2. CASE ~(e <= today - 2 + S)
        BY <2>2, <4>2
      <4> QED
        BY <4>1, <4>2
    <3> QED
      BY <2>2, <2>3, <2>4, <2>9, <3>1, <3>2, FirstOnItsDay
  <2>10. first \div DayLength <= today - 2 + S
    BY <2>2, <2>5
  <2> QED
    BY <1>1, <1>2, <2>4, <2>5, <2>6, <2>8, <2>9, <2>10 DEF n
<1> QED
  BY <1>6, <1>7

\* What is asked lies within the bound and was answered by Next.
CronInv ==
  /\ InDay(cronSchedule) /\ cronZone \in CronZones
  /\ cronAt # CronNever => cronAt \in 0 .. CronLast /\ cronNext = CronNextRun(cronSchedule, cronZone, cronAt)

\* The fields that are asked with are within a day.
LEMMA SchedulesInDay ==
  /\ InDay(CronSchedule(CronStar, CronStar, CronStar, CronStar, CronStar))
  /\ \A s \in CronSchedules : InDay(s)
<1>1. PICK H \in Nat \ {0}, M \in Nat \ {0, 1} : H = CronHours /\ M = CronMinutes
  BY CronAssumption
<1>2. ASSUME NEW ho \in {CronStar, CronValue(0, 2), CronValue(CronHours - 1, 0)}
      PROVE  PartValues(ho, 0, CronHours - 1) \subseteq 0 .. (CronHours - 1)
  <2>1. PartValues(CronStar, 0, H - 1) \subseteq 0 .. (H - 1)
    BY DEF PartValues, CronStar
  <2>2. PartValues(CronValue(0, 2), 0, H - 1) \subseteq 0 .. (H - 1)
    BY DEF PartValues, CronValue
  <2>3. PartValues(CronValue(H - 1, 0), 0, H - 1) \subseteq 0 .. (H - 1)
    BY DEF PartValues, CronValue
  <2> QED
    BY <1>1, <2>1, <2>2, <2>3
<1>3. ASSUME NEW mi \in {CronStar, CronValue(0, 0), CronValue(1, 0)}
      PROVE  PartValues(mi, 0, CronMinutes - 1) \subseteq 0 .. (CronMinutes - 1)
  <2>1. PartValues(CronStar, 0, M - 1) \subseteq 0 .. (M - 1)
    BY DEF PartValues, CronStar
  <2>2. PartValues(CronValue(0, 0), 0, M - 1) \subseteq 0 .. (M - 1)
    BY DEF PartValues, CronValue
  <2>3. PartValues(CronValue(1, 0), 0, M - 1) \subseteq 0 .. (M - 1)
    BY DEF PartValues, CronValue
  <2> QED
    BY <1>1, <2>1, <2>2, <2>3
<1>4. ASSUME NEW mi \in {CronStar, CronValue(0, 0), CronValue(1, 0)},
             NEW ho \in {CronStar, CronValue(0, 2), CronValue(CronHours - 1, 0)}, NEW dom, NEW mo, NEW dow
      PROVE  InDay(CronSchedule(mi, ho, dom, mo, dow))
  <2> DEFINE s == CronSchedule(mi, ho, dom, mo, dow)
  <2>1. s.minutes = PartValues(mi, 0, CronMinutes - 1) /\ s.hours = PartValues(ho, 0, CronHours - 1)
    BY DEF CronSchedule
  <2> HIDE DEF s
  <2>2. InDay(s)
    BY <1>2, <1>3, <2>1 DEF InDay
  <2> QED
    BY <2>2 DEF s
<1>5. ASSUME NEW s \in CronSchedules PROVE InDay(s)
  <2>1. PICK mi \in {CronStar, CronValue(0, 0), CronValue(1, 0)},
             ho \in {CronStar, CronValue(0, 2), CronValue(CronHours - 1, 0)},
             dom \in {CronStar, CronValue(2, 0), CronSpan(1, 2)}, mo \in {CronStar, CronValue(2, 0)},
             dow \in {CronStar, CronValue(CronWeek, 0), CronValue(1, 0)} :
               s = CronSchedule(mi, ho, dom, mo, dow)
    BY DEF CronSchedules
  <2> QED
    BY <1>4, <2>1
<1> QED
  BY <1>4, <1>5

\* One more question keeps the invariant: the bound covers its instant.
LEMMA CronStepInv == ASSUME CronInv, CronStep PROVE CronInv'
<1>1. PICK c \in Nat, L \in Nat : c = CronShift /\ L = CronLast /\ c < L
  BY CronLengths
<1>2. CASE /\ cronAt = CronNever
           /\ \E s \in CronSchedules, z \in {"utc", "gap", "fold"}, t \in CronStarts : CronAsk(s, z, t)
  <2>1. PICK s \in CronSchedules, z \in {"utc", "gap", "fold"}, t \in CronStarts : CronAsk(s, z, t)
    BY <1>2
  <2>2. t # CronNever => t \in 0 .. CronLast
    <3>1. t = 0 \/ t = c - 1 \/ t = c \/ t = c + 1
      BY <1>1 DEF CronStarts
    <3> QED
      BY <1>1, <3>1 DEF CronNever
  <2>3. InDay(s) /\ z \in CronZones
    BY SchedulesInDay DEF CronZones
  <2> QED
    BY <2>1, <2>2, <2>3 DEF CronInv, CronAsk
<1>3. CASE /\ cronAt # CronNever /\ cronNext # CronNever /\ cronNext <= CronLast
           /\ CronAsk(cronSchedule, cronZone, cronNext)
  <2>1. PICK at \in Nat : at = cronAt /\ at <= L
    BY <1>1, <1>3 DEF CronInv
  <2>2. PICK w \in Nat : cronNext = CronInstant(cronZone, w)
    BY <1>3, <2>1, NextIsFirst DEF CronInv
  <2>3. cronNext \in Nat
    BY <2>1, <2>2, InstantFacts DEF CronInv
  <2>4. cronNext \in 0 .. CronLast
    BY <1>1, <1>3, <2>3
  <2> QED
    BY <1>3, <2>4 DEF CronInv, CronAsk
<1> QED
  BY <1>2, <1>3 DEF CronStep

\* The answer is the first of the scheduled instants, all of which the property counts.
LEMMA AnswerIsEarliest == CronInv => NextIsEarliest
<1> SUFFICES ASSUME CronInv, cronAt # CronNever PROVE NextIsEarliest
  BY DEF NextIsEarliest
<1>1. PICK L \in Nat, D \in Nat \ {0}, M \in Nat \ {0}, S \in Nat :
        L = CronLast /\ D = DayLength /\ M = CronMinutes /\ M <= D /\ S = CronSearchDays
  BY CronLengths
<1>2. PICK at \in Nat : at = cronAt /\ at <= L
  BY <1>1 DEF CronInv
<1>3. PICK a \in Nat : a = CronWall(cronZone, at) /\ a <= at + M
  BY <1>1, InstantFacts DEF CronInv
<1>4. PICK today \in Nat, x \in 0 .. (D - 1) : a = today * D + x /\ today = a \div D
  BY <1>1, QuotientAndRest
<1> DEFINE walls == 0..(CronLast + (CronSearchDays + 1) * DayLength)
           matching == {w \in walls :
                     /\ MatchesDay(cronSchedule, w \div DayLength)
                     /\ (w % DayLength) \div CronMinutes \in cronSchedule.hours
                     /\ w % CronMinutes \in cronSchedule.minutes}
           runs == {t \in {CronInstant(cronZone, w) : w \in matching} : t > cronAt}
           horizon == {t \in runs : CronWall(cronZone, t) \div DayLength
                                 <= (CronWall(cronZone, cronAt) \div DayLength) + CronSearchDays - 3}
           n == cronNext
<1>5. n = CronNextRun(cronSchedule, cronZone, at) /\ InDay(cronSchedule) /\ cronZone \in CronZones
  BY <1>2 DEF CronInv
<1>6. matching = {w \in walls : Scheduled(cronSchedule, w)}
  BY DEF Scheduled
<1>7. \A w \in walls : w \in Nat
  <2>1. (S + 1) * D \in Nat
    BY SMT
  <2> QED
    BY <1>1, <2>1
<1>8. \A t \in runs : \E v \in Nat : Scheduled(cronSchedule, v) /\ t = CronInstant(cronZone, v) /\ t > at
  BY <1>2, <1>6, <1>7
<1>9. ASSUME n # CronNever PROVE n = Min(runs)
  <2>1. PICK w \in Nat : /\ Scheduled(cronSchedule, w) /\ n = CronInstant(cronZone, w) /\ n > at
                         /\ w \div DayLength <= today - 2 + CronSearchDays
                         /\ \A v \in Nat : Scheduled(cronSchedule, v) /\ CronInstant(cronZone, v) > at
                                             => n <= CronInstant(cronZone, v)
    BY <1>1, <1>3, <1>4, <1>5, <1>9, NextIsFirst
  <2>2. w <= L + (S + 1) * D
    <3>1. PICK q \in Nat, y \in 0 .. (D - 1) : w = q * D + y /\ q = w \div D
      BY <1>1, QuotientAndRest
    <3>2. q <= today + S
      BY <1>1, <2>1, <3>1
    <3>3. q * D <= (today + S) * D /\ (today + S) * D = today * D + S * D /\ (S + 1) * D = S * D + D
      BY <3>2, SMT
    <3>4. q <= today - 2 + S
      BY <1>1, <2>1, <3>1
    <3>5. (q + 1) * D <= (today + S) * D - D /\ (q + 1) * D = q * D + D
      <4>1. today - 1 + S \in Int /\ q + 1 <= today - 1 + S /\ today - 1 + S = (today + S) - 1
        BY <3>4
      <4>2. (q + 1) * D <= ((today + S) - 1) * D
        BY <4>1, SMT
      <4>3. ((today + S) - 1) * D = (today + S) * D - D /\ (q + 1) * D = q * D + D
        BY SMT
      <4> QED
        BY <4>2, <4>3
    <3>6. PICK e \in Nat, f \in Nat, g \in Nat : e = q * D /\ f = today * D /\ g = S * D
      BY SMT
    <3> QED
      BY <1>1, <1>2, <1>3, <1>4, <3>1, <3>3, <3>5, <3>6
  <2>3. w \in walls
    BY <1>1, <2>2
  <2>4. n \in runs
    BY <1>2, <1>6, <2>1, <2>3
  <2>5. \A t \in runs : n <= t
    BY <1>8, <2>1
  <2>6. \A t \in runs : t \in Nat
    BY <1>5, <1>8, InstantFacts
  <2> HIDE DEF runs, n
  <2>7. runs \in SUBSET Nat
    BY <2>6
  <2>8. Min(runs) \in runs /\ \A y \in runs : Min(runs) <= y
    BY <2>4, <2>7, FirstTime
  <2>9. n <= Min(runs) /\ Min(runs) <= n /\ n \in Nat /\ Min(runs) \in Nat
    BY <2>4, <2>5, <2>7, <2>8
  <2> QED
    BY <2>9
<1>10. ASSUME horizon # {} PROVE n # CronNever
  <2>1. PICK t \in runs : CronWall(cronZone, t) \div DayLength
                            <= (CronWall(cronZone, cronAt) \div DayLength) + CronSearchDays - 3
    BY <1>10
  <2>2. PICK v \in Nat : Scheduled(cronSchedule, v) /\ t = CronInstant(cronZone, v) /\ t > at
    BY <1>8
  <2>3. PICK b \in Nat : b = CronWall(cronZone, t) /\ v <= b
    BY <1>5, <2>2, InstantFacts
  <2>4. PICK p \in Nat, y \in 0 .. (D - 1) : v = p * D + y /\ p = v \div D
    BY <1>1, QuotientAndRest
  <2>5. PICK q \in Nat, z \in 0 .. (D - 1) : b = q * D + z /\ q = b \div D
    BY <1>1, QuotientAndRest
  <2>6. ASSUME q < p PROVE FALSE
    <3>1. (q + 1) * D <= p * D /\ (q + 1) * D = q * D + D /\ q * D \in Nat /\ p * D \in Nat
      BY <2>6, SMT
    <3> QED
      BY <2>3, <2>4, <2>5, <3>1
  <2>7. v \div DayLength <= today - 2 + CronSearchDays
    <3>1. q <= today + S - 3
      BY <1>1, <1>2, <1>3, <1>4, <2>1, <2>3, <2>5
    <3>2. p <= today - 2 + S
      BY <2>6, <3>1
    <3> QED
      BY <1>1, <2>4, <3>2
  <2> HIDE DEF n
  <2> QED
    BY <1>1, <1>3, <1>4, <1>5, <2>2, <2>7, NextIsFirst
<1> QED
  BY <1>9, <1>10 DEF NextIsEarliest

\* Next tells the earliest scheduled instant after the one it is asked about, for
\* every length of the calendar's units, every schedule that is asked with, and
\* wherever the zone skips or repeats an hour.
THEOREM NextRunIsEarliest == CronSpec => []NextIsEarliest
<1>1. CronInit => CronInv
  BY SchedulesInDay DEF CronInit, CronInv, CronZones
<1>2. CronInv /\ [CronStep]_cronVars => CronInv'
  <2>1. CronInv /\ UNCHANGED cronVars => CronInv'
    BY DEF CronInv, cronVars
  <2> QED
    BY <2>1, CronStepInv
<1> QED
  BY <1>1, <1>2, AnswerIsEarliest, PTL DEF CronSpec
=============================================================================
