--------------------------- MODULE DetectionRules ---------------------------
(***************************************************************************)
(* Detection rules (internal/service/detectionrules): every change is      *)
(* stored, then the effective set is read back and handed to the running   *)
(* engine.  Requests run concurrently and nothing orders these two steps   *)
(* between them.                                                           *)
(***************************************************************************)
EXTENDS Naturals, FiniteSets

CONSTANTS
  RuleIds, BuiltinIds, RuleVersions,
  RuleRequests,       \* concurrent API requests
  RuleMaxChanges,     \* bound: changes
  RuleMaxFaults       \* bound: failed reads and restarts

ASSUME RuleAssumption == BuiltinIds \subseteq RuleIds /\ RuleMaxChanges \in Nat /\ RuleMaxFaults \in Nat

VARIABLES
  ruleStored,   \* the detection_rules table
  ruleEngine,   \* Engine.rules
  ruleReqs,     \* each request: pc, the set it read, whether a change was stored since
                \* (old) and a newer set handed over since (late)
  ruleStale,    \* a reload failed, or was handed over after a newer one
  ruleChanges, ruleFaults

ruleVars == <<ruleStored, ruleEngine, ruleReqs, ruleStale, ruleChanges, ruleFaults>>

Absent == "absent"
Shipped == "shipped"
Unreadable == "unreadable"   \* a row that no longer validates
IdleRequest == [pc |-> "idle", set |-> Shipped, old |-> FALSE, late |-> FALSE]
RuleTable == [RuleIds -> RuleVersions \cup {Absent, Unreadable}]

\* Merge(Defaults(), stored): a stored rule replaces the built-in of its id or
\* is added; a row that does not validate is skipped.
Effective(t) ==
  [r \in RuleIds |-> IF t[r] \in RuleVersions THEN t[r] ELSE IF r \in BuiltinIds THEN Shipped ELSE Absent]

\* A change is stored: what others have read is out of date.
StoredBy(q) ==
  [p \in RuleRequests |-> IF p = q THEN [IdleRequest EXCEPT !.pc = "stored"]
                          ELSE [ruleReqs[p] EXCEPT !.old = @ \/ ruleReqs[p].pc = "read"]]

\* Put: the rule validates and is upserted.
Put(q, r, v) ==
  /\ ruleReqs[q].pc = "idle" /\ ruleChanges < RuleMaxChanges
  /\ ruleChanges' = ruleChanges + 1
  /\ ruleStored' = [ruleStored EXCEPT ![r] = v]
  /\ ruleReqs' = StoredBy(q)
  /\ UNCHANGED <<ruleEngine, ruleStale, ruleFaults>>

\* Delete: not found unless there is a row; a built-in goes back to the shipped rule.
DeleteRule(q, r) ==
  /\ ruleReqs[q].pc = "idle" /\ ruleChanges < RuleMaxChanges /\ ruleStored[r] # Absent
  /\ ruleChanges' = ruleChanges + 1
  /\ ruleStored' = [ruleStored EXCEPT ![r] = Absent]
  /\ ruleReqs' = StoredBy(q)
  /\ UNCHANGED <<ruleEngine, ruleStale, ruleFaults>>

\* Mutant: the set read before the change is handed over.
ReloadReadsEngine(q) ==
  /\ ruleReqs[q].pc = "stored"
  /\ ruleReqs' = [ruleReqs EXCEPT ![q].pc = "read", ![q].set = ruleEngine]
  /\ UNCHANGED <<ruleStored, ruleEngine, ruleStale, ruleChanges, ruleFaults>>

\* reload reads the effective set ...
ReloadRead(q) ==
  /\ ruleReqs[q].pc = "stored"
  /\ ruleReqs' = [ruleReqs EXCEPT ![q].pc = "read", ![q].set = Effective(ruleStored)]
  /\ UNCHANGED <<ruleStored, ruleEngine, ruleStale, ruleChanges, ruleFaults>>

\* ... and hands it to Engine.SetRules.  A request that overtook this one may
\* have handed over a newer set already.
ReloadApply(q) ==
  /\ ruleReqs[q].pc = "read"
  /\ ruleEngine' = ruleReqs[q].set
  /\ ruleStale' = (ruleReqs[q].late \/ (ruleReqs[q].old /\ ruleStale))
  /\ ruleReqs' = [p \in RuleRequests |->
                    IF p = q THEN IdleRequest
                    ELSE [ruleReqs[p] EXCEPT !.late = @ \/ (ruleReqs[p].old /\ ~ruleReqs[q].old)]]
  /\ UNCHANGED <<ruleStored, ruleChanges, ruleFaults>>

\* The read fails: the engine keeps the previous set.
ReloadFails(q) ==
  /\ ruleReqs[q].pc = "stored" /\ ruleFaults < RuleMaxFaults
  /\ ruleFaults' = ruleFaults + 1
  /\ ruleReqs' = [ruleReqs EXCEPT ![q] = IdleRequest]
  /\ ruleStale' = TRUE
  /\ UNCHANGED <<ruleStored, ruleEngine, ruleChanges>>

\* A new writer loads the effective set, or the built-ins when it cannot; a new
\* version may not accept a row of the old one any more.
RuleRestart(loaded, broken) ==
  LET stored == [r \in RuleIds |-> IF r \in broken /\ ruleStored[r] # Absent THEN Unreadable ELSE ruleStored[r]]
  IN /\ ruleFaults < RuleMaxFaults
     /\ ruleFaults' = ruleFaults + 1
     /\ ruleStored' = stored
     /\ ruleEngine' = Effective(IF loaded THEN stored ELSE [r \in RuleIds |-> Absent])
     /\ ruleStale' = ~loaded
     /\ ruleReqs' = [q \in RuleRequests |-> IdleRequest]
     /\ UNCHANGED ruleChanges

RuleInit ==
  /\ ruleStored = [r \in RuleIds |-> Absent] /\ ruleEngine = Effective(ruleStored)
  /\ ruleReqs = [q \in RuleRequests |-> IdleRequest]
  /\ ruleStale = FALSE /\ ruleChanges = 0 /\ ruleFaults = 0

RuleNext ==
  \/ \E q \in RuleRequests, r \in RuleIds : DeleteRule(q, r) \/ \E v \in RuleVersions : Put(q, r, v)
  \/ \E q \in RuleRequests : ReloadRead(q) \/ ReloadApply(q) \/ ReloadFails(q)
  \/ \E loaded \in BOOLEAN, broken \in SUBSET RuleIds : RuleRestart(loaded, broken)

RuleSpec == RuleInit /\ [][RuleNext]_ruleVars

----------------------------------------------------------------------------
\* Correctness

\* Between changes the engine runs the rules that are stored, unless a reload
\* failed or two requests handed their sets over in the other order than they
\* read them; then it runs a set that was stored before.
EngineFollowsStore ==
  (~ruleStale /\ \A q \in RuleRequests : ruleReqs[q].pc = "idle") => ruleEngine = Effective(ruleStored)
=============================================================================
