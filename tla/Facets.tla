------------------------------- MODULE Facets -------------------------------
(***************************************************************************)
(* The facet projection of issues (storage/facets.go, storage/events.go):  *)
(* every stored event first adds its flattened payload (insertFacets) and  *)
(* then its curated keys under the cardinality guards (PersistFacets), in  *)
(* two transactions of the single write connection.                        *)
(***************************************************************************)
EXTENDS Integers, FiniteSets

CONSTANTS
  FacetIssues,
  FlatKeys, CuratedKeys,     \* keys of the flattened payload, of extractFacets
  FacetValues, LongValues,   \* values; the ones above maxFacetValueLength
  MaxFacetKeysPerProject, MaxFacetValuesPerKey,
  FaMaxEvents,    \* bound: stored events
  FaMaxFaults     \* bound: failed transactions

ASSUME FacetsAssumption ==
  /\ LongValues \subseteq FacetValues
  /\ {MaxFacetKeysPerProject, MaxFacetValuesPerKey} \subseteq Nat \ {0}
  /\ {FaMaxEvents, FaMaxFaults} \subseteq Nat

VARIABLES
  faRows,      \* issue_facets of one project: issue, key, value
  faEvent,     \* the event whose facets are being written, and which part is next
  faTx,        \* PersistFacets: its transaction
  faEvents, faFaults

faVars == <<faRows, faEvent, faTx, faEvents, faFaults>>

NoFacetEvent == [part |-> "none", issue |-> 0, flat |-> {}, curated |-> {}]
NoFacetTx == [rows |-> {}, todo |-> {}, loaded |-> FALSE, n |-> 0]

\* facetProjectionExcluded, for the lengths; the per-event keys are never offered here.
FacetProjectionExcluded(pair) == pair[2] \in LongValues

\* ListFacetKeys, ListFacetValues
ListFacetKeys(rows) == {r.key : r \in rows}
ListFacetValues(rows, key) == {r.value : r \in {s \in rows : s.key = key}}

\* An event is stored: its payload flattens to flat, extractFacets gives curated.
FacetEvent(issue, flat, curated) ==
  /\ faEvent.part = "none" /\ faEvents < FaMaxEvents
  /\ faEvents' = faEvents + 1
  /\ faEvent' = [part |-> "flat", issue |-> issue, flat |-> flat, curated |-> curated]
  /\ UNCHANGED <<faRows, faTx, faFaults>>

RowsOf(issue, pairs) == {[issue |-> issue, key |-> p[1], value |-> p[2]] : p \in pairs}

\* insertFacets: no guard but the exclusions.
InsertFacets ==
  /\ faEvent.part = "flat"
  /\ faRows' = faRows \cup RowsOf(faEvent.issue, {p \in faEvent.flat : ~FacetProjectionExcluded(p)})
  /\ faEvent' = [faEvent EXCEPT !.part = "curated"]
  /\ faTx' = [rows |-> faRows', todo |-> {p \in faEvent.curated : ~FacetProjectionExcluded(p)},
              loaded |-> FALSE, n |-> 0]
  /\ UNCHANGED <<faEvents, faFaults>>

\* facetKeyCounter.get: counted once per transaction, on demand.
KeyCount == IF faTx.loaded THEN faTx.n ELSE Cardinality(ListFacetKeys(faTx.rows))

\* Mutant: the counter is not moved by the keys this transaction adds.
NoInc(isNewKey, asked) == IF asked THEN KeyCount ELSE faTx.n

\* facetKeyCounter.inc
Inc(isNewKey, asked) ==
  (IF asked THEN KeyCount ELSE faTx.n) + (IF isNewKey /\ (faTx.loaded \/ asked) THEN 1 ELSE 0)

\* persistFacet of one pair, in the map's order.
PersistFacet(p) ==
  /\ faEvent.part = "curated" /\ p \in faTx.todo
  /\ LET isNewKey == p[1] \notin ListFacetKeys(faTx.rows)
         isNewValue == p[2] \notin ListFacetValues(faTx.rows, p[1])
         refused == \/ isNewKey /\ KeyCount >= MaxFacetKeysPerProject
                    \/ isNewValue /\ Cardinality(ListFacetValues(faTx.rows, p[1])) >= MaxFacetValuesPerKey
     IN faTx' = [rows |-> IF refused THEN faTx.rows ELSE faTx.rows \cup RowsOf(faEvent.issue, {p}),
                 todo |-> faTx.todo \ {p}, loaded |-> faTx.loaded \/ isNewKey,
                 n |-> Inc(isNewKey /\ ~refused, isNewKey)]
  /\ UNCHANGED <<faRows, faEvent, faEvents, faFaults>>

\* PersistFacets commits.
PersistFacetsCommits ==
  /\ faEvent.part = "curated" /\ faTx.todo = {}
  /\ faRows' = faTx.rows /\ faTx' = NoFacetTx
  /\ faEvent' = NoFacetEvent
  /\ UNCHANGED <<faEvents, faFaults>>

\* Either transaction fails and is rolled back; the event is tried again later,
\* or is dead-lettered.
FacetsFail(again) ==
  /\ faEvent.part # "none" /\ faFaults < FaMaxFaults
  /\ faFaults' = faFaults + 1
  /\ faTx' = NoFacetTx
  /\ faEvent' = IF again THEN [faEvent EXCEPT !.part = "flat"] ELSE NoFacetEvent
  /\ UNCHANGED <<faRows, faEvents>>

FaInit == faRows = {} /\ faEvent = NoFacetEvent /\ faTx = NoFacetTx /\ faEvents = 0 /\ faFaults = 0

FaNext ==
  \/ \E issue \in FacetIssues, k \in FlatKeys, v \in FacetValues, curated \in SUBSET (CuratedKeys \X FacetValues) :
       /\ \A p, q \in curated : p[1] = q[1] => p = q
       /\ FacetEvent(issue, {<<k, v>>}, curated)
  \/ InsertFacets \/ PersistFacetsCommits
  \/ \E p \in CuratedKeys \X FacetValues : PersistFacet(p)
  \/ \E again \in BOOLEAN : FacetsFail(again)

FaSpec == FaInit /\ [][FaNext]_faVars

----------------------------------------------------------------------------
\* Correctness

\* Committing the curated facets of an event never takes a project past
\* maxFacetKeysPerProject keys or a key past maxFacetValuesPerKey values, and
\* leaves out a pair only when one of the two was reached, in whatever order the
\* map is walked and however many new keys one event brings.
CuratedWithinCaps ==
  [][PersistFacetsCommits =>
       LET keys == ListFacetKeys(faRows') IN
       /\ Cardinality(keys) <= MaxFacetKeysPerProject \/ keys = ListFacetKeys(faRows)
       /\ \A k \in keys : \/ Cardinality(ListFacetValues(faRows', k)) <= MaxFacetValuesPerKey
                          \/ ListFacetValues(faRows', k) = ListFacetValues(faRows, k)
       /\ \A p \in faEvent.curated :
            \/ RowsOf(faEvent.issue, {p}) \subseteq faRows' \/ FacetProjectionExcluded(p)
            \/ Cardinality(keys) >= MaxFacetKeysPerProject /\ p[1] \notin ListFacetKeys(faRows)
            \/ Cardinality(ListFacetValues(faRows', p[1])) >= MaxFacetValuesPerKey]_faVars

\* The documented cap: a project has at most maxFacetKeysPerProject distinct
\* facet keys, and keys seen after it is reached are ignored.
FacetKeysCapped == Cardinality(ListFacetKeys(faRows)) <= MaxFacetKeysPerProject
=============================================================================
