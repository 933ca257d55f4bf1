------------------------------ MODULE Releases ------------------------------
(***************************************************************************)
(* Releases of one project: rows made by ensureRelease from the events     *)
(* that carry a version (with the in-memory set of the ones already seen), *)
(* markers posted through the spool, edits and deletions by hand, and the  *)
(* span in which an issue counts as new in a release (NewIssueWindow).     *)
(***************************************************************************)
EXTENDS Integers, FiniteSets

CONSTANTS
  ReleaseVersions, ReleaseEnvs,   \* "" is the empty environment
  ReleaseCallers,    \* the consumer and the requests that replay held events
  SeenReleasesCap,
  ReMaxTime, ReMaxRows,   \* bounds: observed times, rows ever inserted
  ReMaxFaults        \* bound: failed statements and restarts

ASSUME ReleasesAssumption ==
  /\ SeenReleasesCap \in Nat \ {0} /\ {ReMaxTime, ReMaxRows, ReMaxFaults} \subseteq Nat

VARIABLES
  reRows,      \* releases: id, version, env, at (observed_at), by
  reLast,      \* ids handed out
  reMarkers,   \* posted markers the worker has yet to create
  reSeen,      \* seenReleases.m
  reCalls,     \* [ReleaseCallers -> the ensureRelease call under way]
  reGone,      \* version/env pairs whose matching rows a person removed or changed
  reOverlap,   \* version/env pairs two calls looked up before either inserted
  reServed,    \* version/env pairs of calls that ended without a failure
  reFaults

reVars == <<reRows, reLast, reMarkers, reSeen, reCalls, reGone, reOverlap, reServed, reFaults>>

ReleaseKeys == ReleaseVersions \X ReleaseEnvs
NoCall == [pc |-> "idle", key |-> <<"", "">>, at |-> 0]

\* The lookup of ensureRelease: a row of the version whose environment is the
\* event's, or one of the two is empty.
Matches(r, key) ==
  r.version = key[1] /\ (key[2] = "" \/ r.env = "" \/ r.env = key[2])

MatchingKeys(r) == {k \in ReleaseKeys : Matches(r, k)}

InsertRelease(key, at, by) ==
  /\ reLast < ReMaxRows
  /\ reLast' = reLast + 1
  /\ reRows' = reRows \cup {[id |-> reLast', version |-> key[1], env |-> key[2], at |-> at, by |-> by]}

----------------------------------------------------------------------------
\* Automatic releases

\* ensureRelease: the seen set is asked first.
EnsureBegins(c, key, at) ==
  /\ reCalls[c].pc = "idle"
  /\ IF key \in reSeen
     THEN reServed' = reServed \cup {key} /\ UNCHANGED reCalls
     ELSE reCalls' = [reCalls EXCEPT ![c] = [pc |-> "lookup", key |-> key, at |-> at]] /\ UNCHANGED reServed
  /\ UNCHANGED <<reRows, reLast, reMarkers, reSeen, reGone, reOverlap, reFaults>>

Lookup(c) ==
  /\ reCalls[c].pc = "lookup"
  /\ LET key == reCalls[c].key
         found == \E r \in reRows : Matches(r, key)
         other == {d \in ReleaseCallers \ {c} : reCalls[d].pc = "insert" /\ reCalls[d].key[1] = key[1]}
     IN /\ reCalls' = [reCalls EXCEPT ![c].pc = IF found THEN "add" ELSE "insert"]
        /\ reOverlap' = IF ~found /\ other # {} THEN reOverlap \cup {key[1]} ELSE reOverlap
  /\ UNCHANGED <<reRows, reLast, reMarkers, reSeen, reGone, reServed, reFaults>>

Insert(c) ==
  /\ reCalls[c].pc = "insert"
  /\ InsertRelease(reCalls[c].key, reCalls[c].at, "auto")
  /\ reCalls' = [reCalls EXCEPT ![c].pc = "add"]
  /\ UNCHANGED <<reMarkers, reSeen, reGone, reOverlap, reServed, reFaults>>

\* seenReleases.add: a full set is started anew.
SeenWith(key) == IF Cardinality(reSeen) >= SeenReleasesCap THEN {key} ELSE reSeen \cup {key}

AddSeen(c) ==
  /\ reCalls[c].pc = "add"
  /\ reSeen' = SeenWith(reCalls[c].key)
  /\ reServed' = reServed \cup {reCalls[c].key}
  /\ reCalls' = [reCalls EXCEPT ![c] = NoCall]
  /\ UNCHANGED <<reRows, reLast, reMarkers, reGone, reOverlap, reFaults>>

\* Mutant: a failed statement is remembered as seen.
SeenAnyway(c) == SeenWith(reCalls[c].key)

SeenAfterFailure(c) == reSeen

\* The lookup or the insert fails; it is logged and the ingest goes on.
EnsureFails(c) ==
  /\ reCalls[c].pc \in {"lookup", "insert"} /\ reFaults < ReMaxFaults
  /\ reFaults' = reFaults + 1
  /\ reCalls' = [reCalls EXCEPT ![c] = NoCall]
  /\ reSeen' = SeenAfterFailure(c)
  /\ UNCHANGED <<reRows, reLast, reMarkers, reGone, reOverlap, reServed>>

----------------------------------------------------------------------------
\* Releases by hand

\* serveReleasesRoot: the marker is spooled ...
PostMarker(key, at) ==
  /\ reMarkers = {}
  /\ reMarkers' = {[key |-> key, at |-> at]}
  /\ UNCHANGED <<reRows, reLast, reSeen, reCalls, reGone, reOverlap, reServed, reFaults>>

\* ... and the worker creates it, again after a failure that hid its success.
CreateMarker(again) ==
  /\ \E m \in reMarkers : InsertRelease(m.key, m.at, "hand")
  /\ again => reFaults < ReMaxFaults
  /\ reFaults' = IF again THEN reFaults + 1 ELSE reFaults
  /\ reMarkers' = IF again THEN reMarkers ELSE {}
  /\ UNCHANGED <<reSeen, reCalls, reGone, reOverlap, reServed>>

UpdateRelease(r, key, at) ==
  /\ r \in reRows
  /\ reRows' = (reRows \ {r}) \cup {[r EXCEPT !.version = key[1], !.env = key[2], !.at = at]}
  /\ reGone' = reGone \cup MatchingKeys(r) \cup {key}
  /\ UNCHANGED <<reLast, reMarkers, reSeen, reCalls, reOverlap, reServed, reFaults>>

\* DeleteRelease, and PruneReleases of the oldest rows.
DeleteRelease(r) ==
  /\ r \in reRows
  /\ reRows' = reRows \ {r}
  /\ reGone' = reGone \cup MatchingKeys(r)
  /\ UNCHANGED <<reLast, reMarkers, reSeen, reCalls, reOverlap, reServed, reFaults>>

\* serveReleaseRoute, PUT and DELETE
ServeReleaseRoute(r, key, at) == UpdateRelease(r, key, at) \/ DeleteRelease(r)

ReRestart ==
  /\ reFaults < ReMaxFaults
  /\ reFaults' = reFaults + 1
  /\ reSeen' = {} /\ reCalls' = [c \in ReleaseCallers |-> NoCall]
  /\ UNCHANGED <<reRows, reLast, reMarkers, reGone, reOverlap, reServed>>

ReInit ==
  /\ reRows = {} /\ reLast = 0 /\ reMarkers = {} /\ reSeen = {} /\ reFaults = 0
  /\ reCalls = [c \in ReleaseCallers |-> NoCall]
  /\ reGone = {} /\ reOverlap = {} /\ reServed = {}

ReNext ==
  \/ \E c \in ReleaseCallers : Lookup(c) \/ Insert(c) \/ AddSeen(c) \/ EnsureFails(c)
  \/ \E c \in ReleaseCallers, key \in ReleaseKeys, at \in 1 .. ReMaxTime : EnsureBegins(c, key, at)
  \/ \E key \in ReleaseKeys, at \in 1 .. ReMaxTime : PostMarker(key, at) \/ \E r \in reRows : ServeReleaseRoute(r, key, at)
  \/ \E again \in BOOLEAN : CreateMarker(again)
  \/ ReRestart

ReSpec == ReInit /\ [][ReNext]_reVars

----------------------------------------------------------------------------
\* NewIssueWindow: up to the next observed time of the same environment, or open.

\* Mutant: releases of every environment end the span.
AnyEnvironmentWindow(r) ==
  LET later == {s.at : s \in {t \in reRows : t.at >= r.at /\ t # r}}
  IN [from |-> r.at, before |-> IF later = {} THEN ReMaxTime + 1 ELSE CHOOSE t \in later : \A u \in later : t <= u]

NewIssueWindow(r) ==
  LET later == {s.at : s \in {t \in reRows : t.env = r.env /\ t.at > r.at}}
  IN [from |-> r.at, before |-> IF later = {} THEN ReMaxTime + 1 ELSE CHOOSE t \in later : \A u \in later : t <= u]

----------------------------------------------------------------------------
\* Correctness

\* An event whose release was ensured has a row to match it, unless a person (or
\* the release retention) removed or changed the row it had; and one version and
\* environment gets a second automatic row only when two calls looked it up at
\* the same time or the first row was removed or changed.
ReleasesFollowEvents ==
  /\ \A key \in reServed \ reGone : \E r \in reRows : Matches(r, key)
  /\ \A r, s \in reRows :
       r # s /\ r.by = "auto" /\ s.by = "auto" /\ r.version = s.version /\ r.env = s.env
         => r.version \in reOverlap \/ <<r.version, r.env>> \in reGone

\* Every instant from an environment's first release on lies in the new-issue
\* window of exactly one observed time of that environment, whatever releases the
\* others have and however rows are edited.
NewIssueWindowsPartition ==
  \A r \in reRows, t \in 1 .. ReMaxTime :
    r.at <= t =>
      Cardinality({s.at : s \in {u \in reRows : /\ u.env = r.env /\ NewIssueWindow(u).from <= t
                                               /\ t < NewIssueWindow(u).before}}) = 1
=============================================================================
