----------------------------- MODULE SetupKeys -----------------------------
(***************************************************************************)
(* Who a request is, by its API key, what it may do, and the keys of the   *)
(* set-up page (internal/auth, internal/api/setup.go, apikeys.go,          *)
(* keybind.go, keycheck.go, pipeline.go, internal/storage/apikeys.go and   *)
(* setup_revocations.go).                                                  *)
(* The set-up key of a slug is derived from a secret, so deleting its row  *)
(* does not end it: a revocation does, and stays when the slug is reused.  *)
(***************************************************************************)
EXTENDS Integers, FiniteSets

CONSTANTS
  KeySlugs,       \* slugs; a slug may have a project
  KeyNames,       \* keys an admin creates
  KeyScopes,      \* subset of {"full", "ingest", "read"}
  KeyRoutes,      \* subset of {"ingest", "marker", "read", "other"}: ingest, POST of a release,
                  \* GET outside settings and keys, any other protected route
  KeyChecks,      \* requests that can be under way at once
  SkMaxSteps, SkMaxFaults    \* bounds

ASSUME SkAssumption ==
  /\ KeyScopes \subseteq {"full", "ingest", "read"} /\ KeyRoutes \subseteq {"ingest", "marker", "read", "other"}
  /\ KeySlugs \cap {"any", "none", "default"} = {}

SetupName(s) == <<"setup", s>>
AdminKey(n) == <<"key", n>>
Keys == {AdminKey(n) : n \in KeyNames} \cup {SetupName(s) : s \in KeySlugs}

VARIABLES
  skProjects,   \* slugs with a project: "pending" or "active", else "none"
  skRows,       \* api_keys: for each key its row [slug, scope], or NoKeyRow
  skRevoked,    \* setup_key_revocations
  skChecks,     \* requests under way
  skEnded,      \* history: keys that were taken away for good
  skSteps, skFaults

skVars == <<skProjects, skRows, skRevoked, skChecks, skEnded, skSteps, skFaults>>

NoKeyRow == [slug |-> "none", scope |-> "none"]
IdleCheck == [pc |-> "idle", key |-> <<"none", "none">>, names |-> "none", route |-> "none", own |-> "none",
              scope |-> "none", acts |-> "none", made |-> FALSE, late |-> FALSE]

Budget == skSteps < SkMaxSteps /\ skSteps' = skSteps + 1

\* A project of a slug appears, is approved, or is deleted with its keys.
ProjectChanges(s, status) ==
  /\ Budget /\ skProjects[s] # status /\ (skProjects[s] = "active" => status = "none")
  /\ skProjects' = [skProjects EXCEPT ![s] = status]
  /\ skRows' = IF status = "none" THEN [k \in Keys |-> IF skRows[k].slug = s THEN NoKeyRow ELSE skRows[k]] ELSE skRows
  /\ UNCHANGED <<skRevoked, skChecks, skEnded, skFaults>>

\* CreateAPIKey: an admin makes a key for a project, or for none.
CreateAPIKey(k, s, scope) ==
  /\ Budget /\ k \notin skEnded /\ skRows[k] = NoKeyRow
  /\ s # "any" => skProjects[s] # "none"
  /\ skRows' = [skRows EXCEPT ![k] = [slug |-> s, scope |-> scope]]
  /\ UNCHANGED <<skProjects, skRevoked, skChecks, skEnded, skFaults>>

\* Mutant: the row of a set-up key is made again after a revocation.
EnsureForgets(s) == skRows[SetupName(s)] = NoKeyRow

\* EnsureSetupAPIKey inserts unless revoked or there, in one statement.
EnsureSetupAPIKey(s) == s \notin skRevoked /\ skRows[SetupName(s)] = NoKeyRow

\* resolveSetupProject: the derived key of an active project is for admins.
SetupAllowed(s, admin) == skProjects[s] = "active" => admin

\* serveSetup: the page shows the key; a known project gets its row.
ServeSetup(s, admin) ==
  /\ Budget
  /\ SetupAllowed(s, admin)
  /\ skProjects[s] # "none" /\ EnsureSetupAPIKey(s)
  /\ skRows' = [skRows EXCEPT ![SetupName(s)] = [slug |-> s, scope |-> "ingest"]]
  /\ UNCHANGED <<skProjects, skRevoked, skChecks, skEnded, skFaults>>

\* A key is taken away: its row goes, the slug of a set-up key is revoked, and
\* the requests that looked it up already are noted.
TakeAway(k, slugs) ==
  /\ skRows' = [skRows EXCEPT ![k] = NoKeyRow]
  /\ skRevoked' = skRevoked \cup slugs
  /\ skEnded' = skEnded \cup {k}
  /\ skChecks' = [c \in KeyChecks |-> [skChecks[c] EXCEPT !.late = @ \/ skChecks[c].key = k]]
  /\ UNCHANGED <<skProjects, skFaults>>

\* setupKeySlug: the slug whose derived key this is, by the hash.
SetupKeySlug(k) == {s \in KeySlugs : k = SetupName(s)}

\* deleteAPIKey: the row of a set-up key is revoked, any other is removed.
DeleteAPIKey(k) == Budget /\ skRows[k] # NoKeyRow /\ TakeAway(k, SetupKeySlug(k))

\* revokeSetupKey: an admin revokes a slug that may have no row.
RevokeSetupKey(s) == Budget /\ s \notin skRevoked /\ TakeAway(SetupName(s), {s})

\* SetupKeyRevoked
SetupKeyRevoked(s) == s \in skRevoked

\* A request arrives on a route with a key and may name a project; resolveKeyErr looks the
\* key up.  A key that is found goes on to the project check, one that is not to
\* the set-up fallback of the slug the request names.
CheckKey(c, k, names, route) ==
  /\ skChecks[c].pc = "idle" /\ Budget
  /\ skChecks' = [skChecks EXCEPT ![c] =
       [pc    |-> CASE skRows[k] # NoKeyRow          -> "found"
                    [] names \in KeySlugs            -> "fallback"
                    [] OTHER                         -> "401",
        key   |-> k, names |-> names, route |-> route, own |-> skRows[k].slug, scope |-> skRows[k].scope,
        acts  |-> "none", made |-> FALSE, late |-> FALSE]]
  /\ UNCHANGED <<skProjects, skRows, skRevoked, skEnded, skFaults>>

\* The lookup failed: 503, and no fallback that would ask the same store.
CheckFails(c) ==
  /\ skChecks[c].pc \in {"found", "fallback"} /\ skFaults < SkMaxFaults
  /\ skFaults' = skFaults + 1
  /\ skChecks' = [skChecks EXCEPT ![c].pc = "503"]
  /\ UNCHANGED <<skProjects, skRows, skRevoked, skEnded, skSteps>>

\* newSetupKeyVerifier and withSetupKeyRevocation.
SetupVerifies(k, s) == k = SetupName(s) /\ ~SetupKeyRevoked(s)

\* CheckWithSetupFallback: the key is the derived one of the named slug and not
\* revoked; it is good for ingest and bound to no project at this point.
SetupFallback(c) ==
  /\ skChecks[c].pc = "fallback"
  /\ skChecks' = [skChecks EXCEPT ![c] =
       IF SetupVerifies(skChecks[c].key, skChecks[c].names)
       THEN [skChecks[c] EXCEPT !.pc = "found", !.own = "any", !.scope = "ingest"]
       ELSE [skChecks[c] EXCEPT !.pc = "401"]]
  /\ UNCHANGED <<skProjects, skRows, skRevoked, skEnded, skSteps, skFaults>>

\* Mutant: only ingest keys are confined.
ConfinedIngestOnly(own, scope) == own \in KeySlugs /\ scope = "ingest"

\* confinedProject: a bound key that is not full-scope stays in its project.
Confined(own, scope) == own \in KeySlugs /\ scope # "full"

\* projectForSlug: a slug without a project counts as another project.
Foreign(own, names) == names # own \/ skProjects[names] = "none"

\* A confined key that names another project.
NamesAnother(q) == Confined(q.own, q.scope) /\ q.names \in KeySlugs /\ Foreign(q.own, q.names)

\* requireOwnProject, on the ingest routes, which ask for no scope.
RequireOwnProject(c) ==
  LET q == skChecks[c]
  IN /\ q.pc = "found" /\ q.route = "ingest"
     /\ skChecks' = [skChecks EXCEPT ![c].pc = IF NamesAnother(q) THEN "403" ELSE "accepted"]
     /\ UNCHANGED <<skProjects, skRows, skRevoked, skEnded, skSteps, skFaults>>

\* checkAPIKeyScope, on every other route.
ScopeAllows(scope, route) == (scope = "ingest" => route = "marker") /\ (scope = "read" => route = "read")

\* authenticateAndResolve with no session: scope, then confineBoundKey.
AuthenticateAPIKey(c) ==
  LET q == skChecks[c]
  IN /\ q.pc = "found" /\ q.route # "ingest"
     /\ skChecks' = [skChecks EXCEPT ![c].pc =
          IF ScopeAllows(q.scope, q.route) /\ ~NamesAnother(q) THEN "passed" ELSE "403"]
     /\ UNCHANGED <<skProjects, skRows, skRevoked, skEnded, skSteps, skFaults>>

\* The project a request acts on: the named one, the key's own, the default one.
ActsOn(q) == CASE q.names \in KeySlugs -> q.names [] q.own \in KeySlugs -> q.own [] OTHER -> "default"

\* resolveProjectID: a project that is named and missing is made, active at once.
ResolveProjectID(c) ==
  LET q == skChecks[c]
      made == q.names \in KeySlugs /\ skProjects[q.names] = "none"
  IN /\ q.pc = "passed"
     /\ skProjects' = IF made THEN [skProjects EXCEPT ![q.names] = "active"] ELSE skProjects
     /\ skChecks' = [skChecks EXCEPT ![c] = [q EXCEPT !.pc = "accepted", !.acts = ActsOn(q), !.made = made]]
     /\ UNCHANGED <<skRows, skRevoked, skEnded, skSteps, skFaults>>

\* Finding the named project fails: the default one is taken.
ResolveProjectIDFails(c) ==
  LET q == skChecks[c]
  IN /\ q.pc = "passed" /\ q.names \in KeySlugs /\ skFaults < SkMaxFaults
     /\ skFaults' = skFaults + 1
     /\ skChecks' = [skChecks EXCEPT ![c] = [q EXCEPT !.pc = "accepted", !.acts = "default"]]
     /\ UNCHANGED <<skProjects, skRows, skRevoked, skEnded, skSteps>>

CheckAnswered(c) ==
  /\ skChecks[c].pc \in {"accepted", "401", "403", "503"}
  /\ skChecks' = [skChecks EXCEPT ![c] = IdleCheck]
  /\ UNCHANGED <<skProjects, skRows, skRevoked, skEnded, skSteps, skFaults>>

SkInit ==
  /\ skProjects = [s \in KeySlugs |-> "none"] /\ skRows = [k \in Keys |-> NoKeyRow]
  /\ skRevoked = {} /\ skChecks = [c \in KeyChecks |-> IdleCheck]
  /\ skEnded = {} /\ skSteps = 0 /\ skFaults = 0

SkNext ==
  \/ \E s \in KeySlugs : \/ \E status \in {"none", "pending", "active"} : ProjectChanges(s, status)
                         \/ \E admin \in BOOLEAN : ServeSetup(s, admin)
                         \/ RevokeSetupKey(s)
  \/ \E k \in {AdminKey(n) : n \in KeyNames}, s \in KeySlugs \cup {"any"}, scope \in KeyScopes : CreateAPIKey(k, s, scope)
  \/ \E k \in Keys : DeleteAPIKey(k) \/ \E c \in KeyChecks, names \in KeySlugs \cup {"none"}, route \in KeyRoutes :
                                         CheckKey(c, k, names, route)
  \/ \E c \in KeyChecks : \/ SetupFallback(c) \/ CheckFails(c) \/ RequireOwnProject(c) \/ CheckAnswered(c)
                          \/ AuthenticateAPIKey(c) \/ ResolveProjectID(c) \/ ResolveProjectIDFails(c)

SkSpec == SkInit /\ [][SkNext]_skVars

----------------------------------------------------------------------------
\* Correctness

\* A key that was deleted or revoked is never accepted by a request that came
\* afterwards, whatever set-up page is opened, project made or key created
\* later; a request under way at that moment may still pass.  An accepted
\* request with a bound key of less than full scope acts on its own project, or on
\* the default one when finding its own failed, and makes no other project.
EndedKeysStayDead ==
  \A c \in KeyChecks : LET q == skChecks[c] IN
    q.pc = "accepted" =>
      /\ q.key \in skEnded => q.late
      /\ (q.own \in KeySlugs /\ q.scope # "full") =>
           /\ q.names \in {"none", q.own}
           /\ q.route = "ingest" \/ q.acts \in {q.own, "default"}

\* What specs/001-personal-error-tracker/spec.md says of such a key (FR-022a): it
\* "MUST NOT create projects".
BoundKeyMakesNoProject ==
  \A c \in KeyChecks : skChecks[c].made => ~Confined(skChecks[c].own, skChecks[c].scope)
=============================================================================
