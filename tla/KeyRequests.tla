---------------------------- MODULE KeyRequests ----------------------------
(***************************************************************************)
(* An agent asks for an ingest key, an admin approves, one poll collects   *)
(* it (internal/service/keyrequests, internal/storage/key_requests.go, the *)
(* handlers in internal/api/key_requests.go and the loop of                *)
(* cmd/bb/keyrequest.go).  The client gives a poll up after its timeout    *)
(* and polls again, so two polls of one request can run at the writer.     *)
(***************************************************************************)
EXTENDS Integers, FiniteSets

CONSTANTS
  Agents,              \* each makes one request, whose id is the agent here
  Polls,               \* polls an agent can make, 1..n
  MaxPendingPerProject, RequestTTL, PurgeAfter,
  KrMaxTime, KrMaxFaults     \* bounds

ASSUME KrAssumption ==
  /\ Polls \subseteq Nat
  /\ MaxPendingPerProject \in Nat \ {0} /\ RequestTTL \in Nat \ {0} /\ PurgeAfter \in Nat

VARIABLES
  krNow,
  krRows,     \* key_requests: NoRequest, or [status, expires]
  krKeys,     \* api_keys minted for a request: the polls that minted one
  krAgent,    \* the client: what it is doing and, at the end, what it was told
  krPolls,    \* the polls at the writer
  krLost,     \* history: agents whose claiming answer never arrived
  krApproved, \* history: requests an admin approved in time
  krFaults

krVars == <<krNow, krRows, krKeys, krAgent, krPolls, krLost, krApproved, krFaults>>

NoRequest == [status |-> "none", expires |-> 0]
NoPoll == [pc |-> "none", at |-> 0, answer |-> "none"]
Open(a) == krRows[a].expires > krNow
PendingRequests == {a \in Agents : krRows[a].status = "pending" /\ Open(a)}

\* Create, first half: the label is fine and the project has room.  The row is
\* stored later, so concurrent requests can pass the limit together.
CreateCount(a) ==
  /\ krAgent[a] = "idle"
  /\ krAgent' = [krAgent EXCEPT ![a] = IF Cardinality(PendingRequests) >= MaxPendingPerProject THEN "refused" ELSE "creating"]
  /\ UNCHANGED <<krNow, krRows, krKeys, krPolls, krLost, krApproved, krFaults>>

\* PurgeKeyRequests: rows that expired long ago go.
PurgeKeyRequests(rows) == [b \in Agents |-> IF rows[b].expires < krNow - PurgeAfter THEN NoRequest ELSE rows[b]]

\* CreateKeyRequest
NewRow == [status |-> "pending", expires |-> krNow + RequestTTL]

\* Create, second half: the row is stored and old rows are purged.  The client
\* that gets no answer stops: it has no poll secret.
CreateInsert(a, answered) ==
  /\ krAgent[a] = "creating"
  /\ ~answered => krFaults < KrMaxFaults
  /\ krFaults' = krFaults + (IF answered THEN 0 ELSE 1)
  /\ krRows' = PurgeKeyRequests([krRows EXCEPT ![a] = NewRow])
  /\ krAgent' = [krAgent EXCEPT ![a] = IF answered THEN "waiting" ELSE "failed"]
  /\ UNCHANGED <<krNow, krKeys, krPolls, krLost, krApproved>>

\* Approve and Deny: an admin decides a request that is pending and open.
ResolveKeyRequest(a, status) ==
  /\ krRows[a].status = "pending" /\ Open(a)
  /\ krRows' = [krRows EXCEPT ![a].status = status]
  /\ krApproved' = IF status = "approved" THEN krApproved \cup {a} ELSE krApproved
  /\ UNCHANGED <<krNow, krKeys, krAgent, krPolls, krLost, krFaults>>

\* What GetKeyRequest and the clock say of a request.
ReportedStatus(a) == CASE krRows[a].status = "none"                 -> "not found"
                 [] krRows[a].status # "claimed" /\ ~Open(a) -> "expired"
                 [] OTHER                                     -> krRows[a].status

\* The client sends its next poll; Poll reads the row.
PollRead(a, n) ==
  LET answer == ReportedStatus(a)
  IN /\ krAgent[a] = "waiting" /\ krPolls[a][n] = NoPoll
     /\ \A m \in Polls : m < n => krPolls[a][m] # NoPoll
     /\ krPolls' = [krPolls EXCEPT ![a][n] = IF answer = "approved" THEN [pc |-> "claiming", at |-> krNow, answer |-> "none"]
                                             ELSE [pc |-> "answered", at |-> 0, answer |-> answer]]
     /\ krAgent' = [krAgent EXCEPT ![a] = "polling"]
     /\ UNCHANGED <<krNow, krRows, krKeys, krLost, krApproved, krFaults>>

\* Mutant: the update that claims forgets the state it needs.
ClaimableAlways(a, at) == krRows[a].expires > at

\* The row is as the poll read it; the time is the one of that read.
Claimable(a, at) == krRows[a].status = "approved" /\ krRows[a].expires > at

\* ClaimKeyRequest: one transaction marks the request and stores the key.
ClaimKeyRequest(a, n) ==
  /\ krPolls[a][n].pc = "claiming"
  /\ IF Claimable(a, krPolls[a][n].at)
     THEN /\ krRows' = [krRows EXCEPT ![a].status = "claimed"]
          /\ krKeys' = [krKeys EXCEPT ![a] = @ \cup {n}]
          /\ krPolls' = [krPolls EXCEPT ![a][n] = [pc |-> "answered", at |-> 0, answer |-> "key"]]
     ELSE /\ krPolls' = [krPolls EXCEPT ![a][n] = [pc |-> "answered", at |-> 0, answer |-> IF krRows[a] = NoRequest THEN "not found" ELSE "claimed"]]
          /\ UNCHANGED <<krRows, krKeys>>
  /\ UNCHANGED <<krNow, krAgent, krLost, krApproved, krFaults>>

\* The claim fails, or its request was cancelled with the client: 500.
ClaimFails(a, n) ==
  /\ krPolls[a][n].pc = "claiming" /\ krFaults < KrMaxFaults
  /\ krFaults' = krFaults + 1
  /\ krPolls' = [krPolls EXCEPT ![a][n] = [pc |-> "answered", at |-> 0, answer |-> "error"]]
  /\ UNCHANGED <<krNow, krRows, krKeys, krAgent, krLost, krApproved>>

Current(a, n) == krPolls[a][n] # NoPoll /\ \A m \in Polls : m > n => krPolls[a][m] = NoPoll

\* outcome: the answer ends the loop, or the client waits for its next poll.
PollAnswered(a, n) ==
  /\ krAgent[a] = "polling" /\ Current(a, n) /\ krPolls[a][n].pc = "answered"
  /\ krAgent' = [krAgent EXCEPT ![a] = IF krPolls[a][n].answer \in {"pending", "error"} THEN "waiting" ELSE krPolls[a][n].answer]
  /\ krPolls' = [krPolls EXCEPT ![a][n].pc = "done"]
  /\ UNCHANGED <<krNow, krRows, krKeys, krLost, krApproved, krFaults>>

\* poll: the client's timeout, a reset connection or a proxy's 5xx; the writer
\* may go on with the poll.  The client tries again.
PollGivenUp(a, n) ==
  /\ krAgent[a] = "polling" /\ Current(a, n) /\ krFaults < KrMaxFaults
  /\ krFaults' = krFaults + 1
  /\ krAgent' = [krAgent EXCEPT ![a] = "waiting"]
  /\ krLost' = IF krPolls[a][n].pc = "claiming" \/ krPolls[a][n].answer = "key" THEN krLost \cup {a} ELSE krLost
  /\ UNCHANGED <<krNow, krRows, krKeys, krPolls, krApproved>>

\* runKeyRequest: the deadline of --timeout passed between two polls.
DeadlinePasses(a) ==
  /\ krAgent[a] = "waiting" /\ krFaults < KrMaxFaults
  /\ krFaults' = krFaults + 1
  /\ krAgent' = [krAgent EXCEPT ![a] = "gave up"]
  /\ UNCHANGED <<krNow, krRows, krKeys, krPolls, krLost, krApproved>>

KrTick ==
  /\ krNow < KrMaxTime
  /\ krNow' = krNow + 1
  /\ UNCHANGED <<krRows, krKeys, krAgent, krPolls, krLost, krApproved, krFaults>>

KrInit ==
  /\ krNow = 1 /\ krRows = [a \in Agents |-> NoRequest] /\ krKeys = [a \in Agents |-> {}]
  /\ krAgent = [a \in Agents |-> "idle"] /\ krPolls = [a \in Agents |-> [n \in Polls |-> NoPoll]]
  /\ krLost = {} /\ krApproved = {} /\ krFaults = 0

KrNext ==
  \/ \E a \in Agents :
       \/ CreateCount(a) \/ DeadlinePasses(a)
       \/ \E answered \in BOOLEAN : CreateInsert(a, answered)
       \/ \E status \in {"approved", "denied"} : ResolveKeyRequest(a, status)
       \/ \E n \in Polls : \/ PollRead(a, n) \/ ClaimKeyRequest(a, n) \/ ClaimFails(a, n)
                           \/ PollAnswered(a, n) \/ PollGivenUp(a, n)
  \/ KrTick

KrSpec == KrInit /\ [][KrNext]_krVars

----------------------------------------------------------------------------
\* Correctness

\* A request yields at most one key, only after an admin approved it in time,
\* and the agent that asked gets it: an agent told "claimed" lost the one
\* answer that carried the key, and until then the key is on its way.  (The
\* key of an abandoned poll is stored and works, and nobody has it.)
OneKeyAndItArrives ==
  \A a \in Agents :
    /\ Cardinality(krKeys[a]) <= 1
    /\ krKeys[a] # {} => a \in krApproved
    /\ krAgent[a] = "key" => krKeys[a] # {}
    /\ (krKeys[a] # {} /\ a \notin krLost) => \/ krAgent[a] = "key"
                                              \/ krAgent[a] = "polling" /\ \E n \in krKeys[a] : Current(a, n)
=============================================================================
