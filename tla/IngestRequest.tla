--------------------------- MODULE IngestRequest ---------------------------
(***************************************************************************)
(* An ingest request from the client to the spool of the writer: the key   *)
(* checks, the reader's write forwarder, the handlers for events,          *)
(* Alertmanager batches and telemetry, and the answers with their promise  *)
(* to the client (internal/ingest, internal/ingestresp, internal/api/      *)
(* forwarder.go, keycheck.go, telemetry_ingest.go).  A reader with a spool *)
(* of its own is SpoolForwarder; the writer's spool is WorkerSpool.        *)
(***************************************************************************)
EXTENDS Integers, FiniteSets

CONSTANTS
  IhRequests,
  IhKinds,            \* "event", "alertmanager" (a batch), "telemetry"
  IhSpoolCap,         \* records the writer's spool takes before it is full
  IhMaxTries, IhMaxFaults   \* bounds

ASSUME IhAssumption == IhKinds \subseteq {"event", "alertmanager", "telemetry"} /\ IhSpoolCap \in Nat

VARIABLES
  ihKey,       \* the client's key: "full", "ingest" (bound to its project) or "deleted"
  ihReq,       \* the requests
  ihSpooled,   \* per request: how often all its records are in the spool (telemetry: how
               \* often the detections were shown the batch)
  ihUsed,      \* records in the spool
  ihFaults

ihVars == <<ihKey, ihReq, ihSpooled, ihUsed, ihFaults>>

Answers == {"none", "accepted", "unauthorized", "forbidden", "malformed", "too_large", "spool_full", "unavailable", "bad_gateway"}

\* ingestresp: which answers tell the client to come back.
Retryable(a) == a \in {"spool_full", "unavailable", "bad_gateway"}

NewRequest == [pc |-> "new", kind |-> "event", body |-> "good", names |-> "own", answer |-> "none", tries |-> 0,
               acted |-> FALSE, deleted |-> FALSE, lost |-> FALSE, replayed |-> FALSE, misled |-> FALSE,
               unsynced |-> FALSE, rows |-> 0, uninserted |-> FALSE]

\* AlertmanagerEvents: one record per alert.
Size(e) == IF ihReq[e].kind = "alertmanager" THEN 2 ELSE 1

\* The size check of the spool, for all records of the request at once.
Fits(e) == ihUsed + Size(e) <= IhSpoolCap

\* How many of the records an append may leave in the file when it does not
\* end well: the write may stop anywhere, or only its sync may fail.
Left(e) == IF ihReq[e].pc = "append" /\ Fits(e) THEN 0..Size(e) ELSE {0}

Leaves(e, n) ==
  /\ ihUsed' = ihUsed + n
  /\ ihSpooled' = IF n = Size(e) THEN [ihSpooled EXCEPT ![e] = @ + 1] ELSE ihSpooled

----------------------------------------------------------------------------
\* The client (external): it sends, and sends again after a retryable answer

Send(e, kind, body, names, at) ==
  /\ ihReq[e].pc = "new"
  /\ ihReq' = [ihReq EXCEPT ![e] = [@ EXCEPT !.pc = at, !.kind = kind, !.body = body, !.names = names, !.tries = 1]]
  /\ UNCHANGED <<ihKey, ihSpooled, ihUsed, ihFaults>>

SendAgain(e, at) ==
  /\ ihReq[e].pc = "answered" /\ Retryable(ihReq[e].answer) /\ ihReq[e].tries < IhMaxTries
  /\ ihReq' = [ihReq EXCEPT ![e].pc = at, ![e].answer = "none", ![e].tries = @ + 1,
                            ![e].acted = FALSE, ![e].replayed = FALSE]
  /\ UNCHANGED <<ihKey, ihSpooled, ihUsed, ihFaults>>

\* An admin deletes the key.
DeleteKey ==
  /\ ihKey # "deleted"
  /\ ihKey' = "deleted"
  /\ ihReq' = [e \in IhRequests |-> [ihReq[e] EXCEPT !.deleted = TRUE]]
  /\ UNCHANGED <<ihSpooled, ihUsed, ihFaults>>

----------------------------------------------------------------------------
\* The key checks

Goes(e, pc) == ihReq' = [ihReq EXCEPT ![e].pc = pc]
Answer(e, a) == ihReq' = [ihReq EXCEPT ![e].pc = "answered", ![e].answer = a]

\* Mutant: a failed lookup is taken for an unknown key.
LookupDenies == "unauthorized"

\* What a failed key lookup is answered with.
LookupFailed == "unavailable"

\* CheckAPIKey, then requireOwnProject: a bound key may not name another project.
Refusal(e) ==
  CASE ihKey = "deleted" -> "unauthorized"
    [] ihKey = "ingest" /\ ihReq[e].names = "foreign" -> "forbidden"
    [] OTHER -> "none"

After(e) == CASE ihReq[e].pc = "reader" -> "forward" [] ihReq[e].pc = "writer" -> "handler" [] OTHER -> "body"

\* requireIngestKey at the reader and again at the writer.
RequireIngestKey(e) ==
  /\ ihReq[e].pc \in {"reader", "writer"} /\ ihReq[e].kind # "telemetry"
  /\ IF Refusal(e) = "none" THEN Goes(e, After(e)) ELSE Answer(e, Refusal(e))
  /\ UNCHANGED <<ihKey, ihSpooled, ihUsed, ihFaults>>

\* authorize, in the handler itself.
Authorize(e) ==
  /\ ihReq[e].pc = "handler"
  /\ IF ihKey = "deleted" THEN Answer(e, "unauthorized") ELSE Goes(e, "body")
  /\ UNCHANGED <<ihKey, ihSpooled, ihUsed, ihFaults>>

\* telemetryAuthorized: a full key, or the ingest key of the telemetry project.
TelemetryAuthorized(e) ==
  /\ ihReq[e].pc \in {"reader", "writer"} /\ ihReq[e].kind = "telemetry"
  /\ IF ihKey = "full" \/ (ihKey = "ingest" /\ ihReq[e].names = "own")
     THEN Goes(e, IF ihReq[e].pc = "reader" THEN "forward" ELSE "body")
     ELSE Answer(e, "unauthorized")
  /\ UNCHANGED <<ihKey, ihSpooled, ihUsed, ihFaults>>

\* The key store, or the lookup of the named project, fails.
LookupFails(e) ==
  /\ ihReq[e].pc \in {"reader", "writer", "handler"} /\ ihFaults < IhMaxFaults
  /\ ihFaults' = ihFaults + 1
  /\ Answer(e, LookupFailed)
  /\ UNCHANGED <<ihKey, ihSpooled, ihUsed>>

\* The lookup of the telemetry project fails for an ingest key: a permanent 401.
TelemetryProjectLookupFails(e) ==
  /\ ihReq[e].pc \in {"reader", "writer"} /\ ihReq[e].kind = "telemetry" /\ ihKey = "ingest"
  /\ ihFaults < IhMaxFaults
  /\ ihFaults' = ihFaults + 1
  /\ ihReq' = [ihReq EXCEPT ![e].pc = "answered", ![e].answer = "unauthorized", ![e].misled = TRUE]
  /\ UNCHANGED <<ihKey, ihSpooled, ihUsed>>

----------------------------------------------------------------------------
\* The forwarder

Forwarded(e) ==
  /\ ihReq[e].pc = "forward"
  /\ Goes(e, "writer")
  /\ UNCHANGED <<ihKey, ihSpooled, ihUsed, ihFaults>>

\* Mutant: every failed forward is answered as one that never left.
NeverSentAlways == "unavailable"

\* classifyForwardError: a failed dial never left the reader; anything later
\* may have been acted on.
ForwardLost == "bad_gateway"

DialFails(e) ==
  /\ ihReq[e].pc = "forward" /\ ihFaults < IhMaxFaults
  /\ ihFaults' = ihFaults + 1
  /\ Answer(e, "unavailable")
  /\ UNCHANGED <<ihKey, ihSpooled, ihUsed>>

\* The connection breaks, or the deadline passes, after the request was sent:
\* the writer goes on or never got it, and its answer is gone.
AnswerLost(e) ==
  /\ ihReq[e].pc \in {"writer", "handler", "body", "append", "answering"} /\ ihFaults < IhMaxFaults
  /\ ihFaults' = ihFaults + 1
  /\ \E n \in Left(e) :
       /\ Leaves(e, n)
       /\ ihReq' = [ihReq EXCEPT ![e].pc = "answered", ![e].answer = ForwardLost, ![e].lost = TRUE,
                                 ![e].acted = @ \/ n > 0]
  /\ UNCHANGED ihKey

\* The transport replays a request whose reused connection failed before the
\* first byte of an answer.
Replayed(e) ==
  /\ ihReq[e].pc \in {"writer", "answering"} /\ ihFaults < IhMaxFaults
  /\ ihFaults' = ihFaults + 1
  /\ ihReq' = [ihReq EXCEPT ![e].pc = "writer", ![e].lost = TRUE, ![e].replayed = TRUE]
  /\ UNCHANGED <<ihKey, ihSpooled, ihUsed>>

----------------------------------------------------------------------------
\* The writer's handlers

\* ServeHTTP and ServeAlertmanagerHTTP: the body.
ReadBody(e) ==
  /\ ihReq[e].pc = "body" /\ ihReq[e].kind # "telemetry"
  /\ CASE ihReq[e].body = "large" -> Answer(e, "too_large")
       [] ihReq[e].body = "malformed" -> Answer(e, "malformed")
       [] OTHER -> Goes(e, "append")
  /\ UNCHANGED <<ihKey, ihSpooled, ihUsed, ihFaults>>

\* ingestTelemetryLocal: the detections are shown what the batch holds, then its
\* rows are inserted; a batch with nothing usable in it and one whose insert
\* failed, or found the file at its cap, are accepted all the same.
IngestTelemetryLocal(e) ==
  /\ ihReq[e].pc = "body" /\ ihReq[e].kind = "telemetry"
  /\ CASE ihReq[e].body = "large" -> Answer(e, "too_large") /\ UNCHANGED <<ihSpooled, ihFaults>>
       [] ihReq[e].body = "malformed" -> Goes(e, "answering") /\ UNCHANGED <<ihSpooled, ihFaults>>
       [] OTHER ->
            /\ ihSpooled' = [ihSpooled EXCEPT ![e] = @ + 1]
            /\ \E inserted \in {TRUE} \cup {ihFaults = IhMaxFaults} :
                 /\ ihFaults' = IF inserted THEN ihFaults ELSE ihFaults + 1
                 /\ ihReq' = [ihReq EXCEPT ![e].pc = "answering", ![e].acted = TRUE,
                                           ![e].rows = IF inserted THEN @ + 1 ELSE @,
                                           ![e].uninserted = @ \/ ~inserted]
  /\ UNCHANGED <<ihKey, ihUsed>>

\* Append and AppendBatch: the records of the request, durably.
Spool(e) ==
  /\ ihReq[e].pc = "append"
  /\ Fits(e)
  /\ ihSpooled' = [ihSpooled EXCEPT ![e] = @ + 1]
  /\ ihUsed' = ihUsed + Size(e)
  /\ ihReq' = [ihReq EXCEPT ![e].pc = "answering", ![e].acted = TRUE]
  /\ UNCHANGED <<ihKey, ihFaults>>

SpoolFull(e) ==
  /\ ihReq[e].pc = "append" /\ ~Fits(e)
  /\ Answer(e, "spool_full")
  /\ UNCHANGED <<ihKey, ihSpooled, ihUsed, ihFaults>>

\* The append fails: before the write, in it, or in the sync that follows, which
\* leaves records in the file that the answer disowns.
AppendFails(e) ==
  /\ ihReq[e].pc = "append" /\ ihFaults < IhMaxFaults
  /\ ihFaults' = ihFaults + 1
  /\ \E n \in Left(e) :
       /\ Leaves(e, n)
       /\ ihReq' = [ihReq EXCEPT ![e].pc = "answered", ![e].answer = "unavailable",
                                 ![e].acted = @ \/ n > 0, ![e].unsynced = @ \/ n > 0]
  /\ UNCHANGED ihKey

\* ErrUnavailable: the telemetry file never opened.
TelemetryUnavailable(e) ==
  /\ ihReq[e].pc = "body" /\ ihReq[e].kind = "telemetry" /\ ihFaults < IhMaxFaults
  /\ ihFaults' = ihFaults + 1
  /\ Answer(e, "unavailable")
  /\ UNCHANGED <<ihKey, ihSpooled, ihUsed>>

WriteAccepted(e) ==
  /\ ihReq[e].pc = "answering"
  /\ Answer(e, "accepted")
  /\ UNCHANGED <<ihKey, ihSpooled, ihUsed, ihFaults>>

\* The worker takes records off the spool.
IhDrain ==
  /\ ihUsed > 0
  /\ ihUsed' = 0
  /\ UNCHANGED <<ihKey, ihReq, ihSpooled, ihFaults>>

IhInit ==
  /\ ihKey \in {"full", "ingest"} /\ ihReq = [e \in IhRequests |-> NewRequest]
  /\ ihSpooled = [e \in IhRequests |-> 0] /\ ihUsed = 0 /\ ihFaults = 0

IhNext ==
  \/ \E e \in IhRequests :
       \/ \E kind \in IhKinds, body \in {"good", "malformed", "large"}, names \in {"own", "foreign"}, at \in {"reader", "writer"} :
            Send(e, kind, body, names, at)
       \/ \E at \in {"reader", "writer"} : SendAgain(e, at)
       \/ RequireIngestKey(e) \/ Authorize(e) \/ TelemetryAuthorized(e) \/ LookupFails(e) \/ TelemetryProjectLookupFails(e)
       \/ Forwarded(e) \/ DialFails(e) \/ AnswerLost(e) \/ Replayed(e)
       \/ ReadBody(e) \/ IngestTelemetryLocal(e) \/ Spool(e) \/ SpoolFull(e) \/ AppendFails(e)
       \/ TelemetryUnavailable(e) \/ WriteAccepted(e)
  \/ DeleteKey \/ IhDrain

IhSpec == IhInit /\ [][IhNext]_ihVars

----------------------------------------------------------------------------
\* Correctness

Deserved(e) ==
  \/ ihReq[e].deleted
  \/ ihReq[e].body # "good"
  \/ ihReq[e].names = "foreign" /\ ihKey = "ingest"
  \/ ihReq[e].misled

\* What the answers promise (ingestresp, ingestTelemetryLocal).  Accepted events
\* are in the spool, all of them.  An accepted telemetry batch was shown to the
\* detections if anything in it could be read, and its rows are stored unless
\* the insert failed.  No client is told to give up for a failure on the
\* server's side, wherever on the way it happened.  "unavailable" means that this
\* try stored nothing, and records are stored, or shown to the detections, more
\* than once, only if an answer was lost on the way or an append failed after it
\* had written.
AnswersKeepTheirPromise ==
  \A e \in IhRequests :
    /\ ihReq[e].answer = "accepted" =>
         \/ ihSpooled[e] > 0
         \/ ihReq[e].kind = "telemetry" /\ ihReq[e].body = "malformed"
    /\ (ihReq[e].answer = "accepted" /\ ihReq[e].kind = "telemetry" /\ ihReq[e].body = "good") =>
         ihReq[e].rows > 0 \/ ihReq[e].uninserted
    /\ (ihReq[e].answer # "none" /\ ihReq[e].answer # "accepted" /\ ~Retryable(ihReq[e].answer)) => Deserved(e)
    /\ ihSpooled[e] > 1 => ihReq[e].lost \/ ihReq[e].unsynced
    /\ ihReq[e].answer = "unavailable" => ~ihReq[e].acted \/ ihReq[e].replayed \/ ihReq[e].unsynced
=============================================================================
