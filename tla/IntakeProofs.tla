---------------------------- MODULE IntakeProofs ---------------------------
(***************************************************************************)
(* What the intake owes its clients: the answers of the ingest endpoint,   *)
(* what the sampled rows and their policy can be trusted for, what a       *)
(* client waits for and drops, what becomes of the records of a project    *)
(* that is not yet approved, and the windows that security records are     *)
(* counted in.                                                             *)
(***************************************************************************)
EXTENDS IngestRequest, EventSampling, SdkClient, ProjectApproval, DetectWindow,
        FiniteSetTheorems, SequenceTheorems, NaturalsInduction, WellFoundedInduction, TLAPS

----------------------------------------------------------------------------
(* Ingest requests                                                         *)

Places == {"new", "reader", "forward", "writer", "handler", "body", "append", "answering", "answered"}

RequestType ==
  [pc : Places, kind : IhKinds \cup {"event"}, body : {"good", "malformed", "large"}, names : {"own", "foreign"},
   answer : Answers, tries : Int, acted : BOOLEAN, deleted : BOOLEAN, lost : BOOLEAN, replayed : BOOLEAN,
   misled : BOOLEAN, unsynced : BOOLEAN, rows : Nat, uninserted : BOOLEAN]

IhTypes ==
  /\ ihKey \in {"full", "ingest", "deleted"}
  /\ ihReq \in [IhRequests -> RequestType]
  /\ ihSpooled \in [IhRequests -> Nat]

\* An answer is given once, at the end; telemetry takes no part in the spool.
Answering(r) ==
  /\ r.pc # "answered" => r.answer = "none"
  /\ r.pc = "append" => r.kind # "telemetry"

\* What is on its way to be accepted, or is.
Good(r) == r.pc = "answering" \/ r.answer = "accepted"

\* A refusal that asks for no other try has its reason in the request or its key.
Reason(r, key) ==
  /\ (r.answer # "none" /\ r.answer # "accepted" /\ ~Retryable(r.answer)) =>
       (r.deleted \/ r.body # "good" \/ (r.names = "foreign" /\ key = "ingest") \/ r.misled)
  /\ key = "deleted" => r.deleted

\* As long as no answer was lost and no append left what it disowned, the
\* records are stored once at most, and then the request is accepted or about to be.
StoredOnce(r, n) ==
  /\ Good(r) => n > 0 \/ (r.kind = "telemetry" /\ r.body = "malformed")
  /\ Good(r) /\ r.kind = "telemetry" /\ r.body = "good" => r.rows > 0 \/ r.uninserted
  /\ r.answer = "bad_gateway" => r.lost
  /\ ~r.lost /\ ~r.unsynced => n = 0 \/ (n = 1 /\ Good(r))

\* What this try stored was answered as stored, or as perhaps stored.
ActedOn(r) ==
  r.acted /\ ~r.replayed /\ ~r.unsynced => Good(r) \/ r.answer = "bad_gateway"

RequestInv(r, n, key) == Answering(r) /\ Reason(r, key) /\ StoredOnce(r, n) /\ ActedOn(r)

IhInv == IhTypes /\ \A e \in IhRequests : RequestInv(ihReq[e], ihSpooled[e], ihKey)

\* One request changes, and its invariant holds after: the others are as they were.
LEMMA OneRequest ==
  ASSUME IhInv, NEW e \in IhRequests, ihKey' = ihKey, NEW r \in RequestType, NEW n \in Nat,
         ihReq' = [ihReq EXCEPT ![e] = r], ihSpooled' = [ihSpooled EXCEPT ![e] = n], RequestInv(r, n, ihKey)
  PROVE  IhInv'
<1>. USE DEF IhInv
<1>1. ihReq' \in [IhRequests -> RequestType] /\ ihSpooled' \in [IhRequests -> Nat]
  BY DEF IhTypes
<1>2. IhTypes'
  BY <1>1 DEF IhTypes
<1>3. ASSUME NEW d \in IhRequests PROVE RequestInv(ihReq'[d], ihSpooled'[d], ihKey')
  BY <1>3 DEF IhTypes
<1>. QED  BY <1>2, <1>3

\* The request moves on without an answer and without storing anything.
LEMMA Moves ==
  ASSUME IhInv, NEW e \in IhRequests, NEW pc \in Places \ {"answering", "answered"}, Goes(e, pc),
         ihReq[e].pc \notin {"answering", "answered"}, ihKey' = ihKey, ihSpooled' = ihSpooled,
         pc = "append" => ihReq[e].kind # "telemetry"
  PROVE  IhInv'
<1>. DEFINE r == [ihReq[e] EXCEPT !.pc = pc]
<1>1. ihReq[e] \in RequestType /\ ihSpooled[e] \in Nat /\ RequestInv(ihReq[e], ihSpooled[e], ihKey)
  BY DEF IhInv, IhTypes
<1>2. /\ r \in RequestType /\ r.pc = pc /\ r.answer = ihReq[e].answer /\ r.body = ihReq[e].body
      /\ r.names = ihReq[e].names
        /\ r.acted = ihReq[e].acted /\ r.deleted = ihReq[e].deleted /\ r.lost = ihReq[e].lost
        /\ r.replayed = ihReq[e].replayed /\ r.misled = ihReq[e].misled /\ r.kind = ihReq[e].kind
        /\ r.unsynced = ihReq[e].unsynced /\ r.rows = ihReq[e].rows /\ r.uninserted = ihReq[e].uninserted
  BY <1>1 DEF RequestType
<1>3. ihReq' = [ihReq EXCEPT ![e] = r] /\ ihSpooled' = [ihSpooled EXCEPT ![e] = ihSpooled[e]]
  BY DEF Goes, IhInv, IhTypes
<1>. HIDE DEF r
<1>4. RequestInv(r, ihSpooled[e], ihKey)
  BY <1>1, <1>2 DEF RequestInv, Answering, Reason, StoredOnce, ActedOn, Good
<1>. QED  BY <1>1, <1>2, <1>3, <1>4, OneRequest

\* The request is answered, with a refusal, before anything was stored in this try.
LEMMA Refused ==
  ASSUME IhInv, NEW e \in IhRequests, NEW a \in Answers \ {"none", "accepted", "bad_gateway"}, Answer(e, a),
         ihReq[e].pc \notin {"answering", "answered"}, ihKey' = ihKey, ihSpooled' = ihSpooled,
         ~Retryable(a) => (ihReq[e].deleted \/ ihReq[e].body # "good" \/ (ihReq[e].names = "foreign" /\ ihKey = "ingest"))
  PROVE  IhInv'
<1>. DEFINE r == [ihReq[e] EXCEPT !.pc = "answered", !.answer = a]
<1>1. ihReq[e] \in RequestType /\ ihSpooled[e] \in Nat /\ RequestInv(ihReq[e], ihSpooled[e], ihKey)
  BY DEF IhInv, IhTypes
<1>2. r \in RequestType /\ r.pc = "answered" /\ r.answer = a /\ r.body = ihReq[e].body /\ r.names = ihReq[e].names
        /\ r.acted = ihReq[e].acted /\ r.deleted = ihReq[e].deleted /\ r.lost = ihReq[e].lost
        /\ r.replayed = ihReq[e].replayed /\ r.misled = ihReq[e].misled /\ r.kind = ihReq[e].kind
        /\ r.unsynced = ihReq[e].unsynced /\ r.rows = ihReq[e].rows /\ r.uninserted = ihReq[e].uninserted
  BY <1>1 DEF RequestType, Places
<1>3. ihReq' = [ihReq EXCEPT ![e] = r] /\ ihSpooled' = [ihSpooled EXCEPT ![e] = ihSpooled[e]]
  BY DEF Answer, IhInv, IhTypes
<1>. HIDE DEF r
<1>4. RequestInv(r, ihSpooled[e], ihKey)
  BY <1>1, <1>2 DEF RequestInv, Answering, Reason, StoredOnce, ActedOn, Good
<1>. QED  BY <1>1, <1>2, <1>3, <1>4, OneRequest

\* What an append leaves in the file: all records of the request once more, or not.
LEMMA RowsStored ==
  ASSUME IhInv, NEW e \in IhRequests, NEW left, Leaves(e, left)
  PROVE  \E n \in Nat : ihSpooled' = [ihSpooled EXCEPT ![e] = n] /\ n >= ihSpooled[e]
<1>1. ihSpooled \in [IhRequests -> Nat] /\ ihSpooled[e] \in Nat
  BY DEF IhInv, IhTypes
<1>2. CASE left = Size(e)
  <2>1. PICK n \in Nat : n = ihSpooled[e] + 1
    BY <1>1
  <2>2. ihSpooled' = [ihSpooled EXCEPT ![e] = n]
    BY <1>2, <2>1 DEF Leaves
  <2>3. n >= ihSpooled[e]
    BY <1>1, <2>1
  <2>. QED  BY <2>2, <2>3, Zenon
<1>3. CASE left # Size(e)
  <2>1. PICK n \in Nat : n = ihSpooled[e]
    BY <1>1
  <2>2. ihSpooled' = [ihSpooled EXCEPT ![e] = n]
    BY <1>1, <1>3, <2>1 DEF Leaves
  <2>3. n >= ihSpooled[e]
    BY <1>1, <2>1
  <2>. QED  BY <2>2, <2>3, Zenon
<1>. QED  BY <1>2, <1>3

\* Nothing is left by an append that left no record.
LEMMA LeftNothing ==
  ASSUME IhInv, NEW e \in IhRequests, Leaves(e, 0)
  PROVE  ihSpooled' = [ihSpooled EXCEPT ![e] = ihSpooled[e]]
<1>1. 0 # Size(e)
  BY DEF Size
<1>. QED  BY <1>1 DEF Leaves, IhInv, IhTypes

\* Every step keeps the invariant.
LEMMA IhStep == ASSUME IhInv, IhNext PROVE IhInv'
<1>. USE DEF IhNext
<1>0. ASSUME NEW e \in IhRequests
      PROVE  ihReq[e] \in RequestType /\ ihSpooled[e] \in Nat /\ RequestInv(ihReq[e], ihSpooled[e], ihKey)
  BY DEF IhInv, IhTypes
<1>1. ASSUME NEW e \in IhRequests, NEW kind \in IhKinds, NEW body \in {"good", "malformed", "large"},
             NEW names \in {"own", "foreign"}, NEW pl \in {"reader", "writer"}, Send(e, kind, body, names, pl) PROVE IhInv'
  <2>. DEFINE r == [ihReq[e] EXCEPT !.pc = pl, !.kind = kind, !.body = body, !.names = names, !.tries = 1]
  <2>0. ihReq[e] \in RequestType /\ ihSpooled[e] \in Nat /\ RequestInv(ihReq[e], ihSpooled[e], ihKey)
    BY <1>0
  <2>1. ihReq' = [ihReq EXCEPT ![e] = r] /\ ihSpooled' = [ihSpooled EXCEPT ![e] = ihSpooled[e]] /\ ihKey' = ihKey
    BY <1>1 DEF Send, IhInv, IhTypes
  <2>2. r \in RequestType
    <3>1. pl \in Places /\ kind \in IhKinds \cup {"event"} /\ 1 \in Int
      BY DEF Places
    <3>. QED  BY <2>0, <3>1 DEF RequestType
  <2>3. /\ r.pc = pl /\ r.body = body /\ r.names = names /\ r.answer = ihReq[e].answer
        /\ r.acted = ihReq[e].acted /\ r.deleted = ihReq[e].deleted /\ r.lost = ihReq[e].lost
        /\ r.replayed = ihReq[e].replayed /\ r.misled = ihReq[e].misled /\ r.kind = kind
        /\ r.unsynced = ihReq[e].unsynced /\ r.rows = ihReq[e].rows /\ r.uninserted = ihReq[e].uninserted
    BY <2>0 DEF RequestType
  <2>. HIDE DEF r
  <2>4. RequestInv(r, ihSpooled[e], ihKey)
    BY <1>1, <2>0, <2>3 DEF RequestInv, Answering, Reason, StoredOnce, ActedOn, Good, Send, Retryable, RequestType
  <2>. QED  BY <2>1, <2>2, <2>4, OneRequest, <1>0
<1>2. ASSUME NEW e \in IhRequests, NEW pl \in {"reader", "writer"}, SendAgain(e, pl) PROVE IhInv'
  <2>. DEFINE r == [ihReq[e] EXCEPT !.pc = pl, !.answer = "none", !.tries = @ + 1, !.acted = FALSE, !.replayed = FALSE]
  <2>0. ihReq[e] \in RequestType /\ ihSpooled[e] \in Nat /\ RequestInv(ihReq[e], ihSpooled[e], ihKey)
    BY <1>0
  <2>1. ihReq' = [ihReq EXCEPT ![e] = r] /\ ihSpooled' = [ihSpooled EXCEPT ![e] = ihSpooled[e]] /\ ihKey' = ihKey
    BY <1>2 DEF SendAgain, IhInv, IhTypes
  <2>2. r \in RequestType
    <3>1. pl \in Places /\ "none" \in Answers
      BY DEF Places, Answers
    <3>2. ihReq[e].tries + 1 \in Int
      BY <2>0 DEF RequestType
    <3>. QED  BY <2>0, <3>1, <3>2 DEF RequestType
  <2>3. /\ r.pc = pl /\ r.body = ihReq[e].body /\ r.names = ihReq[e].names /\ r.answer = "none"
        /\ r.acted = FALSE /\ r.deleted = ihReq[e].deleted /\ r.lost = ihReq[e].lost
        /\ r.replayed = FALSE /\ r.misled = ihReq[e].misled /\ r.kind = ihReq[e].kind
        /\ r.unsynced = ihReq[e].unsynced /\ r.rows = ihReq[e].rows /\ r.uninserted = ihReq[e].uninserted
    BY <2>0 DEF RequestType
  <2>. HIDE DEF r
  <2>4. RequestInv(r, ihSpooled[e], ihKey)
    BY <1>2, <2>0, <2>3 DEF RequestInv, Answering, Reason, StoredOnce, ActedOn, Good, SendAgain, Retryable, RequestType
  <2>. QED  BY <2>1, <2>2, <2>4, OneRequest, <1>0
<1>3. ASSUME NEW e \in IhRequests, RequireIngestKey(e) PROVE IhInv'
  <2>1. CASE Refusal(e) = "none"
    <3>1. After(e) \in {"forward", "handler"} /\ Goes(e, After(e))
      BY <1>3, <2>1 DEF RequireIngestKey, After
    <3>. QED  BY <1>3, <3>1, Moves DEF RequireIngestKey, Places
  <2>2. CASE Refusal(e) # "none"
    <3>1. Refusal(e) \in {"unauthorized", "forbidden"} /\ Answer(e, Refusal(e))
      BY <1>3, <2>2 DEF RequireIngestKey, Refusal
    <3>2. ihReq[e].deleted \/ (ihReq[e].names = "foreign" /\ ihKey = "ingest")
      BY <2>2, <1>0 DEF Refusal, RequestInv, Reason
    <3>. QED  BY <1>3, <3>1, <3>2, Refused DEF RequireIngestKey, Answers
  <2>. QED  BY <2>1, <2>2
<1>4. ASSUME NEW e \in IhRequests, Authorize(e) PROVE IhInv'
  <2>1. CASE ihKey = "deleted"
    <3>1. Answer(e, "unauthorized") /\ ihReq[e].deleted
      BY <1>4, <2>1, <1>0 DEF Authorize, RequestInv, Reason
    <3>. QED  BY <1>4, <3>1, Refused DEF Authorize, Answers
  <2>2. CASE ihKey # "deleted"
    BY <1>4, <2>2, Moves DEF Authorize, Places
  <2>. QED  BY <2>1, <2>2
<1>5. ASSUME NEW e \in IhRequests, TelemetryAuthorized(e) PROVE IhInv'
  <2>1. CASE ihKey = "full" \/ (ihKey = "ingest" /\ ihReq[e].names = "own")
    BY <1>5, <2>1, Moves DEF TelemetryAuthorized, Places
  <2>2. CASE ~(ihKey = "full" \/ (ihKey = "ingest" /\ ihReq[e].names = "own"))
    <3>1. Answer(e, "unauthorized")
      BY <1>5, <2>2 DEF TelemetryAuthorized
    <3>2. ihReq[e].deleted \/ (ihReq[e].names = "foreign" /\ ihKey = "ingest")
      BY <2>2, <1>0 DEF RequestInv, Reason, RequestType, IhInv, IhTypes
    <3>. QED  BY <1>5, <3>1, <3>2, Refused DEF TelemetryAuthorized, Answers
  <2>. QED  BY <2>1, <2>2
<1>6. ASSUME NEW e \in IhRequests, LookupFails(e) PROVE IhInv'
  BY <1>6, Refused DEF LookupFails, LookupFailed, Answers, Retryable
<1>7. ASSUME NEW e \in IhRequests, TelemetryProjectLookupFails(e) PROVE IhInv'
  <2>. DEFINE r == [ihReq[e] EXCEPT !.pc = "answered", !.answer = "unauthorized", !.misled = TRUE]
  <2>0. ihReq[e] \in RequestType /\ ihSpooled[e] \in Nat /\ RequestInv(ihReq[e], ihSpooled[e], ihKey)
    BY <1>0
  <2>1. ihReq' = [ihReq EXCEPT ![e] = r] /\ ihSpooled' = [ihSpooled EXCEPT ![e] = ihSpooled[e]] /\ ihKey' = ihKey
    BY <1>7 DEF TelemetryProjectLookupFails, IhInv, IhTypes
  <2>2. r \in RequestType
    BY <1>7, <2>0 DEF RequestType, Places, Answers, TelemetryProjectLookupFails
  <2>3. /\ r.pc = "answered" /\ r.body = ihReq[e].body /\ r.names = ihReq[e].names
        /\ r.answer = "unauthorized" /\ r.acted = ihReq[e].acted /\ r.deleted = ihReq[e].deleted
        /\ r.lost = ihReq[e].lost /\ r.replayed = ihReq[e].replayed /\ r.misled = TRUE /\ r.kind = ihReq[e].kind
        /\ r.unsynced = ihReq[e].unsynced /\ r.rows = ihReq[e].rows /\ r.uninserted = ihReq[e].uninserted
    BY <2>0 DEF RequestType
  <2>. HIDE DEF r
  <2>4. RequestInv(r, ihSpooled[e], ihKey)
    BY <1>7, <2>0, <2>3 DEF RequestInv, Answering, Reason, StoredOnce, ActedOn, Good,
       TelemetryProjectLookupFails, Retryable, RequestType
  <2>. QED  BY <2>1, <2>2, <2>4, OneRequest, <1>0
<1>8. ASSUME NEW e \in IhRequests, Forwarded(e) PROVE IhInv'
  BY <1>8, Moves DEF Forwarded, Places
<1>9. ASSUME NEW e \in IhRequests, DialFails(e) PROVE IhInv'
  BY <1>9, Refused DEF DialFails, Answers, Retryable
<1>10. ASSUME NEW e \in IhRequests, AnswerLost(e) PROVE IhInv'
  <2>1. PICK left \in Left(e) :
          /\ Leaves(e, left)
          /\ ihReq' = [ihReq EXCEPT ![e].pc = "answered", ![e].answer = ForwardLost, ![e].lost = TRUE,
                                    ![e].acted = @ \/ left > 0]
    BY <1>10 DEF AnswerLost
  <2>. DEFINE r == [ihReq[e] EXCEPT !.pc = "answered", !.answer = "bad_gateway", !.lost = TRUE, !.acted = @ \/ left > 0]
  <2>2. ihReq[e] \in RequestType /\ ihSpooled[e] \in Nat /\ RequestInv(ihReq[e], ihSpooled[e], ihKey)
    BY <1>0
  <2>3. PICK n \in Nat : ihSpooled' = [ihSpooled EXCEPT ![e] = n] /\ n >= ihSpooled[e]
    BY <2>1, RowsStored
  <2>4. ihReq' = [ihReq EXCEPT ![e] = r] /\ ihKey' = ihKey
    BY <1>10, <2>1 DEF AnswerLost, ForwardLost, IhInv, IhTypes
  <2>5. r \in RequestType
    BY <2>2 DEF RequestType, Places, Answers
  <2>6. /\ r.pc = "answered" /\ r.answer = "bad_gateway" /\ r.lost = TRUE /\ r.deleted = ihReq[e].deleted
        /\ r.replayed = ihReq[e].replayed /\ r.misled = ihReq[e].misled /\ r.kind = ihReq[e].kind
        /\ r.unsynced = ihReq[e].unsynced /\ r.rows = ihReq[e].rows /\ r.uninserted = ihReq[e].uninserted
    BY <2>2 DEF RequestType
  <2>. HIDE DEF r
  <2>7. RequestInv(r, n, ihKey)
    BY <2>2, <2>6 DEF RequestInv, Answering, Reason, StoredOnce, ActedOn, Good, Retryable
  <2>. QED  BY <2>3, <2>4, <2>5, <2>7, OneRequest
<1>11. ASSUME NEW e \in IhRequests, Replayed(e) PROVE IhInv'
  <2>. DEFINE r == [ihReq[e] EXCEPT !.pc = "writer", !.lost = TRUE, !.replayed = TRUE]
  <2>0. ihReq[e] \in RequestType /\ ihSpooled[e] \in Nat /\ RequestInv(ihReq[e], ihSpooled[e], ihKey)
    BY <1>0
  <2>1. ihReq' = [ihReq EXCEPT ![e] = r] /\ ihSpooled' = [ihSpooled EXCEPT ![e] = ihSpooled[e]] /\ ihKey' = ihKey
    BY <1>11 DEF Replayed, IhInv, IhTypes
  <2>2. r \in RequestType
    BY <1>11, <2>0 DEF RequestType, Places, Answers, Replayed
  <2>3. /\ r.pc = "writer" /\ r.body = ihReq[e].body /\ r.names = ihReq[e].names
        /\ r.answer = ihReq[e].answer /\ r.acted = ihReq[e].acted /\ r.deleted = ihReq[e].deleted
        /\ r.lost = TRUE /\ r.replayed = TRUE /\ r.misled = ihReq[e].misled /\ r.kind = ihReq[e].kind
        /\ r.unsynced = ihReq[e].unsynced /\ r.rows = ihReq[e].rows /\ r.uninserted = ihReq[e].uninserted
    BY <2>0 DEF RequestType
  <2>. HIDE DEF r
  <2>4. RequestInv(r, ihSpooled[e], ihKey)
    BY <1>11, <2>0, <2>3 DEF RequestInv, Answering, Reason, StoredOnce, ActedOn, Good, Replayed, Retryable, RequestType
  <2>. QED  BY <2>1, <2>2, <2>4, OneRequest, <1>0
<1>12. ASSUME NEW e \in IhRequests, ReadBody(e) PROVE IhInv'
  <2>1. CASE ihReq[e].body = "large"
    BY <1>12, <2>1, Refused DEF ReadBody, Answers
  <2>2. CASE ihReq[e].body = "malformed"
    BY <1>12, <2>2, Refused DEF ReadBody, Answers
  <2>3. CASE ihReq[e].body \notin {"large", "malformed"}
    BY <1>12, <2>3, Moves DEF ReadBody, Places
  <2>. QED  BY <2>1, <2>2, <2>3
<1>13. ASSUME NEW e \in IhRequests, IngestTelemetryLocal(e), ihReq[e].body = "large" PROVE IhInv'
  BY <1>13, Refused DEF IngestTelemetryLocal, Answers
<1>14. ASSUME NEW e \in IhRequests, IngestTelemetryLocal(e), ihReq[e].body = "malformed" PROVE IhInv'
  <2>. DEFINE r == [ihReq[e] EXCEPT !.pc = "answering"]
  <2>0. ihReq[e] \in RequestType /\ ihSpooled[e] \in Nat /\ RequestInv(ihReq[e], ihSpooled[e], ihKey)
    BY <1>0
  <2>1. ihReq' = [ihReq EXCEPT ![e] = r] /\ ihSpooled' = [ihSpooled EXCEPT ![e] = ihSpooled[e]] /\ ihKey' = ihKey
    BY <1>14 DEF IngestTelemetryLocal, Goes, IhInv, IhTypes
  <2>2. r \in RequestType
    BY <2>0 DEF RequestType, Places
  <2>3. /\ r.pc = "answering" /\ r.body = "malformed" /\ r.names = ihReq[e].names /\ r.kind = "telemetry"
        /\ r.answer = ihReq[e].answer /\ r.acted = ihReq[e].acted /\ r.deleted = ihReq[e].deleted
        /\ r.lost = ihReq[e].lost /\ r.replayed = ihReq[e].replayed /\ r.misled = ihReq[e].misled
        /\ r.unsynced = ihReq[e].unsynced
    BY <1>14, <2>0 DEF RequestType, IngestTelemetryLocal
  <2>4. ihReq[e].pc = "body"
    BY <1>14 DEF IngestTelemetryLocal
  <2>. HIDE DEF r
  <2>5. RequestInv(r, ihSpooled[e], ihKey)
    BY <2>0, <2>3, <2>4 DEF RequestInv, Answering, Reason, StoredOnce, ActedOn, Good, Retryable, RequestType
  <2>. QED  BY <2>0, <2>1, <2>2, <2>5, OneRequest
<1>22. ASSUME NEW e \in IhRequests, IngestTelemetryLocal(e), ihReq[e].body \notin {"large", "malformed"} PROVE IhInv'
  <2>0. /\ ihReq[e] \in RequestType /\ ihSpooled[e] \in Nat /\ RequestInv(ihReq[e], ihSpooled[e], ihKey)
        /\ ihReq[e].pc = "body" /\ ihReq[e].kind = "telemetry"
    BY <1>0, <1>22 DEF IngestTelemetryLocal
  <2>1. PICK inserted \in BOOLEAN :
          ihReq' = [ihReq EXCEPT ![e].pc = "answering", ![e].acted = TRUE,
                                 ![e].rows = IF inserted THEN @ + 1 ELSE @,
                                 ![e].uninserted = @ \/ ~inserted]
    BY <1>22 DEF IngestTelemetryLocal
  <2>. DEFINE r == [ihReq[e] EXCEPT !.pc = "answering", !.acted = TRUE,
                                    !.rows = IF inserted THEN @ + 1 ELSE @, !.uninserted = @ \/ ~inserted]
  <2>2. ihReq' = [ihReq EXCEPT ![e] = r] /\ ihSpooled' = [ihSpooled EXCEPT ![e] = ihSpooled[e] + 1] /\ ihKey' = ihKey
    BY <1>22, <2>1 DEF IngestTelemetryLocal, IhInv, IhTypes
  <2>3. r \in RequestType
    <3>1. ihReq[e].rows \in Nat /\ ihReq[e].uninserted \in BOOLEAN
      BY <2>0 DEF RequestType
    <3>2. (IF inserted THEN ihReq[e].rows + 1 ELSE ihReq[e].rows) \in Nat
      BY <3>1
    <3>3. (ihReq[e].uninserted \/ ~inserted) \in BOOLEAN
      BY Zenon
    <3>. QED  BY <2>0, <3>2, <3>3 DEF RequestType, Places
  <2>4. /\ r.pc = "answering" /\ r.body = ihReq[e].body /\ r.names = ihReq[e].names /\ r.kind = "telemetry"
        /\ r.answer = ihReq[e].answer /\ r.acted = TRUE /\ r.deleted = ihReq[e].deleted
        /\ r.lost = ihReq[e].lost /\ r.replayed = ihReq[e].replayed /\ r.misled = ihReq[e].misled
        /\ r.unsynced = ihReq[e].unsynced
        /\ r.rows = IF inserted THEN ihReq[e].rows + 1 ELSE ihReq[e].rows
        /\ r.uninserted = (ihReq[e].uninserted \/ ~inserted) /\ ihReq[e].rows \in Nat
    BY <2>0 DEF RequestType
  <2>. HIDE DEF r
  <2>5. r.rows > 0 \/ r.uninserted
    <3>1. CASE inserted
      BY <2>4, <3>1
    <3>2. CASE ~inserted
      BY <2>4, <3>2, Zenon
    <3>. QED  BY <3>1, <3>2
  <2>6. RequestInv(r, ihSpooled[e] + 1, ihKey)
    BY <2>0, <2>4, <2>5 DEF RequestInv, Answering, Reason, StoredOnce, ActedOn, Good, Retryable
  <2>7. ihSpooled[e] + 1 \in Nat
    BY <2>0
  <2>. QED  BY <2>2, <2>3, <2>6, <2>7, OneRequest
<1>15. ASSUME NEW e \in IhRequests, Spool(e) PROVE IhInv'
  <2>. DEFINE r == [ihReq[e] EXCEPT !.pc = "answering", !.acted = TRUE]
  <2>0. ihReq[e] \in RequestType /\ ihSpooled[e] \in Nat /\ RequestInv(ihReq[e], ihSpooled[e], ihKey)
    BY <1>0
  <2>1. ihReq' = [ihReq EXCEPT ![e] = r] /\ ihSpooled' = [ihSpooled EXCEPT ![e] = ihSpooled[e] + 1] /\ ihKey' = ihKey
    BY <1>15 DEF Spool, IhInv, IhTypes
  <2>2. r \in RequestType
    BY <1>15, <2>0 DEF RequestType, Places, Answers, Spool
  <2>3. /\ r.pc = "answering" /\ r.body = ihReq[e].body /\ r.names = ihReq[e].names
        /\ r.answer = ihReq[e].answer /\ r.acted = TRUE /\ r.deleted = ihReq[e].deleted
        /\ r.lost = ihReq[e].lost /\ r.replayed = ihReq[e].replayed /\ r.misled = ihReq[e].misled /\ r.kind = ihReq[e].kind
        /\ r.unsynced = ihReq[e].unsynced /\ r.rows = ihReq[e].rows /\ r.uninserted = ihReq[e].uninserted
    BY <2>0 DEF RequestType
  <2>. HIDE DEF r
  <2>4. RequestInv(r, ihSpooled[e] + 1, ihKey)
    BY <1>15, <2>0, <2>3 DEF RequestInv, Answering, Reason, StoredOnce, ActedOn, Good, Spool, Retryable, RequestType
  <2>5. ihSpooled[e] + 1 \in Nat
    BY <2>0
  <2>. QED  BY <2>1, <2>2, <2>4, <2>5, OneRequest
<1>16. ASSUME NEW e \in IhRequests, SpoolFull(e) PROVE IhInv'
  BY <1>16, Refused DEF SpoolFull, Answers, Retryable
<1>17. ASSUME NEW e \in IhRequests, AppendFails(e) PROVE IhInv'
  <2>1. PICK left \in Left(e) :
          /\ Leaves(e, left)
          /\ ihReq' = [ihReq EXCEPT ![e].pc = "answered", ![e].answer = "unavailable",
                                    ![e].acted = @ \/ left > 0, ![e].unsynced = @ \/ left > 0]
    BY <1>17 DEF AppendFails
  <2>. DEFINE r == [ihReq[e] EXCEPT !.pc = "answered", !.answer = "unavailable",
                                    !.acted = @ \/ left > 0, !.unsynced = @ \/ left > 0]
  <2>2. /\ ihReq[e] \in RequestType /\ ihSpooled[e] \in Nat /\ RequestInv(ihReq[e], ihSpooled[e], ihKey)
        /\ ihReq[e].pc = "append"
    BY <1>0, <1>17 DEF AppendFails
  <2>3. ihReq' = [ihReq EXCEPT ![e] = r] /\ ihKey' = ihKey
    BY <1>17, <2>1 DEF AppendFails, IhInv, IhTypes
  <2>4. r \in RequestType
    <3>1. (ihReq[e].acted \/ left > 0) \in BOOLEAN /\ (ihReq[e].unsynced \/ left > 0) \in BOOLEAN
      BY Zenon
    <3>2. "answered" \in Places /\ "unavailable" \in Answers
      BY DEF Places, Answers
    <3>. QED  BY <2>2, <3>1, <3>2 DEF RequestType
  <2>5. /\ r.pc = "answered" /\ r.answer = "unavailable" /\ r.lost = ihReq[e].lost /\ r.deleted = ihReq[e].deleted
        /\ r.replayed = ihReq[e].replayed /\ r.misled = ihReq[e].misled /\ r.kind = ihReq[e].kind
        /\ r.acted = (ihReq[e].acted \/ left > 0) /\ r.unsynced = (ihReq[e].unsynced \/ left > 0)
    BY <2>2 DEF RequestType
  <2>. HIDE DEF r
  <2>6. CASE left > 0
    <3>1. PICK n \in Nat : ihSpooled' = [ihSpooled EXCEPT ![e] = n]
      BY <2>1, RowsStored
    <3>2. RequestInv(r, n, ihKey)
      BY <2>2, <2>5, <2>6 DEF RequestInv, Answering, Reason, StoredOnce, ActedOn, Good, Retryable
    <3>. QED  BY <2>3, <2>4, <3>1, <3>2, OneRequest
  <2>7. CASE left = 0
    <3>1. ihSpooled' = [ihSpooled EXCEPT ![e] = ihSpooled[e]]
      BY <2>1, <2>7, LeftNothing
    <3>2. ihReq[e].answer = "none"
      BY <2>2 DEF RequestInv, Answering
    <3>3. r.acted = ihReq[e].acted /\ r.unsynced = ihReq[e].unsynced
      BY <2>2, <2>5, <2>7 DEF RequestType
    <3>4. RequestInv(r, ihSpooled[e], ihKey)
      BY <2>2, <2>5, <3>2, <3>3 DEF RequestInv, Answering, Reason, StoredOnce, ActedOn, Good, Retryable
    <3>. QED  BY <2>2, <2>3, <2>4, <3>1, <3>4, OneRequest
  <2>8. left = 0 \/ left > 0
    BY <2>1 DEF Left, Size
  <2>. QED  BY <2>6, <2>7, <2>8
<1>21. ASSUME NEW e \in IhRequests, TelemetryUnavailable(e) PROVE IhInv'
  BY <1>21, Refused DEF TelemetryUnavailable, Answers, Retryable
<1>18. ASSUME NEW e \in IhRequests, WriteAccepted(e) PROVE IhInv'
  <2>. DEFINE r == [ihReq[e] EXCEPT !.pc = "answered", !.answer = "accepted"]
  <2>0. ihReq[e] \in RequestType /\ ihSpooled[e] \in Nat /\ RequestInv(ihReq[e], ihSpooled[e], ihKey)
    BY <1>0
  <2>1. ihReq' = [ihReq EXCEPT ![e] = r] /\ ihSpooled' = [ihSpooled EXCEPT ![e] = ihSpooled[e]] /\ ihKey' = ihKey
    BY <1>18 DEF WriteAccepted, Answer, IhInv, IhTypes
  <2>2. r \in RequestType
    BY <1>18, <2>0 DEF RequestType, Places, Answers, WriteAccepted, Answer
  <2>3. /\ r.pc = "answered" /\ r.body = ihReq[e].body /\ r.names = ihReq[e].names
        /\ r.answer = "accepted" /\ r.acted = ihReq[e].acted /\ r.deleted = ihReq[e].deleted
        /\ r.lost = ihReq[e].lost /\ r.replayed = ihReq[e].replayed /\ r.misled = ihReq[e].misled /\ r.kind = ihReq[e].kind
        /\ r.unsynced = ihReq[e].unsynced /\ r.rows = ihReq[e].rows /\ r.uninserted = ihReq[e].uninserted
    BY <2>0 DEF RequestType
  <2>. HIDE DEF r
  <2>4. RequestInv(r, ihSpooled[e], ihKey)
    BY <1>18, <2>0, <2>3 DEF RequestInv, Answering, Reason, StoredOnce, ActedOn, Good, WriteAccepted, Answer,
       Retryable, RequestType
  <2>. QED  BY <2>1, <2>2, <2>4, OneRequest, <1>0
<1>19. CASE DeleteKey
  <2>1. ASSUME NEW e \in IhRequests
        PROVE  /\ ihReq'[e] \in RequestType /\ ihSpooled'[e] = ihSpooled[e] /\ ihKey' = "deleted"
               /\ ihReq'[e].pc = ihReq[e].pc /\ ihReq'[e].answer = ihReq[e].answer /\ ihReq'[e].acted = ihReq[e].acted
               /\ ihReq'[e].deleted = TRUE /\ ihReq'[e].lost = ihReq[e].lost /\ ihReq'[e].replayed = ihReq[e].replayed
               /\ ihReq'[e].kind = ihReq[e].kind /\ ihReq'[e].body = ihReq[e].body
               /\ ihReq'[e].unsynced = ihReq[e].unsynced /\ ihReq'[e].rows = ihReq[e].rows
               /\ ihReq'[e].uninserted = ihReq[e].uninserted
    <3>1. /\ ihReq'[e] = [ihReq[e] EXCEPT !.deleted = TRUE] /\ ihReq[e] \in RequestType
          /\ ihSpooled'[e] = ihSpooled[e] /\ ihKey' = "deleted"
      BY <1>19, <1>0, <2>1 DEF DeleteKey, IhTypes
    <3>2. ihReq'[e] \in RequestType
      BY <3>1 DEF RequestType
    <3> QED
      BY <3>1, <3>2 DEF RequestType
  <2>2. ihReq' \in [IhRequests -> RequestType]
    BY <1>19, <2>1 DEF DeleteKey
  <2>3. IhTypes'
    BY <1>19, <2>2 DEF DeleteKey, IhInv, IhTypes
  <2>4. ASSUME NEW e \in IhRequests PROVE RequestInv(ihReq'[e], ihSpooled'[e], ihKey')
    <3>1. RequestInv(ihReq[e], ihSpooled[e], ihKey)
      BY <1>0, <2>4
    <3>2. Answering(ihReq'[e]) /\ Reason(ihReq'[e], ihKey')
      BY <2>1, <2>4, <3>1 DEF RequestInv, Answering, Reason
    <3>3. StoredOnce(ihReq'[e], ihSpooled'[e])
      BY <2>1, <2>4, <3>1 DEF RequestInv, StoredOnce, Good
    <3>4. ActedOn(ihReq'[e])
      BY <2>1, <2>4, <3>1 DEF RequestInv, ActedOn, Good
    <3> QED
      BY <3>2, <3>3, <3>4 DEF RequestInv
  <2>. QED  BY <2>3, <2>4 DEF IhInv
<1>20. CASE IhDrain
  BY <1>20 DEF IhDrain, IhInv, IhTypes
<1>. QED
  BY <1>1, <1>2, <1>3, <1>4, <1>5, <1>6, <1>7, <1>8, <1>9, <1>10, <1>11, <1>12, <1>13, <1>14, <1>15, <1>16, <1>17,
     <1>18, <1>19, <1>20, <1>21, <1>22

\* Nothing was sent yet.
LEMMA IhInitInv == IhInit => IhInv
<1>. SUFFICES ASSUME IhInit PROVE IhInv
  OBVIOUS
<1>1. NewRequest \in RequestType
  BY DEF NewRequest, RequestType, Places, Answers
<1>2. ihReq \in [IhRequests -> RequestType] /\ ihSpooled \in [IhRequests -> Nat] /\ ihKey \in {"full", "ingest"}
  BY <1>1 DEF IhInit
<1>3. ASSUME NEW e \in IhRequests PROVE RequestInv(ihReq[e], ihSpooled[e], ihKey)
  <2>1. ihReq[e] = NewRequest /\ ihSpooled[e] = 0
    BY DEF IhInit
  <2>. QED
    BY <1>2, <2>1 DEF NewRequest, RequestInv, Answering, Reason, StoredOnce, ActedOn, Good
<1>. QED  BY <1>2, <1>3 DEF IhInv, IhTypes

\* What the answers promise holds for every number of requests and of tries, any
\* size of the spool, and whatever fails on the way: what is accepted is stored,
\* or is telemetry that the detections were shown or that nobody can read; none
\* is told to give up for a failure of the server; and what "unavailable" disowns
\* is there only after an append that failed with its records written, which
\* with a lost answer is all that stores a record twice.
THEOREM AnswersKept == IhSpec => []AnswersKeepTheirPromise
<1>1. IhInv => AnswersKeepTheirPromise
  BY DEF IhInv, IhTypes, RequestInv, Answering, Reason, StoredOnce, ActedOn, Good, AnswersKeepTheirPromise,
     Deserved, RequestType
<1>2. IhInv /\ [IhNext]_ihVars => IhInv'
  <2>1. IhInv /\ UNCHANGED ihVars => IhInv'
    BY DEF IhInv, IhTypes, ihVars
  <2>. QED  BY <2>1, IhStep
<1>. QED  BY <1>1, <1>2, IhInitInv, PTL DEF IhSpec

----------------------------------------------------------------------------
(* The sampling policy and its cache                                       *)

Limits == [mode : SamplingModes, ver : Int, at : Int]
PolicyRead == [pc : {"idle", "put", "got"}, limits : Limits, acked : Int]

EsTypes ==
  /\ esNow \in Nat /\ esVersion \in Nat /\ esUpdate \in Nat /\ esAcked \in Nat
  /\ esMode \in SamplingModes
  /\ esCache \in Limits
  /\ esReads \in [LimitsReaders -> PolicyRead]

\* Only committed changes are acknowledged.
AckedInv == esAcked <= esVersion /\ esUpdate <= esVersion

\* A version is as new as one that was acknowledged, or something undid the
\* invalidation of that one.
NewEnough(ver, acked) == ver >= acked \/ acked \in esRaced

\* The cached policy is new enough for whoever asks now.
PolicyCacheInv == esCache # NoLimits => NewEnough(esCache.ver, esAcked)

\* A policy that was read is as new as what was acknowledged before the read, and
\* one in use was cached no longer than LimitsCacheTTL ago.
ReadsInv ==
  \A r \in LimitsReaders :
    /\ esReads[r].pc = "put" => esReads[r].limits.ver >= esReads[r].acked
    /\ esReads[r].pc = "got" => /\ NewEnough(esReads[r].limits.ver, esReads[r].acked)
                                /\ esNow - esReads[r].limits.at <= LimitsCacheTTL

EsInv == EsTypes /\ AckedInv /\ PolicyCacheInv /\ ReadsInv /\ StalePolicyHasACause

\* A reader that ends up with a policy that is new enough keeps the readers' part.
LEMMA OneReader ==
  ASSUME EsInv, NEW r \in LimitsReaders, NEW v \in PolicyRead, esReads' = [esReads EXCEPT ![r] = v],
         esNow' = esNow, esRaced \subseteq esRaced',
         v.pc = "put" => v.limits.ver >= v.acked,
         v.pc = "got" => (v.limits.ver >= v.acked \/ v.acked \in esRaced') /\ esNow - v.limits.at <= LimitsCacheTTL
  PROVE  ReadsInv' /\ esReads' \in [LimitsReaders -> PolicyRead]
<1>1. esReads \in [LimitsReaders -> PolicyRead]
  BY DEF EsInv, EsTypes
<1>2. esReads' \in [LimitsReaders -> PolicyRead]
  BY <1>1
<1>3. ASSUME NEW d \in LimitsReaders
      PROVE  /\ esReads'[d].pc = "put" => esReads'[d].limits.ver >= esReads'[d].acked
             /\ esReads'[d].pc = "got" =>
                  /\ esReads'[d].limits.ver >= esReads'[d].acked \/ esReads'[d].acked \in esRaced'
                  /\ esNow' - esReads'[d].limits.at <= LimitsCacheTTL
  <2>1. CASE d = r
    <3>1. esReads'[d] = v
      BY <1>1, <2>1
    <3>. QED  BY <3>1
  <2>2. CASE d # r
    <3>1. esReads'[d] = esReads[d]
      BY <1>1, <2>2
    <3>. QED  BY <3>1 DEF EsInv, ReadsInv, NewEnough
  <2>. QED  BY <2>1, <2>2
<1>. QED  BY <1>2, <1>3 DEF ReadsInv, NewEnough

\* A step keeps the invariant.
LEMMA EsStep == ASSUME EsInv, EsNext PROVE EsInv'
<1>a. EsTypes /\ AckedInv /\ PolicyCacheInv /\ ReadsInv /\ StalePolicyHasACause
  BY DEF EsInv
<1>b. esNow \in Int /\ esVersion \in Int /\ esUpdate \in Int /\ esAcked \in Int
  BY <1>a DEF EsTypes
<1>c. esCache.ver \in Int /\ esCache.at \in Int
  BY <1>a DEF EsTypes, Limits
<1>d. LimitsCacheTTL \in Nat
  BY EventSamplingAssumption
<1>e. "" \in SamplingModes
  BY DEF SamplingModes
<1>0. /\ EsTypes /\ AckedInv /\ PolicyCacheInv /\ ReadsInv /\ StalePolicyHasACause
      /\ esNow \in Int /\ esVersion \in Int /\ esUpdate \in Int /\ esAcked \in Int
      /\ esCache.ver \in Int /\ esCache.at \in Int /\ LimitsCacheTTL \in Nat
      /\ "" \in SamplingModes
  BY <1>a, <1>b, <1>c, <1>d, <1>e
<1>1. ASSUME NEW r \in LimitsReaders, LimitsFor(r) PROVE EsInv'
  <2>0. /\ esNow' = esNow /\ esMode' = esMode /\ esVersion' = esVersion /\ esCache' = esCache /\ esUpdate' = esUpdate
        /\ esAcked' = esAcked /\ esRaced' = esRaced /\ esUsed' = esUsed
    BY <1>1 DEF LimitsFor, esIssue
  <2>1. CASE CacheHit
    <3>. DEFINE v == [pc |-> "got", limits |-> esCache, acked |-> esAcked]
    <3>1. esReads' = [esReads EXCEPT ![r] = v]
      BY <1>1, <2>1 DEF LimitsFor, esIssue
    <3>2. v \in PolicyRead /\ v.pc = "got" /\ v.limits = esCache /\ v.acked = esAcked
      BY <1>0 DEF PolicyRead, EsTypes
    <3>. HIDE DEF v
    <3>3. ReadsInv' /\ esReads' \in [LimitsReaders -> PolicyRead]
      BY <1>0, <2>0, <2>1, <3>1, <3>2, OneReader DEF CacheHit, PolicyCacheInv, NewEnough
    <3>. QED  BY <1>0, <2>0, <3>3 DEF EsInv, EsTypes, AckedInv, PolicyCacheInv, NewEnough, StalePolicyHasACause
  <2>2. CASE ~CacheHit
    <3>. DEFINE l == [mode |-> esMode, ver |-> esVersion, at |-> 0]
                v == [pc |-> "put", limits |-> l, acked |-> esAcked]
    <3>1. esReads' = [esReads EXCEPT ![r] = v]
      BY <1>1, <2>2 DEF LimitsFor, esIssue
    <3>2. v \in PolicyRead /\ v.pc = "put" /\ v.limits.ver = esVersion /\ v.acked = esAcked
      <4>0. esMode \in SamplingModes /\ 0 \in Int
        BY <1>a DEF EsTypes
      <4>1. l \in Limits
        BY <1>b, <4>0 DEF Limits
      <4>. QED  BY <1>0, <4>1 DEF PolicyRead
    <3>. HIDE DEF v
    <3>3. ReadsInv' /\ esReads' \in [LimitsReaders -> PolicyRead]
      BY <1>0, <2>0, <3>1, <3>2, OneReader DEF AckedInv
    <3>. QED  BY <1>0, <2>0, <3>3 DEF EsInv, EsTypes, AckedInv, PolicyCacheInv, NewEnough, StalePolicyHasACause
  <2>. QED  BY <2>1, <2>2
<1>2. ASSUME NEW r \in LimitsReaders, LimitsForFails(r) PROVE EsInv'
  <2>0. /\ esNow' = esNow /\ esMode' = esMode /\ esVersion' = esVersion /\ esCache' = esCache /\ esUpdate' = esUpdate
        /\ esAcked' = esAcked /\ esRaced' = esRaced /\ esUsed' = esUsed
    BY <1>2 DEF LimitsForFails, esIssue
  <2>. DEFINE l == [mode |-> "", ver |-> esVersion, at |-> esNow]
              v == [pc |-> "got", limits |-> l, acked |-> esAcked]
  <2>1. esReads' = [esReads EXCEPT ![r] = v]
    BY <1>2 DEF LimitsForFails, esIssue
  <2>2. v \in PolicyRead /\ v.pc = "got" /\ v.limits.ver = esVersion /\ v.limits.at = esNow /\ v.acked = esAcked
    <3>1. l \in Limits
      BY <1>0 DEF Limits
    <3>. QED  BY <1>0, <3>1 DEF PolicyRead
  <2>. HIDE DEF v
  <2>3. ReadsInv' /\ esReads' \in [LimitsReaders -> PolicyRead]
    <3>1. v.limits.ver >= v.acked /\ esNow - v.limits.at <= LimitsCacheTTL
      BY <1>a, <1>b, <1>d, <2>2 DEF AckedInv
    <3>. QED  BY <2>0, <2>1, <2>2, <3>1, OneReader
  <2>. QED  BY <1>0, <2>0, <2>3 DEF EsInv, EsTypes, AckedInv, PolicyCacheInv, NewEnough, StalePolicyHasACause
<1>3. ASSUME NEW r \in LimitsReaders, PutLimits(r) PROVE EsInv'
  <2>0. /\ esNow' = esNow /\ esMode' = esMode /\ esVersion' = esVersion /\ esUpdate' = esUpdate
        /\ esAcked' = esAcked /\ esUsed' = esUsed
    BY <1>3 DEF PutLimits, esIssue
  <2>. DEFINE l == [esReads[r].limits EXCEPT !.at = esNow]
              v == [esReads[r] EXCEPT !.pc = "got", !.limits = l]
  <2>1. /\ esReads' = [esReads EXCEPT ![r] = v] /\ esCache' = l
        /\ esRaced' = IF l.ver < esAcked THEN esRaced \cup {esAcked} ELSE esRaced
    BY <1>3 DEF PutLimits
  <2>2. esReads[r] \in PolicyRead /\ esReads[r].limits \in Limits /\ esReads[r].acked \in Int
    BY <1>0 DEF EsTypes, PolicyRead
  <2>3. l \in Limits /\ l.ver = esReads[r].limits.ver /\ l.at = esNow /\ l.ver \in Int
    BY <1>0, <2>2 DEF Limits
  <2>. HIDE DEF l
  <2>4. v \in PolicyRead /\ v.pc = "got" /\ v.limits = l /\ v.acked = esReads[r].acked
    BY <2>2, <2>3 DEF PolicyRead
  <2>. HIDE DEF v
  <2>5. v.limits.ver >= v.acked
    BY <1>0, <1>3, <2>3, <2>4 DEF ReadsInv, PutLimits
  <2>6. ReadsInv' /\ esReads' \in [LimitsReaders -> PolicyRead]
    <3>1. esNow - v.limits.at <= LimitsCacheTTL /\ esRaced \subseteq esRaced'
      BY <1>b, <1>d, <2>1, <2>3, <2>4
    <3>. QED  BY <2>0, <2>1, <2>4, <2>5, <3>1, OneReader
  <2>7. PolicyCacheInv'
    <3>1. CASE l.ver < esAcked
      BY <2>0, <2>1, <3>1 DEF PolicyCacheInv, NewEnough
    <3>2. CASE ~(l.ver < esAcked)
      BY <1>b, <2>0, <2>1, <2>3, <3>2 DEF PolicyCacheInv, NewEnough
    <3>. QED  BY <3>1, <3>2
  <2>. QED  BY <1>0, <2>0, <2>1, <2>3, <2>6, <2>7 DEF EsInv, EsTypes, AckedInv, StalePolicyHasACause
<1>4. ASSUME NEW r \in LimitsReaders, ListDone(r) PROVE EsInv'
  <2>0. /\ esNow' = esNow /\ esMode' = esMode /\ esVersion' = esVersion /\ esCache' = esCache /\ esUpdate' = esUpdate
        /\ esAcked' = esAcked /\ esRaced' = esRaced /\ esUsed' = esUsed /\ esReads' = [esReads EXCEPT ![r] = NotReading]
    BY <1>4 DEF ListDone, esIssue
  <2>1. NotReading \in PolicyRead /\ NotReading.pc = "idle"
    BY DEF NotReading, PolicyRead, NoLimits, Limits, SamplingModes
  <2>2. ReadsInv' /\ esReads' \in [LimitsReaders -> PolicyRead]
    BY <1>0, <2>0, <2>1, OneReader
  <2>. QED  BY <1>0, <2>0, <2>2 DEF EsInv, EsTypes, AckedInv, PolicyCacheInv, NewEnough, StalePolicyHasACause
<1>5. ASSUME NEW mode \in SamplingModes, UpdateProjectLimits(mode) PROVE EsInv'
  <2>0. /\ esNow' = esNow /\ esMode' \in SamplingModes /\ esVersion' = esVersion + 1 /\ esCache' = esCache
        /\ esUpdate' = esVersion + 1 /\ esAcked' = esAcked /\ esRaced' = esRaced /\ esUsed' = esUsed /\ esReads' = esReads
    BY <1>5 DEF UpdateProjectLimits, esIssue
  <2>1. EsTypes' /\ AckedInv'
    <3>1. esVersion + 1 \in Nat /\ esAcked <= esVersion + 1 /\ esVersion + 1 <= esVersion + 1
      BY <1>a DEF EsTypes, AckedInv
    <3>. QED  BY <1>a, <2>0, <3>1 DEF EsTypes, AckedInv
  <2>2. PolicyCacheInv' /\ ReadsInv' /\ StalePolicyHasACause'
    BY <1>0, <2>0 DEF PolicyCacheInv, ReadsInv, NewEnough, StalePolicyHasACause
  <2>. QED  BY <2>1, <2>2 DEF EsInv
<1>6. ASSUME NEW found \in BOOLEAN, InvalidateLimits(found) PROVE EsInv'
  <2>0. /\ esNow' = esNow /\ esMode' = esMode /\ esVersion' = esVersion /\ esUpdate' = 0
        /\ esAcked' = esUpdate /\ esUsed' = esUsed /\ esReads' = esReads
        /\ esCache' = IF found THEN NoLimits ELSE esCache
        /\ esRaced' = IF found THEN esRaced ELSE esRaced \cup {esUpdate}
    BY <1>6 DEF InvalidateLimits, DropLimits, esIssue
  <2>1. NoLimits \in Limits
    BY DEF NoLimits, Limits, SamplingModes
  <2>2. EsTypes' /\ AckedInv'
    <3>1. 0 \in Nat /\ 0 <= esVersion /\ esUpdate <= esVersion
      BY <1>a DEF EsTypes, AckedInv
    <3>2. esCache' \in Limits
      BY <1>a, <2>0, <2>1 DEF EsTypes
    <3>. QED  BY <1>a, <2>0, <3>1, <3>2 DEF EsTypes, AckedInv
  <2>3. PolicyCacheInv'
    BY <1>0, <2>0 DEF PolicyCacheInv, NewEnough
  <2>4. esRaced \subseteq esRaced'
    BY <2>0
  <2>5. ReadsInv' /\ StalePolicyHasACause'
    BY <1>0, <2>0, <2>4 DEF ReadsInv, NewEnough, StalePolicyHasACause
  <2>. QED  BY <2>2, <2>3, <2>5 DEF EsInv
<1>f. "ingest" \in LimitsReaders
  BY EventSamplingAssumption
<1>7. CASE Decides
  <2>. DEFINE g == esReads["ingest"]
  <2>0. /\ esNow' = esNow /\ esMode' = esMode /\ esVersion' = esVersion /\ esCache' = esCache /\ esUpdate' = esUpdate
        /\ esAcked' = esAcked /\ esRaced' = esRaced /\ esReads' = [esReads EXCEPT !["ingest"] = NotReading]
        /\ g.pc = "got"
        /\ esUsed'.ver = g.limits.ver /\ esUsed'.acked = g.acked /\ esUsed'.age = esNow - g.limits.at
    BY <1>7 DEF Decides
  <2>1. NotReading \in PolicyRead /\ NotReading.pc = "idle"
    BY DEF NotReading, PolicyRead, NoLimits, Limits, SamplingModes
  <2>2. ReadsInv' /\ esReads' \in [LimitsReaders -> PolicyRead]
    BY <1>f, <2>0, <2>1, OneReader
  <2>3. StalePolicyHasACause'
    BY <1>a, <1>f, <2>0 DEF ReadsInv, NewEnough, StalePolicyHasACause
  <2>. QED  BY <1>0, <2>0, <2>2, <2>3 DEF EsInv, EsTypes, AckedInv, PolicyCacheInv, NewEnough
<1>8. CASE EsTick
  <2>0. /\ esNow' = esNow + 1 /\ esMode' = esMode /\ esVersion' = esVersion /\ esCache' = esCache /\ esUpdate' = esUpdate
        /\ esAcked' = esAcked /\ esRaced' = esRaced /\ esUsed' = esUsed /\ esReads' = esReads
        /\ \A r \in LimitsReaders : esReads[r].pc # "got"
    BY <1>8 DEF EsTick, esIssue
  <2>1. esNow + 1 \in Nat
    BY <1>a DEF EsTypes
  <2>2. EsTypes' /\ AckedInv' /\ PolicyCacheInv' /\ StalePolicyHasACause'
    BY <1>a, <2>0, <2>1 DEF EsTypes, AckedInv, PolicyCacheInv, NewEnough, StalePolicyHasACause
  <2>3. ReadsInv'
    BY <1>a, <2>0 DEF ReadsInv
  <2>. QED  BY <2>2, <2>3 DEF EsInv
<1>9. CASE CountEvent
  BY <1>0, <1>9 DEF CountEvent, EsInv, EsTypes, AckedInv, PolicyCacheInv, ReadsInv, NewEnough, StalePolicyHasACause
<1>10. CASE EsRestart
  <2>0. /\ esNow' = esNow /\ esMode' = esMode /\ esVersion' = esVersion /\ esCache' = NoLimits /\ esUpdate' = 0
        /\ esAcked' = esAcked /\ esRaced' = esRaced /\ esUsed' = esUsed
        /\ esReads' = [r \in LimitsReaders |-> NotReading]
    BY <1>10 DEF EsRestart
  <2>1. NotReading \in PolicyRead /\ NotReading.pc = "idle" /\ NoLimits \in Limits
    BY DEF NotReading, PolicyRead, NoLimits, Limits, SamplingModes
  <2>2. EsTypes' /\ AckedInv'
    <3>1. 0 \in Nat /\ 0 <= esVersion
      BY <1>a DEF EsTypes
    <3>. QED  BY <1>a, <2>0, <2>1, <3>1 DEF EsTypes, AckedInv
  <2>3. PolicyCacheInv' /\ StalePolicyHasACause'
    BY <1>a, <2>0 DEF PolicyCacheInv, StalePolicyHasACause
  <2>4. ReadsInv'
    <3>1. ASSUME NEW r \in LimitsReaders PROVE esReads'[r].pc = "idle"
      BY <2>0, <2>1
    <3>. QED  BY <3>1 DEF ReadsInv
  <2>. QED  BY <2>2, <2>3, <2>4 DEF EsInv
<1>. QED
  BY <1>1, <1>2, <1>3, <1>4, <1>5, <1>6, <1>7, <1>8, <1>9, <1>10 DEF EsNext, PersistSampled, InsertEventFails

\* Nothing is cached yet.
LEMMA EsInitInv == EsInit => EsInv
<1>. SUFFICES ASSUME EsInit PROVE EsInv
  OBVIOUS
<1>1. NoLimits \in Limits /\ NotReading \in PolicyRead /\ NotReading.pc = "idle" /\ "" \in SamplingModes
  BY DEF NoLimits, NotReading, PolicyRead, Limits, SamplingModes
<1>2. EsTypes /\ AckedInv /\ PolicyCacheInv
  <2>1. esNow = 0 /\ esVersion = 0 /\ esUpdate = 0 /\ esAcked = 0 /\ esMode = "" /\ esCache = NoLimits
    BY DEF EsInit
  <2>2. esReads \in [LimitsReaders -> PolicyRead]
    BY <1>1 DEF EsInit
  <2>3. 0 \in Nat /\ 0 <= 0
    OBVIOUS
  <2>. QED  BY <1>1, <2>1, <2>2, <2>3 DEF EsTypes, AckedInv, PolicyCacheInv
<1>3. ReadsInv
  <2>1. ASSUME NEW r \in LimitsReaders PROVE esReads[r].pc = "idle"
    BY <1>1 DEF EsInit
  <2>. QED  BY <2>1 DEF ReadsInv
<1>4. StalePolicyHasACause
  <2>1. esUsed.ver = 0 /\ esUsed.acked = 0 /\ esUsed.age = 0
    BY DEF EsInit
  <2>2. LimitsCacheTTL \in Nat
    BY EventSamplingAssumption
  <2>. QED  BY <2>1, <2>2 DEF StalePolicyHasACause
<1>. QED  BY <1>2, <1>3, <1>4 DEF EsInv

----------------------------------------------------------------------------
(* The weights.  A row stands for the events since the last multiple of    *)
(* the rate, so the summed weights lag by what the count is past that      *)
(* multiple.  What they differ by beside that is Drift: none as long as    *)
(* the rate stays or grows at a multiple of the next rate, and less than   *)
(* one top rate for every switch of the threshold.                         *)

\* A set of numbers that is not empty has a least one.
LEMMA LeastRung ==
  ASSUME NEW T \in SUBSET Nat, T # {}
  PROVE  \E n \in T : \A k \in T : n <= k
<1>1. PICK n \in T : \A k \in T : ~(<<k, n>> \in OpToRel(<, Nat))
  BY NatLessThanWellFounded, WFMin
<1>2. \A k \in T : ~(k < n)
  <2>1. ASSUME NEW k \in T, k < n PROVE FALSE
    <3>1. <<k, n>> \in Nat \X Nat
      OBVIOUS
    <3>. QED  BY <1>1, <2>1, <3>1 DEF OpToRel
  <2>. QED  BY <2>1
<1>. QED  BY <1>2

\* The rates of the first n rungs.
Rates(n, f) == f = [s \in 0 .. n |-> IF s = 0 THEN 1 ELSE SampleBase * f[s - 1]]

\* The loop of sampleRateFor computes them for any number of steps.
LEMMA RatesExist == ASSUME NEW n \in Nat PROVE \E f : Rates(n, f)
<1>. DEFINE T == {k \in Nat : ~\E f : Rates(k, f)}
<1>1. SUFFICES ASSUME T # {} PROVE FALSE
  OBVIOUS
<1>2. PICK m \in T : \A k \in T : m <= k
  BY <1>1, LeastRung
<1>3. m \in Nat /\ ~\E f : Rates(m, f)
  BY <1>2
<1>4. CASE m = 0
  <2>. DEFINE f == [s \in 0 .. 0 |-> 1]
  <2>1. \A s \in 0 .. 0 : s = 0
    OBVIOUS
  <2>2. f = [s \in 0 .. 0 |-> IF s = 0 THEN 1 ELSE SampleBase * f[s - 1]]
    BY <2>1
  <2>3. Rates(0, f)
    BY <2>2 DEF Rates
  <2>. HIDE DEF f
  <2>. QED  BY <1>3, <1>4, <2>3
<1>5. CASE m # 0
  <2>1. m - 1 \in Nat /\ ~(m <= m - 1)
    BY <1>3, <1>5
  <2>2. m - 1 \notin T
    BY <1>2, <2>1
  <2>3. PICK f : Rates(m - 1, f)
    BY <2>1, <2>2
  <2>. DEFINE g == [s \in 0 .. m |-> IF s = m THEN SampleBase * f[m - 1] ELSE f[s]]
  <2>4. f = [s \in 0 .. (m - 1) |-> IF s = 0 THEN 1 ELSE SampleBase * f[s - 1]]
    BY <2>3 DEF Rates
  <2>5. ASSUME NEW s \in 0 .. m PROVE g[s] = IF s = 0 THEN 1 ELSE SampleBase * g[s - 1]
    <3>1. CASE s = m
      <4>1. m - 1 \in 0 .. m /\ m - 1 # m /\ m \in 0 .. m
        BY <1>3, <1>5
      <4>. QED  BY <1>5, <3>1, <4>1
    <3>2. CASE s # m /\ s # 0
      <4>1. s \in 0 .. (m - 1) /\ s - 1 \in 0 .. m /\ s - 1 # m
        BY <1>3, <3>2
      <4>2. f[s] = SampleBase * f[s - 1]
        BY <2>4, <3>2, <4>1
      <4>. QED  BY <3>2, <4>1, <4>2
    <3>3. CASE s # m /\ s = 0
      <4>1. 0 \in 0 .. (m - 1) /\ 0 \in 0 .. m
        BY <1>3, <1>5
      <4>2. f[0] = 1
        BY <2>4, <4>1
      <4>. QED  BY <3>3, <4>1, <4>2
    <3>. QED  BY <3>1, <3>2, <3>3
  <2>6. g = [s \in 0 .. m |-> IF s = 0 THEN 1 ELSE SampleBase * g[s - 1]]
    <3>. DEFINE h == [s \in 0 .. m |-> IF s = 0 THEN 1 ELSE SampleBase * g[s - 1]]
    <3>1. \A s \in 0 .. m : g[s] = h[s]
      BY <2>5
    <3>2. g = [s \in 0 .. m |-> g[s]] /\ h = [s \in 0 .. m |-> h[s]]
      OBVIOUS
    <3>. HIDE DEF g, h
    <3>3. g = h
      BY <3>1, <3>2
    <3>. QED  BY <3>3 DEF h
  <2>7. Rates(m, g)
    BY <2>6 DEF Rates
  <2>. HIDE DEF g
  <2>. QED  BY <1>3, <2>7
<1>. QED  BY <1>4, <1>5

\* Each rung samples SampleBase times as hard as the one before.
LEMMA LadderFacts ==
  /\ Ladder[0] = 1
  /\ \A s \in 1 .. SamplingLadderSteps : Ladder[s] = SampleBase * Ladder[s - 1]
  /\ \A s \in 0 .. SamplingLadderSteps : Ladder[s] \in Nat \ {0}
<1>. DEFINE N == SamplingLadderSteps
<1>1. N \in Nat \ {0} /\ SampleBase \in Nat /\ SampleBase > 1
  BY EventSamplingAssumption
<1>2. Ladder = [s \in 0 .. N |-> IF s = 0 THEN 1 ELSE SampleBase * Ladder[s - 1]]
  <2>1. \E f : f = [s \in 0 .. N |-> IF s = 0 THEN 1 ELSE SampleBase * f[s - 1]]
    <3>1. N \in Nat
      BY <1>1
    <3>. HIDE DEF N
    <3>2. \E f : Rates(N, f)
      BY <3>1, RatesExist
    <3>. QED  BY <3>2 DEF Rates
  <2>. QED  BY <2>1 DEF Ladder
<1>. HIDE DEF N
<1>3. \A s \in 0 .. N : Ladder[s] = IF s = 0 THEN 1 ELSE SampleBase * Ladder[s - 1]
  BY <1>2
<1>4. 0 \in 0 .. N /\ \A s \in 1 .. N : s \in 0 .. N /\ s # 0
  BY <1>1
<1>5. Ladder[0] = 1 /\ \A s \in 1 .. N : Ladder[s] = SampleBase * Ladder[s - 1]
  BY <1>3, <1>4
<1>. DEFINE T == {s \in 0 .. N : Ladder[s] \notin Nat \ {0}}
<1>6. ASSUME T # {} PROVE FALSE
  <2>1. T \in SUBSET Nat
    BY <1>1
  <2>2. PICK m \in T : \A k \in T : m <= k
    BY <1>6, <2>1, LeastRung
  <2>3. m \in 1 .. N /\ m - 1 \in 0 .. N /\ ~(m <= m - 1)
    BY <1>1, <1>5, <2>2
  <2>4. Ladder[m - 1] \in Nat \ {0}
    BY <2>2, <2>3
  <2>5. Ladder[m] = SampleBase * Ladder[m - 1]
    BY <1>5, <2>3
  <2>6. \A x \in Nat \ {0} : SampleBase * x \in Nat \ {0}
    BY <1>1
  <2>. QED  BY <2>2, <2>4, <2>5, <2>6
<1>7. \A s \in 0 .. N : Ladder[s] \in Nat \ {0}
  BY <1>6
<1>. QED  BY <1>5, <1>7 DEF N

\* A higher rung's rate is a multiple of a lower one's.
LEMMA LadderDivides ==
  ASSUME NEW s \in 0 .. SamplingLadderSteps, NEW u \in 0 .. SamplingLadderSteps, s <= u
  PROVE  \E d \in Nat \ {0} : Ladder[u] = d * Ladder[s]
<1>. DEFINE N == SamplingLadderSteps
            Divides(v) == \E d \in Nat \ {0} : Ladder[v] = d * Ladder[s]
            T == {v \in 0 .. N : s <= v /\ ~Divides(v)}
<1>1. N \in Nat \ {0} /\ SampleBase \in Nat \ {0}
  BY EventSamplingAssumption
<1>2. \A v \in 0 .. N : Ladder[v] \in Nat \ {0}
  BY LadderFacts
<1>3. \A v \in 1 .. N : Ladder[v] = SampleBase * Ladder[v - 1]
  BY LadderFacts
<1>4. s \in 0 .. N /\ u \in 0 .. N
  OBVIOUS
<1>. HIDE DEF N
<1>5. Divides(s)
  <2>1. \A x \in Nat : x = 1 * x
    OBVIOUS
  <2>. QED  BY <1>2, <1>4, <2>1
<1>. HIDE DEF Divides
<1>6. ASSUME T # {} PROVE FALSE
  <2>1. T \in SUBSET Nat
    BY <1>1
  <2>2. PICK m \in T : \A k \in T : m <= k
    BY <1>6, <2>1, LeastRung
  <2>3. m \in 1 .. N /\ m - 1 \in 0 .. N /\ s <= m - 1 /\ ~(m <= m - 1)
    BY <1>1, <1>4, <1>5, <2>2
  <2>4. Divides(m - 1)
    BY <2>2, <2>3
  <2>5. PICK d \in Nat \ {0} : Ladder[m - 1] = d * Ladder[s]
    BY <2>4 DEF Divides
  <2>6. \A b, c, x \in Nat \ {0} : b * c \in Nat \ {0} /\ b * (c * x) = (b * c) * x
    BY SMT
  <2>7. Ladder[m] = SampleBase * (d * Ladder[s])
    BY <1>3, <2>3, <2>5
  <2>8. Ladder[m] = (SampleBase * d) * Ladder[s] /\ SampleBase * d \in Nat \ {0}
    BY <1>1, <1>2, <1>4, <2>6, <2>7
  <2>9. Divides(m)
    BY <2>8 DEF Divides
  <2>. QED  BY <2>2, <2>9
<1>7. Divides(u)
  BY <1>4, <1>6
<1>. QED  BY <1>7 DEF Divides

\* The rung in use, 0 while every event is stored.
RungOf(n, keepAll) == IF keepAll <= 0 \/ n <= keepAll THEN 0 ELSE Rung(n, keepAll)

\* It is the first that n fits, or the last.
LEMMA RungFacts ==
  ASSUME NEW n \in Nat, NEW a \in Nat
  PROVE  /\ RungOf(n, a) \in 0 .. SamplingLadderSteps
         /\ SampleRateFor(n, a) = Ladder[RungOf(n, a)]
         /\ a > 0 => /\ RungOf(n, a) < SamplingLadderSteps => n <= a * Ladder[RungOf(n, a)]
                     /\ \A t \in 0 .. SamplingLadderSteps : t < RungOf(n, a) => n > a * Ladder[t]
<1>. DEFINE N == SamplingLadderSteps
<1>1. N \in Nat \ {0} /\ Ladder[0] = 1
  BY EventSamplingAssumption, LadderFacts
<1>2. CASE a <= 0 \/ n <= a
  <2>1. RungOf(n, a) = 0 /\ SampleRateFor(n, a) = 1
    BY <1>2 DEF RungOf, SampleRateFor
  <2>2. a * 1 = a
    OBVIOUS
  <2>3. 0 \in 0 .. N /\ \A t \in 0 .. N : ~(t < 0)
    BY <1>1
  <2>. HIDE DEF N
  <2>4. RungOf(n, a) \in 0 .. N /\ SampleRateFor(n, a) = Ladder[RungOf(n, a)]
    BY <1>1, <2>1, <2>3
  <2>5. a > 0 => n <= a * Ladder[RungOf(n, a)]
    BY <1>1, <1>2, <2>1, <2>2
  <2>6. \A t \in 0 .. N : t < RungOf(n, a) => n > a * Ladder[t]
    BY <2>1, <2>3
  <2>. QED  BY <2>4, <2>5, <2>6 DEF N
<1>3. CASE ~(a <= 0 \/ n <= a)
  <2>. DEFINE fits == {s \in 1 .. N : n <= a * Ladder[s]}
              r == Rung(n, a)
  <2>1. RungOf(n, a) = r /\ SampleRateFor(n, a) = Ladder[r]
    BY <1>3 DEF RungOf, SampleRateFor
  <2>2. /\ fits = {} => r = N
        /\ fits # {} => r \in fits /\ \A t \in fits : r <= t
    <3>1. r = IF fits = {} THEN N ELSE CHOOSE s \in fits : \A t \in fits : s <= t
      BY DEF Rung
    <3>2. ASSUME fits # {} PROVE \E s \in fits : \A t \in fits : s <= t
      <4>1. fits \in SUBSET Nat
        BY <1>1
      <4>. HIDE DEF fits
      <4>. QED  BY <3>2, <4>1, LeastRung
    <3>. HIDE DEF fits, r
    <3>. QED  BY <3>1, <3>2
  <2>3. r \in 1 .. N
    <3>1. N \in 1 .. N /\ fits \subseteq 1 .. N
      BY <1>1
    <3>. HIDE DEF fits, r
    <3>. QED  BY <2>2, <3>1
  <2>4. r < N => n <= a * Ladder[r]
    <3>1. ASSUME r < N PROVE r # N
      BY <1>1, <3>1
    <3>2. ASSUME r \in fits PROVE n <= a * Ladder[r]
      BY <3>2
    <3>. HIDE DEF fits, r
    <3>. QED  BY <2>2, <3>1, <3>2
  <2>5. ASSUME NEW t \in 0 .. N, t < r PROVE n > a * Ladder[t]
    <3>1. CASE t = 0
      <4>1. a * Ladder[t] = a
        BY <1>1, <3>1
      <4>. QED  BY <1>3, <4>1
    <3>2. CASE t # 0
      <4>1. t \in 1 .. N /\ ~(r <= t)
        BY <1>1, <2>3, <2>5, <3>2
      <4>2. t \notin fits
        <5>. HIDE DEF fits, r
        <5>. QED  BY <2>2, <4>1
      <4>3. ~(n <= a * Ladder[t])
        BY <4>1, <4>2
      <4>4. PICK y \in Nat : y = Ladder[t]
        BY LadderFacts
      <4>5. a * y \in Nat
        BY SMT
      <4>. QED  BY <4>3, <4>4, <4>5
    <3>. QED  BY <3>1, <3>2
  <2>6. r \in 0 .. N
    BY <1>1, <2>3
  <2>. HIDE DEF fits, r, N
  <2>. QED  BY <2>1, <2>4, <2>5, <2>6 DEF N
<1>. QED  BY <1>2, <1>3

\* A count is so many times the rate, and the remainder.
LEMMA RateAndRest ==
  ASSUME NEW n \in Nat, NEW k \in Nat \ {0}
  PROVE  n % k \in 0 .. (k - 1) /\ \E q \in Nat : n = q * k + (n % k)
<1>1. n % k \in 0 .. (k - 1) /\ n = k * (n \div k) + (n % k) /\ n \div k \in Int
  BY SMT
<1>2. PICK q \in Int, m \in 0 .. (k - 1) : q = n \div k /\ m = n % k
  BY <1>1
<1>3. n = q * k + m
  <2>1. n = k * q + m
    BY <1>1, <1>2
  <2>. QED  BY <2>1, SMT
<1>4. ASSUME q < 0 PROVE FALSE
  BY <1>3, <1>4, SMT
<1>5. q \in Nat
  BY <1>4, SMT
<1>. QED  BY <1>2, <1>3, <1>5

\* There is one such remainder.
LEMMA RestIsUnique ==
  ASSUME NEW n \in Nat, NEW k \in Nat \ {0}, NEW q \in Nat, NEW m \in 0 .. (k - 1), n = q * k + m
  PROVE  n % k = m
<1>1. PICK p \in Nat : n = p * k + (n % k)
  BY RateAndRest
<1>2. PICK x \in 0 .. (k - 1) : x = n % k
  BY RateAndRest
<1>3. p * k + x = q * k + m
  <2>1. n = p * k + x
    BY <1>1, <1>2
  <2>. QED  BY <2>1
<1>4. ASSUME p < q PROVE FALSE
  <2>1. PICK d \in Nat \ {0} : q = p + d
    BY <1>4, SMT
  <2>2. d * k >= k
    BY SMT
  <2>3. q * k = p * k + d * k
    BY <2>1, SMT
  <2>. QED BY <1>3, <2>2, <2>3, SMT
<1>5. ASSUME q < p PROVE FALSE
  <2>1. PICK d \in Nat \ {0} : p = q + d
    BY <1>5, SMT
  <2>2. d * k >= k
    BY SMT
  <2>3. p * k = q * k + d * k
    BY <2>1, SMT
  <2>. QED BY <1>3, <2>2, <2>3, SMT
<1>6. p = q
  BY <1>4, <1>5, SMT
<1>. QED  BY <1>2, <1>3, <1>6, SMT

\* What a stored row adds to the summed weights at rate k, for the n-th event.
RowWeight(n, k) == IF n % k # 0 THEN 0 ELSE k

\* Whatever the rates are, one event moves what count and weights differ by, the
\* remainder apart, by less than a rate.
LEMMA AnyRates ==
  ASSUME NEW n \in Nat, NEW k \in Nat \ {0}, NEW k2 \in Nat \ {0}
  PROVE  LET move == 1 + (n % k) - RowWeight(n + 1, k2) - ((n + 1) % k2)
         IN move \in Int /\ move <= k - 1 /\ move >= 1 - k2 + (n % k)
<1>1. PICK m \in 0 .. (k - 1) : m = n % k
  BY RateAndRest
<1>2. PICK m2 \in 0 .. (k2 - 1) : m2 = (n + 1) % k2
  <2>1. n + 1 \in Nat
    OBVIOUS
  <2>. QED  BY <2>1, RateAndRest
<1>3. PICK w \in {0, k2} : w = (IF m2 # 0 THEN 0 ELSE k2)
  OBVIOUS
<1>4. w = RowWeight(n + 1, k2)
  BY <1>2, <1>3 DEF RowWeight
<1>5. LET move == 1 + m - w - m2 IN move \in Int /\ move <= k - 1 /\ move >= 1 - k2 + m
  BY <1>3
<1>. QED  BY <1>1, <1>2, <1>4, <1>5

\* A rate that stays or grows to a multiple never lets the weights fall behind, and
\* lets them run ahead by no more than it grew.
LEMMA GrowingRate ==
  ASSUME NEW n \in Nat, NEW k \in Nat \ {0}, NEW d \in Nat \ {0}
  PROVE  LET k2 == d * k
             move == 1 + (n % k) - RowWeight(n + 1, k2) - ((n + 1) % k2)
         IN move \in Int /\ move <= 0 /\ move >= k - k2
<1>1. PICK m \in 0 .. (k - 1) : m = n % k
  BY RateAndRest
<1>2. PICK q \in Nat : n = q * k + m
  BY <1>1, RateAndRest
<1>3. PICK k2 \in Nat \ {0} : k2 = d * k
  <2>1. d * k \in Nat \ {0}
    BY SMT
  <2>. QED  BY <2>1
<1>4. PICK m2 \in 0 .. (k2 - 1), p \in Nat : m2 = (n + 1) % k2 /\ n + 1 = p * k2 + m2
  <2>1. n + 1 \in Nat
    OBVIOUS
  <2>. QED  BY <2>1, RateAndRest
<1>5. PICK w \in {0, k2} : w = (IF m2 # 0 THEN 0 ELSE k2)
  OBVIOUS
<1>6. w = RowWeight(n + 1, k2)
  BY <1>4, <1>5 DEF RowWeight
\* What the remainder of the higher rate is past the one of the lower is a multiple.
<1>7. PICK j \in Int : m + 1 = j * k + m2
  <2>1. p * d \in Nat /\ p * k2 = (p * d) * k
    BY <1>3, SMT
  <2>2. PICK e \in Nat : e = p * d
    BY <2>1
  <2>3. q * k + m + 1 = e * k + m2
    BY <1>2, <1>4, <2>1, <2>2
  <2>4. (e - q) * k = e * k - q * k /\ e - q \in Int
    BY SMT
  <2>5. q * k \in Int /\ e * k \in Int /\ (e - q) * k \in Int
    BY <2>4
  <2>6. m + 1 = (e - q) * k + m2
    <3>1. \A a, b, c \in Int : a + m + 1 = b + m2 /\ c = b - a => m + 1 = c + m2
      OBVIOUS
    <3>. QED  BY <2>3, <2>4, <2>5, <3>1
  <2>. QED  BY <2>4, <2>6
<1>8. j <= 1 /\ (j = 1 => m2 = 0 /\ m + 1 = k)
  <2>1. ASSUME j >= 2 PROVE FALSE
    <3>1. j * k >= 2 * k
      BY <2>1, SMT
    <3>2. j * k \in Int /\ 2 * k \in Int /\ 2 * k > k
      BY SMT
    <3>. QED  BY <1>7, <3>1, <3>2
  <2>2. j = 1 => m2 = 0 /\ m + 1 = k
    <3>1. j = 1 => j * k = k
      BY SMT
    <3>. QED  BY <1>7, <3>1
  <2>. QED  BY <2>1, <2>2
<1>9. m2 = 0 => m + 1 = k
  <2>1. ASSUME m2 = 0, j <= 0 PROVE FALSE
    <3>1. j * k <= 0 /\ j * k \in Int
      BY <2>1, SMT
    <3>. QED  BY <1>7, <2>1, <3>1
  <2>. QED  BY <1>8, <2>1
\* It is short of the higher rate by a lower one at least.
<1>10. m2 # 0 => m2 - m - 1 <= k2 - k /\ m2 - m - 1 >= 0
  <2>1. ASSUME m2 # 0 PROVE m2 - m - 1 <= k2 - k /\ m2 - m - 1 >= 0
    <3>1. j <= 0
      BY <1>8, <2>1
    <3>2. PICK i \in Nat : j = -i
      BY <3>1
    <3>3. j * k = -(i * k) /\ i * k \in Nat
      BY <3>2, SMT
    <3>4. PICK x \in Nat : x = i * k
      BY <3>3
    <3>5. m2 = m + 1 + x
      BY <1>7, <3>3, <3>4
    <3>6. ASSUME i >= d PROVE FALSE
      <4>1. i * k >= d * k
        BY <3>6, SMT
      <4>. QED  BY <1>3, <3>4, <3>5, <4>1
    <3>7. PICK l \in Nat \ {0} : d = i + l
      BY <3>6
    <3>8. d * k = i * k + l * k /\ l * k >= k /\ l * k \in Nat
      BY <3>7, SMT
    <3>9. PICK y \in Nat : y = l * k
      BY <3>8
    <3>10. k2 = x + y /\ y >= k
      BY <1>3, <3>4, <3>8, <3>9
    <3>. QED  BY <3>5, <3>10
  <2>. QED  BY <2>1
<1>11. k2 >= k
  BY <1>3, SMT
<1>12. LET move == 1 + m - w - m2 IN move \in Int /\ move <= 0 /\ move >= k - k2
  BY <1>5, <1>9, <1>10, <1>11
<1>. QED  BY <1>1, <1>3, <1>4, <1>6, <1>12

\* One event more leaves the rung or moves one up, and up only from its last event.
LEMMA RungGrows ==
  ASSUME NEW n \in Nat \ {0}, NEW a \in Nat
  PROVE  \/ RungOf(n + 1, a) = RungOf(n, a)
         \/ /\ RungOf(n + 1, a) = RungOf(n, a) + 1
            /\ a > 0 /\ n = a * Ladder[RungOf(n, a)]
<1>. DEFINE N == SamplingLadderSteps
<1>1. N \in Nat \ {0}
  BY EventSamplingAssumption
<1>2. n \in Nat /\ n + 1 \in Nat
  OBVIOUS
<1>3. PICK r \in 0 .. N : r = RungOf(n, a)
  BY <1>2, RungFacts
<1>4. PICK u \in 0 .. N : u = RungOf(n + 1, a)
  BY <1>2, RungFacts
<1>5. \A t \in 0 .. N : Ladder[t] \in Nat \ {0} /\ a * Ladder[t] \in Nat
  <2>1. \A t \in 0 .. N : Ladder[t] \in Nat \ {0}
    BY LadderFacts
  <2>2. \A x \in Nat : a * x \in Nat
    BY SMT
  <2>. HIDE DEF N
  <2>. QED  BY <2>1, <2>2
<1>6. CASE a = 0
  <2>1. RungOf(n, a) = 0 /\ RungOf(n + 1, a) = 0
    BY <1>6 DEF RungOf
  <2>. QED  BY <2>1
<1>7. CASE a # 0
  <2>1. a > 0
    BY <1>7
  <2>2. /\ r < N => n <= a * Ladder[r]
        /\ \A t \in 0 .. N : t < r => n > a * Ladder[t]
    BY <1>2, <1>3, <2>1, RungFacts
  <2>3. /\ u < N => n + 1 <= a * Ladder[u]
        /\ \A t \in 0 .. N : t < u => n + 1 > a * Ladder[t]
    BY <1>2, <1>4, <2>1, RungFacts
  <2>. HIDE DEF N
  <2>4. ASSUME u < r PROVE FALSE
    <3>1. n > a * Ladder[u] /\ n + 1 <= a * Ladder[u]
      BY <1>1, <2>2, <2>3, <2>4
    <3>. QED  BY <1>5, <3>1
  <2>5. ASSUME r < u PROVE n = a * Ladder[r]
    <3>1. n <= a * Ladder[r] /\ n + 1 > a * Ladder[r]
      BY <1>1, <2>2, <2>3, <2>5
    <3>. QED  BY <1>5, <3>1
  <2>6. ASSUME r + 1 < u PROVE FALSE
    <3>1. r + 1 \in 1 .. N /\ r + 1 \in 0 .. N /\ r < u /\ (r + 1) - 1 = r
      BY <1>1, <2>6
    <3>2. n = a * Ladder[r] /\ n + 1 > a * Ladder[r + 1]
      BY <2>3, <2>5, <2>6, <3>1
    <3>3. Ladder[r + 1] = SampleBase * Ladder[r]
      BY <3>1, LadderFacts DEF N
    <3>4. SampleBase \in Nat /\ SampleBase > 1
      BY EventSamplingAssumption
    <3>5. PICK x \in Nat \ {0} : x = Ladder[r]
      BY <1>5
    <3>6. SampleBase * x >= 2 * x /\ SampleBase * x \in Nat /\ 2 * x >= x + 1
      BY <3>4, SMT
    <3>7. PICK z \in Nat : z = SampleBase * x
      BY <3>6
    <3>8. a * z >= a * (x + 1) /\ a * (x + 1) = a * x + a /\ a * x \in Nat /\ a * z \in Nat
      BY <3>6, <3>7, SMT
    <3>9. n = a * x /\ n + 1 > a * z
      BY <3>2, <3>3, <3>5, <3>7
    <3>. QED  BY <2>1, <3>8, <3>9
  <2>7. r = u \/ (u = r + 1 /\ n = a * Ladder[r])
    BY <1>1, <2>4, <2>5, <2>6
  <2>. QED  BY <1>3, <1>4, <2>1, <2>7
<1>. QED  BY <1>6, <1>7

\* The rate in use and the highest one.
EsRate == SampleRateFor(Decided, esUsed.keepAll)
TopRate == Ladder[SamplingLadderSteps]

\* What count and weights differ by, the remainder apart.
Drift == Decided - Weights - (Decided % EsRate)

\* Drift is none before the first switch of a threshold the ladder's factor divides,
\* and otherwise bounded by the switches and by what the rate can have grown to.
DriftInv ==
  /\ Decided \in Nat /\ Weights \in Nat /\ esSwitches \in Nat /\ esUsed.keepAll \in Nat
  /\ Decided = 0 => Weights = 0 /\ esSwitches = 0
  /\ Drift <= esSwitches * TopRate - esSwitches
  /\ Drift >= - (esSwitches * TopRate) - (EsRate - 1)
  /\ esSwitches = 0 /\ esUsed.keepAll % SampleBase = 0 => Drift = 0

\* An event that is pending was counted, and what is left out of the sum was
\* left out by failures.
LostWeightInv ==
  /\ esCount \in Nat /\ esWeight \in Nat /\ esLost \in Nat /\ esFaults \in Nat
  /\ esPending \in BOOLEAN
  /\ esPending => esCount # 0
  /\ esLost <= esFaults * TopRate

\* Every rate is one of the ladder's, none above the last.
LEMMA RateFacts ==
  ASSUME NEW n \in Nat, NEW a \in Nat
  PROVE  /\ SampleRateFor(n, a) \in Nat \ {0} /\ TopRate \in Nat \ {0}
         /\ SampleRateFor(n, a) <= TopRate
         /\ n <= 1 => SampleRateFor(n, a) = 1
<1>. DEFINE N == SamplingLadderSteps
<1>1. N \in Nat \ {0} /\ N \in 0 .. N
  BY EventSamplingAssumption
<1>2. PICK r \in 0 .. N : SampleRateFor(n, a) = Ladder[r]
  BY RungFacts
<1>3. r <= N
  BY <1>1
<1>4. PICK x \in Nat \ {0} : x = Ladder[r]
  BY LadderFacts
<1>5. PICK d \in Nat \ {0} : TopRate = d * Ladder[r]
  BY <1>1, <1>3, LadderDivides DEF TopRate
<1>6. d * x \in Nat \ {0} /\ x <= d * x
  BY SMT
<1>7. n <= 1 => SampleRateFor(n, a) = 1
  <2>1. n <= 1 => a <= 0 \/ n <= a
    OBVIOUS
  <2>. QED  BY <2>1 DEF SampleRateFor
<1>. QED  BY <1>2, <1>4, <1>5, <1>6, <1>7

\* The bounds follow: the remainder is what a rate leaves.
LEMMA DriftBounds == DriftInv /\ LostWeightInv => SummedCountClose
<1>. SUFFICES ASSUME DriftInv, LostWeightInv PROVE SummedCountClose
  OBVIOUS
<1>1. PICK n \in Nat, s \in Nat, w \in Nat, a \in Nat :
        n = Decided /\ s = esSwitches /\ w = Weights /\ a = esUsed.keepAll
  BY DEF DriftInv
<1>2. PICK k \in Nat \ {0}, top \in Nat \ {0} : k = EsRate /\ top = TopRate /\ k <= top
  BY <1>1, RateFacts DEF EsRate
<1>3. PICK m \in 0 .. (k - 1) : m = n % k
  BY RateAndRest
<1>4. /\ n - w - m <= s * top - s /\ n - w - m >= - (s * top) - (k - 1)
      /\ s = 0 /\ a % SampleBase = 0 => n - w - m = 0
  <2>1. Drift = n - w - m
    BY <1>1, <1>2, <1>3 DEF Drift
  <2>. QED  BY <1>1, <1>2, <2>1 DEF DriftInv
<1>5. s * top \in Nat /\ (s + 1) * top = s * top + top
  BY SMT
<1>6. PICK p \in Nat : p = s * top
  BY <1>5
<1>7. n - w < p + top /\ n - w > - (p + top)
  BY <1>2, <1>4, <1>6
<1>8. n - w < (s + 1) * top /\ n - w > - ((s + 1) * top)
  BY <1>5, <1>6, <1>7
<1>9. s = 0 /\ a % SampleBase = 0 => n - w \in 0 .. k - 1
  BY <1>3, <1>4
<1>10. - (s + 1) * top = - ((s + 1) * top)
  BY SMT
<1>11. SummedCountClose <=>
         /\ n - w < (s + 1) * top /\ n - w > - (s + 1) * top
         /\ s = 0 /\ a % SampleBase = 0 => n - w \in 0 .. k - 1
         /\ esLost <= esFaults * top
  BY <1>1, <1>2 DEF SummedCountClose, EsRate, TopRate
<1>12. esLost <= esFaults * top
  BY <1>2 DEF LostWeightInv
<1>. QED  BY <1>8, <1>9, <1>10, <1>11, <1>12

\* Every other step leaves the weights alone.
LEMMA DriftUntouched ==
  ASSUME DriftInv, Decided' = Decided, Weights' = Weights, esSwitches' = esSwitches, esUsed' = esUsed
  PROVE  DriftInv'
BY DEF DriftInv, Drift, EsRate, TopRate

\* One event decided on, stored, sampled away or given up, keeps the bounds.
LEMMA DriftPersist ==
  ASSUME DriftInv, NEW b \in Nat,
         Decided' = Decided + 1, Weights' = Weights + SampleFor(Decided + 1, b), esUsed'.keepAll = b,
         esSwitches' = IF Decided > 0 /\ b # esUsed.keepAll THEN esSwitches + 1 ELSE esSwitches
  PROVE  DriftInv'
<1>1. PICK n \in Nat, s \in Nat, w \in Nat, a \in Nat :
        n = Decided /\ s = esSwitches /\ w = Weights /\ a = esUsed.keepAll
  BY DEF DriftInv
<1>3. /\ Decided' = n + 1 /\ Weights' = w + SampleFor(n + 1, b) /\ esUsed'.keepAll = b
      /\ esSwitches' = IF n > 0 /\ b # a THEN s + 1 ELSE s
  BY <1>1
<1>4. PICK k \in Nat \ {0}, top \in Nat \ {0} : k = EsRate /\ k = SampleRateFor(n, a) /\ top = TopRate /\ k <= top
  BY <1>1, RateFacts DEF EsRate
<1>5. PICK k2 \in Nat \ {0} : k2 = SampleRateFor(n + 1, b) /\ k2 <= top
  <2>1. n + 1 \in Nat
    OBVIOUS
  <2>. QED  BY <1>4, <2>1, RateFacts
<1>6. TopRate' = top /\ EsRate' = k2
  BY <1>3, <1>4, <1>5 DEF TopRate, EsRate
<1>7. PICK m \in 0 .. (k - 1) : m = n % k
  BY RateAndRest
<1>8. PICK m2 \in 0 .. (k2 - 1) : m2 = (n + 1) % k2
  <2>1. n + 1 \in Nat
    OBVIOUS
  <2>. QED  BY <2>1, RateAndRest
<1>9. PICK x \in Nat : x = RowWeight(n + 1, k2) /\ x = SampleFor(n + 1, b)
  BY <1>5 DEF RowWeight, SampleFor
<1>10. PICK g \in Int : g = n - w - m
  OBVIOUS
<1>11. PICK h \in Int : h = (n + 1) - (w + x) - m2 /\ h = g + (1 + m - x - m2)
  BY <1>10
<1>12. Drift = g /\ Drift' = h
  BY <1>1, <1>3, <1>4, <1>6, <1>7, <1>8, <1>9, <1>10, <1>11 DEF Drift
<1>13. PICK p \in Nat : p = s * top /\ (s + 1) * top = p + top
  <2>1. s * top \in Nat /\ (s + 1) * top = s * top + top
    BY SMT
  <2>. QED  BY <2>1
<1>14. /\ g <= p - s /\ g >= - p - (k - 1)
       /\ s = 0 /\ a % SampleBase = 0 => g = 0
       /\ n = 0 => w = 0 /\ s = 0
  BY <1>1, <1>4, <1>12, <1>13 DEF DriftInv
<1>15. 1 + m - x - m2 <= k - 1 /\ 1 + m - x - m2 >= 1 - k2 + m
  BY <1>7, <1>8, <1>9, AnyRates
\* A threshold other than the last: a switch more, or the first event.
<1>16. CASE n > 0 /\ b # a
  <2>1. esSwitches' = s + 1
    BY <1>3, <1>16
  <2>2. h <= p + top - (s + 1) /\ h >= - (p + top) - (k2 - 1)
    BY <1>4, <1>11, <1>14, <1>15
  <2>3. s + 1 \in Nat /\ s + 1 # 0 /\ n + 1 \in Nat /\ n + 1 # 0 /\ w + x \in Nat
    OBVIOUS
  <2>. QED  BY <1>3, <1>6, <1>9, <1>12, <1>13, <2>1, <2>2, <2>3 DEF DriftInv
<1>17. CASE n = 0
  <2>1. k = 1 /\ k2 = 1
    BY <1>4, <1>5, <1>17, RateFacts
  <2>2. m = 0 /\ m2 = 0 /\ x = 1
    <3>1. m = 0 /\ m2 = 0
      BY <2>1
    <3>. QED  BY <1>8, <1>9, <2>1, <3>1 DEF RowWeight
  <2>3. s = 0 /\ w = 0 /\ h = 0 /\ p = 0
    <3>1. s = 0 /\ w = 0
      BY <1>14, <1>17
    <3>2. 0 * top = 0
      BY SMT
    <3>. QED  BY <1>10, <1>11, <1>13, <1>17, <2>2, <3>1, <3>2
  <2>4. esSwitches' = 0 /\ Decided' = 1 /\ Weights' = 1
    BY <1>3, <1>9, <1>17, <2>2, <2>3
  <2>5. 0 * top = 0 /\ 0 <= p - 0 /\ 0 >= - p - (k2 - 1)
    BY <1>13, <2>1, <2>3
  <2>. QED  BY <1>3, <1>6, <1>12, <1>13, <2>3, <2>4, <2>5 DEF DriftInv
\* The same threshold: the rate stays, or grows from the last event of its rung.
<1>18. CASE n > 0 /\ b = a
  <2>1. n \in Nat \ {0} /\ n + 1 \in Nat
    BY <1>18
  <2>2. PICK r \in 0 .. SamplingLadderSteps : r = RungOf(n, a) /\ k = Ladder[r]
    <3>1. RungOf(n, a) \in 0 .. SamplingLadderSteps /\ SampleRateFor(n, a) = Ladder[RungOf(n, a)]
      BY <2>1, RungFacts
    <3>. QED  BY <1>4, <3>1
  <2>3. PICK u \in 0 .. SamplingLadderSteps : u = RungOf(n + 1, a) /\ k2 = Ladder[u]
    <3>1. RungOf(n + 1, a) \in 0 .. SamplingLadderSteps /\ SampleRateFor(n + 1, a) = Ladder[RungOf(n + 1, a)]
      BY <2>1, RungFacts
    <3>. QED  BY <1>5, <1>18, <3>1
  <2>4. u = r \/ (u = r + 1 /\ a > 0 /\ n = a * k)
    BY <2>1, <2>2, <2>3, RungGrows
  <2>5. r <= u
    BY <2>4
  <2>6. PICK d \in Nat \ {0} : k2 = d * k
    BY <2>2, <2>3, <2>5, LadderDivides
  <2>7. 1 + m - x - m2 <= 0 /\ 1 + m - x - m2 >= k - k2
    BY <1>7, <1>8, <1>9, <2>6, GrowingRate
  <2>8. h <= p - s /\ h >= - p - (k2 - 1)
    BY <1>11, <1>14, <2>7
  <2>9. ASSUME s = 0, a % SampleBase = 0 PROVE h = 0
    <3>1. g = 0
      BY <1>14, <2>9
    <3>2. CASE u = r
      <4>1. k2 = k
        BY <2>2, <2>3, <3>2
      <4>. QED  BY <1>11, <2>7, <3>1, <4>1
    <3>3. CASE u # r
      <4>1. u = r + 1 /\ n = a * k
        BY <2>4, <3>3
      <4>2. SampleBase \in Nat \ {0} /\ SampleBase > 1
        BY EventSamplingAssumption
      <4>3. k2 = SampleBase * k
        <5>1. u \in 1 .. SamplingLadderSteps /\ u - 1 = r
          BY <4>1
        <5>. QED  BY <2>2, <2>3, <5>1, LadderFacts
      <4>4. PICK c \in Nat : a = c * SampleBase
        <5>1. PICK c \in Nat : a = c * SampleBase + (a % SampleBase)
          BY <4>2, RateAndRest
        <5>2. c * SampleBase \in Nat
          BY <4>2, SMT
        <5>. QED  BY <2>9, <5>1, <5>2
      <4>5. n = c * k2
        <5>1. (c * SampleBase) * k = c * (SampleBase * k)
          BY <4>2, SMT
        <5>. QED  BY <4>1, <4>3, <4>4, <5>1
      <4>6. k2 > 1
        BY <4>2, <4>3, SMT
      <4>7. m = 0
        <5>1. n = a * k + 0 /\ 0 \in 0 .. (k - 1)
          <6>1. a * k \in Nat
            BY SMT
          <6>. QED  BY <4>1, <6>1
        <5>. QED  BY <1>7, <5>1, RestIsUnique
      <4>8. m2 = 1
        <5>1. n + 1 = c * k2 + 1 /\ 1 \in 0 .. (k2 - 1)
          <6>1. c * k2 \in Nat
            BY SMT
          <6>. QED  BY <4>5, <4>6, <6>1
        <5>. QED  BY <1>8, <2>1, <5>1, RestIsUnique
      <4>9. x = 0
        BY <1>8, <1>9, <4>8 DEF RowWeight
      <4>. QED  BY <1>11, <3>1, <4>7, <4>8, <4>9
    <3>. QED  BY <3>2, <3>3
  <2>10. esSwitches' = s /\ w + x \in Nat /\ n + 1 # 0
    BY <1>3, <1>18
  <2>. QED  BY <1>3, <1>6, <1>9, <1>12, <1>13, <1>18, <2>1, <2>8, <2>9, <2>10 DEF DriftInv
<1>. QED  BY <1>16, <1>17, <1>18

\* The weight of a row is a rate, or there is no row.
LEMMA WeightBound ==
  ASSUME NEW n \in Nat, NEW b \in Nat
  PROVE  SampleFor(n, b) \in Nat /\ SampleFor(n, b) <= TopRate
<1>1. PICK k \in Nat \ {0}, top \in Nat \ {0} : k = SampleRateFor(n, b) /\ top = TopRate /\ k <= top
  BY RateFacts
<1>2. SampleFor(n, b) \in {0, k}
  BY <1>1 DEF SampleFor
<1>. QED  BY <1>1, <1>2

\* One more failure, which leaves out one more row.
LEMMA OneMoreLost ==
  ASSUME LostWeightInv, NEW w \in Nat, w <= TopRate, esFaults' = esFaults + 1, esLost' = esLost + w
  PROVE  esLost' <= esFaults' * TopRate /\ esLost' \in Nat /\ esFaults' \in Nat
<1>1. PICK top \in Nat \ {0} : top = TopRate
  <2>1. 0 \in Nat
    OBVIOUS
  <2>. QED  BY <2>1, RateFacts
<1>2. PICK f \in Nat, l \in Nat : f = esFaults /\ l = esLost
  BY DEF LostWeightInv
<1>3. PICK p \in Nat : p = f * top /\ (f + 1) * top = p + top
  <2>1. f * top \in Nat /\ (f + 1) * top = f * top + top
    BY SMT
  <2>. QED  BY <2>1
<1>4. l <= p
  BY <1>1, <1>2, <1>3 DEF LostWeightInv
<1>5. l + w <= p + top
  BY <1>1, <1>4
<1>6. esFaults' = f + 1 /\ esLost' = l + w
  BY <1>2
<1>7. esFaults' * TopRate = p + top
  BY <1>1, <1>3, <1>6
<1>. QED  BY <1>5, <1>6, <1>7

\* One more failure that leaves nothing out.
LEMMA OneMoreFault ==
  ASSUME LostWeightInv, esFaults' = esFaults + 1, esLost' = esLost
  PROVE  esLost' <= esFaults' * TopRate /\ esLost' \in Nat /\ esFaults' \in Nat
<1>1. 0 \in Nat /\ 0 <= TopRate /\ esLost' = esLost + 0
  BY RateFacts DEF LostWeightInv
<1>. QED  BY <1>1, OneMoreLost

\* The count and the weights, step by step.
WeightsInv == DriftInv /\ LostWeightInv

\* The threshold that a policy gives is a number.
LEMMA KeepAllNat == KeepAll \in Nat
<1>1. GlobalSampleAfter \in Nat /\ DefaultSampleAfter \in Nat
  BY EventSamplingAssumption
<1>2. KeepAll \in {0, GlobalSampleAfter, DefaultSampleAfter}
  BY DEF KeepAll, SampleAfterFor
<1>. QED  BY <1>1, <1>2

\* A decision: one more event decided on, under the policy that was read.
LEMMA DecisionStep ==
  ASSUME WeightsInv, Decides, esLost' \in Nat, esWeight' \in Nat,
         Weights' = Weights + SampleFor(esCount, KeepAll)
  PROVE  DriftInv'
<1>1. KeepAll \in Nat
  BY KeepAllNat
<1>2. esCount \in Nat \ {0} /\ Decided = esCount - 1 /\ Decided' = esCount
  BY DEF WeightsInv, LostWeightInv, Decides, Decided
<1>3. esUsed'.keepAll = KeepAll
  BY DEF Decides
<1>4. esSwitches' = IF Decided > 0 /\ KeepAll # esUsed.keepAll THEN esSwitches + 1 ELSE esSwitches
  <2>1. esCount > 1 <=> Decided > 0
    BY <1>2
  <2>. QED  BY <2>1 DEF Decides
<1>5. Decided + 1 = esCount
  BY <1>2
<1>6. PICK b \in Nat : b = KeepAll
  BY <1>1
<1>7. Decided' = Decided + 1 /\ Weights' = Weights + SampleFor(Decided + 1, b) /\ esUsed'.keepAll = b
  BY <1>2, <1>3, <1>5, <1>6
<1>8. esSwitches' = IF Decided > 0 /\ b # esUsed.keepAll THEN esSwitches + 1 ELSE esSwitches
  BY <1>4, <1>6
<1>. QED  BY <1>7, <1>8, DriftPersist DEF WeightsInv

\* Every step keeps what is said of the weights.
LEMMA WeightsStep == ASSUME WeightsInv, EsNext PROVE WeightsInv'
<1>0. /\ esCount \in Nat /\ esWeight \in Nat /\ esLost \in Nat /\ esFaults \in Nat /\ esPending \in BOOLEAN
      /\ esPending => esCount # 0
  BY DEF WeightsInv, LostWeightInv
<1>1. CASE CountEvent
  <2>1. /\ esCount' = esCount + 1 /\ ~esPending /\ esPending' = TRUE /\ esUsed' = esUsed /\ esSwitches' = esSwitches
        /\ esWeight' = esWeight /\ esLost' = esLost /\ esFaults' = esFaults
    BY <1>1 DEF CountEvent
  <2>2. Decided' = Decided /\ Weights' = Weights
    BY <1>0, <2>1 DEF Decided, Weights
  <2>3. DriftInv'
    BY <2>1, <2>2, DriftUntouched DEF WeightsInv
  <2>4. esCount + 1 \in Nat /\ esCount + 1 # 0 /\ TopRate' = TopRate
    BY <1>0 DEF TopRate
  <2>5. LostWeightInv'
    BY <2>1, <2>4 DEF WeightsInv, LostWeightInv
  <2>. QED  BY <2>3, <2>5 DEF WeightsInv
<1>2. CASE PersistSampled
  <2>1. PICK w \in Nat : w = SampleFor(esCount, KeepAll)
    BY <1>0, KeepAllNat, WeightBound
  <2>2. /\ esWeight' = esWeight + w /\ esLost' = esLost /\ esFaults' = esFaults /\ esCount' = esCount
        /\ esPending' = FALSE /\ Decides
    BY <1>2, <2>1 DEF PersistSampled, Decides
  <2>3. Weights' = Weights + SampleFor(esCount, KeepAll) /\ esWeight' \in Nat /\ esLost' \in Nat
    BY <1>0, <2>1, <2>2 DEF Weights
  <2>4. DriftInv'
    BY <2>2, <2>3, DecisionStep
  <2>5. LostWeightInv'
    BY <2>2, <2>3 DEF WeightsInv, LostWeightInv, TopRate
  <2>. QED  BY <2>4, <2>5 DEF WeightsInv
<1>3. CASE InsertEventFails
  <2>1. PICK w \in Nat : w = SampleFor(esCount, KeepAll) /\ w <= TopRate
    BY <1>0, KeepAllNat, WeightBound
  <2>2. /\ esWeight' = esWeight /\ esLost' = esLost + w /\ esFaults' = esFaults + 1 /\ esCount' = esCount
        /\ esPending' = FALSE /\ Decides
    BY <1>3, <2>1 DEF InsertEventFails, Decides
  <2>3. Weights' = Weights + SampleFor(esCount, KeepAll) /\ esWeight' \in Nat /\ esLost' \in Nat
    BY <1>0, <2>1, <2>2 DEF Weights
  <2>4. DriftInv'
    BY <2>2, <2>3, DecisionStep
  <2>5. esLost' <= esFaults' * TopRate /\ esFaults' \in Nat
    BY <2>1, <2>2, OneMoreLost DEF WeightsInv
  <2>6. LostWeightInv'
    BY <1>0, <2>2, <2>3, <2>5 DEF LostWeightInv, TopRate
  <2>. QED  BY <2>4, <2>6 DEF WeightsInv
<1>4. CASE EsRestart /\ esPending
  <2>0. PICK b \in Nat : b = esUsed.keepAll
    BY DEF WeightsInv, DriftInv
  <2>1. PICK w \in Nat : w = SampleFor(esCount, b) /\ w <= TopRate
    BY <1>0, <2>0, WeightBound
  <2>2. /\ esWeight' = esWeight /\ esLost' = esLost + w /\ esFaults' = esFaults + 1 /\ esCount' = esCount
        /\ esPending' = FALSE /\ esUsed' = esUsed /\ esSwitches' = esSwitches
    BY <1>4, <2>0, <2>1 DEF EsRestart
  <2>3. Decided' = Decided + 1 /\ Decided + 1 = esCount /\ Weights' = Weights + w
    BY <1>0, <1>4, <2>2 DEF Decided, Weights
  <2>4. Weights' = Weights + SampleFor(Decided + 1, b)
    BY <2>1, <2>3
  <2>5. esSwitches' = (IF Decided > 0 /\ b # esUsed.keepAll THEN esSwitches + 1 ELSE esSwitches)
    BY <2>0, <2>2
  <2>6. DriftInv'
    BY <2>0, <2>2, <2>3, <2>4, <2>5, DriftPersist DEF WeightsInv
  <2>7. esLost' <= esFaults' * TopRate /\ esLost' \in Nat /\ esFaults' \in Nat
    BY <2>1, <2>2, OneMoreLost DEF WeightsInv
  <2>8. LostWeightInv'
    BY <1>0, <2>2, <2>7 DEF LostWeightInv, TopRate
  <2>. QED  BY <2>6, <2>8 DEF WeightsInv
<1>5. CASE EsRestart /\ ~esPending
  <2>1. /\ esWeight' = esWeight /\ esLost' = esLost /\ esFaults' = esFaults + 1 /\ esCount' = esCount
        /\ esPending' = FALSE /\ esUsed' = esUsed /\ esSwitches' = esSwitches
    BY <1>5 DEF EsRestart
  <2>2. Decided' = Decided /\ Weights' = Weights
    BY <1>5, <2>1 DEF Decided, Weights
  <2>3. DriftInv'
    BY <2>1, <2>2, DriftUntouched DEF WeightsInv
  <2>4. esLost' <= esFaults' * TopRate /\ esLost' \in Nat /\ esFaults' \in Nat
    BY <2>1, OneMoreFault DEF WeightsInv
  <2>5. LostWeightInv'
    BY <1>0, <2>1, <2>4 DEF LostWeightInv, TopRate
  <2>. QED  BY <2>3, <2>5 DEF WeightsInv
<1>6. CASE ~(CountEvent \/ PersistSampled \/ InsertEventFails \/ EsRestart)
  <2>1. /\ esWeight' = esWeight /\ esLost' = esLost /\ esCount' = esCount /\ esPending' = esPending
        /\ esUsed' = esUsed /\ esSwitches' = esSwitches /\ esFaults' \in {esFaults, esFaults + 1}
    BY <1>6 DEF EsNext, LimitsFor, LimitsForFails, PutLimits, ListDone, UpdateProjectLimits, InvalidateLimits, EsTick, esIssue
  <2>2. Decided' = Decided /\ Weights' = Weights
    BY <2>1 DEF Decided, Weights
  <2>3. DriftInv'
    BY <2>1, <2>2, DriftUntouched DEF WeightsInv
  <2>4. CASE esFaults' = esFaults
    BY <2>1, <2>3, <2>4 DEF WeightsInv, LostWeightInv, TopRate
  <2>5. CASE esFaults' = esFaults + 1
    <3>1. esLost' <= esFaults' * TopRate /\ esLost' \in Nat /\ esFaults' \in Nat
      BY <2>1, <2>5, OneMoreFault DEF WeightsInv
    <3>. QED  BY <1>0, <2>1, <2>3, <3>1 DEF WeightsInv, LostWeightInv, TopRate
  <2>. QED  BY <2>1, <2>4, <2>5
<1>. QED  BY <1>1, <1>2, <1>3, <1>4, <1>5, <1>6

\* Nothing is counted yet.
LEMMA WeightsInit == EsInit => WeightsInv
<1>. SUFFICES ASSUME EsInit PROVE WeightsInv
  OBVIOUS
<1>1. /\ esCount = 0 /\ esWeight = 0 /\ esLost = 0 /\ esPending = FALSE /\ esFaults = 0
      /\ esSwitches = 0 /\ esUsed.keepAll \in Nat
  BY EventSamplingAssumption DEF EsInit
<1>2. Decided = 0 /\ Weights = 0
  BY <1>1 DEF Decided, Weights
<1>3. EsRate = 1 /\ TopRate \in Nat \ {0}
  BY <1>1, <1>2, RateFacts DEF EsRate
<1>4. PICK top \in Nat \ {0} : top = TopRate
  BY <1>3
<1>5. 0 * top = 0 /\ 0 % 1 = 0
  BY SMT
<1>6. Drift = 0
  BY <1>2, <1>3, <1>5 DEF Drift
<1>7. DriftInv
  BY <1>1, <1>2, <1>3, <1>4, <1>5, <1>6 DEF DriftInv
<1>8. esFaults * TopRate = 0 /\ 0 <= 0 /\ 0 \in Nat
  BY <1>1, <1>4, <1>5
<1>9. LostWeightInv
  BY <1>1, <1>8 DEF LostWeightInv
<1>. QED  BY <1>7, <1>9 DEF WeightsInv

\* The stored weights can be trusted: for every ladder, every threshold and any
\* number of changes, their sum, with the one row that each attempt leaves out which
\* fails or stops between its two transactions, stays within one top rate of the
\* count per switch of the threshold and only trails it where none was made and the
\* ladder's factor divides the threshold; and the policy in use is the one that was
\* set, or one of the named causes kept it away.
THEOREM SampleIsTrustworthy == EsSpec => []SamplingSound
<1>. DEFINE I == EsInv /\ WeightsInv
<1>1. I => SamplingSound
  BY DriftBounds DEF EsInv, WeightsInv, SamplingSound
<1>2. I /\ [EsNext]_esVars => I'
  <2>1. ASSUME I, UNCHANGED esVars PROVE I'
    <3>1. EsInv'
      BY <2>1 DEF EsInv, EsTypes, AckedInv, PolicyCacheInv, ReadsInv, NewEnough, StalePolicyHasACause, esVars
    <3>2. Decided' = Decided /\ Weights' = Weights
      BY <2>1 DEF esVars, Decided, Weights
    <3>3. WeightsInv'
      BY <2>1, <3>2, DriftUntouched DEF esVars, WeightsInv, LostWeightInv, TopRate
    <3>. QED  BY <3>1, <3>3
  <2>2. ASSUME I, EsNext PROVE I'
    BY <2>2, EsStep, WeightsStep
  <2>. QED  BY <2>1, <2>2
<1>3. EsInit => I
  BY EsInitInv, WeightsInit
<1>. QED  BY <1>1, <1>2, <1>3, PTL DEF EsSpec

----------------------------------------------------------------------------
(* The client's transports                                                 *)

SdkItem == Nat \ {0}
Waits == {"flush", "flushed", "stopping", "stopped"}
ControlPlaces == Waits \cup {"none", "init"}

Transport ==
  [queue : Seq(SdkItem), sending : Nat, closed : BOOLEAN, done : BOOLEAN, checkins : SUBSET SdkItem]

SdkTypes ==
  /\ sdkInits \in Nat /\ sdkNext \in SdkItem /\ sdkTp \in 0..sdkInits
  /\ sdkT \in [1..sdkInits -> Transport]
  /\ sdkCall \in [SdkCallers -> [pc : {"idle", "holds", "panicked"}, t : 0..sdkInits]]
  /\ \A c \in SdkCallers : sdkCall[c].pc = "holds" => sdkCall[c].t # 0
  /\ sdkControl \in [pc : ControlPlaces, t : 0..sdkInits, due : SUBSET SdkItem, late : SUBSET SdkItem]
  /\ sdkControl.pc \in Waits => sdkControl.t # 0

\* run has returned: the queue is closed, and everything in it was sent.
RunInv ==
  \A t \in 1..sdkInits : sdkT[t].done => sdkT[t].closed /\ sdkT[t].queue = <<>> /\ sdkT[t].sending = 0

\* What is waited for and not settled yet.
StillDue == sdkControl.due \ (sdkDelivered \cup sdkLost)

\* It is still with the transport; after a flush it is what run was sending, and
\* after a shutdown there is none.
WaitInv ==
  /\ sdkControl.pc \in {"flush", "stopping"} => StillDue \subseteq Unsettled(sdkControl.t)
  /\ sdkControl.pc = "flushed" => StillDue \subseteq {sdkT[sdkControl.t].sending}
  /\ sdkControl.pc = "stopped" => StillDue = {}

SdkInv == SdkTypes /\ RunInv /\ WaitInv

\* The items of a queue, after an append and without the first.
LEMMA QueueItems ==
  ASSUME NEW q \in Seq(SdkItem)
  PROVE  /\ ToSet(q) \subseteq SdkItem
         /\ \A x \in SdkItem : Append(q, x) \in Seq(SdkItem) /\ ToSet(q) \subseteq ToSet(Append(q, x))
         /\ q # <<>> => /\ Head(q) \in SdkItem /\ Tail(q) \in Seq(SdkItem)
                        /\ ToSet(q) \subseteq ToSet(Tail(q)) \cup {Head(q)}
         /\ q = <<>> => ToSet(q) = {}
<1>1. ToSet(q) \subseteq SdkItem
  BY DEF ToSet
<1>2. ASSUME NEW x \in SdkItem PROVE Append(q, x) \in Seq(SdkItem) /\ ToSet(q) \subseteq ToSet(Append(q, x))
  <2>1. Append(q, x) \in Seq(SdkItem) /\ Len(Append(q, x)) = Len(q) + 1
    OBVIOUS
  <2>2. ASSUME NEW i \in 1..Len(q) PROVE q[i] \in ToSet(Append(q, x))
    <3>1. i \in 1..Len(Append(q, x)) /\ Append(q, x)[i] = q[i]
      BY <2>1
    <3>. QED  BY <3>1, <2>1 DEF ToSet
  <2>. QED  BY <2>1, <2>2 DEF ToSet
<1>3. ASSUME q # <<>>
      PROVE  /\ Head(q) \in SdkItem /\ Tail(q) \in Seq(SdkItem)
             /\ ToSet(q) \subseteq ToSet(Tail(q)) \cup {Head(q)}
  <2>1. Len(q) \in Nat /\ Len(q) > 0 /\ Tail(q) \in Seq(SdkItem) /\ Len(Tail(q)) = Len(q) - 1
    BY <1>3
  <2>2. Head(q) = q[1] /\ Head(q) \in SdkItem
    BY <1>3, <2>1
  <2>3. ASSUME NEW i \in 1..Len(q), i # 1 PROVE q[i] \in ToSet(Tail(q))
    <3>1. i - 1 \in 1..Len(Tail(q)) /\ Tail(q)[i - 1] = q[i]
      BY <1>3, <2>1, <2>3
    <3>2. DOMAIN Tail(q) = 1..Len(Tail(q))
      BY <2>1
    <3>. QED  BY <3>1, <3>2 DEF ToSet
  <2>. QED  BY <2>1, <2>2, <2>3 DEF ToSet
<1>4. q = <<>> => ToSet(q) = {}
  BY DEF ToSet
<1>. QED  BY <1>1, <1>2, <1>3, <1>4

\* A transport changes, or settles an item: what it still has to deliver is in
\* both, and so is what is waited for.
LEMMA OneTransport ==
  ASSUME SdkInv, NEW t \in 1..sdkInits, NEW v \in Transport, NEW x,
         sdkT' = [sdkT EXCEPT ![t] = v], sdkInits' = sdkInits, sdkTp' \in 0..sdkInits, sdkNext' \in SdkItem,
         sdkCall' \in [SdkCallers -> [pc : {"idle", "holds", "panicked"}, t : 0..sdkInits]],
         \A c \in SdkCallers : sdkCall'[c].pc = "holds" => sdkCall'[c].t # 0,
         sdkControl'.pc = sdkControl.pc, sdkControl'.t = sdkControl.t, sdkControl'.due = sdkControl.due,
         sdkControl' \in [pc : ControlPlaces, t : 0..sdkInits, due : SUBSET SdkItem, late : SUBSET SdkItem],
         sdkDelivered \cup sdkLost \cup ({x} \ {0}) \subseteq sdkDelivered' \cup sdkLost',
         v.done => v.closed /\ v.queue = <<>> /\ v.sending = 0,
         ToSet(sdkT[t].queue) \cup ({sdkT[t].sending} \ {0}) \cup sdkT[t].checkins
           \subseteq ToSet(v.queue) \cup ({v.sending} \ {0}) \cup v.checkins \cup {x},
         sdkT[t].sending \in {0, x, v.sending}
  PROVE  SdkInv'
<1>1. sdkT \in [1..sdkInits -> Transport] /\ sdkInits \in Nat /\ 0 \notin sdkControl.due
  BY DEF SdkInv, SdkTypes, SdkItem
<1>2. sdkT' \in [1..sdkInits -> Transport]
  BY <1>1
<1>3. SdkTypes'
  BY <1>1, <1>2 DEF SdkInv, SdkTypes
<1>4. ASSUME NEW d \in 1..sdkInits PROVE sdkT'[d] = IF d = t THEN v ELSE sdkT[d]
  BY <1>1
<1>5. RunInv'
  BY <1>4 DEF SdkInv, RunInv
<1>6. StillDue' \subseteq StillDue \ ({x} \ {0})
  BY DEF StillDue
<1>7. ASSUME sdkControl.pc \in Waits PROVE sdkControl.t \in 1..sdkInits
  BY <1>7 DEF SdkInv, SdkTypes
<1>8. ASSUME sdkControl.pc \in {"flush", "stopping"} PROVE StillDue' \subseteq Unsettled(sdkControl.t)'
  <2>1. StillDue \subseteq Unsettled(sdkControl.t) /\ sdkControl.t \in 1..sdkInits /\ 0 \notin StillDue
    BY <1>1, <1>7, <1>8 DEF SdkInv, WaitInv, Waits, StillDue
  <2>2. CASE sdkControl.t = t
    BY <1>4, <1>6, <2>1, <2>2 DEF Unsettled
  <2>3. CASE sdkControl.t # t
    BY <1>4, <1>6, <2>1, <2>3 DEF Unsettled
  <2>. QED  BY <2>2, <2>3
<1>9. ASSUME sdkControl.pc = "flushed" PROVE StillDue' \subseteq {sdkT'[sdkControl.t].sending}
  <2>1. StillDue \subseteq {sdkT[sdkControl.t].sending} /\ sdkControl.t \in 1..sdkInits /\ 0 \notin StillDue
    BY <1>1, <1>7, <1>9 DEF SdkInv, WaitInv, Waits, StillDue
  <2>2. CASE sdkControl.t = t
    BY <1>4, <1>6, <2>1, <2>2
  <2>3. CASE sdkControl.t # t
    BY <1>4, <1>6, <2>1, <2>3
  <2>. QED  BY <2>2, <2>3
<1>10. sdkControl.pc = "stopped" => StillDue' = {}
  BY <1>6 DEF SdkInv, WaitInv
<1>11. WaitInv'
  BY <1>8, <1>9, <1>10 DEF WaitInv
<1>. QED  BY <1>3, <1>5, <1>11 DEF SdkInv

\* A step that leaves the transports and what is waited for alone.
LEMMA NoTransport ==
  ASSUME SdkInv, sdkT' = sdkT, sdkInits' = sdkInits, sdkTp' = sdkTp, sdkNext' = sdkNext, sdkControl' = sdkControl,
         sdkDelivered' = sdkDelivered, sdkLost' = sdkLost,
         sdkCall' \in [SdkCallers -> [pc : {"idle", "holds", "panicked"}, t : 0..sdkInits]],
         \A c \in SdkCallers : sdkCall'[c].pc = "holds" => sdkCall'[c].t # 0
  PROVE  SdkInv'
<1>1. SdkTypes'
  BY DEF SdkInv, SdkTypes
<1>2. RunInv' /\ WaitInv'
  BY DEF SdkInv, RunInv, WaitInv, StillDue, Unsettled
<1>. QED  BY <1>1, <1>2 DEF SdkInv

\* A step of the goroutine that flushes, stops or starts the transport.
LEMMA OneControl ==
  ASSUME SdkInv, sdkT' = sdkT, sdkInits' = sdkInits, sdkTp' = sdkTp, sdkNext' = sdkNext, sdkCall' = sdkCall,
         sdkDelivered' = sdkDelivered, sdkLost' = sdkLost,
         sdkControl' \in [pc : ControlPlaces, t : 0..sdkInits, due : SUBSET SdkItem, late : SUBSET SdkItem],
         sdkControl'.pc \in Waits => sdkControl'.t # 0,
         WaitInv'
  PROVE  SdkInv'
<1>1. SdkTypes'
  BY DEF SdkInv, SdkTypes
<1>2. RunInv'
  BY DEF SdkInv, RunInv
<1>. QED  BY <1>1, <1>2 DEF SdkInv

\* A transport has items only.
LEMMA UnsettledItems ==
  ASSUME SdkTypes, NEW t \in 1..sdkInits PROVE Unsettled(t) \subseteq SdkItem
<1>1. sdkT[t] \in Transport
  BY DEF SdkTypes
<1>2. ToSet(sdkT[t].queue) \subseteq SdkItem /\ sdkT[t].sending \in Nat /\ sdkT[t].checkins \subseteq SdkItem
  BY <1>1, QueueItems DEF Transport
<1>. QED  BY <1>2 DEF Unsettled, SdkItem

\* A step keeps the invariant.
LEMMA SdkStep == ASSUME SdkInv, SdkNext PROVE SdkInv'
<1>. USE DEF sdkLog
<1>a. SdkTypes /\ RunInv /\ WaitInv
  BY DEF SdkInv
<1>b. ASSUME NEW t \in 1..sdkInits
      PROVE  /\ sdkT[t] \in Transport /\ sdkT[t].queue \in Seq(SdkItem) /\ sdkT[t].sending \in Nat
             /\ sdkT[t].closed \in BOOLEAN /\ sdkT[t].done \in BOOLEAN /\ sdkT[t].checkins \subseteq SdkItem
  BY <1>a DEF SdkTypes, Transport
<1>c. ASSUME NEW c \in SdkCallers, sdkCall' = [sdkCall EXCEPT ![c] = IdleCaller]
      PROVE  /\ sdkCall' \in [SdkCallers -> [pc : {"idle", "holds", "panicked"}, t : 0..sdkInits]]
             /\ \A d \in SdkCallers : sdkCall'[d].pc = "holds" => sdkCall'[d].t # 0
  <2>1. IdleCaller \in [pc : {"idle", "holds", "panicked"}, t : 0..sdkInits] /\ IdleCaller.pc = "idle"
    BY <1>a DEF SdkTypes, IdleCaller
  <2>. QED  BY <1>a, <1>c, <2>1 DEF SdkTypes
<1>d. sdkNext + 1 \in SdkItem /\ sdkNext \in SdkItem /\ sdkInits \in Nat
  BY <1>a DEF SdkTypes, SdkItem
<1>e. /\ sdkTp \in 0..sdkInits
      /\ sdkControl \in [pc : ControlPlaces, t : 0..sdkInits, due : SUBSET SdkItem, late : SUBSET SdkItem]
      /\ sdkCall \in [SdkCallers -> [pc : {"idle", "holds", "panicked"}, t : 0..sdkInits]]
      /\ \A d \in SdkCallers : sdkCall[d].pc = "holds" => sdkCall[d].t # 0
  BY <1>a DEF SdkTypes
<1>1. ASSUME NEW c \in SdkCallers, CallBegins(c) PROVE SdkInv'
  <2>1. [pc |-> "holds", t |-> sdkTp] \in [pc : {"idle", "holds", "panicked"}, t : 0..sdkInits] /\ sdkTp # 0
    BY <1>1, <1>e DEF CallBegins
  <2>2. sdkCall' = [sdkCall EXCEPT ![c] = [pc |-> "holds", t |-> sdkTp]]
    BY <1>1 DEF CallBegins
  <2>3. /\ sdkCall' \in [SdkCallers -> [pc : {"idle", "holds", "panicked"}, t : 0..sdkInits]]
        /\ \A d \in SdkCallers : sdkCall'[d].pc = "holds" => sdkCall'[d].t # 0
    BY <1>e, <2>1, <2>2
  <2>. QED  BY <1>1, <2>3, NoTransport DEF CallBegins
<1>2. ASSUME NEW c \in SdkCallers, EnqueueEvent(c) PROVE SdkInv'
  <2>. DEFINE t == sdkCall[c].t
              v == IF Len(sdkT[t].queue) < SdkQueueSize THEN [sdkT[t] EXCEPT !.queue = Append(@, sdkNext)] ELSE sdkT[t]
  <2>1. t \in 1..sdkInits
    BY <1>2, <1>e, <1>d DEF EnqueueEvent
  <2>2. sdkT' = [sdkT EXCEPT ![t] = v]
    BY <1>2, <1>a, <2>1 DEF EnqueueEvent, SdkTypes
  <2>3. /\ Append(sdkT[t].queue, sdkNext) \in Seq(SdkItem)
        /\ ToSet(sdkT[t].queue) \subseteq ToSet(Append(sdkT[t].queue, sdkNext))
    BY <1>b, <1>d, <2>1, QueueItems
  <2>4. v \in Transport /\ v.sending = sdkT[t].sending /\ v.checkins = sdkT[t].checkins /\ v.done = sdkT[t].done
          /\ ToSet(sdkT[t].queue) \subseteq ToSet(v.queue)
    BY <1>b, <2>1, <2>3 DEF Transport
  <2>5. ~sdkT[t].done
    BY <1>2, <1>a, <2>1 DEF EnqueueEvent, RunInv
  <2>6. /\ sdkInits' = sdkInits /\ sdkTp' = sdkTp /\ sdkNext' = sdkNext + 1 /\ sdkControl' = sdkControl
        /\ sdkDelivered' = sdkDelivered /\ sdkLost' = sdkLost /\ sdkCall' = [sdkCall EXCEPT ![c] = IdleCaller]
    BY <1>2 DEF EnqueueEvent
  <2>. HIDE DEF v, t
  <2>7. /\ sdkCall' \in [SdkCallers -> [pc : {"idle", "holds", "panicked"}, t : 0..sdkInits]]
        /\ \A d \in SdkCallers : sdkCall'[d].pc = "holds" => sdkCall'[d].t # 0
    BY <1>c, <2>6
  <2>8. v.done => v.closed /\ v.queue = <<>> /\ v.sending = 0
    BY <2>4, <2>5
  <2>9. ToSet(sdkT[t].queue) \cup ({sdkT[t].sending} \ {0}) \cup sdkT[t].checkins
           \subseteq ToSet(v.queue) \cup ({v.sending} \ {0}) \cup v.checkins \cup {0}
    BY <2>4
  <2>10. sdkDelivered \cup sdkLost \cup ({0} \ {0}) \subseteq sdkDelivered' \cup sdkLost'
    BY <2>6
  <2>11. sdkTp' \in 0..sdkInits /\ sdkNext' \in SdkItem
    BY <1>d, <1>e, <2>6
  <2>. QED  BY <1>e, <2>1, <2>2, <2>4, <2>6, <2>7, <2>8, <2>9, <2>10, <2>11, OneTransport
<1>3. ASSUME NEW c \in SdkCallers, EnqueuePanics(c) PROVE SdkInv'
  <2>1. sdkCall' = [sdkCall EXCEPT ![c].pc = "panicked"]
    BY <1>3 DEF EnqueuePanics
  <2>2. /\ sdkCall' \in [SdkCallers -> [pc : {"idle", "holds", "panicked"}, t : 0..sdkInits]]
        /\ \A d \in SdkCallers : sdkCall'[d].pc = "holds" => sdkCall'[d].t # 0
    BY <1>e, <2>1
  <2>. QED  BY <1>3, <2>2, NoTransport DEF EnqueuePanics
<1>4. ASSUME NEW c \in SdkCallers, CheckInBegins(c) PROVE SdkInv'
  <2>. DEFINE t == sdkCall[c].t
              v == [sdkT[t] EXCEPT !.checkins = @ \cup {sdkNext}]
  <2>1. t \in 1..sdkInits
    BY <1>4, <1>e, <1>d DEF CheckInBegins
  <2>2. sdkT' = [sdkT EXCEPT ![t] = v]
    BY <1>4, <1>a, <2>1 DEF CheckInBegins, SdkTypes
  <2>3. sdkT[t].checkins \cup {sdkNext} \subseteq SdkItem
    BY <1>b, <1>d, <2>1
  <2>4. v \in Transport /\ v.sending = sdkT[t].sending /\ v.queue = sdkT[t].queue /\ v.done = sdkT[t].done
          /\ v.closed = sdkT[t].closed /\ v.checkins = sdkT[t].checkins \cup {sdkNext}
    BY <1>b, <2>1, <2>3 DEF Transport
  <2>6. /\ sdkInits' = sdkInits /\ sdkTp' = sdkTp /\ sdkNext' = sdkNext + 1
        /\ sdkDelivered' = sdkDelivered /\ sdkLost' = sdkLost /\ sdkCall' = [sdkCall EXCEPT ![c] = IdleCaller]
    BY <1>4 DEF CheckInBegins
  <2>5. /\ sdkControl'.pc = sdkControl.pc /\ sdkControl'.t = sdkControl.t /\ sdkControl'.due = sdkControl.due
        /\ sdkControl' \in [pc : ControlPlaces, t : 0..sdkInits, due : SUBSET SdkItem, late : SUBSET SdkItem]
    <3>1. sdkControl' = sdkControl \/ sdkControl' = [sdkControl EXCEPT !.late = @ \cup {sdkNext}]
      BY <1>4 DEF CheckInBegins
    <3>2. sdkControl.late \cup {sdkNext} \in SUBSET SdkItem
      BY <1>d, <1>e
    <3>. QED  BY <1>e, <3>1, <3>2
  <2>. HIDE DEF v, t
  <2>7. /\ sdkCall' \in [SdkCallers -> [pc : {"idle", "holds", "panicked"}, t : 0..sdkInits]]
        /\ \A d \in SdkCallers : sdkCall'[d].pc = "holds" => sdkCall'[d].t # 0
    BY <1>c, <2>6
  <2>8. v.done => v.closed /\ v.queue = <<>> /\ v.sending = 0
    BY <1>a, <2>1, <2>4 DEF RunInv
  <2>9. ToSet(sdkT[t].queue) \cup ({sdkT[t].sending} \ {0}) \cup sdkT[t].checkins
           \subseteq ToSet(v.queue) \cup ({v.sending} \ {0}) \cup v.checkins \cup {0}
    BY <2>4
  <2>10. sdkDelivered \cup sdkLost \cup ({0} \ {0}) \subseteq sdkDelivered' \cup sdkLost'
    BY <2>6
  <2>11. sdkTp' \in 0..sdkInits /\ sdkNext' \in SdkItem
    BY <1>d, <1>e, <2>6
  <2>. QED  BY <2>1, <2>2, <2>4, <2>5, <2>6, <2>7, <2>8, <2>9, <2>10, <2>11, OneTransport
<1>5. ASSUME NEW t \in 1..sdkInits, RunTakes(t) PROVE SdkInv'
  <2>. DEFINE v == [sdkT[t] EXCEPT !.sending = Head(sdkT[t].queue), !.queue = Tail(@)]
  <2>1. sdkT' = [sdkT EXCEPT ![t] = v]
    BY <1>5, <1>a DEF RunTakes, SdkTypes
  <2>2. /\ sdkT[t].queue # <<>> /\ sdkT[t].sending = 0
        /\ Head(sdkT[t].queue) \in SdkItem /\ Tail(sdkT[t].queue) \in Seq(SdkItem)
        /\ ToSet(sdkT[t].queue) \subseteq ToSet(Tail(sdkT[t].queue)) \cup {Head(sdkT[t].queue)}
    BY <1>5, <1>b, QueueItems DEF RunTakes
  <2>3. v \in Transport /\ v.sending = Head(sdkT[t].queue) /\ v.queue = Tail(sdkT[t].queue) /\ v.done = sdkT[t].done
          /\ v.checkins = sdkT[t].checkins
    BY <1>b, <2>2 DEF Transport, SdkItem
  <2>4. ~sdkT[t].done
    BY <1>a, <2>2 DEF RunInv
  <2>5. /\ sdkInits' = sdkInits /\ sdkTp' = sdkTp /\ sdkNext' = sdkNext /\ sdkControl' = sdkControl
        /\ sdkDelivered' = sdkDelivered /\ sdkLost' = sdkLost /\ sdkCall' = sdkCall
    BY <1>5 DEF RunTakes
  <2>. HIDE DEF v
  <2>6. v.done => v.closed /\ v.queue = <<>> /\ v.sending = 0
    BY <2>3, <2>4
  <2>7. ToSet(sdkT[t].queue) \cup ({sdkT[t].sending} \ {0}) \cup sdkT[t].checkins
           \subseteq ToSet(v.queue) \cup ({v.sending} \ {0}) \cup v.checkins \cup {0}
    BY <2>2, <2>3 DEF SdkItem
  <2>8. sdkDelivered \cup sdkLost \cup ({0} \ {0}) \subseteq sdkDelivered' \cup sdkLost'
    BY <2>5
  <2>9. sdkT[t].sending \in {0, 0, v.sending}
    BY <2>2
  <2>10. /\ sdkTp' \in 0..sdkInits /\ sdkNext' \in SdkItem
         /\ sdkCall' \in [SdkCallers -> [pc : {"idle", "holds", "panicked"}, t : 0..sdkInits]]
         /\ \A c \in SdkCallers : sdkCall'[c].pc = "holds" => sdkCall'[c].t # 0
         /\ sdkControl'.pc = sdkControl.pc /\ sdkControl'.t = sdkControl.t /\ sdkControl'.due = sdkControl.due
         /\ sdkControl' \in [pc : ControlPlaces, t : 0..sdkInits, due : SUBSET SdkItem, late : SUBSET SdkItem]
    BY <1>d, <1>e, <2>5
  <2>. QED  BY <2>1, <2>3, <2>5, <2>6, <2>7, <2>8, <2>9, <2>10, OneTransport
<1>6. ASSUME NEW t \in 1..sdkInits, RunSends(t) PROVE SdkInv'
  <2>. DEFINE v == [sdkT[t] EXCEPT !.sending = 0]
              x == sdkT[t].sending
  <2>1. sdkT' = [sdkT EXCEPT ![t] = v]
    BY <1>6, <1>a DEF RunSends, SdkTypes
  <2>2. sdkDelivered \cup sdkLost \cup {x} \subseteq sdkDelivered' \cup sdkLost'
    BY <1>6 DEF RunSends, Accepted, Record
  <2>3. v \in Transport /\ v.sending = 0 /\ v.queue = sdkT[t].queue /\ v.done = sdkT[t].done
          /\ v.closed = sdkT[t].closed /\ v.checkins = sdkT[t].checkins
    BY <1>b DEF Transport
  <2>4. ~sdkT[t].done
    BY <1>a, <1>6 DEF RunInv, RunSends
  <2>5. /\ sdkInits' = sdkInits /\ sdkTp' = sdkTp /\ sdkNext' = sdkNext /\ sdkControl' = sdkControl /\ sdkCall' = sdkCall
    BY <1>6 DEF RunSends
  <2>. HIDE DEF v
  <2>6. v.done => v.closed /\ v.queue = <<>> /\ v.sending = 0
    BY <2>3, <2>4
  <2>7. ToSet(sdkT[t].queue) \cup ({sdkT[t].sending} \ {0}) \cup sdkT[t].checkins
           \subseteq ToSet(v.queue) \cup ({v.sending} \ {0}) \cup v.checkins \cup {x}
    BY <2>3
  <2>8. sdkDelivered \cup sdkLost \cup ({x} \ {0}) \subseteq sdkDelivered' \cup sdkLost'
    BY <2>2
  <2>9. sdkT[t].sending \in {0, x, v.sending}
    OBVIOUS
  <2>. HIDE DEF x
  <2>. QED  BY <1>d, <1>e, <2>1, <2>3, <2>5, <2>6, <2>7, <2>8, <2>9, OneTransport
<1>7. ASSUME NEW t \in 1..sdkInits, RunReturns(t) PROVE SdkInv'
  <2>. DEFINE v == [sdkT[t] EXCEPT !.done = TRUE]
  <2>1. sdkT' = [sdkT EXCEPT ![t] = v]
    BY <1>7, <1>a DEF RunReturns, SdkTypes
  <2>3. v \in Transport /\ v.sending = sdkT[t].sending /\ v.queue = sdkT[t].queue
          /\ v.closed = sdkT[t].closed /\ v.checkins = sdkT[t].checkins
    BY <1>b DEF Transport
  <2>5. /\ sdkInits' = sdkInits /\ sdkTp' = sdkTp /\ sdkNext' = sdkNext /\ sdkControl' = sdkControl
        /\ sdkDelivered' = sdkDelivered /\ sdkLost' = sdkLost /\ sdkCall' = sdkCall
    BY <1>7 DEF RunReturns
  <2>. HIDE DEF v
  <2>6. v.closed /\ v.queue = <<>> /\ v.sending = 0
    BY <1>7, <2>3 DEF RunReturns
  <2>7. ToSet(sdkT[t].queue) \cup ({sdkT[t].sending} \ {0}) \cup sdkT[t].checkins
           \subseteq ToSet(v.queue) \cup ({v.sending} \ {0}) \cup v.checkins \cup {0}
    BY <2>3
  <2>8. sdkDelivered \cup sdkLost \cup ({0} \ {0}) \subseteq sdkDelivered' \cup sdkLost'
    BY <2>5
  <2>. QED  BY <1>d, <1>e, <2>1, <2>3, <2>5, <2>6, <2>7, <2>8, OneTransport
<1>8. ASSUME NEW t \in 1..sdkInits, NEW i \in 1..SdkMaxItems, CheckInSent(t, i) PROVE SdkInv'
  <2>. DEFINE v == [sdkT[t] EXCEPT !.checkins = @ \ {i}]
  <2>1. sdkT' = [sdkT EXCEPT ![t] = v]
    BY <1>8, <1>a DEF CheckInSent, SdkTypes
  <2>2. sdkDelivered \cup sdkLost \cup {i} \subseteq sdkDelivered' \cup sdkLost'
    BY <1>8 DEF CheckInSent, Accepted, Record
  <2>3. v \in Transport /\ v.sending = sdkT[t].sending /\ v.queue = sdkT[t].queue /\ v.done = sdkT[t].done
          /\ v.closed = sdkT[t].closed /\ v.checkins = sdkT[t].checkins \ {i}
    <3>1. sdkT[t].checkins \ {i} \subseteq SdkItem
      BY <1>b
    <3>. QED  BY <1>b, <3>1 DEF Transport
  <2>5. /\ sdkInits' = sdkInits /\ sdkTp' = sdkTp /\ sdkNext' = sdkNext /\ sdkControl' = sdkControl /\ sdkCall' = sdkCall
    BY <1>8 DEF CheckInSent
  <2>. HIDE DEF v
  <2>6. v.done => v.closed /\ v.queue = <<>> /\ v.sending = 0
    BY <1>a, <2>3 DEF RunInv
  <2>7. ToSet(sdkT[t].queue) \cup ({sdkT[t].sending} \ {0}) \cup sdkT[t].checkins
           \subseteq ToSet(v.queue) \cup ({v.sending} \ {0}) \cup v.checkins \cup {i}
    BY <2>3
  <2>8. sdkDelivered \cup sdkLost \cup ({i} \ {0}) \subseteq sdkDelivered' \cup sdkLost'
    BY <2>2
  <2>. QED  BY <1>d, <1>e, <2>1, <2>3, <2>5, <2>6, <2>7, <2>8, OneTransport
<1>9. CASE FlushBegins
  <2>1. /\ sdkControl' = [pc |-> "flush", t |-> sdkTp, due |-> Unsettled(sdkTp), late |-> {}] /\ sdkTp # 0
        /\ sdkT' = sdkT /\ sdkInits' = sdkInits /\ sdkTp' = sdkTp /\ sdkNext' = sdkNext /\ sdkCall' = sdkCall
        /\ sdkDelivered' = sdkDelivered /\ sdkLost' = sdkLost
    BY <1>9 DEF FlushBegins
  <2>2. sdkTp \in 1..sdkInits
    BY <1>d, <1>e, <2>1
  <2>3. Unsettled(sdkTp) \in SUBSET SdkItem
    BY <1>a, <2>2, UnsettledItems
  <2>4. /\ sdkControl' \in [pc : ControlPlaces, t : 0..sdkInits, due : SUBSET SdkItem, late : SUBSET SdkItem]
        /\ sdkControl'.pc = "flush" /\ sdkControl'.t = sdkTp /\ sdkControl'.due = Unsettled(sdkTp)
    BY <1>e, <2>1, <2>3 DEF ControlPlaces, Waits
  <2>5. WaitInv'
    BY <2>1, <2>4 DEF WaitInv, StillDue, Unsettled
  <2>. QED  BY <2>1, <2>4, <2>5, OneControl
<1>10. CASE FlushTrue
  <2>1. /\ sdkControl' = [sdkControl EXCEPT !.pc = "flushed"] /\ sdkControl.pc = "flush"
        /\ sdkT' = sdkT /\ sdkInits' = sdkInits /\ sdkTp' = sdkTp /\ sdkNext' = sdkNext /\ sdkCall' = sdkCall
        /\ sdkDelivered' = sdkDelivered /\ sdkLost' = sdkLost
        /\ sdkT[sdkControl.t].queue = <<>> /\ sdkT[sdkControl.t].checkins = {}
    BY <1>10 DEF FlushTrue, Drained
  <2>2. sdkControl.t \in 1..sdkInits
    BY <1>a, <1>d, <2>1 DEF SdkTypes, Waits
  <2>3. /\ sdkControl' \in [pc : ControlPlaces, t : 0..sdkInits, due : SUBSET SdkItem, late : SUBSET SdkItem]
        /\ sdkControl'.pc = "flushed" /\ sdkControl'.t = sdkControl.t /\ sdkControl'.due = sdkControl.due
    BY <1>e, <2>1 DEF ControlPlaces, Waits
  <2>4. StillDue \subseteq {sdkT[sdkControl.t].sending}
    <3>1. ToSet(sdkT[sdkControl.t].queue) = {}
      BY <1>b, <2>1, <2>2, QueueItems
    <3>. QED  BY <1>a, <2>1, <3>1 DEF WaitInv, Unsettled
  <2>5. WaitInv'
    BY <2>1, <2>3, <2>4 DEF WaitInv, StillDue
  <2>. QED  BY <2>1, <2>2, <2>3, <2>5, OneControl
<1>11. CASE ShutdownTrue
  <2>1. /\ sdkControl' = [sdkControl EXCEPT !.pc = "stopped"] /\ sdkControl.pc = "stopping"
        /\ sdkT' = sdkT /\ sdkInits' = sdkInits /\ sdkTp' = sdkTp /\ sdkNext' = sdkNext /\ sdkCall' = sdkCall
        /\ sdkDelivered' = sdkDelivered /\ sdkLost' = sdkLost
        /\ sdkT[sdkControl.t].done /\ sdkT[sdkControl.t].checkins = {}
    BY <1>11 DEF ShutdownTrue
  <2>2. sdkControl.t \in 1..sdkInits
    BY <1>a, <1>d, <2>1 DEF SdkTypes, Waits
  <2>3. /\ sdkControl' \in [pc : ControlPlaces, t : 0..sdkInits, due : SUBSET SdkItem, late : SUBSET SdkItem]
        /\ sdkControl'.pc = "stopped" /\ sdkControl'.t = sdkControl.t /\ sdkControl'.due = sdkControl.due
    BY <1>e, <2>1 DEF ControlPlaces, Waits
  <2>4. StillDue = {}
    <3>1. sdkT[sdkControl.t].queue = <<>> /\ sdkT[sdkControl.t].sending = 0
      BY <1>a, <2>1, <2>2 DEF RunInv
    <3>2. ToSet(sdkT[sdkControl.t].queue) = {}
      BY <1>b, <2>2, <3>1, QueueItems
    <3>. QED  BY <1>a, <2>1, <3>1, <3>2 DEF WaitInv, Unsettled
  <2>5. WaitInv'
    BY <2>1, <2>3, <2>4 DEF WaitInv, StillDue
  <2>. QED  BY <2>1, <2>2, <2>3, <2>5, OneControl
<1>12. CASE GivesUp
  <2>1. /\ sdkControl' = NoControl
        /\ sdkT' = sdkT /\ sdkInits' = sdkInits /\ sdkTp' = sdkTp /\ sdkNext' = sdkNext /\ sdkCall' = sdkCall
        /\ sdkDelivered' = sdkDelivered /\ sdkLost' = sdkLost
    BY <1>12 DEF GivesUp
  <2>2. /\ sdkControl' \in [pc : ControlPlaces, t : 0..sdkInits, due : SUBSET SdkItem, late : SUBSET SdkItem]
        /\ sdkControl'.pc = "none"
    BY <1>d, <2>1 DEF NoControl, ControlPlaces
  <2>3. WaitInv'
    BY <2>2 DEF WaitInv
  <2>4. sdkControl'.pc \notin Waits
    BY <2>2 DEF Waits
  <2>. QED  BY <2>1, <2>2, <2>3, <2>4, OneControl
<1>f. ASSUME NEW t \in 1..sdkInits, Close(t)
      PROVE  /\ sdkT' \in [1..sdkInits -> Transport]
             /\ \A d \in 1..sdkInits : /\ sdkT'[d].queue = sdkT[d].queue /\ sdkT'[d].sending = sdkT[d].sending
                                       /\ sdkT'[d].done = sdkT[d].done /\ sdkT'[d].checkins = sdkT[d].checkins
                                       /\ sdkT[d].closed => sdkT'[d].closed
  <2>. DEFINE v == [sdkT[t] EXCEPT !.closed = TRUE]
  <2>1. v \in Transport /\ v.queue = sdkT[t].queue /\ v.sending = sdkT[t].sending /\ v.done = sdkT[t].done
          /\ v.checkins = sdkT[t].checkins /\ v.closed = TRUE
    BY <1>b DEF Transport
  <2>2. sdkT' = [sdkT EXCEPT ![t] = v] /\ sdkT \in [1..sdkInits -> Transport]
    BY <1>f, <1>a DEF Close, SdkTypes
  <2>. HIDE DEF v
  <2>. QED  BY <2>1, <2>2
<1>13. CASE ShutdownBegins
  <2>1. /\ sdkControl' = [pc |-> "stopping", t |-> sdkTp, due |-> Unsettled(sdkTp), late |-> {}] /\ sdkTp # 0
        /\ Close(sdkTp) /\ sdkInits' = sdkInits /\ sdkTp' = 0 /\ sdkNext' = sdkNext /\ sdkCall' = sdkCall
        /\ sdkDelivered' = sdkDelivered /\ sdkLost' = sdkLost
    BY <1>13 DEF ShutdownBegins
  <2>2. sdkTp \in 1..sdkInits
    BY <1>d, <1>e, <2>1
  <2>3. Unsettled(sdkTp) \in SUBSET SdkItem
    BY <1>a, <2>2, UnsettledItems
  <2>4. /\ sdkControl' \in [pc : ControlPlaces, t : 0..sdkInits, due : SUBSET SdkItem, late : SUBSET SdkItem]
        /\ sdkControl'.pc = "stopping" /\ sdkControl'.t = sdkTp /\ sdkControl'.due = Unsettled(sdkTp)
    BY <1>e, <2>1, <2>3 DEF ControlPlaces, Waits
  <2>5. /\ sdkT' \in [1..sdkInits -> Transport]
        /\ \A d \in 1..sdkInits : /\ sdkT'[d].queue = sdkT[d].queue /\ sdkT'[d].sending = sdkT[d].sending
                                  /\ sdkT'[d].done = sdkT[d].done /\ sdkT'[d].checkins = sdkT[d].checkins
                                  /\ sdkT[d].closed => sdkT'[d].closed
    BY <1>f, <2>1, <2>2
  <2>6. SdkTypes'
    <3>1. 0 \in 0..sdkInits
      BY <1>d
    <3>. QED  BY <1>d, <1>e, <2>1, <2>2, <2>4, <2>5, <3>1 DEF SdkTypes
  <2>7. RunInv'
    BY <1>a, <2>1, <2>5 DEF RunInv
  <2>8. WaitInv'
    BY <2>1, <2>2, <2>4, <2>5 DEF WaitInv, StillDue, Unsettled
  <2>. QED  BY <2>6, <2>7, <2>8 DEF SdkInv
<1>14. CASE InitBegins
  <2>1. /\ sdkControl' = [NoControl EXCEPT !.pc = "init", !.t = sdkTp]
        /\ sdkInits' = sdkInits /\ sdkTp' = sdkTp /\ sdkNext' = sdkNext /\ sdkCall' = sdkCall
        /\ IF sdkTp = 0 THEN sdkT' = sdkT ELSE Close(sdkTp)
    BY <1>14 DEF InitBegins
  <2>2. /\ sdkControl' \in [pc : ControlPlaces, t : 0..sdkInits, due : SUBSET SdkItem, late : SUBSET SdkItem]
        /\ sdkControl'.pc = "init"
    BY <1>e, <2>1 DEF NoControl, ControlPlaces
  <2>3. /\ sdkT' \in [1..sdkInits -> Transport]
        /\ \A d \in 1..sdkInits : /\ sdkT'[d].queue = sdkT[d].queue /\ sdkT'[d].sending = sdkT[d].sending
                                  /\ sdkT'[d].done = sdkT[d].done /\ (sdkT[d].closed => sdkT'[d].closed)
    <3>1. CASE sdkTp = 0
      BY <1>a, <2>1, <3>1 DEF SdkTypes
    <3>2. CASE sdkTp # 0
      <4>1. sdkTp \in 1..sdkInits
        BY <1>d, <1>e, <3>2
      <4>. QED  BY <1>f, <2>1, <3>2, <4>1
    <3>. QED  BY <3>1, <3>2
  <2>4. sdkControl'.pc \notin Waits
    BY <2>2 DEF Waits
  <2>5. SdkTypes'
    BY <1>d, <1>e, <2>1, <2>2, <2>3, <2>4 DEF SdkTypes
  <2>6. RunInv'
    BY <1>a, <2>1, <2>3 DEF RunInv
  <2>7. WaitInv'
    BY <2>2 DEF WaitInv
  <2>. QED  BY <2>5, <2>6, <2>7 DEF SdkInv
<1>15. CASE InitDone
  <2>1. /\ sdkControl' = NoControl /\ sdkInits' = sdkInits + 1 /\ sdkTp' = sdkInits + 1 /\ sdkNext' = sdkNext
        /\ sdkCall' = sdkCall /\ sdkT' = Append(sdkT, NewTransport)
    BY <1>15 DEF InitDone
  <2>2. NewTransport \in Transport /\ NewTransport.done = FALSE
    <3>1. <<>> \in Seq(SdkItem) /\ 0 \in Nat
      OBVIOUS
    <3>. QED  BY <3>1 DEF NewTransport, Transport
  <2>3. sdkT \in Seq(Transport) /\ Len(sdkT) = sdkInits
    BY <1>a, <1>d DEF SdkTypes
  <2>4. sdkT' \in [1..(sdkInits + 1) -> Transport] /\ \A d \in 1..sdkInits : sdkT'[d] = sdkT[d]
    <3>1. sdkT' \in Seq(Transport) /\ Len(sdkT') = sdkInits + 1
      BY <2>1, <2>2, <2>3
    <3>2. \A d \in 1..sdkInits : sdkT'[d] = sdkT[d]
      BY <2>1, <2>2, <2>3
    <3>. QED  BY <3>1, <3>2
  <2>5. sdkT'[sdkInits + 1] = NewTransport
    BY <2>1, <2>2, <2>3
  <2>6. /\ sdkControl' \in [pc : ControlPlaces, t : 0..(sdkInits + 1), due : SUBSET SdkItem, late : SUBSET SdkItem]
        /\ sdkControl'.pc = "none" /\ sdkControl'.pc \notin Waits
    BY <1>d, <2>1 DEF NoControl, ControlPlaces, Waits
  <2>7. sdkInits + 1 \in Nat /\ sdkInits + 1 \in 0..(sdkInits + 1)
    BY <1>d
  <2>8. sdkCall' \in [SdkCallers -> [pc : {"idle", "holds", "panicked"}, t : 0..(sdkInits + 1)]]
    <3>1. 0..sdkInits \subseteq 0..(sdkInits + 1)
      BY <1>d
    <3>. QED  BY <1>e, <2>1, <3>1
  <2>9. SdkTypes'
    BY <1>d, <1>e, <2>1, <2>4, <2>6, <2>7, <2>8 DEF SdkTypes
  <2>10. RunInv'
    <3>1. ASSUME NEW d \in 1..(sdkInits + 1) PROVE d \in 1..sdkInits \/ d = sdkInits + 1
      BY <1>d, <3>1
    <3>. QED  BY <1>a, <2>1, <2>2, <2>4, <2>5, <3>1 DEF RunInv
  <2>11. WaitInv'
    BY <2>6 DEF WaitInv
  <2>. QED  BY <2>9, <2>10, <2>11 DEF SdkInv
<1>16. CASE SdkTick
  BY <1>16, <1>e, NoTransport DEF SdkTick
<1>. QED
  BY <1>1, <1>2, <1>3, <1>4, <1>5, <1>6, <1>7, <1>8, <1>9, <1>10, <1>11, <1>12, <1>13, <1>14, <1>15, <1>16
     DEF SdkNext, Transports

\* No transport yet.
LEMMA SdkInitInv == SdkInit => SdkInv
<1>. SUFFICES ASSUME SdkInit PROVE SdkInv
  OBVIOUS
<1>1. /\ sdkTp = 0 /\ sdkInits = 0 /\ sdkT = <<>> /\ sdkCall = [c \in SdkCallers |-> IdleCaller]
      /\ sdkControl = NoControl /\ sdkNext = 1
  BY DEF SdkInit
<1>2. IdleCaller \in [pc : {"idle", "holds", "panicked"}, t : 0..0] /\ IdleCaller.pc = "idle"
  BY DEF IdleCaller
<1>3. /\ NoControl \in [pc : ControlPlaces, t : 0..0, due : SUBSET SdkItem, late : SUBSET SdkItem]
      /\ NoControl.pc = "none"
  BY DEF NoControl, ControlPlaces
<1>4. sdkT \in [1..0 -> Transport]
  BY <1>1
<1>5. 0 \in Nat /\ 1 \in SdkItem /\ 0 \in 0..0
  BY DEF SdkItem
<1>6. SdkTypes
  BY <1>1, <1>2, <1>3, <1>4, <1>5 DEF SdkTypes, Waits
<1>7. RunInv /\ WaitInv
  BY <1>1, <1>3 DEF RunInv, WaitInv
<1>. QED  BY <1>6, <1>7 DEF SdkInv

----------------------------------------------------------------------------
(* What is dropped is counted: an item is dropped once only, because it is *)
(* in one place at a time.                                                 *)

\* What a transport in this state has to deliver, each item once.
Held(v) == ToSet(v.queue) \cup ({v.sending} \ {0}) \cup v.checkins

HeldOnce(v) ==
  /\ \A i, j \in DOMAIN v.queue : v.queue[i] = v.queue[j] => i = j
  /\ v.sending \notin ToSet(v.queue) \cup v.checkins
  /\ ToSet(v.queue) \cap v.checkins = {}

\* An item waits in one transport, and has not been dropped.
ItemInv ==
  /\ \A t \in 1..sdkInits : HeldOnce(sdkT[t])
  /\ \A t, u \in 1..sdkInits : t # u => Held(sdkT[t]) \cap Held(sdkT[u]) = {}
  /\ \A t \in 1..sdkInits : \A x \in Held(sdkT[t]) : x < sdkNext /\ x \notin sdkLost
  /\ \A x \in sdkLost : x \in SdkItem /\ x < sdkNext

\* The times of one reason's lines, the last of which was written at last, or none yet.
LinesInv(lines, last) ==
  /\ \A i, j \in DOMAIN lines : i < j => lines[j] - lines[i] >= DropEvery
  /\ \A i \in DOMAIN lines : lines[i] <= last
  /\ last <= sdkNow

\* One key of a transport's log, and what was printed and lost under it.
KeyState == [last : Nat, count : Nat]
KeyHistory == [at : Seq(Nat \ {0}), count : Nat, lost : SUBSET SdkItem]
KeyInv(d, p) ==
  /\ d \in KeyState /\ p \in KeyHistory
  /\ LinesInv(p.at, d.last)
  /\ IsFiniteSet(p.lost) /\ p.count + d.count = Cardinality(p.lost)

DropTypes ==
  /\ sdkNow \in Nat \ {0}
  /\ sdkDrops \in [1..sdkInits -> [SdkKeys -> KeyState]]
  /\ sdkPrinted \in [1..sdkInits -> [SdkKeys -> KeyHistory]]

\* What is lost is in the log of one transport, under one key.
LostInv ==
  /\ \A t \in 1..sdkInits, k \in SdkKeys : sdkPrinted[t][k].lost \subseteq sdkLost
  /\ \A t, u \in 1..sdkInits : \A k, l \in SdkKeys :
       <<t, k>> # <<u, l>> => sdkPrinted[t][k].lost \cap sdkPrinted[u][l].lost = {}
  /\ \A x \in sdkLost : \E t \in 1..sdkInits, k \in SdkKeys : x \in sdkPrinted[t][k].lost

DropInv ==
  /\ DropTypes /\ LostInv
  /\ \A t \in 1..sdkInits, k \in SdkKeys : KeyInv(sdkDrops[t][k], sdkPrinted[t][k])

\* One more line, now.
LEMMA OneMoreLine ==
  ASSUME NEW lines \in Seq(Nat \ {0}), NEW last \in Nat, sdkNow \in Nat \ {0}, LinesInv(lines, last),
         last = 0 \/ sdkNow - last >= DropEvery
  PROVE  Append(lines, sdkNow) \in Seq(Nat \ {0}) /\ LinesInv(Append(lines, sdkNow), sdkNow)
<1>. DEFINE b == Append(lines, sdkNow)
<1>1. /\ Len(lines) \in Nat /\ DOMAIN lines = 1..Len(lines) /\ b \in Seq(Nat \ {0}) /\ DOMAIN b = 1..(Len(lines) + 1)
      /\ b[Len(lines) + 1] = sdkNow /\ \A i \in 1..Len(lines) : b[i] = lines[i] /\ lines[i] \in Nat \ {0}
  OBVIOUS
<1>. HIDE DEF b
<1>2. /\ \A i, j \in 1..Len(lines) : i < j => lines[j] - lines[i] >= DropEvery
      /\ \A i \in 1..Len(lines) : lines[i] <= last
      /\ last <= sdkNow /\ DropEvery \in Nat
  BY <1>1, SdkAssumption DEF LinesInv
<1>3. \A i \in 1..Len(lines) : sdkNow - lines[i] >= DropEvery /\ lines[i] <= sdkNow
  BY <1>1, <1>2
<1>4. ASSUME NEW i \in DOMAIN b, NEW j \in DOMAIN b, i < j PROVE b[j] - b[i] >= DropEvery
  <2>1. i \in 1..Len(lines) /\ (j \in 1..Len(lines) \/ j = Len(lines) + 1)
    BY <1>1, <1>4
  <2>2. CASE j \in 1..Len(lines)
    <3>1. b[i] = lines[i] /\ b[j] = lines[j] /\ lines[j] - lines[i] >= DropEvery
      BY <1>1, <1>2, <1>4, <2>1, <2>2
    <3>. QED  BY <3>1
  <2>3. CASE j = Len(lines) + 1
    <3>1. b[i] = lines[i] /\ b[j] = sdkNow /\ sdkNow - lines[i] >= DropEvery
      BY <1>1, <1>3, <2>1, <2>3
    <3>. QED  BY <3>1
  <2>. QED  BY <2>1, <2>2, <2>3
<1>5. ASSUME NEW i \in DOMAIN b PROVE b[i] <= sdkNow
  <2>1. i \in 1..Len(lines) \/ i = Len(lines) + 1
    BY <1>1
  <2>. QED  BY <1>1, <1>3, <2>1
<1>6. sdkNow <= sdkNow
  OBVIOUS
<1>7. LinesInv(b, sdkNow)
  BY <1>4, <1>5, <1>6 DEF LinesInv
<1>. QED  BY <1>1, <1>7 DEF b

\* One more drop under a key: a line, or one more in the count.
LEMMA KeyCounts ==
  ASSUME NEW d, NEW p, KeyInv(d, p), sdkNow \in Nat \ {0}, NEW x \in SdkItem, x \notin p.lost,
         NEW prints \in BOOLEAN, prints <=> (d.last = 0 \/ sdkNow - d.last >= DropEvery),
         NEW e, e = [last |-> IF prints THEN sdkNow ELSE d.last, count |-> IF prints THEN 0 ELSE d.count + 1],
         NEW q, q = [at |-> IF prints THEN Append(p.at, sdkNow) ELSE p.at,
                     count |-> IF prints THEN p.count + d.count + 1 ELSE p.count,
                     lost |-> p.lost \cup {x}]
  PROVE  KeyInv(e, q)
<1>1. /\ d.last \in Nat /\ d.count \in Nat /\ p.at \in Seq(Nat \ {0}) /\ p.count \in Nat /\ p.lost \subseteq SdkItem
      /\ LinesInv(p.at, d.last) /\ IsFiniteSet(p.lost) /\ p.count + d.count = Cardinality(p.lost)
  BY DEF KeyInv, KeyState, KeyHistory
<1>2. IsFiniteSet(p.lost \cup {x}) /\ Cardinality(p.lost \cup {x}) = Cardinality(p.lost) + 1
  BY <1>1, FS_AddElement
<1>3. p.lost \cup {x} \subseteq SdkItem
  BY <1>1
<1>4. CASE prints
  <2>1. Append(p.at, sdkNow) \in Seq(Nat \ {0}) /\ LinesInv(Append(p.at, sdkNow), sdkNow)
    BY <1>1, <1>4, OneMoreLine
  <2>2. /\ e = [last |-> sdkNow, count |-> 0]
        /\ q = [at |-> Append(p.at, sdkNow), count |-> p.count + d.count + 1, lost |-> p.lost \cup {x}]
    BY <1>4
  <2>3. p.count + d.count + 1 \in Nat /\ (p.count + d.count + 1) + 0 = Cardinality(p.lost) + 1
    BY <1>1
  <2>4. e \in KeyState /\ q \in KeyHistory
    BY <1>3, <2>1, <2>2, <2>3 DEF KeyState, KeyHistory
  <2>. QED  BY <1>2, <2>1, <2>2, <2>3, <2>4 DEF KeyInv
<1>5. CASE ~prints
  <2>1. /\ e = [last |-> d.last, count |-> d.count + 1]
        /\ q = [at |-> p.at, count |-> p.count, lost |-> p.lost \cup {x}]
    BY <1>5
  <2>2. d.count + 1 \in Nat /\ p.count + (d.count + 1) = Cardinality(p.lost) + 1
    BY <1>1
  <2>3. e \in KeyState /\ q \in KeyHistory
    BY <1>1, <1>3, <2>1, <2>2 DEF KeyState, KeyHistory
  <2>. QED  BY <1>1, <1>2, <2>1, <2>2, <2>3 DEF KeyInv
<1>. QED  BY <1>4, <1>5

\* dropLog.record counts an item that was not dropped before.
LEMMA DropCounted ==
  ASSUME DropInv, sdkInits' = sdkInits, NEW t \in 1..sdkInits, NEW what \in {"event", "check-in"},
         NEW x \in SdkItem, x \notin sdkLost, NEW reason \in SdkReasons, Record(t, what, x, reason), sdkNow' = sdkNow
  PROVE  DropInv'
<1>. DEFINE k == <<what, reason>>
            c == sdkDrops[t][k]
            p == sdkPrinted[t][k]
            prints == c.last = 0 \/ sdkNow - c.last >= DropEvery
            e == [last |-> IF prints THEN sdkNow ELSE c.last, count |-> IF prints THEN 0 ELSE c.count + 1]
            q == [at |-> IF prints THEN Append(p.at, sdkNow) ELSE p.at,
                  count |-> IF prints THEN p.count + c.count + 1 ELSE p.count,
                  lost |-> p.lost \cup {x}]
<1>1. k \in SdkKeys /\ KeyInv(c, p) /\ sdkNow \in Nat \ {0} /\ prints \in BOOLEAN
  BY DEF SdkKeys, DropInv, DropTypes
<1>2. /\ sdkLost' = sdkLost \cup {x} /\ sdkDrops' = [sdkDrops EXCEPT ![t][k] = e]
      /\ sdkPrinted' = [sdkPrinted EXCEPT ![t][k] = q]
  BY DEF Record
<1>3. x \notin p.lost
  BY <1>1 DEF DropInv, LostInv
<1>4. KeyInv(e, q) /\ q.lost = p.lost \cup {x}
  BY <1>1, <1>3, KeyCounts
<1>. HIDE DEF prints, e, q
<1>5. e \in KeyState /\ q \in KeyHistory
  BY <1>4 DEF KeyInv
<1>6. /\ sdkDrops' \in [1..sdkInits -> [SdkKeys -> KeyState]]
      /\ sdkPrinted' \in [1..sdkInits -> [SdkKeys -> KeyHistory]]
      /\ sdkDrops'[t][k] = e /\ sdkPrinted'[t][k] = q
      /\ \A u \in 1..sdkInits, l \in SdkKeys :
           <<u, l>> # <<t, k>> => sdkDrops'[u][l] = sdkDrops[u][l] /\ sdkPrinted'[u][l] = sdkPrinted[u][l]
  <2>1. /\ sdkDrops \in [1..sdkInits -> [SdkKeys -> KeyState]]
        /\ sdkPrinted \in [1..sdkInits -> [SdkKeys -> KeyHistory]]
    BY DEF DropInv, DropTypes
  <2>. HIDE DEF k
  <2>. QED  BY <1>1, <1>2, <1>5, <2>1
<1>. HIDE DEF k
<1>7. ASSUME NEW u \in 1..sdkInits, NEW l \in SdkKeys PROVE KeyInv(sdkDrops'[u][l], sdkPrinted'[u][l])
  BY <1>4, <1>6 DEF DropInv
<1>8. ASSUME NEW u \in 1..sdkInits, NEW l \in SdkKeys PROVE KeyInv(sdkDrops[u][l], sdkPrinted[u][l])'
  BY <1>7 DEF KeyInv, LinesInv
<1>9. ASSUME NEW u \in 1..sdkInits, NEW l \in SdkKeys
      PROVE  sdkPrinted'[u][l].lost = IF <<u, l>> = <<t, k>> THEN sdkPrinted[u][l].lost \cup {x} ELSE sdkPrinted[u][l].lost
  BY <1>4, <1>6
<1>10. /\ \A u \in 1..sdkInits, l \in SdkKeys : sdkPrinted[u][l].lost \subseteq sdkLost
       /\ \A u, v \in 1..sdkInits : \A l, m \in SdkKeys :
            <<u, l>> # <<v, m>> => sdkPrinted[u][l].lost \cap sdkPrinted[v][m].lost = {}
       /\ \A y \in sdkLost : \E u \in 1..sdkInits, l \in SdkKeys : y \in sdkPrinted[u][l].lost
  BY DEF DropInv, LostInv
<1>11. ASSUME NEW u \in 1..sdkInits, NEW l \in SdkKeys PROVE sdkPrinted'[u][l].lost \subseteq sdkLost'
  <2>1. sdkPrinted[u][l].lost \subseteq sdkLost /\ sdkPrinted'[u][l].lost \subseteq sdkPrinted[u][l].lost \cup {x}
    BY <1>9, <1>10
  <2>. QED  BY <1>2, <2>1
<1>12. ASSUME NEW u \in 1..sdkInits, NEW v \in 1..sdkInits, NEW l \in SdkKeys, NEW m \in SdkKeys, <<u, l>> # <<v, m>>
       PROVE  sdkPrinted'[u][l].lost \cap sdkPrinted'[v][m].lost = {}
  <2>1. /\ sdkPrinted[u][l].lost \cap sdkPrinted[v][m].lost = {}
        /\ x \notin sdkPrinted[u][l].lost /\ x \notin sdkPrinted[v][m].lost
    BY <1>10, <1>12
  <2>. QED  BY <1>9, <1>12, <2>1
<1>13. ASSUME NEW y \in sdkLost' PROVE \E u \in 1..sdkInits, l \in SdkKeys : y \in sdkPrinted'[u][l].lost
  <2>1. CASE y = x
    BY <1>1, <1>9, <2>1
  <2>2. CASE y # x
    <3>1. PICK u \in 1..sdkInits, l \in SdkKeys : y \in sdkPrinted[u][l].lost
      BY <1>2, <1>10, <1>13, <2>2
    <3>. QED  BY <1>9, <3>1
  <2>. QED  BY <2>1, <2>2
<1>14. LostInv'
  BY <1>11, <1>12, <1>13 DEF LostInv
<1>15. DropTypes'
  BY <1>1, <1>6 DEF DropTypes
<1>. QED  BY <1>8, <1>14, <1>15 DEF DropInv

\* A queue without repeats has none after an append of a new item or without its first.
LEMMA QueueOnce ==
  ASSUME NEW q \in Seq(SdkItem), \A i, j \in DOMAIN q : q[i] = q[j] => i = j
  PROVE  /\ \A x \in SdkItem : x \notin ToSet(q) =>
              /\ ToSet(Append(q, x)) = ToSet(q) \cup {x}
              /\ \A i, j \in DOMAIN Append(q, x) : Append(q, x)[i] = Append(q, x)[j] => i = j
         /\ q # <<>> => /\ ToSet(Tail(q)) \subseteq ToSet(q) /\ Head(q) \in ToSet(q) /\ Head(q) \notin ToSet(Tail(q))
                        /\ \A i, j \in DOMAIN Tail(q) : Tail(q)[i] = Tail(q)[j] => i = j
<1>1. ASSUME NEW x \in SdkItem, x \notin ToSet(q)
      PROVE  /\ ToSet(Append(q, x)) = ToSet(q) \cup {x}
             /\ \A i, j \in DOMAIN Append(q, x) : Append(q, x)[i] = Append(q, x)[j] => i = j
  <2>. DEFINE b == Append(q, x)
  <2>1. /\ Len(q) \in Nat /\ DOMAIN q = 1..Len(q) /\ DOMAIN b = 1..(Len(q) + 1) /\ b[Len(q) + 1] = x
        /\ \A i \in 1..Len(q) : b[i] = q[i]
    OBVIOUS
  <2>2. \A i \in 1..Len(q) : q[i] # x
    BY <1>1, <2>1 DEF ToSet
  <2>. HIDE DEF b
  <2>3. ASSUME NEW i \in DOMAIN b, NEW j \in DOMAIN b, b[i] = b[j] PROVE i = j
    <3>1. (i \in 1..Len(q) \/ i = Len(q) + 1) /\ (j \in 1..Len(q) \/ j = Len(q) + 1)
      BY <2>1
    <3>. QED  BY <2>1, <2>2, <2>3, <3>1
  <2>4. ToSet(b) \subseteq ToSet(q) \cup {x}
    <3>1. ASSUME NEW i \in DOMAIN b PROVE b[i] = x \/ b[i] \in ToSet(q)
      <4>1. i \in 1..Len(q) \/ i = Len(q) + 1
        BY <2>1
      <4>. QED  BY <2>1, <4>1 DEF ToSet
    <3>. QED  BY <3>1 DEF ToSet
  <2>5. ToSet(q) \cup {x} \subseteq ToSet(b)
    <3>1. Len(q) + 1 \in DOMAIN b /\ 1..Len(q) \subseteq DOMAIN b
      BY <2>1
    <3>. QED  BY <2>1, <3>1 DEF ToSet
  <2>. QED  BY <2>3, <2>4, <2>5 DEF b
<1>2. ASSUME q # <<>>
      PROVE  /\ ToSet(Tail(q)) \subseteq ToSet(q) /\ Head(q) \in ToSet(q) /\ Head(q) \notin ToSet(Tail(q))
             /\ \A i, j \in DOMAIN Tail(q) : Tail(q)[i] = Tail(q)[j] => i = j
  <2>1. /\ Len(q) \in Nat \ {0} /\ DOMAIN q = 1..Len(q) /\ DOMAIN Tail(q) = 1..(Len(q) - 1) /\ Head(q) = q[1]
        /\ \A i \in 1..(Len(q) - 1) : Tail(q)[i] = q[i + 1]
    BY <1>2
  <2>2. \A i \in 1..(Len(q) - 1) : i + 1 \in 1..Len(q) /\ i + 1 # 1
    BY <2>1
  <2>3. 1 \in 1..Len(q)
    BY <2>1
  <2>. DEFINE w == Tail(q)
  <2>. HIDE DEF w
  <2>4. DOMAIN w = 1..(Len(q) - 1) /\ \A i \in 1..(Len(q) - 1) : w[i] = q[i + 1]
    BY <2>1 DEF w
  <2>5. ToSet(w) \subseteq ToSet(q)
    BY <2>1, <2>2, <2>4 DEF ToSet
  <2>6. q[1] \notin ToSet(w)
    BY <2>1, <2>2, <2>3, <2>4 DEF ToSet
  <2>7. ASSUME NEW i \in DOMAIN w, NEW j \in DOMAIN w, w[i] = w[j] PROVE i = j
    <3>1. q[i + 1] = q[j + 1] /\ i + 1 \in DOMAIN q /\ j + 1 \in DOMAIN q
      BY <2>1, <2>2, <2>4, <2>7
    <3>2. i + 1 = j + 1 /\ i \in Int /\ j \in Int
      BY <2>4, <3>1
    <3>. QED  BY <3>2
  <2>8. q[1] \in ToSet(q)
    BY <2>1, <2>3 DEF ToSet
  <2>. QED  BY <2>1, <2>5, <2>6, <2>7, <2>8 DEF w
<1>. QED  BY <1>1, <1>2

\* A transport has items only.
LEMMA HeldItems == ASSUME NEW v \in Transport PROVE Held(v) \subseteq SdkItem
<1>1. v.queue \in Seq(SdkItem) /\ v.sending \in Nat /\ v.checkins \subseteq SdkItem
  BY DEF Transport
<1>2. ToSet(v.queue) \subseteq SdkItem
  BY <1>1, QueueItems
<1>. QED  BY <1>1, <1>2 DEF Held, SdkItem

\* A transport changes, and may get the next item or drop one.
LEMMA OneHolder ==
  ASSUME SdkTypes, ItemInv, NEW t \in 1..sdkInits, NEW v \in Transport, HeldOnce(v),
         sdkT' = [sdkT EXCEPT ![t] = v], sdkInits' = sdkInits, sdkNext' \in SdkItem, sdkNext <= sdkNext',
         \A y \in Held(v) : (y \in Held(sdkT[t]) /\ y \notin sdkLost') \/ (y = sdkNext /\ sdkNext < sdkNext'),
         \A y \in sdkLost' : y \in sdkLost \cup Held(sdkT[t])
  PROVE  ItemInv'
<1>1. sdkT \in [1..sdkInits -> Transport] /\ sdkNext \in SdkItem /\ t \in 1..sdkInits
  BY DEF SdkTypes
<1>2. \A d \in 1..sdkInits : sdkT'[d] = (IF d = t THEN v ELSE sdkT[d]) /\ sdkT[d] \in Transport
  BY <1>1
<1>3. \A d \in 1..sdkInits : Held(sdkT[d]) \subseteq SdkItem
  BY <1>2, HeldItems
<1>4. \A m, n \in SdkItem : ~(m < m) /\ (m < n => m < sdkNext' \/ ~(n <= sdkNext'))
  BY DEF SdkItem
<1>5. \A d \in 1..sdkInits : HeldOnce(sdkT[d]) /\ \A x \in Held(sdkT[d]) : x < sdkNext /\ x \notin sdkLost
  BY DEF ItemInv
<1>6. \A d, u \in 1..sdkInits : d # u => Held(sdkT[d]) \cap Held(sdkT[u]) = {}
  BY DEF ItemInv
<1>7. \A x \in sdkLost : x \in SdkItem /\ x < sdkNext
  BY DEF ItemInv
<1>8. ASSUME NEW x \in sdkLost' PROVE x \in SdkItem /\ x < sdkNext'
  BY <1>1, <1>3, <1>4, <1>5, <1>7, <1>8
<1>9. sdkNext \notin sdkLost' /\ \A d \in 1..sdkInits : sdkNext \notin Held(sdkT[d])
  BY <1>1, <1>3, <1>4, <1>5, <1>7
<1>10. ASSUME NEW d \in 1..sdkInits PROVE HeldOnce(sdkT'[d])
  BY <1>2, <1>5
<1>11. ASSUME NEW d \in 1..sdkInits, NEW x \in Held(sdkT'[d]) PROVE x < sdkNext' /\ x \notin sdkLost'
  <2>1. CASE d = t
    <3>1. x \in Held(v)
      BY <1>2, <1>11, <2>1
    <3>2. CASE x = sdkNext /\ sdkNext < sdkNext'
      BY <1>9, <3>2
    <3>3. CASE x \in Held(sdkT[t]) /\ x \notin sdkLost'
      BY <1>1, <1>3, <1>4, <1>5, <3>3
    <3>. QED  BY <3>1, <3>2, <3>3
  <2>2. CASE d # t
    <3>1. x \in Held(sdkT[d]) /\ x \notin Held(sdkT[t])
      BY <1>2, <1>6, <1>11, <2>2
    <3>2. x < sdkNext' /\ x \notin sdkLost
      BY <1>1, <1>3, <1>4, <1>5, <3>1
    <3>. QED  BY <3>1, <3>2
  <2>. QED  BY <2>1, <2>2
<1>12. ASSUME NEW d \in 1..sdkInits, NEW u \in 1..sdkInits, d # u PROVE Held(sdkT'[d]) \cap Held(sdkT'[u]) = {}
  <2>1. Held(v) \subseteq Held(sdkT[t]) \cup {sdkNext}
    OBVIOUS
  <2>2. CASE d = t
    BY <1>2, <1>6, <1>9, <1>12, <2>1, <2>2
  <2>3. CASE u = t
    BY <1>2, <1>6, <1>9, <1>12, <2>1, <2>3
  <2>4. CASE d # t /\ u # t
    BY <1>2, <1>6, <1>12, <2>4
  <2>. QED  BY <2>2, <2>3, <2>4
<1>. QED  BY <1>8, <1>10, <1>11, <1>12 DEF ItemInv, HeldOnce, Held

\* The transports hold what they held, and nothing is dropped.
LEMMA SameHolders ==
  ASSUME ItemInv, sdkInits' = sdkInits, sdkNext' = sdkNext, sdkLost' = sdkLost,
         \A d \in 1..sdkInits : /\ sdkT'[d].queue = sdkT[d].queue /\ sdkT'[d].sending = sdkT[d].sending
                                /\ sdkT'[d].checkins = sdkT[d].checkins
  PROVE  ItemInv'
<1>1. \A d \in 1..sdkInits : Held(sdkT'[d]) = Held(sdkT[d]) /\ (HeldOnce(sdkT[d]) => HeldOnce(sdkT'[d]))
  BY DEF Held, HeldOnce
<1>. QED  BY <1>1 DEF ItemInv, Held, HeldOnce

\* A step keeps each item in one place.
LEMMA ItemStep == ASSUME SdkInv, ItemInv, SdkNext PROVE ItemInv'
<1>. USE DEF sdkLog
<1>a. SdkTypes /\ sdkT \in [1..sdkInits -> Transport] /\ sdkNext \in SdkItem /\ sdkNext + 1 \in SdkItem
      /\ sdkInits \in Nat /\ sdkNext < sdkNext + 1 /\ sdkNext <= sdkNext /\ sdkNext <= sdkNext + 1
  BY DEF SdkInv, SdkTypes, SdkItem
<1>b. ASSUME NEW t \in 1..sdkInits
      PROVE  /\ sdkT[t] \in Transport /\ sdkT[t].queue \in Seq(SdkItem) /\ sdkT[t].sending \in Nat
             /\ sdkT[t].checkins \subseteq SdkItem /\ HeldOnce(sdkT[t]) /\ sdkNext \notin Held(sdkT[t])
             /\ \A x \in Held(sdkT[t]) : x \notin sdkLost
  <2>1. sdkT[t] \in Transport
    BY <1>a
  <2>2. HeldOnce(sdkT[t]) /\ \A x \in Held(sdkT[t]) : x < sdkNext /\ x \notin sdkLost
    BY DEF ItemInv
  <2>3. ~(sdkNext < sdkNext)
    BY <1>a DEF SdkItem
  <2>. QED  BY <2>1, <2>2, <2>3 DEF Transport
<1>1. ASSUME NEW c \in SdkCallers, CallBegins(c) \/ EnqueuePanics(c) PROVE ItemInv'
  BY <1>1, SameHolders DEF CallBegins, EnqueuePanics
<1>2. ASSUME NEW c \in SdkCallers, EnqueueEvent(c) PROVE ItemInv'
  <2>. DEFINE t == sdkCall[c].t
              q == sdkT[t].queue
              v == IF Len(q) < SdkQueueSize THEN [sdkT[t] EXCEPT !.queue = Append(@, sdkNext)] ELSE sdkT[t]
  <2>1. t \in 1..sdkInits
    <3>1. t \in 0..sdkInits /\ t # 0
      BY <1>2 DEF SdkInv, SdkTypes, EnqueueEvent
    <3>. QED  BY <1>a, <3>1
  <2>2. sdkT' = [sdkT EXCEPT ![t] = v] /\ sdkInits' = sdkInits /\ sdkNext' = sdkNext + 1 /\ sdkLost' = sdkLost
    BY <1>2, <1>a, <2>1 DEF EnqueueEvent
  <2>3. /\ q \in Seq(SdkItem) /\ sdkT[t] \in Transport /\ HeldOnce(sdkT[t]) /\ sdkNext \notin Held(sdkT[t])
        /\ sdkT[t].sending \in Nat /\ sdkT[t].checkins \subseteq SdkItem
    BY <1>b, <2>1
  <2>4. sdkNext \notin ToSet(q) /\ sdkNext # sdkT[t].sending /\ sdkNext \notin sdkT[t].checkins /\ q = sdkT[t].queue
    BY <1>a, <2>3 DEF Held, SdkItem
  <2>5. /\ Append(q, sdkNext) \in Seq(SdkItem) /\ ToSet(Append(q, sdkNext)) = ToSet(q) \cup {sdkNext}
        /\ \A i, j \in DOMAIN Append(q, sdkNext) : Append(q, sdkNext)[i] = Append(q, sdkNext)[j] => i = j
    <3>1. \A i, j \in DOMAIN q : q[i] = q[j] => i = j
      BY <2>3 DEF HeldOnce
    <3>2. sdkNext \in SdkItem /\ sdkNext \notin ToSet(q) /\ q \in Seq(SdkItem)
      BY <1>a, <2>3, <2>4
    <3>. HIDE DEF q, t
    <3>3. Append(q, sdkNext) \in Seq(SdkItem)
      BY <3>2, QueueItems
    <3>. QED  BY <3>1, <3>2, <3>3, QueueOnce
  <2>6. v \in Transport /\ HeldOnce(v) /\ Held(v) \subseteq Held(sdkT[t]) \cup {sdkNext}
    <3>1. CASE Len(q) < SdkQueueSize
      <4>1. v.queue = Append(q, sdkNext) /\ v.sending = sdkT[t].sending /\ v.checkins = sdkT[t].checkins /\ v \in Transport
        BY <2>3, <2>5, <3>1 DEF Transport
      <4>. HIDE DEF v, q, t
      <4>2. v.sending \notin ToSet(v.queue) \cup v.checkins /\ ToSet(v.queue) \cap v.checkins = {}
        BY <2>3, <2>4, <2>5, <4>1 DEF HeldOnce
      <4>3. Held(v) \subseteq Held(sdkT[t]) \cup {sdkNext}
        BY <2>4, <2>5, <4>1 DEF Held
      <4>. QED  BY <2>5, <4>1, <4>2, <4>3 DEF HeldOnce
    <3>2. CASE ~(Len(q) < SdkQueueSize)
      BY <2>3, <3>2
    <3>. QED  BY <3>1, <3>2
  <2>7. \A y \in Held(sdkT[t]) : y \notin sdkLost
    BY <1>b, <2>1
  <2>. HIDE DEF v, t, q
  <2>. QED  BY <1>a, <2>1, <2>2, <2>6, <2>7, OneHolder
<1>3. ASSUME NEW c \in SdkCallers, CheckInBegins(c) PROVE ItemInv'
  <2>. DEFINE t == sdkCall[c].t
              v == [sdkT[t] EXCEPT !.checkins = @ \cup {sdkNext}]
  <2>1. t \in 1..sdkInits
    <3>1. t \in 0..sdkInits /\ t # 0
      BY <1>3 DEF SdkInv, SdkTypes, CheckInBegins
    <3>. QED  BY <1>a, <3>1
  <2>2. sdkT' = [sdkT EXCEPT ![t] = v] /\ sdkInits' = sdkInits /\ sdkNext' = sdkNext + 1 /\ sdkLost' = sdkLost
    BY <1>3, <1>a, <2>1 DEF CheckInBegins
  <2>3. /\ sdkT[t] \in Transport /\ HeldOnce(sdkT[t]) /\ sdkNext \notin Held(sdkT[t])
        /\ sdkT[t].sending \in Nat /\ sdkT[t].checkins \cup {sdkNext} \subseteq SdkItem
    BY <1>a, <1>b, <2>1
  <2>4. sdkNext \notin ToSet(sdkT[t].queue) /\ sdkNext # sdkT[t].sending
    BY <1>a, <2>3 DEF Held, SdkItem
  <2>5. v.queue = sdkT[t].queue /\ v.sending = sdkT[t].sending /\ v.checkins = sdkT[t].checkins \cup {sdkNext} /\ v \in Transport
    BY <2>3 DEF Transport
  <2>. HIDE DEF v
  <2>6. HeldOnce(v) /\ Held(v) \subseteq Held(sdkT[t]) \cup {sdkNext}
    BY <2>3, <2>4, <2>5 DEF HeldOnce, Held
  <2>7. \A y \in Held(sdkT[t]) : y \notin sdkLost
    BY <1>b, <2>1
  <2>. HIDE DEF t
  <2>. QED  BY <1>a, <2>1, <2>2, <2>5, <2>6, <2>7, OneHolder
<1>4. ASSUME NEW t \in 1..sdkInits, RunTakes(t) PROVE ItemInv'
  <2>. DEFINE q == sdkT[t].queue
              v == [sdkT[t] EXCEPT !.sending = Head(q), !.queue = Tail(@)]
  <2>1. /\ sdkT' = [sdkT EXCEPT ![t] = v] /\ sdkInits' = sdkInits /\ sdkNext' = sdkNext /\ sdkLost' = sdkLost
        /\ q # <<>>
    BY <1>4, <1>a DEF RunTakes
  <2>2. /\ q \in Seq(SdkItem) /\ sdkT[t] \in Transport /\ HeldOnce(sdkT[t])
        /\ \A y \in Held(sdkT[t]) : y \notin sdkLost
    BY <1>b
  <2>3. /\ Head(q) \in SdkItem /\ Tail(q) \in Seq(SdkItem)
        /\ ToSet(Tail(q)) \subseteq ToSet(q) /\ Head(q) \in ToSet(q) /\ Head(q) \notin ToSet(Tail(q))
        /\ \A i, j \in DOMAIN Tail(q) : Tail(q)[i] = Tail(q)[j] => i = j
    <3>1. \A i, j \in DOMAIN q : q[i] = q[j] => i = j
      BY <2>2 DEF HeldOnce
    <3>. QED  BY <2>1, <2>2, <3>1, QueueOnce, QueueItems
  <2>4. v.queue = Tail(q) /\ v.sending = Head(q) /\ v.checkins = sdkT[t].checkins /\ v \in Transport
    BY <2>2, <2>3 DEF Transport, SdkItem
  <2>. HIDE DEF v
  <2>5. HeldOnce(v) /\ Held(v) \subseteq Held(sdkT[t])
    BY <2>2, <2>3, <2>4 DEF HeldOnce, Held, SdkItem
  <2>. QED  BY <1>a, <2>1, <2>2, <2>4, <2>5, OneHolder
<1>5. ASSUME NEW t \in 1..sdkInits, RunSends(t) PROVE ItemInv'
  <2>. DEFINE x == sdkT[t].sending
              v == [sdkT[t] EXCEPT !.sending = 0]
  <2>1. /\ sdkT' = [sdkT EXCEPT ![t] = v] /\ sdkInits' = sdkInits /\ sdkNext' = sdkNext /\ x # 0
        /\ sdkLost' \subseteq sdkLost \cup {x}
    BY <1>5, <1>a DEF RunSends, Accepted, Record
  <2>2. /\ sdkT[t] \in Transport /\ HeldOnce(sdkT[t]) /\ x \in Held(sdkT[t])
        /\ sdkT[t].checkins \subseteq SdkItem /\ ToSet(sdkT[t].queue) \subseteq SdkItem
        /\ \A y \in Held(sdkT[t]) : y \notin sdkLost
    BY <1>b, <2>1, QueueItems DEF Held
  <2>3. v.queue = sdkT[t].queue /\ v.sending = 0 /\ v.checkins = sdkT[t].checkins /\ v \in Transport
    BY <2>2 DEF Transport
  <2>. HIDE DEF v
  <2>4. HeldOnce(v) /\ Held(v) \subseteq Held(sdkT[t]) \ {x}
    BY <2>2, <2>3 DEF HeldOnce, Held, SdkItem
  <2>. HIDE DEF x
  <2>. QED  BY <1>a, <2>1, <2>2, <2>3, <2>4, OneHolder
<1>6. ASSUME NEW t \in 1..sdkInits, RunReturns(t) PROVE ItemInv'
  <2>1. /\ \A d \in 1..sdkInits : /\ sdkT'[d].queue = sdkT[d].queue /\ sdkT'[d].sending = sdkT[d].sending
                                  /\ sdkT'[d].checkins = sdkT[d].checkins
        /\ sdkInits' = sdkInits /\ sdkNext' = sdkNext /\ sdkLost' = sdkLost
    BY <1>6, <1>a DEF RunReturns, Transport
  <2>. QED  BY <2>1, SameHolders
<1>7. ASSUME NEW t \in 1..sdkInits, NEW i \in 1..SdkMaxItems, CheckInSent(t, i) PROVE ItemInv'
  <2>. DEFINE v == [sdkT[t] EXCEPT !.checkins = @ \ {i}]
  <2>1. /\ sdkT' = [sdkT EXCEPT ![t] = v] /\ sdkInits' = sdkInits /\ sdkNext' = sdkNext /\ i \in sdkT[t].checkins
        /\ sdkLost' \subseteq sdkLost \cup {i}
    BY <1>7, <1>a DEF CheckInSent, Accepted, Record
  <2>2. /\ sdkT[t] \in Transport /\ HeldOnce(sdkT[t]) /\ i \in Held(sdkT[t])
        /\ sdkT[t].checkins \ {i} \subseteq SdkItem /\ \A y \in Held(sdkT[t]) : y \notin sdkLost
    BY <1>b, <2>1 DEF Held
  <2>3. v.queue = sdkT[t].queue /\ v.sending = sdkT[t].sending /\ v.checkins = sdkT[t].checkins \ {i} /\ v \in Transport
    BY <2>2 DEF Transport
  <2>. HIDE DEF v
  <2>4. HeldOnce(v) /\ Held(v) \subseteq Held(sdkT[t]) \ {i}
    BY <2>1, <2>2, <2>3 DEF HeldOnce, Held
  <2>. QED  BY <1>a, <2>1, <2>2, <2>3, <2>4, OneHolder
<1>8. CASE FlushBegins \/ FlushTrue \/ ShutdownTrue \/ GivesUp \/ SdkTick
  BY <1>8, SameHolders DEF FlushBegins, FlushTrue, ShutdownTrue, GivesUp, SdkTick
<1>c. ASSUME NEW t \in 1..sdkInits, Close(t)
      PROVE  \A d \in 1..sdkInits : /\ sdkT'[d].queue = sdkT[d].queue /\ sdkT'[d].sending = sdkT[d].sending
                                    /\ sdkT'[d].checkins = sdkT[d].checkins
  BY <1>c, <1>a DEF Close, Transport
<1>d. sdkTp # 0 => sdkTp \in 1..sdkInits
  BY <1>a DEF SdkTypes
<1>9. CASE ShutdownBegins
  BY <1>9, <1>c, <1>d, SameHolders DEF ShutdownBegins
<1>10. CASE InitBegins
  <2>1. sdkInits' = sdkInits /\ sdkNext' = sdkNext /\ sdkLost' = sdkLost /\ IF sdkTp = 0 THEN sdkT' = sdkT ELSE Close(sdkTp)
    BY <1>10 DEF InitBegins
  <2>. QED  BY <1>c, <1>d, <2>1, SameHolders
<1>11. CASE InitDone
  <2>1. /\ sdkInits' = sdkInits + 1 /\ sdkT' = Append(sdkT, NewTransport) /\ sdkNext' = sdkNext /\ sdkLost' = sdkLost
    BY <1>11 DEF InitDone
  <2>2. sdkT \in Seq(Transport) /\ Len(sdkT) = sdkInits
    BY <1>a
  <2>3. /\ \A d \in 1..sdkInits : sdkT'[d] = sdkT[d]
        /\ sdkT'[sdkInits + 1] = NewTransport
    BY <1>a, <2>1, <2>2
  <2>4. \A d \in 1..(sdkInits + 1) : d \in 1..sdkInits \/ d = sdkInits + 1
    BY <1>a
  <2>5. HeldOnce(NewTransport) /\ Held(NewTransport) = {}
    BY DEF NewTransport, HeldOnce, Held, ToSet
  <2>6. \A d \in 1..(sdkInits + 1) : HeldOnce(sdkT'[d]) /\ \A x \in Held(sdkT'[d]) : x < sdkNext /\ x \notin sdkLost
    BY <2>3, <2>4, <2>5 DEF ItemInv
  <2>7. ASSUME NEW d \in 1..(sdkInits + 1), NEW u \in 1..(sdkInits + 1), d # u
        PROVE  Held(sdkT'[d]) \cap Held(sdkT'[u]) = {}
    <3>1. CASE d \in 1..sdkInits /\ u \in 1..sdkInits
      BY <2>3, <2>7, <3>1 DEF ItemInv
    <3>2. CASE d = sdkInits + 1 \/ u = sdkInits + 1
      BY <2>3, <2>5, <3>2
    <3>. QED  BY <2>4, <3>1, <3>2
  <2>. QED  BY <2>1, <2>6, <2>7 DEF ItemInv, HeldOnce, Held
<1>. QED
  BY <1>1, <1>2, <1>3, <1>4, <1>5, <1>6, <1>7, <1>8, <1>9, <1>10, <1>11 DEF SdkNext, Transports

\* A sequence with one more element.
LEMMA OneLonger ==
  ASSUME NEW S, NEW s \in Seq(S), NEW x \in S
  PROVE  /\ Append(s, x) \in [1..(Len(s) + 1) -> S] /\ Append(s, x)[Len(s) + 1] = x
         /\ \A u \in 1..Len(s) : Append(s, x)[u] = s[u]
<1>1. Append(s, x) \in Seq(S) /\ Len(Append(s, x)) = Len(s) + 1
  OBVIOUS
<1>2. Append(s, x) \in [1..Len(Append(s, x)) -> S]
  BY <1>1, LenProperties
<1>3. Append(s, x)[Len(s) + 1] = x /\ \A u \in 1..Len(s) : Append(s, x)[u] = s[u]
  OBVIOUS
<1>. QED  BY <1>1, <1>2, <1>3

\* A step keeps the counts right.
LEMMA DropStep == ASSUME SdkInv, ItemInv, DropInv, SdkNext PROVE DropInv'
<1>1. ASSUME sdkLog' = sdkLog, sdkInits' = sdkInits, sdkNow' \in Nat, sdkNow <= sdkNow' PROVE DropInv'
  <2>1. sdkDrops' = sdkDrops /\ sdkLost' = sdkLost /\ sdkPrinted' = sdkPrinted /\ sdkNow' \in Nat \ {0}
    BY <1>1 DEF sdkLog, DropInv, DropTypes
  <2>2. ASSUME NEW t \in 1..sdkInits, NEW k \in SdkKeys PROVE KeyInv(sdkDrops[t][k], sdkPrinted[t][k])'
    <3>1. KeyInv(sdkDrops[t][k], sdkPrinted[t][k]) /\ sdkNow \in Nat
      BY DEF DropInv, DropTypes
    <3>2. sdkDrops[t][k].last <= sdkNow'
      BY <1>1, <3>1 DEF KeyInv, KeyState, LinesInv
    <3>. QED  BY <2>1, <3>1, <3>2 DEF KeyInv, LinesInv
  <2>3. DropTypes' /\ LostInv'
    BY <1>1, <2>1 DEF DropInv, DropTypes, LostInv
  <2>. QED  BY <1>1, <2>2, <2>3 DEF DropInv
<1>i. ASSUME NEW t \in 1..sdkInits PROVE ToSet(sdkT[t].queue) \subseteq SdkItem /\ sdkT[t].sending \in Nat /\ sdkT[t].checkins \subseteq SdkItem
  <2>1. sdkT[t] \in Transport
    BY DEF SdkInv, SdkTypes
  <2>. QED  BY <2>1, QueueItems DEF Transport
<1>2. ASSUME NEW t \in 1..sdkInits, RunSends(t) PROVE DropInv'
  <2>1. /\ sdkT[t].sending \notin sdkLost /\ sdkT[t].sending \in SdkItem /\ sdkNow' = sdkNow /\ sdkNow \in Nat
        /\ sdkInits' = sdkInits
    BY <1>2, <1>i DEF RunSends, ItemInv, Held, DropInv, DropTypes, SdkItem
  <2>2. sdkNow <= sdkNow
    BY <2>1
  <2>3. CASE Accepted(sdkT[t].sending)
    BY <1>1, <2>1, <2>2, <2>3 DEF Accepted
  <2>4. CASE \E reason \in SdkReasons : Record(t, "event", sdkT[t].sending, reason)
    BY <2>1, <2>4, DropCounted
  <2>. QED  BY <1>2, <2>3, <2>4 DEF RunSends
<1>3. ASSUME NEW t \in 1..sdkInits, NEW i \in 1..SdkMaxItems, CheckInSent(t, i) PROVE DropInv'
  <2>1. i \notin sdkLost /\ i \in SdkItem /\ sdkNow' = sdkNow /\ sdkNow \in Nat /\ sdkInits' = sdkInits
    BY <1>3, <1>i DEF CheckInSent, ItemInv, Held, DropInv, DropTypes
  <2>2. sdkNow <= sdkNow
    BY <2>1
  <2>3. CASE Accepted(i)
    BY <1>1, <2>1, <2>2, <2>3 DEF Accepted
  <2>4. CASE \E reason \in SdkReasons : Record(t, "check-in", i, reason)
    BY <2>1, <2>4, DropCounted
  <2>. QED  BY <1>3, <2>3, <2>4 DEF CheckInSent
<1>4. CASE SdkTick
  <2>1. sdkNow' = sdkNow + 1 /\ sdkNow \in Nat /\ sdkLog' = sdkLog /\ sdkInits' = sdkInits
    BY <1>4 DEF SdkTick, DropInv, DropTypes, sdkLog
  <2>2. sdkNow + 1 \in Nat /\ sdkNow <= sdkNow + 1
    BY <2>1
  <2>. QED  BY <1>1, <2>1, <2>2
<1>5. ASSUME sdkLog' = sdkLog, sdkInits' = sdkInits, sdkNow' = sdkNow PROVE DropInv'
  <2>1. sdkNow \in Nat /\ sdkNow <= sdkNow
    BY DEF DropInv, DropTypes
  <2>. QED  BY <1>1, <1>5, <2>1
<1>6. ASSUME NEW c \in SdkCallers, CallBegins(c) \/ EnqueueEvent(c) \/ EnqueuePanics(c) \/ CheckInBegins(c) PROVE DropInv'
  BY <1>5, <1>6 DEF CallBegins, EnqueueEvent, EnqueuePanics, CheckInBegins
<1>7. ASSUME NEW t \in 1..sdkInits, RunTakes(t) \/ RunReturns(t) PROVE DropInv'
  BY <1>5, <1>7 DEF RunTakes, RunReturns
<1>8. CASE FlushBegins \/ FlushTrue \/ ShutdownBegins \/ ShutdownTrue \/ GivesUp \/ InitBegins
  BY <1>5, <1>8 DEF FlushBegins, FlushTrue, ShutdownBegins, ShutdownTrue, GivesUp, InitBegins
<1>9. CASE InitDone
  <2>1. /\ sdkInits \in Nat /\ sdkInits' = sdkInits + 1 /\ sdkNow' = sdkNow /\ sdkLost' = sdkLost
        /\ sdkDrops' = Append(sdkDrops, FreshLog) /\ sdkPrinted' = Append(sdkPrinted, NoLines)
    BY <1>9 DEF InitDone, SdkInv, SdkTypes
  <2>2. /\ sdkDrops \in Seq([SdkKeys -> KeyState]) /\ Len(sdkDrops) = sdkInits
        /\ sdkPrinted \in Seq([SdkKeys -> KeyHistory]) /\ Len(sdkPrinted) = sdkInits
    BY <2>1 DEF DropInv, DropTypes
  <2>3. FreshLog \in [SdkKeys -> KeyState] /\ NoLines \in [SdkKeys -> KeyHistory]
    <3>1. <<>> \in Seq(Nat \ {0}) /\ 0 \in Nat /\ {} \in SUBSET SdkItem
      OBVIOUS
    <3>. QED  BY <3>1 DEF FreshLog, NoLines, KeyState, KeyHistory
  <2>4. /\ sdkDrops' \in [1..(sdkInits + 1) -> [SdkKeys -> KeyState]]
        /\ sdkPrinted' \in [1..(sdkInits + 1) -> [SdkKeys -> KeyHistory]]
        /\ sdkDrops'[sdkInits + 1] = FreshLog /\ sdkPrinted'[sdkInits + 1] = NoLines
        /\ \A u \in 1..sdkInits : sdkDrops'[u] = sdkDrops[u] /\ sdkPrinted'[u] = sdkPrinted[u]
    <3>1. /\ Append(sdkDrops, FreshLog) \in [1..(sdkInits + 1) -> [SdkKeys -> KeyState]]
          /\ Append(sdkDrops, FreshLog)[sdkInits + 1] = FreshLog
          /\ \A u \in 1..sdkInits : Append(sdkDrops, FreshLog)[u] = sdkDrops[u]
      BY <2>2, <2>3, OneLonger
    <3>2. /\ Append(sdkPrinted, NoLines) \in [1..(sdkInits + 1) -> [SdkKeys -> KeyHistory]]
          /\ Append(sdkPrinted, NoLines)[sdkInits + 1] = NoLines
          /\ \A u \in 1..sdkInits : Append(sdkPrinted, NoLines)[u] = sdkPrinted[u]
      BY <2>2, <2>3, OneLonger
    <3>. QED  BY <2>1, <3>1, <3>2
  <2>5. \A u \in 1..(sdkInits + 1) : u \in 1..sdkInits \/ u = sdkInits + 1
    BY <2>1
  <2>6. \A u \in 1..sdkInits : u \in 1..(sdkInits + 1)
    BY <2>1
  <2>7. ASSUME NEW k \in SdkKeys PROVE KeyInv(FreshLog[k], NoLines[k]) /\ NoLines[k].lost = {}
    <3>1. FreshLog[k].last = 0 /\ FreshLog[k].count = 0 /\ NoLines[k].at = <<>> /\ NoLines[k].count = 0 /\ NoLines[k].lost = {}
      BY DEF FreshLog, NoLines
    <3>2. FreshLog[k] \in KeyState /\ NoLines[k] \in KeyHistory /\ 0 <= sdkNow
      BY <2>3 DEF DropInv, DropTypes
    <3>3. LinesInv(NoLines[k].at, FreshLog[k].last)
      BY <3>1, <3>2 DEF LinesInv
    <3>4. IsFiniteSet({}) /\ Cardinality({}) = 0
      BY FS_EmptySet
    <3>. QED  BY <3>1, <3>2, <3>3, <3>4 DEF KeyInv
  <2>8. ASSUME NEW u \in 1..(sdkInits + 1), NEW k \in SdkKeys PROVE KeyInv(sdkDrops'[u][k], sdkPrinted'[u][k])
    BY <2>4, <2>5, <2>7 DEF DropInv
  <2>9. ASSUME NEW u \in 1..(sdkInits + 1), NEW k \in SdkKeys PROVE KeyInv(sdkDrops[u][k], sdkPrinted[u][k])'
    BY <2>1, <2>8 DEF KeyInv, LinesInv
  <2>10. /\ \A u \in 1..sdkInits, l \in SdkKeys : sdkPrinted[u][l].lost \subseteq sdkLost
         /\ \A u, v \in 1..sdkInits : \A l, m \in SdkKeys :
              <<u, l>> # <<v, m>> => sdkPrinted[u][l].lost \cap sdkPrinted[v][m].lost = {}
         /\ \A y \in sdkLost : \E u \in 1..sdkInits, l \in SdkKeys : y \in sdkPrinted[u][l].lost
    BY DEF DropInv, LostInv
  <2>11. \A u \in 1..(sdkInits + 1), l \in SdkKeys : sdkPrinted'[u][l].lost \subseteq sdkLost
    BY <2>4, <2>5, <2>7, <2>10
  <2>12. ASSUME NEW u \in 1..(sdkInits + 1), NEW v \in 1..(sdkInits + 1), NEW l \in SdkKeys, NEW m \in SdkKeys,
                <<u, l>> # <<v, m>>
         PROVE  sdkPrinted'[u][l].lost \cap sdkPrinted'[v][m].lost = {}
    <3>1. CASE u \in 1..sdkInits /\ v \in 1..sdkInits
      BY <2>4, <2>10, <2>12, <3>1
    <3>2. CASE u = sdkInits + 1 \/ v = sdkInits + 1
      BY <2>4, <2>7, <3>2
    <3>. QED  BY <2>5, <3>1, <3>2
  <2>13. \A y \in sdkLost : \E u \in 1..(sdkInits + 1), l \in SdkKeys : y \in sdkPrinted'[u][l].lost
    BY <2>4, <2>6, <2>10
  <2>14. LostInv'
    BY <2>1, <2>11, <2>12, <2>13 DEF LostInv
  <2>15. DropTypes'
    BY <2>1, <2>4 DEF DropInv, DropTypes
  <2>. QED  BY <2>1, <2>9, <2>14, <2>15 DEF DropInv
<1>. QED  BY <1>2, <1>3, <1>4, <1>6, <1>7, <1>8, <1>9 DEF SdkNext, Transports

\* Nothing was dropped yet.
LEMMA DropInitInv == SdkInit => ItemInv /\ DropInv
<1>. SUFFICES ASSUME SdkInit PROVE ItemInv /\ DropInv
  OBVIOUS
<1>1. sdkInits = 0 /\ sdkNow = 1 /\ sdkDrops = <<>> /\ sdkPrinted = <<>> /\ sdkLost = {}
  BY DEF SdkInit
<1>2. ItemInv /\ LostInv
  BY <1>1 DEF ItemInv, LostInv
<1>3. DropTypes
  BY <1>1 DEF DropTypes
<1>. QED  BY <1>1, <1>2, <1>3 DEF DropInv

\* What is waited for is settled when the wait ends.
LEMMA SettledWhenDrained == SdkInv => DrainedMeansSettled
<1>. SUFFICES ASSUME SdkInv PROVE DrainedMeansSettled
  OBVIOUS
<1>1. ASSUME sdkControl.pc = "flushed" PROVE Cardinality(StillDue) <= 1
  <2>. DEFINE x == sdkT[sdkControl.t].sending
  <2>1. StillDue \subseteq {x}
    BY <1>1 DEF SdkInv, WaitInv
  <2>2. IsFiniteSet({x}) /\ Cardinality({x}) = 1
    BY FS_Singleton
  <2>3. Cardinality(StillDue) <= Cardinality({x})
    BY <2>1, <2>2, FS_Subset
  <2>. QED  BY <2>2, <2>3
<1>2. sdkControl.pc = "stopped" => StillDue = {}
  BY DEF SdkInv, WaitInv
<1>. QED  BY <1>1, <1>2 DEF DrainedMeansSettled, StillDue

\* A Shutdown that returns true settled everything, a Flush all but the event that
\* was being sent, and every drop is in the log of the transport that had the item, on
\* stderr or in the count of its key, one line per key and DropEvery: for every size of
\* the queue, any number of goroutines that capture and check in and any number of
\* transports, each with a log of its own.
THEOREM NothingDropsSilently == SdkSpec => []EventsAccounted
<1>. DEFINE I == SdkInv /\ ItemInv /\ DropInv
<1>1. I => EventsAccounted
  <2>. SUFFICES ASSUME I PROVE EventsAccounted
    OBVIOUS
  <2>1. DropsAccounted
    <3>1. Transports = 1..sdkInits
      BY DEF Transports
    <3>2. ASSUME NEW t \in 1..sdkInits, NEW k \in SdkKeys
          PROVE  LET printed == sdkPrinted[t][k].at
                 IN /\ \A i, j \in DOMAIN printed : i < j => printed[j] - printed[i] >= DropEvery
                    /\ Counted(t, k) = Cardinality(sdkPrinted[t][k].lost)
      BY DEF DropInv, KeyInv, LinesInv, Counted
    <3>3. /\ \A t, u \in 1..sdkInits : \A k, l \in SdkKeys :
               <<t, k>> # <<u, l>> => sdkPrinted[t][k].lost \cap sdkPrinted[u][l].lost = {}
          /\ sdkLost = UNION {sdkPrinted[t][k].lost : t \in 1..sdkInits, k \in SdkKeys}
      BY DEF DropInv, LostInv
    <3>. QED  BY <3>1, <3>2, <3>3 DEF DropsAccounted
  <2>. QED  BY <2>1, SettledWhenDrained DEF EventsAccounted
<1>2. I /\ [SdkNext]_sdkVars => I'
  <2>1. I /\ UNCHANGED sdkVars => I'
    <3>. SUFFICES ASSUME I, UNCHANGED sdkVars PROVE I'
      OBVIOUS
    <3>. USE DEF sdkVars
    <3>1. SdkInv'
      BY DEF SdkInv, SdkTypes, RunInv, WaitInv, StillDue, Unsettled
    <3>2. ItemInv'
      BY SameHolders
    <3>3. DropInv'
      BY DEF DropInv, DropTypes, LostInv, KeyInv, LinesInv
    <3>. QED  BY <3>1, <3>2, <3>3
  <2>. QED  BY <2>1, SdkStep, ItemStep, DropStep
<1>3. SdkInit => I
  BY SdkInitInv, DropInitInv
<1>. QED  BY <1>1, <1>2, <1>3, PTL DEF SdkSpec

----------------------------------------------------------------------------
(* Projects pending approval                                               *)

Projects == 1..(nextId - 1)
Rows == held \cup UNION {batch[a] : a \in Approvals}
RowType == [id : Nat, proj : Nat, rec : Records, late : BOOLEAN]

\* the stages in which an actor has a record in hand
Handling == {"resolve", "create", "hold", "persist", "forget"}

ActorType ==
  [pc : {"idle", "lookup", "list", "next", "ack"} \cup Handling, rec : Records \cup {None},
   pid : Int, attempt : Int, slug : Slugs \cup {None}, drains : Int]

\* Rows keep their ids wherever they are, and name projects that were created.
RowsOk ==
  /\ nextRow \in Nat \ {0}
  /\ \A row \in Rows : row \in RowType /\ row.id \in 1..(nextRow - 1) /\ row.proj \in Projects
  /\ \A x, y \in Rows : x.id = y.id => x = y
  /\ replayed \in Seq(RowType) /\ \A i \in 1..Len(replayed) : replayed[i].id < nextRow

\* A project that is gone was deleted or merged, and ids are not given again.
ProjectsOk ==
  /\ \A r \in Records, p \in {Default} \cup Ids : stored[r][p] > 0 => p \in {Default} \cup Projects
  /\ \A p \in Projects : p \in DOMAIN projects \cup deleted \cup merged
  /\ del.pc # "idle" => del.pid \in deleted /\ del.pid \in Projects

\* The consumer has the record it took last, or none.
ConsumerOk(h, n) ==
  /\ h.pc \in {"idle", "resolve", "create", "hold", "persist", "ack"}
  /\ IF h.pc = "idle" THEN h.rec = None ELSE h.rec = n /\ n > 0
  /\ h.drains = None

\* An approval that drains a project has the oldest row of its batch in hand.
ApprovalOk(h, rows) ==
  /\ h.pc # "ack"
  /\ h.pc = "idle" => h = Idle
  /\ h.pc = "lookup" => h.pid \in Projects
  /\ IF h.pc \in {"idle", "lookup"} THEN h.drains = None ELSE h.drains \in Projects
  /\ h.pc \in {"next"} \cup Handling <=> rows # {}
  /\ h.pc \in Handling => h.rec = Oldest(rows).rec
  /\ h.pc \in {"resolve", "create", "hold"} => h.rec \notin Logs
  /\ \A row \in rows : row.proj = h.drains

TargetOk(h) ==
  /\ h.pc = "hold" => h.pid \in Projects
  /\ h.pc = "persist" => h.pid \in {Default} \cup Projects

ActorsOk ==
  /\ at \in [Actors -> ActorType] /\ batch \in [Approvals -> SUBSET RowType]
  /\ ConsumerOk(at[Consumer], taken)
  /\ \A a \in Approvals : ApprovalOk(at[a], batch[a])
  /\ \A a \in Actors : TargetOk(at[a])

ApTypes ==
  /\ TypeOK /\ slugOf \in [Records -> Slugs] /\ faults \in Nat /\ overlap \in BOOLEAN
  /\ RowsOk /\ ProjectsOk /\ ActorsOk

\* What may put data into a project found it active, or it was merged or taken for another.
Open(p) == p \in DOMAIN projects /\ projects[p].status = "pending" => p \in merged \cup misdrained
HeldBack ==
  /\ \A r \in Records, p \in Projects : stored[r][p] > 0 => Open(p)
  /\ \A a \in Actors : at[a].pc \in {"persist", "lookup"} => Open(at[a].pid)
  /\ \A a \in Approvals : Open(at[a].drains)

\* A record that was acted on is stored, parked in a row after n or went with its project.
Stored(r) == \E p \in {Default} \cup Ids : stored[r][p] > 0
Safe(r, n) == r \in discarded \/ Stored(r) \/ \E x \in held : x.rec = r /\ x.id > n
InHand(r) == r > taken \/ (at[Consumer].rec = r /\ at[Consumer].pc # "ack")
KeptRecords ==
  /\ \A r \in Records : InHand(r) \/ r \in dropped \/ Safe(r, 0)
  /\ \A a \in Approvals : at[a].pc = "forget" => Safe(at[a].rec, Oldest(batch[a]).id)

\* A row parked in time for an active project is drained, or that was given up.
Served(p) == \E a \in Approvals : at[a].drains = p \/ (at[a].pc = "lookup" /\ at[a].pid = p)
Active(p) == p \in DOMAIN projects /\ projects[p].status = "active"
DrainedOk == \A row \in held : Active(row.proj) /\ ~row.late => row.proj \in undrained \/ Served(row.proj)

\* Approvals of one project overlap or do not meet.
OneDrain ==
  ~overlap => \A a, b \in Approvals : at[a].drains = at[b].drains /\ at[a].drains # None => a = b

\* Without failures a record is in one place: on the queue or in hand, in one row
\* that is still to be replayed, or stored once.
StillParked(x) == ~ \E a \in Approvals : at[a].pc = "forget" /\ Oldest(batch[a]) = x
Once ==
  faults = 0 /\ ~overlap =>
    /\ \A x, y \in Rows : StillParked(x) /\ StillParked(y) /\ x.rec = y.rec => x = y
    /\ \A x \in Rows : StillParked(x) => ~InHand(x.rec) /\ ~Stored(x.rec)
    /\ \A r \in Records : Stored(r) => ~InHand(r)
    /\ \A r \in Records, p \in {Default} \cup Ids : stored[r][p] <= 1
    /\ \A r \in Records, p, q \in {Default} \cup Ids : stored[r][p] > 0 /\ stored[r][q] > 0 => p = q

\* A batch holds the oldest rows of its project; what it holds and the table no
\* longer does was replayed, and what was not replayed is younger than what was.
Mixed(p) == overlap /\ p \in deleted \cup reparked
InOrder ==
  /\ \A a \in Approvals : \A y \in batch[a], x \in held :
        x.proj = y.proj /\ x.id < y.id => x \in batch[a]
  /\ \A a \in Approvals : \A y \in batch[a] :
        ReplayedRow(y) \/ y \in held \/ y.proj \in deleted \cup reparked
  /\ \A a \in Approvals : at[a].pc = "forget" =>
        ReplayedRow(Oldest(batch[a])) \/ at[a].drains \in reparked
  /\ \A x \in Rows : ~ReplayedRow(x) /\ ~Mixed(x.proj) =>
        \A i \in 1..Len(replayed) : replayed[i].proj = x.proj => replayed[i].id < x.id
  /\ ReplayedInOrder

ApInv == ApTypes /\ HeldBack /\ KeptRecords /\ DrainedOk /\ OneDrain /\ Once /\ InOrder

\* The oldest of some rows is one of them.
LEMMA OldestRow ==
  ASSUME NEW S \in SUBSET RowType, S # {}
  PROVE  Oldest(S) \in S /\ \A y \in S : Oldest(S).id <= y.id
<1>1. DEFINE T == {row.id : row \in S}
<1>2. T \in SUBSET Nat /\ T # {}
  BY DEF RowType
<1>3. PICK n \in T : \A m \in T : ~(<<m, n>> \in OpToRel(<, Nat))
  BY <1>2, NatLessThanWellFounded, WFMin
<1>4. PICK x \in S : x.id = n
  OBVIOUS
<1>5. ASSUME NEW y \in S, ~(x.id <= y.id) PROVE FALSE
  <2>1. <<y.id, n>> \in Nat \X Nat /\ y.id < n
    BY <1>4, <1>5 DEF RowType
  <2>2. <<y.id, n>> \in OpToRel(<, Nat)
    BY <2>1 DEF OpToRel
  <2> QED
    BY <1>3, <2>2
<1> QED
  BY <1>5 DEF Oldest

\* A slug finds the one project that has it.
LEMMA SlugFinds ==
  ASSUME TypeOK
  PROVE  /\ \A s : ProjectBySlug(s) = None \/ ProjectBySlug(s) \in DOMAIN projects
         /\ \A s : ProjectBySlug(s) # None => projects[ProjectBySlug(s)].slug = s
         /\ \A p \in DOMAIN projects : ProjectBySlug(projects[p].slug) = p
         /\ \A s : Resolve(s) = None \/ Resolve(s) \in DOMAIN projects
         /\ None \notin DOMAIN projects
<1>1. None \notin DOMAIN projects
  BY DEF TypeOK, None
<1>2. ASSUME NEW s, \E p \in DOMAIN projects : projects[p].slug = s
      PROVE  ProjectBySlug(s) \in DOMAIN projects /\ projects[ProjectBySlug(s)].slug = s
  BY <1>2 DEF ProjectBySlug
<1>3. \A s : ProjectBySlug(s) = None \/ (ProjectBySlug(s) \in DOMAIN projects /\ projects[ProjectBySlug(s)].slug = s)
  BY <1>2 DEF ProjectBySlug
<1>4. ASSUME NEW p \in DOMAIN projects PROVE ProjectBySlug(projects[p].slug) = p
  <2>1. ProjectBySlug(projects[p].slug) \in DOMAIN projects
        /\ projects[ProjectBySlug(projects[p].slug)].slug = projects[p].slug
    BY <1>2
  <2>. QED  BY <2>1 DEF TypeOK
<1>5. ASSUME NEW s PROVE Resolve(s) = None \/ Resolve(s) \in DOMAIN projects
  BY <1>3 DEF Resolve
<1>. QED  BY <1>1, <1>3, <1>4, <1>5

\* The smaller of two integers.
LEMMA MinTwo ==
  ASSUME NEW m \in Int, NEW n \in Int
  PROVE  Min({m, n}) = IF m <= n THEN m ELSE n
<1> DEFINE P(x) == x \in {m, n} /\ \A y \in {m, n} : x <= y
<1>1. P(IF m <= n THEN m ELSE n) /\ \A x : P(x) => x = IF m <= n THEN m ELSE n
  OBVIOUS
<1>2. P(CHOOSE x : P(x))
  BY <1>1
<1>3. Min({m, n}) = CHOOSE x : P(x)
  BY DEF Min
<1> QED
  BY <1>1, <1>2, <1>3

Frame == UNCHANGED <<slugOf, projects, nextId, aliases, held, nextRow, stored, del, deleted, merged, replayed>>

Shrink ==
  /\ UNCHANGED <<slugOf, projects, nextId, aliases, nextRow, stored, del, deleted, merged, replayed>>
  /\ held' \subseteq held

\* An actor moves on and the tables stay: the types hold if they do for that actor.
LEMMA ConsumerMoves ==
  ASSUME ApTypes, Frame, UNCHANGED <<batch, overlap>>, faults' \in Nat,
         dropped' \subseteq Records, taken' \in 0..MaxRecords,
         NEW h \in ActorType, at' = [at EXCEPT ![Consumer] = h], ConsumerOk(h, taken'), TargetOk(h)
  PROVE  ApTypes'
<1>1. at' \in [Actors -> ActorType] /\ at'[Consumer] = h
      /\ \A a \in Actors \ {Consumer} : at'[a] = at[a]
  BY DEF ApTypes, ActorsOk, Actors
<1>2. Consumer \notin Approvals
  BY ApprovalAssumption
<1>3. TypeOK' /\ slugOf' \in [Records -> Slugs]
  BY DEF ApTypes, TypeOK, Frame
<1>4. RowsOk' /\ ProjectsOk'
  BY DEF ApTypes, RowsOk, ProjectsOk, Rows, Projects, Frame
<1>5. ActorsOk'
  <2>1. ConsumerOk(at[Consumer], taken)'
    BY <1>1 DEF ConsumerOk
  <2>2. ASSUME NEW a \in Approvals PROVE ApprovalOk(at[a], batch[a])'
    <3>1. at'[a] = at[a] /\ ApprovalOk(at[a], batch[a])
      BY <1>1, <1>2 DEF ApTypes, ActorsOk, Actors
    <3>. QED  BY <3>1 DEF ApprovalOk, Projects, Frame
  <2>3. ASSUME NEW a \in Actors PROVE TargetOk(at[a])'
    BY <1>1 DEF ApTypes, ActorsOk, TargetOk, Projects, Frame
  <2>. QED  BY <1>1, <2>1, <2>2, <2>3 DEF ApTypes, ActorsOk
<1>. QED  BY <1>3, <1>4, <1>5 DEF ApTypes

\* An approval that goes on within its stages keeps the types.
LEMMA ApprovalMoves ==
  ASSUME ApTypes, Shrink, UNCHANGED <<dropped, taken>>, faults' \in Nat, overlap' \in BOOLEAN,
         NEW a \in Approvals, NEW h \in ActorType, at' = [at EXCEPT ![a] = h],
         NEW rows \in SUBSET Rows, batch' = [batch EXCEPT ![a] = rows],
         ApprovalOk(h, rows), TargetOk(h)
  PROVE  ApTypes' /\ Rows' \subseteq Rows
<1>1. at' \in [Actors -> ActorType] /\ at'[a] = h /\ \A b \in Actors \ {a} : at'[b] = at[b]
  BY DEF ApTypes, ActorsOk, Actors
<1>2. rows \subseteq RowType
  BY DEF ApTypes, RowsOk
<1>3. batch' \in [Approvals -> SUBSET RowType] /\ batch'[a] = rows
      /\ \A b \in Approvals \ {a} : batch'[b] = batch[b]
  BY <1>2 DEF ApTypes, ActorsOk
<1>4. TypeOK' /\ slugOf' \in [Records -> Slugs]
  BY DEF ApTypes, TypeOK, Shrink
<1>5. Rows' \subseteq Rows
  BY <1>3 DEF Rows, Shrink
<1>6. RowsOk'
  BY <1>5 DEF ApTypes, RowsOk, Projects, Shrink
<1>7. ProjectsOk'
  BY DEF ApTypes, ProjectsOk, Projects, Shrink
<1>8. ActorsOk'
  <2>1. ConsumerOk(at[Consumer], taken)'
    BY <1>1, ApprovalAssumption DEF ApTypes, ActorsOk, ConsumerOk, Actors
  <2>2. ASSUME NEW b \in Approvals PROVE ApprovalOk(at[b], batch[b])'
    <3>1. CASE b = a
      BY <3>1, <1>1, <1>3 DEF ApprovalOk, Projects, Shrink
    <3>2. CASE b # a
      <4>1. at'[b] = at[b] /\ batch'[b] = batch[b] /\ ApprovalOk(at[b], batch[b])
        BY <3>2, <1>1, <1>3 DEF ApTypes, ActorsOk, Actors
      <4>. QED  BY <4>1 DEF ApprovalOk, Projects, Shrink
    <3>. QED  BY <3>1, <3>2
  <2>3. ASSUME NEW b \in Actors PROVE TargetOk(at[b])'
    BY <1>1 DEF ApTypes, ActorsOk, TargetOk, Projects, Shrink
  <2>. QED  BY <1>1, <1>3, <2>1, <2>2, <2>3 DEF ApTypes, ActorsOk
<1>. QED  BY <1>4, <1>5, <1>6, <1>7, <1>8 DEF ApTypes

Safely == /\ UNCHANGED <<misdrained, discarded, reparked>>
          /\ faults' \in Nat /\ (faults' = 0 => faults = 0)

\* The steps between taking a record up and its outcome, failures that are tried
\* again and events sent to the default project among them.
LEMMA HandProceeds ==
  ASSUME ApInv, Frame, Safely, UNCHANGED <<batch, overlap, undrained, dropped, taken>>,
         NEW a \in Actors, NEW h \in ActorType, at' = [at EXCEPT ![a] = h],
         at[a].pc \in {"next", "resolve", "create", "hold", "persist"},
         h.pc \in {"resolve", "create", "hold", "persist"}, h.drains = at[a].drains,
         a = Consumer => h.rec = at[a].rec,
         a \in Approvals => ApprovalOk(h, batch[a]),
         TargetOk(h), h.pc = "persist" => Open(h.pid)
  PROVE  ApInv'
<1>1. at' \in [Actors -> ActorType] /\ at'[a] = h /\ \A b \in Actors \ {a} : at'[b] = at[b]
  BY DEF ApInv, ApTypes, ActorsOk, Actors
<1>2. /\ \A b \in Actors : at'[b].drains = at[b].drains /\ (at'[b].pc = "forget" <=> at[b].pc = "forget")
      /\ \A b \in Actors : (at'[b].pc = "lookup" <=> at[b].pc = "lookup")
      /\ \A b \in Actors : at'[b].pc \in {"forget", "lookup"} => at'[b] = at[b]
      /\ at'[Consumer].rec = at[Consumer].rec /\ (at'[Consumer].pc = "ack" <=> at[Consumer].pc = "ack")
  BY <1>1 DEF Actors
<1>3. Rows' = Rows /\ \A r : InHand(r)' = InHand(r) /\ Stored(r)' = Stored(r)
  BY <1>2 DEF Rows, InHand, Stored, Frame
<1>4. \A x : StillParked(x)' = StillParked(x)
  BY <1>2 DEF StillParked, Actors
<1>5. ApTypes'
  <2>1. CASE a = Consumer
    <3>1. ConsumerOk(h, taken)
      BY <2>1 DEF ApInv, ApTypes, ActorsOk, ConsumerOk
    <3>2. dropped' \subseteq Records /\ taken' \in 0..MaxRecords
      BY DEF ApInv, ApTypes, TypeOK
    <3>. QED  BY <2>1, <3>1, <3>2, ConsumerMoves DEF ApInv, Safely, ConsumerOk
  <2>2. CASE a \in Approvals
    <3>1. batch' = [batch EXCEPT ![a] = batch[a]] /\ batch[a] \subseteq Rows
      BY <2>2 DEF ApInv, ApTypes, ActorsOk, Rows
    <3>. QED  BY <2>2, <3>1, ApprovalMoves DEF Frame, Shrink, ApInv, ApTypes, Safely
  <2>. QED  BY <2>1, <2>2 DEF Actors
<1>6. HeldBack'
  <2>1. \A p : Open(p)' = Open(p)
    BY DEF Open, Frame, Safely
  <2>. QED  BY <1>1, <1>2, <2>1 DEF ApInv, HeldBack, Frame, Projects, Actors
<1>7. KeptRecords'
  BY <1>2, <1>3 DEF ApInv, KeptRecords, Safe, Frame, Safely, Actors
<1>8. DrainedOk' /\ OneDrain'
  BY <1>2 DEF ApInv, DrainedOk, OneDrain, Served, Active, Frame, Actors
<1>9. Once'
  BY <1>3, <1>4 DEF ApInv, Once, Safely, Frame
<1>10. InOrder'
  <2>1. \A x : ReplayedRow(x)' = ReplayedRow(x) /\ \A p : Mixed(p)' = Mixed(p)
    BY DEF ReplayedRow, Mixed, Frame, Safely
  <2>. QED  BY <1>2, <1>3, <2>1 DEF ApInv, InOrder, ReplayedInOrder, Frame, Safely, Actors
<1>. QED  BY <1>5, <1>6, <1>7, <1>8, <1>9, <1>10 DEF ApInv

\* The consumer is done with its record: it was acknowledged, or dropped with an error.
LEMMA ConsumerEnds ==
  ASSUME ApInv, Frame, Safely, UNCHANGED <<batch, overlap, undrained, taken>>,
         at' = [at EXCEPT ![Consumer] = Idle], at[Consumer].pc # "idle",
         dropped' = IF at[Consumer].pc = "ack" THEN dropped ELSE dropped \cup {at[Consumer].rec}
  PROVE  ApInv'
<1>1. at' \in [Actors -> ActorType] /\ at'[Consumer] = Idle /\ \A b \in Approvals : at'[b] = at[b]
  BY ApprovalAssumption DEF ApInv, ApTypes, ActorsOk, Actors, Idle, ActorType, None
<1>2. Rows' = Rows /\ (\A x : StillParked(x)' = StillParked(x)) /\ \A r : Stored(r)' = Stored(r)
  BY <1>1 DEF Rows, StillParked, Stored, Frame
<1>3. \A r \in Records : (InHand(r)' => InHand(r)) /\ (InHand(r) => InHand(r)' \/ r \in dropped')
  BY <1>1 DEF InHand, Idle, None, Records
<1>4. dropped' \subseteq Records /\ dropped \subseteq dropped' /\ taken' \in 0..MaxRecords
  <2>1. at[Consumer].rec \in 1..MaxRecords /\ dropped \subseteq 1..MaxRecords /\ taken \in 0..MaxRecords
    BY DEF ApInv, ApTypes, TypeOK, ActorsOk, ConsumerOk, Records
  <2>. QED  BY <2>1 DEF Records
<1>5. ApTypes'
  <2>1. ConsumerOk(Idle, taken') /\ TargetOk(Idle) /\ Idle \in ActorType
    BY DEF ConsumerOk, TargetOk, Idle, ActorType, None
  <2>. QED  BY <1>4, <2>1, ConsumerMoves DEF ApInv, Safely
<1>6. HeldBack'
  <2>1. \A p : Open(p)' = Open(p)
    BY DEF Open, Frame, Safely
  <2>. QED  BY <1>1, <2>1 DEF ApInv, HeldBack, Frame, Projects, Actors, Idle
<1>7. KeptRecords'
  BY <1>1, <1>2, <1>3, <1>4 DEF ApInv, KeptRecords, Safe, Frame, Safely
<1>8. DrainedOk' /\ OneDrain'
  BY <1>1 DEF ApInv, DrainedOk, OneDrain, Served, Active, Frame
<1>9. Once'
  <2>1. \A x \in Rows : x.rec \in Records
    BY DEF ApInv, ApTypes, RowsOk, RowType
  <2>. QED  BY <1>2, <1>3, <2>1 DEF ApInv, Once, Safely, Frame
<1>10. InOrder'
  <2>1. \A x : ReplayedRow(x)' = ReplayedRow(x) /\ \A p : Mixed(p)' = Mixed(p)
    BY DEF ReplayedRow, Mixed, Frame, Safely
  <2>. QED  BY <1>1, <1>2, <2>1 DEF ApInv, InOrder, ReplayedInOrder, Frame, Safely
<1>. QED  BY <1>5, <1>6, <1>7, <1>8, <1>9, <1>10 DEF ApInv

\* An approval ends, and what it leaves parked for its project is known to be.
LEMMA ApprovalStops ==
  ASSUME ApInv, Frame, Safely, UNCHANGED <<overlap, taken, dropped>>,
         NEW a \in Approvals, at' = [at EXCEPT ![a] = Idle], batch' = [batch EXCEPT ![a] = {}],
         at[a].pc # "forget" \/ faults' > 0, undrained \subseteq undrained',
         \A row \in held : at[a].drains = row.proj \/ (at[a].pc = "lookup" /\ at[a].pid = row.proj)
                             => row.proj \in undrained'
  PROVE  ApInv'
<1>1. at' \in [Actors -> ActorType] /\ at'[a] = Idle /\ \A b \in Actors \ {a} : at'[b] = at[b]
  BY DEF ApInv, ApTypes, ActorsOk, Actors, Idle, ActorType, None
<1>2. /\ batch'[a] = {} /\ \A b \in Approvals \ {a} : batch'[b] = batch[b]
      /\ \A b \in Approvals : batch'[b] \subseteq batch[b]
  BY DEF ApInv, ApTypes, ActorsOk
<1>3. at'[Consumer] = at[Consumer] /\ \A r : InHand(r)' = InHand(r) /\ Stored(r)' = Stored(r)
  BY <1>1, ApprovalAssumption DEF InHand, Stored, Frame, Actors
<1>4. ApTypes' /\ Rows' \subseteq Rows
  <2>1. ApprovalOk(Idle, {}) /\ TargetOk(Idle) /\ Idle \in ActorType
    BY DEF ApprovalOk, TargetOk, Idle, ActorType, None, Handling
  <2>. QED  BY <2>1, ApprovalMoves DEF Frame, Shrink, ApInv, ApTypes, Safely
<1>5. HeldBack'
  <2>1. \A p : Open(p)' = Open(p)
    BY DEF Open, Frame, Safely
  <2>2. Open(None)
    BY SlugFinds DEF Open, ApInv, ApTypes
  <2>. QED  BY <1>1, <2>1, <2>2 DEF ApInv, HeldBack, Frame, Projects, Actors, Idle
<1>6. KeptRecords'
  <2>1. \A b \in Approvals : at'[b].pc = "forget" => b # a
    BY <1>1 DEF Idle
  <2>. QED  BY <1>1, <1>2, <1>3, <2>1 DEF ApInv, KeptRecords, Safe, Frame, Safely, Actors
<1>7. DrainedOk'
  <2>1. \A p : Served(p) => Served(p)' \/ at[a].drains = p \/ (at[a].pc = "lookup" /\ at[a].pid = p)
    BY <1>1 DEF Served, Actors
  <2>. QED  BY <2>1 DEF ApInv, DrainedOk, Active, Frame
<1>8. OneDrain'
  BY <1>1 DEF ApInv, OneDrain, Idle, Actors
<1>9. Once'
  <2>1. SUFFICES ASSUME faults' = 0 PROVE Once'
    BY DEF Once
  <2>2. \A x : StillParked(x)' => StillParked(x)
    BY <1>1, <1>2, <2>1 DEF StillParked, Actors, Safely
  <2>. QED  BY <1>3, <1>4, <2>1, <2>2 DEF ApInv, Once, Safely, Frame
<1>10. InOrder'
  <2>1. \A x : ReplayedRow(x)' = ReplayedRow(x) /\ \A p : Mixed(p)' = Mixed(p)
    BY DEF ReplayedRow, Mixed, Frame, Safely
  <2>2. \A b \in Approvals : at'[b].pc = "forget" => at'[b] = at[b] /\ batch'[b] = batch[b]
    BY <1>1, <1>2 DEF Idle, Actors
  <2>3. \A b \in Approvals : batch'[b] = batch[b] \/ batch'[b] = {}
    BY <1>2
  <2>. QED  BY <1>4, <2>1, <2>2, <2>3 DEF ApInv, InOrder, ReplayedInOrder, Frame, Safely
<1>. QED  BY <1>4, <1>5, <1>6, <1>7, <1>8, <1>9, <1>10 DEF ApInv

\* The consumer takes the next record off the queue: it is in its hand.
LEMMA TakeKeeps == ASSUME ApInv, Take PROVE ApInv'
<1>. DEFINE h == [Idle EXCEPT !.pc = "resolve", !.rec = taken + 1]
<1>1. /\ Frame /\ Safely /\ UNCHANGED <<batch, overlap, undrained, dropped>>
      /\ at' = [at EXCEPT ![Consumer] = h] /\ taken' = taken + 1 /\ at[Consumer].pc = "idle"
  <2>1. Frame /\ UNCHANGED <<batch, overlap, undrained, dropped>>
    BY DEF Take, Frame, db, history
  <2>2. Safely
    BY DEF Take, Safely, counters, history, ApInv, ApTypes
  <2>. QED  BY <2>1, <2>2 DEF Take
<1>2. taken' \in 1..MaxRecords /\ dropped' \subseteq Records
  BY <1>1, ApprovalAssumption DEF Take, ApInv, ApTypes, TypeOK
<1>3. h \in ActorType /\ h.pc = "resolve" /\ h.rec = taken' /\ h.drains = None
  <2>1. Idle \in ActorType /\ Idle.drains = None
    BY DEF Idle, ActorType, None
  <2>2. taken + 1 \in Records
    BY <1>1, <1>2 DEF Records
  <2>. QED  BY <1>1, <2>1, <2>2 DEF ActorType, Handling
<1>. HIDE DEF h
<1>4. at' \in [Actors -> ActorType] /\ at'[Consumer] = h /\ \A b \in Approvals : at'[b] = at[b]
  BY <1>1, <1>3, ApprovalAssumption DEF ApInv, ApTypes, ActorsOk, Actors
<1>5. Rows' = Rows /\ (\A x : StillParked(x)' = StillParked(x)) /\ \A r : Stored(r)' = Stored(r)
  BY <1>1, <1>4 DEF Rows, StillParked, Stored, Frame
<1>6. \A r \in Records : InHand(r)' = InHand(r)
  <2>1. at[Consumer].pc = "idle" /\ at[Consumer].rec = None
    BY <1>1 DEF ApInv, ApTypes, ActorsOk, ConsumerOk
  <2>2. taken \in Int /\ taken' = taken + 1
    BY <1>1 DEF ApInv, ApTypes, TypeOK
  <2>. QED  BY <1>3, <1>4, <2>1, <2>2 DEF InHand, None, Records
<1>7. ApTypes'
  <2>1. ConsumerOk(h, taken') /\ TargetOk(h)
    BY <1>2, <1>3 DEF ConsumerOk, TargetOk
  <2>2. taken' \in 0..MaxRecords
    BY <1>2
  <2>. QED  BY <1>1, <1>2, <1>3, <2>1, <2>2, ConsumerMoves DEF ApInv, Safely
<1>8. HeldBack'
  <2>1. \A p : Open(p)' = Open(p)
    BY <1>1 DEF Open, Frame, Safely
  <2>. QED  BY <1>1, <1>3, <1>4, <2>1 DEF ApInv, HeldBack, Frame, Projects, Actors
<1>9. KeptRecords'
  BY <1>1, <1>4, <1>5, <1>6 DEF ApInv, KeptRecords, Safe, Frame, Safely
<1>10. DrainedOk' /\ OneDrain'
  BY <1>1, <1>4 DEF ApInv, DrainedOk, OneDrain, Served, Active, Frame
<1>11. Once'
  <2>1. \A x \in Rows : x.rec \in Records
    BY DEF ApInv, ApTypes, RowsOk, RowType
  <2>. QED  BY <1>1, <1>5, <1>6, <2>1 DEF ApInv, Once, Safely, Frame
<1>12. InOrder'
  <2>1. \A x : ReplayedRow(x)' = ReplayedRow(x) /\ \A p : Mixed(p)' = Mixed(p)
    BY <1>1 DEF ReplayedRow, Mixed, Frame, Safely
  <2>. QED  BY <1>1, <1>4, <1>5, <2>1 DEF ApInv, InOrder, ReplayedInOrder, Frame, Safely
<1>. QED  BY <1>7, <1>8, <1>9, <1>10, <1>11, <1>12 DEF ApInv

\* The slug finds a project, the approved one or another, and the drain begins.
LEMMA LookUpKeeps ==
  ASSUME ApInv, NEW a \in Approvals, LookUp(a), NEW p, p = ProjectBySlug(at[a].slug), p # None
  PROVE  ApInv'
<1>. DEFINE h == [at[a] EXCEPT !.pc = "list", !.drains = p]
<1>1. /\ Frame /\ UNCHANGED <<batch, discarded, reparked, taken, dropped, faults>>
      /\ at' = [at EXCEPT ![a] = h] /\ at[a].pc = "lookup"
      /\ overlap' = (overlap \/ Draining(p) # {})
      /\ undrained' = undrained \cup ({at[a].pid} \ {p})
      /\ misdrained' = misdrained \cup ({p} \ {at[a].pid, None})
  <2>1. Frame /\ UNCHANGED <<batch, discarded, reparked, taken, dropped, faults>>
    BY DEF LookUp, Frame, db, counters
  <2>. QED  BY <2>1 DEF LookUp
<1>2. p \in DOMAIN projects /\ p \in Projects /\ p # None
  <2>1. TypeOK
    BY DEF ApInv, ApTypes
  <2>2. p \in DOMAIN projects
    BY <2>1, SlugFinds
  <2>. QED  BY <2>1, <2>2 DEF TypeOK, Projects
<1>3. h \in ActorType /\ h.pc = "list" /\ h.drains = p /\ at[a] \in ActorType /\ at[a].drains = None /\ batch[a] = {}
  <2>1. at[a] \in ActorType /\ ApprovalOk(at[a], batch[a])
    BY DEF ApInv, ApTypes, ActorsOk, Actors
  <2>2. p \in Int
    BY <1>2 DEF Projects, ApInv, ApTypes, TypeOK
  <2>3. h \in ActorType /\ h.pc = "list" /\ h.drains = p
    BY <2>1, <2>2 DEF ActorType
  <2>. QED  BY <1>1, <2>1, <2>3 DEF ApprovalOk, Handling
<1>. HIDE DEF h
<1>4. at' \in [Actors -> ActorType] /\ at'[a] = h /\ \A b \in Actors \ {a} : at'[b] = at[b]
  BY <1>1, <1>3 DEF ApInv, ApTypes, ActorsOk, Actors
<1>5. at'[Consumer] = at[Consumer] /\ \A r : InHand(r)' = InHand(r) /\ Stored(r)' = Stored(r)
  BY <1>1, <1>4, ApprovalAssumption DEF InHand, Stored, Frame, Actors
<1>6. \A b \in Actors : /\ at'[b].pc = "forget" <=> at[b].pc = "forget"
                        /\ at'[b].pc \in {"lookup", "persist", "forget"} => at'[b] = at[b]
  BY <1>1, <1>3, <1>4
<1>7. Rows' = Rows /\ \A x : StillParked(x)' = StillParked(x)
  BY <1>1, <1>4, <1>6 DEF Rows, StillParked, Frame, Actors
<1>8. ApTypes'
  <2>1. ApprovalOk(h, {}) /\ TargetOk(h)
    BY <1>2, <1>3 DEF ApprovalOk, TargetOk, Handling
  <2>2. batch' = [batch EXCEPT ![a] = {}]
    BY <1>1, <1>3 DEF ApInv, ApTypes, ActorsOk
  <2>3. faults' \in Nat /\ overlap' \in BOOLEAN
    BY <1>1 DEF ApInv, ApTypes
  <2>. QED  BY <1>1, <1>3, <2>1, <2>2, <2>3, ApprovalMoves DEF Frame, Shrink, ApInv
<1>9. HeldBack'
  <2>1. \A q : Open(q) => Open(q)'
    BY <1>1 DEF Open, Frame
  <2>2. Open(p)'
    <3>1. CASE p = at[a].pid
      BY <1>1, <2>1, <3>1 DEF ApInv, HeldBack, Actors
    <3>2. CASE p # at[a].pid
      BY <1>1, <1>2, <3>2 DEF Open
    <3>. QED  BY <3>1, <3>2
  <2>. QED  BY <1>1, <1>3, <1>4, <1>6, <2>1, <2>2 DEF ApInv, HeldBack, Frame, Projects, Actors
<1>10. KeptRecords'
  BY <1>1, <1>4, <1>5, <1>6 DEF ApInv, KeptRecords, Safe, Frame, Actors
<1>11. DrainedOk'
  <2>1. ASSUME NEW q, Served(q), q \notin undrained', q # None PROVE Served(q)'
    <3>1. PICK b \in Approvals : at[b].drains = q \/ (at[b].pc = "lookup" /\ at[b].pid = q)
      BY <2>1 DEF Served
    <3>2. CASE b = a
      BY <1>1, <1>3, <1>4, <2>1, <3>1, <3>2 DEF Served
    <3>3. CASE b # a
      BY <1>4, <3>1, <3>3 DEF Served, Actors
    <3>. QED  BY <3>2, <3>3
  <2>2. \A row \in held : row.proj # None
    BY DEF ApInv, ApTypes, RowsOk, Rows, Projects, None
  <2>. QED  BY <1>1, <2>1, <2>2 DEF ApInv, DrainedOk, Active, Frame
<1>12. OneDrain'
  <2>1. ASSUME ~overlap' PROVE ~overlap /\ \A b \in Approvals : at[b].drains # p
    BY <1>1, <2>1 DEF Draining
  <2>2. \A b \in Approvals : at'[b].drains = IF b = a THEN p ELSE at[b].drains
    BY <1>3, <1>4 DEF Actors
  <2>. QED  BY <2>1, <2>2 DEF ApInv, OneDrain
<1>13. Once'
  BY <1>1, <1>5, <1>7 DEF ApInv, Once, Frame
<1>14. InOrder'
  <2>1. (\A x : ReplayedRow(x)' = ReplayedRow(x)) /\ (\A q : Mixed(q) => Mixed(q)')
    BY <1>1 DEF ReplayedRow, Mixed, Frame
  <2>2. ReplayedInOrder'
    BY <1>1 DEF ApInv, InOrder, ReplayedInOrder, Frame
  <2>. QED  BY <1>1, <1>4, <1>6, <1>7, <2>1, <2>2 DEF ApInv, InOrder, Frame, Actors
<1>. QED  BY <1>8, <1>9, <1>10, <1>11, <1>12, <1>13, <1>14 DEF ApInv

\* The parked rows of the project are read, and there are some.
LEMMA ListKeeps ==
  ASSUME ApInv, NEW a \in Approvals, ListHeld(a), HeldOf(at[a].drains) # {}
  PROVE  ApInv'
<1>. DEFINE rows == HeldOf(at[a].drains)
            h == [at[a] EXCEPT !.pc = "next"]
<1>1. /\ Frame /\ Safely /\ UNCHANGED <<overlap, undrained, taken, dropped>>
      /\ at' = [at EXCEPT ![a] = h] /\ at[a].pc = "list" /\ batch' = [batch EXCEPT ![a] = rows]
  BY DEF ListHeld, ReplayRows, Frame, Safely, db, counters, history, ApInv, ApTypes
<1>2. h \in ActorType /\ h.pc = "next" /\ h.drains = at[a].drains /\ h.drains \in Projects /\ batch[a] = {}
  BY <1>1 DEF ApInv, ApTypes, ActorsOk, ApprovalOk, Actors, ActorType, Handling
<1>. HIDE DEF h
<1>3. at' \in [Actors -> ActorType] /\ at'[a] = h /\ \A b \in Actors \ {a} : at'[b] = at[b]
  BY <1>1, <1>2 DEF ApInv, ApTypes, ActorsOk, Actors
<1>4. rows \subseteq held /\ rows \subseteq Rows /\ rows # {} /\ \A row \in rows : row.proj = h.drains
  BY <1>2 DEF HeldOf, Rows
<1>5. batch'[a] = rows /\ \A b \in Approvals \ {a} : batch'[b] = batch[b]
  BY <1>1 DEF ApInv, ApTypes, ActorsOk
<1>6. at'[Consumer] = at[Consumer] /\ \A r : InHand(r)' = InHand(r) /\ Stored(r)' = Stored(r)
  BY <1>1, <1>3, ApprovalAssumption DEF InHand, Stored, Frame, Actors
<1>7. \A b \in Actors : /\ at'[b].drains = at[b].drains
                        /\ at'[b].pc = "forget" <=> at[b].pc = "forget"
                        /\ at'[b].pc = "lookup" <=> at[b].pc = "lookup"
                        /\ at'[b].pc \in {"lookup", "persist", "forget"} => at'[b] = at[b] /\ b # a
  BY <1>1, <1>2, <1>3
<1>8. ApTypes' /\ Rows' \subseteq Rows
  <2>1. ApprovalOk(h, rows) /\ TargetOk(h)
    BY <1>2, <1>4 DEF ApprovalOk, TargetOk, Handling
  <2>2. faults' \in Nat /\ overlap' \in BOOLEAN
    BY <1>1 DEF Safely, ApInv, ApTypes
  <2>. QED  BY <1>1, <1>2, <1>4, <2>1, <2>2, ApprovalMoves DEF Frame, Shrink, ApInv
<1>9. \A x : StillParked(x)' = StillParked(x)
  BY <1>5, <1>7 DEF StillParked, Actors
<1>10. HeldBack'
  <2>1. \A q : Open(q)' = Open(q)
    BY <1>1 DEF Open, Frame, Safely
  <2>. QED  BY <1>1, <1>7, <2>1 DEF ApInv, HeldBack, Frame, Projects, Actors
<1>11. KeptRecords'
  BY <1>1, <1>5, <1>6, <1>7 DEF ApInv, KeptRecords, Safe, Frame, Safely, Actors
<1>12. DrainedOk' /\ OneDrain'
  BY <1>1, <1>7 DEF ApInv, DrainedOk, OneDrain, Served, Active, Frame, Actors
<1>13. Once'
  BY <1>1, <1>6, <1>8, <1>9 DEF ApInv, Once, Frame, Safely
<1>14. InOrder'
  <2>1. (\A x : ReplayedRow(x)' = ReplayedRow(x)) /\ (\A q : Mixed(q)' = Mixed(q))
    BY <1>1 DEF ReplayedRow, Mixed, Frame, Safely
  <2>2. ReplayedInOrder'
    BY <1>1 DEF ApInv, InOrder, ReplayedInOrder, Frame, Safely
  <2>3. \A y \in rows, x \in held : x.proj = y.proj => x \in rows
    BY DEF HeldOf
  <2>. QED  BY <1>1, <1>4, <1>5, <1>7, <1>8, <2>1, <2>2, <2>3 DEF ApInv, InOrder, Frame, Safely, Actors
<1>. QED  BY <1>8, <1>10, <1>11, <1>12, <1>13, <1>14 DEF ApInv

\* The replayed row is deleted, and the next one or the next list follows.
LEMMA ForgetKeeps ==
  ASSUME ApInv, NEW a \in Approvals, DeleteHeldEvent(a)
  PROVE  ApInv'
<1>. DEFINE h == [Idle EXCEPT !.drains = at[a].drains,
                     !.pc = IF batch[a] \ {Oldest(batch[a])} = {} THEN "list" ELSE "next"]
<1>1. PICK row, rest : row = Oldest(batch[a]) /\ rest = batch[a] \ {row}
  OBVIOUS
<1>2. /\ Shrink /\ UNCHANGED <<overlap, undrained, misdrained, discarded, reparked, taken, dropped, faults>>
      /\ held' = {other \in held : other.id # row.id}
      /\ at' = [at EXCEPT ![a] = h] /\ at[a].pc = "forget" /\ batch' = [batch EXCEPT ![a] = rest]
  <2>1. UNCHANGED <<slugOf, projects, nextId, aliases, nextRow, stored, del, deleted, merged, replayed>>
        /\ UNCHANGED <<overlap, undrained, misdrained, discarded, reparked, taken, dropped, faults>>
    BY DEF DeleteHeldEvent, counters, history
  <2>. QED  BY <1>1, <2>1 DEF DeleteHeldEvent, Shrink
<1>3. at[a] \in ActorType /\ ApprovalOk(at[a], batch[a]) /\ batch[a] \in SUBSET RowType
  BY DEF ApInv, ApTypes, ActorsOk, Actors
<1>4. batch[a] # {} /\ row \in batch[a] /\ row \in Rows /\ \A y \in batch[a] : row.id <= y.id
  BY <1>1, <1>2, <1>3, OldestRow DEF ApprovalOk, Handling, Rows
<1>5. h \in ActorType /\ h.drains = at[a].drains /\ h.drains \in Projects
      /\ h.pc = IF rest = {} THEN "list" ELSE "next"
  <2>1. Idle \in ActorType
    BY DEF Idle, ActorType, None
  <2>2. at[a].drains \in Projects
    BY <1>2, <1>3 DEF ApprovalOk
  <2>. QED  BY <1>1, <1>3, <2>1, <2>2 DEF ActorType
<1>. HIDE DEF h
<1>6. at' \in [Actors -> ActorType] /\ at'[a] = h /\ \A b \in Actors \ {a} : at'[b] = at[b]
  BY <1>2, <1>5 DEF ApInv, ApTypes, ActorsOk, Actors
<1>7. batch'[a] = rest /\ (\A b \in Approvals \ {a} : batch'[b] = batch[b])
      /\ \A b \in Approvals : batch'[b] \subseteq batch[b]
  BY <1>1, <1>2 DEF ApInv, ApTypes, ActorsOk
<1>8. at'[Consumer] = at[Consumer] /\ \A r : InHand(r)' = InHand(r) /\ Stored(r)' = Stored(r)
  BY <1>2, <1>6, ApprovalAssumption DEF InHand, Stored, Shrink, Actors
<1>9. \A b \in Actors : /\ at'[b].drains = at[b].drains
                        /\ at'[b].pc = "lookup" <=> at[b].pc = "lookup"
                        /\ at'[b].pc \in {"lookup", "persist", "forget"} => at'[b] = at[b] /\ b # a
  BY <1>2, <1>5, <1>6
<1>10. ApTypes' /\ Rows' \subseteq Rows
  <2>1. ApprovalOk(h, rest) /\ TargetOk(h)
    BY <1>1, <1>3, <1>5 DEF ApprovalOk, TargetOk, Handling
  <2>2. faults' \in Nat /\ overlap' \in BOOLEAN /\ rest \in SUBSET Rows
    BY <1>1, <1>2 DEF ApInv, ApTypes, Rows
  <2>. QED  BY <1>2, <1>5, <2>1, <2>2, ApprovalMoves DEF ApInv
<1>11. HeldBack'
  <2>1. \A q : Open(q)' = Open(q)
    BY <1>2 DEF Open, Shrink
  <2>. QED  BY <1>2, <1>9, <2>1 DEF ApInv, HeldBack, Shrink, Projects, Actors
<1>12. \A x \in held : x \notin held' => x = row
  BY <1>2, <1>4 DEF ApInv, ApTypes, RowsOk, Rows
\* a record of the row that goes is safe without it
<1>13. Safe(row.rec, row.id)
  BY <1>1, <1>2, <1>3 DEF ApInv, KeptRecords, ApprovalOk, Handling
<1>14. \A r, n : n \in Nat /\ Safe(r, n) => Safe(r, n)'
  <2>1. SUFFICES ASSUME NEW r, NEW n \in Nat, Safe(r, n), r \notin discarded, ~Stored(r) PROVE Safe(r, n)'
    BY <1>2, <1>8 DEF Safe
  <2>2. PICK x \in held : x.rec = r /\ x.id > n
    BY <2>1 DEF Safe
  <2>3. CASE x \in held'
    BY <2>2, <2>3 DEF Safe
  <2>4. CASE x \notin held'
    <3>1. x = row
      BY <1>12, <2>4
    <3>2. PICK y \in held : y.rec = r /\ y.id > row.id
      BY <1>13, <2>1, <2>2, <3>1 DEF Safe
    <3>3. y \in held' /\ y.id > n
      BY <1>2, <1>4, <2>2, <3>1, <3>2 DEF ApInv, ApTypes, RowsOk, Rows, RowType
    <3>. QED  BY <3>2, <3>3 DEF Safe
  <2>. QED  BY <2>3, <2>4
<1>15. KeptRecords'
  <2>1. ASSUME NEW b \in Approvals, at'[b].pc = "forget" PROVE Safe(at[b].rec, Oldest(batch[b]).id)'
    <3>1. at'[b] = at[b] /\ batch'[b] = batch[b]
      BY <1>7, <1>9, <2>1 DEF Actors
    <3>2. batch[b] # {} /\ batch[b] \subseteq RowType
      BY <2>1, <3>1 DEF ApInv, ApTypes, ActorsOk, ApprovalOk, Handling
    <3>3. Oldest(batch[b]).id \in Nat
      BY <3>2, OldestRow DEF RowType
    <3>4. PICK r, n : r = at[b].rec /\ n = Oldest(batch[b]).id
      OBVIOUS
    <3>5. Safe(r, n)
      BY <2>1, <3>1, <3>4 DEF ApInv, KeptRecords
    <3>6. Safe(r, n)'
      BY <1>14, <3>3, <3>4, <3>5
    <3>. QED  BY <3>1, <3>4, <3>6 DEF Safe, Stored
  <2>2. ASSUME NEW r \in Records PROVE (InHand(r) \/ r \in dropped \/ Safe(r, 0))'
    BY <1>2, <1>8, <1>14 DEF ApInv, KeptRecords
  <2>. QED  BY <2>1, <2>2 DEF KeptRecords
<1>16. DrainedOk' /\ OneDrain'
  BY <1>2, <1>9 DEF ApInv, DrainedOk, OneDrain, Served, Active, Shrink, Actors
<1>17. Once'
  <2>1. SUFFICES ASSUME faults = 0, ~overlap PROVE Once'
    BY <1>2 DEF Once
  <2>2. row \notin Rows'
    <3>1. ASSUME NEW b \in Approvals, row \in batch'[b] PROVE FALSE
      <4>1. b # a /\ row \in batch[b]
        BY <1>1, <1>7, <3>1
      <4>2. at[b].drains = at[a].drains /\ at[a].drains # None
        BY <1>2, <1>3, <1>4, <4>1 DEF ApInv, ApTypes, ActorsOk, ApprovalOk, Projects, None
      <4>. QED  BY <2>1, <4>1, <4>2 DEF ApInv, OneDrain
    <3>. QED  BY <1>2, <3>1 DEF Rows
  <2>3. ASSUME NEW x \in Rows', StillParked(x)' PROVE StillParked(x)
    <3>1. ASSUME NEW b \in Approvals, at[b].pc = "forget", Oldest(batch[b]) = x PROVE FALSE
      <4>1. CASE b = a
        BY <1>1, <2>2, <2>3, <3>1, <4>1
      <4>2. CASE b # a
        BY <1>6, <1>7, <2>3, <3>1, <4>2 DEF StillParked, Actors
      <4>. QED  BY <4>1, <4>2
    <3>. QED  BY <3>1 DEF StillParked
  <2>. QED  BY <1>2, <1>8, <1>10, <2>3 DEF ApInv, Once, Shrink
<1>18. InOrder'
  <2>1. (\A x : ReplayedRow(x)' = ReplayedRow(x)) /\ (\A q : Mixed(q)' = Mixed(q))
    BY <1>2 DEF ReplayedRow, Mixed, Shrink
  <2>2. ReplayedInOrder'
    BY <1>2 DEF ApInv, InOrder, ReplayedInOrder, Shrink
  <2>3. ASSUME NEW b \in Approvals, NEW y \in batch'[b], NEW x \in held', x.proj = y.proj, x.id < y.id
        PROVE  x \in batch'[b]
    BY <1>1, <1>2, <1>7, <2>3 DEF ApInv, InOrder
  <2>4. ASSUME NEW b \in Approvals, NEW y \in batch'[b]
        PROVE  (ReplayedRow(y) \/ y \in held \/ y.proj \in deleted \cup reparked)'
    <3>1. ReplayedRow(y) \/ y \in held \/ y.proj \in deleted \cup reparked
      BY <1>7, <2>4 DEF ApInv, InOrder
    <3>2. y = row => ReplayedRow(y) \/ y.proj \in reparked
      BY <1>1, <1>2, <1>3, <1>4 DEF ApInv, InOrder, ApprovalOk
    <3>. QED  BY <1>2, <1>12, <2>1, <3>1, <3>2 DEF Shrink
  <2>5. \A b \in Approvals : at'[b].pc = "forget" => at'[b] = at[b] /\ batch'[b] = batch[b]
    BY <1>7, <1>9 DEF Actors
  <2>6. \A b \in Approvals : at'[b].pc = "forget" => (ReplayedRow(Oldest(batch[b])) \/ at[b].drains \in reparked)'
    BY <1>2, <2>1, <2>5 DEF ApInv, InOrder
  <2>7. \A x \in Rows' : ~ReplayedRow(x)' /\ ~Mixed(x.proj)' =>
          \A i \in 1..Len(replayed') : replayed'[i].proj = x.proj => replayed'[i].id < x.id
    BY <1>2, <1>10, <2>1 DEF ApInv, InOrder, Shrink
  <2>. QED  BY <2>2, <2>3, <2>4, <2>6, <2>7 DEF InOrder
<1>. QED  BY <1>10, <1>11, <1>15, <1>16, <1>17, <1>18 DEF ApInv

\* An actor whose record has its outcome: the other actors are as they were.
LEMMA HandIsDone ==
  ASSUME ApInv, NEW a \in Actors, Done(a), at[a].pc \in {"hold", "persist"}, UNCHANGED <<batch, taken, nextId>>
  PROVE  /\ ActorsOk' /\ at[a].rec \in Records
         /\ at' \in [Actors -> ActorType] /\ \A b \in Actors \ {a} : at'[b] = at[b]
         /\ at'[a] = [at[a] EXCEPT !.pc = at'[a].pc]
         /\ \A b \in Actors : at'[b].rec = at[b].rec /\ at'[b].drains = at[b].drains
         /\ \A b \in Actors : at'[b].pc \in {"lookup", "persist"} => at'[b] = at[b] /\ b # a
         /\ a = Consumer => at'[a].pc = "ack" /\ at[a].rec = taken
         /\ a \in Approvals =>
              /\ at'[a].pc = "forget" /\ at'[Consumer] = at[Consumer] /\ at[a].drains \in Projects
              /\ batch[a] \subseteq RowType /\ at[a].rec = Oldest(batch[a]).rec
              /\ Oldest(batch[a]) \in batch[a] /\ Oldest(batch[a]).proj = at[a].drains
              /\ \A y \in batch[a] : Oldest(batch[a]).id <= y.id
<1>1. PICK q \in {"ack", "forget"} : q = IF a = Consumer THEN "ack" ELSE "forget"
  OBVIOUS
<1>2. at' = [at EXCEPT ![a].pc = q] /\ at \in [Actors -> ActorType] /\ at[a] \in ActorType
  BY <1>1 DEF Done, ApInv, ApTypes, ActorsOk
<1>3. PICK h : h = [at[a] EXCEPT !.pc = q]
  OBVIOUS
<1>4. h \in ActorType /\ h.pc = q /\ h.rec = at[a].rec /\ h.drains = at[a].drains
  BY <1>2, <1>3 DEF ActorType, Handling
<1>5. at'[a] = h /\ \A b \in Actors \ {a} : at'[b] = at[b]
  BY <1>2, <1>3
<1>6. at' \in [Actors -> ActorType]
  BY <1>2, <1>4, <1>5
<1>7. \A b \in Actors : at'[b].rec = at[b].rec /\ at'[b].drains = at[b].drains
  BY <1>4, <1>5
<1>8. \A b \in Actors : at'[b].pc \in {"lookup", "persist"} => at'[b] = at[b] /\ b # a
  BY <1>1, <1>4, <1>5
<1>9. ASSUME a = Consumer PROVE q = "ack" /\ at[a].rec = taken /\ at[a].rec \in Records
  <2>1. at[a].rec = taken /\ taken > 0 /\ taken \in 0..MaxRecords
    BY <1>9 DEF ApInv, ApTypes, ActorsOk, ConsumerOk, TypeOK
  <2>. QED  BY <1>1, <1>9, <2>1 DEF Records
<1>10. ASSUME a \in Approvals
       PROVE  /\ q = "forget" /\ at'[Consumer] = at[Consumer] /\ at[a].drains \in Projects /\ at[a].rec \in Records
              /\ batch[a] \subseteq RowType /\ at[a].rec = Oldest(batch[a]).rec
              /\ Oldest(batch[a]) \in batch[a] /\ Oldest(batch[a]).proj = at[a].drains
              /\ \A y \in batch[a] : Oldest(batch[a]).id <= y.id
  <2>1. q = "forget" /\ at'[Consumer] = at[Consumer]
    BY <1>1, <1>5, <1>10, ApprovalAssumption DEF Actors
  <2>2. ApprovalOk(at[a], batch[a]) /\ batch[a] \subseteq RowType
    BY <1>10 DEF ApInv, ApTypes, ActorsOk
  <2>3. batch[a] # {} /\ at[a].drains \in Projects /\ at[a].rec = Oldest(batch[a]).rec
        /\ \A row \in batch[a] : row.proj = at[a].drains
    BY <2>2 DEF ApprovalOk, Handling
  <2>4. Oldest(batch[a]) \in batch[a] /\ \A y \in batch[a] : Oldest(batch[a]).id <= y.id
    BY <2>2, <2>3, OldestRow
  <2>5. at[a].rec \in Records
    BY <2>2, <2>3, <2>4 DEF RowType
  <2>. QED  BY <2>1, <2>2, <2>3, <2>4, <2>5
<1>11. ActorsOk'
  <2>1. ConsumerOk(at[Consumer], taken)'
    <3>1. CASE a = Consumer
      BY <1>4, <1>5, <1>9, <3>1 DEF ApInv, ApTypes, ActorsOk, ConsumerOk
    <3>2. CASE a \in Approvals
      BY <1>10, <3>2 DEF ApInv, ApTypes, ActorsOk, ConsumerOk
    <3>. QED  BY <3>1, <3>2 DEF Actors
  <2>2. ASSUME NEW b \in Approvals PROVE ApprovalOk(at[b], batch[b])'
    <3>1. ApprovalOk(at[b], batch[b]) /\ batch'[b] = batch[b] /\ Projects' = Projects
      BY DEF ApInv, ApTypes, ActorsOk, Projects
    <3>2. CASE b = a
      BY <1>4, <1>5, <1>10, <3>1, <3>2 DEF ApprovalOk, Handling
    <3>3. CASE b # a
      <4>1. at'[b] = at[b]
        BY <1>5, <3>3 DEF Actors
      <4>. QED  BY <3>1, <4>1 DEF ApprovalOk
    <3>. QED  BY <3>2, <3>3
  <2>3. ASSUME NEW b \in Actors PROVE TargetOk(at[b])'
    <3>1. CASE b = a
      BY <1>4, <1>5, <3>1 DEF TargetOk
    <3>2. CASE b # a
      BY <1>5, <3>2 DEF ApInv, ApTypes, ActorsOk, TargetOk, Projects
    <3>. QED  BY <3>1, <3>2
  <2>. QED  BY <1>6, <2>1, <2>2, <2>3 DEF ApInv, ApTypes, ActorsOk
<1>. QED  BY <1>3, <1>4, <1>5, <1>6, <1>7, <1>8, <1>9, <1>10, <1>11 DEF Actors

\* A record is parked, by the consumer or once more by a replay.
LEMMA HoldKeeps ==
  ASSUME ApInv, NEW a \in Actors, Hold(a)
  PROVE  ApInv'
<1>. DEFINE late == at[a].pid \notin DOMAIN projects \/ projects[at[a].pid].status = "active"
<1>1. PICK new : new = [id |-> nextRow, proj |-> at[a].pid, rec |-> at[a].rec, late |-> late]
  OBVIOUS
<1>2. /\ held' = held \cup {new} /\ nextRow' = nextRow + 1 /\ at[a].pc = "hold" /\ Done(a)
      /\ UNCHANGED <<slugOf, projects, nextId, aliases, stored, dropped, taken, batch, del, faults>>
      /\ UNCHANGED <<replayed, deleted, discarded, merged, misdrained, undrained, overlap>>
      /\ reparked' = IF a = Consumer THEN reparked ELSE reparked \cup {at[a].drains}
  BY <1>1 DEF Hold, counters
<1>3. /\ ActorsOk' /\ at[a].rec \in Records
      /\ at' \in [Actors -> ActorType] /\ \A b \in Actors \ {a} : at'[b] = at[b]
      /\ \A b \in Actors : at'[b].rec = at[b].rec /\ at'[b].drains = at[b].drains
      /\ \A b \in Actors : at'[b].pc \in {"lookup", "persist"} => at'[b] = at[b] /\ b # a
      /\ a = Consumer => at'[a].pc = "ack" /\ at[a].rec = taken
      /\ a \in Approvals =>
           /\ at'[a].pc = "forget" /\ at'[Consumer] = at[Consumer] /\ at[a].drains \in Projects
           /\ batch[a] \subseteq RowType /\ at[a].rec = Oldest(batch[a]).rec
           /\ Oldest(batch[a]) \in batch[a] /\ Oldest(batch[a]).proj = at[a].drains
           /\ \A y \in batch[a] : Oldest(batch[a]).id <= y.id
  BY <1>2, HandIsDone
<1>4. at[a].pid \in Projects /\ Projects \subseteq Ids /\ Projects \subseteq Nat
  BY <1>2, ApprovalAssumption DEF ApInv, ApTypes, ActorsOk, TargetOk, TypeOK, Projects, Ids
<1>5. nextRow \in Nat \ {0} /\ \A row \in Rows : row.id \in 1..(nextRow - 1)
  BY DEF ApInv, ApTypes, RowsOk
<1>6. new \in RowType /\ new.id = nextRow /\ new.proj = at[a].pid /\ new.rec = at[a].rec /\ new.late = late
  BY <1>1, <1>3, <1>4, <1>5 DEF RowType
<1>. HIDE DEF late
<1>7. Rows' = Rows \cup {new}
  BY <1>2 DEF Rows
<1>8. \A r : Stored(r)' = Stored(r)
  BY <1>2 DEF Stored
<1>9. \A r \in Records : (InHand(r)' => InHand(r)) /\ (InHand(r) /\ r # new.rec => InHand(r)')
                          /\ (a = Consumer => InHand(new.rec) /\ ~InHand(new.rec)')
  <2>1. CASE a = Consumer
    <3>1. at'[Consumer].rec = taken /\ at[Consumer].rec = taken /\ at'[Consumer].pc = "ack" /\ at[Consumer].pc = "hold"
          /\ new.rec = taken /\ taken \in Int
      BY <1>2, <1>3, <1>6, <2>1 DEF ApInv, ApTypes, TypeOK
    <3>. QED  BY <1>2, <3>1 DEF InHand
  <2>2. CASE a \in Approvals
    BY <1>2, <1>3, <2>2, ApprovalAssumption DEF InHand
  <2>. QED  BY <2>1, <2>2 DEF Actors
<1>10. ApTypes'
  <2>1. TypeOK'
    <3>1. held' \subseteq [id : 1..(nextRow' - 1), proj : Ids, rec : Records, late : BOOLEAN]
      BY <1>2, <1>4, <1>5, <1>6 DEF ApInv, ApTypes, TypeOK, RowType
    <3>2. \A x, y \in held' : x.id = y.id => x = y
      BY <1>2, <1>5, <1>6 DEF ApInv, ApTypes, TypeOK, Rows
    <3>. QED  BY <1>2, <3>1, <3>2 DEF ApInv, ApTypes, TypeOK
  <2>2. RowsOk'
    <3>1. \A row \in Rows' : row \in RowType /\ row.id \in 1..(nextRow' - 1) /\ row.proj \in Projects'
      BY <1>2, <1>4, <1>5, <1>6, <1>7 DEF ApInv, ApTypes, RowsOk, Projects
    <3>2. \A x, y \in Rows' : x.id = y.id => x = y
      BY <1>5, <1>6, <1>7 DEF ApInv, ApTypes, RowsOk
    <3>3. replayed' \in Seq(RowType) /\ \A i \in 1..Len(replayed') : replayed'[i].id < nextRow'
      <4>1. \A i \in 1..Len(replayed) : replayed[i] \in RowType /\ replayed[i].id \in Nat
        <5>1. replayed \in Seq(RowType)
          BY DEF ApInv, ApTypes, RowsOk
        <5>2. \A i \in 1..Len(replayed) : replayed[i] \in RowType
          BY <5>1, ElementOfSeq
        <5>. QED  BY <5>2 DEF RowType
      <4>. QED  BY <1>2, <1>5, <4>1 DEF ApInv, ApTypes, RowsOk
    <3>. QED  BY <1>2, <1>5, <3>1, <3>2, <3>3 DEF RowsOk
  <2>3. ProjectsOk'
    BY <1>2 DEF ApInv, ApTypes, ProjectsOk, Projects
  <2>. QED  BY <1>2, <1>3, <2>1, <2>2, <2>3 DEF ApInv, ApTypes
<1>11. HeldBack'
  <2>1. \A q : Open(q)' = Open(q)
    BY <1>2 DEF Open
  <2>. QED  BY <1>2, <1>3, <2>1 DEF ApInv, HeldBack, Projects, Actors
<1>12. KeptRecords'
  <2>1. \A r, n : Safe(r, n) => Safe(r, n)'
    BY <1>2, <1>8 DEF Safe
  <2>2. \A n \in Nat : n < nextRow => Safe(new.rec, n)'
    BY <1>2, <1>5, <1>6 DEF Safe
  <2>3. ASSUME NEW r \in Records PROVE (InHand(r) \/ r \in dropped \/ Safe(r, 0))'
    BY <1>2, <1>5, <1>9, <2>1, <2>2 DEF ApInv, KeptRecords
  <2>4. ASSUME NEW b \in Approvals, at'[b].pc = "forget" PROVE Safe(at[b].rec, Oldest(batch[b]).id)'
    <3>1. PICK r, n : r = at[b].rec /\ n = Oldest(batch[b]).id
      OBVIOUS
    <3>2. Safe(r, n)'
      <4>1. CASE b = a
        <5>1. Oldest(batch[a]) \in Rows
          BY <1>3, <2>4, <4>1 DEF Rows
        <5>. QED  BY <1>5, <1>6, <2>2, <3>1, <4>1, <5>1
      <4>2. CASE b # a
        <5>1. at'[b] = at[b]
          BY <1>3, <4>2 DEF Actors
        <5>. QED  BY <2>1, <2>4, <3>1, <5>1 DEF ApInv, KeptRecords
      <4>. QED  BY <4>1, <4>2
    <3>3. at'[b].rec = at[b].rec /\ batch' = batch
      BY <1>2, <1>3 DEF Actors
    <3>. QED  BY <3>1, <3>2, <3>3 DEF Safe, Stored
  <2>. QED  BY <2>3, <2>4 DEF KeptRecords
<1>13. DrainedOk' /\ OneDrain'
  <2>1. \A q : Served(q) => Served(q)'
    <3>1. \A b \in Approvals : at[b].pc = "lookup" => at'[b] = at[b]
      BY <1>2, <1>3 DEF Actors
    <3>. QED  BY <1>3, <3>1 DEF Served, Actors
  <2>2. Active(new.proj) => new.late
    BY <1>6 DEF Active, late
  <2>3. \A q : Active(q)' = Active(q)
    BY <1>2 DEF Active
  <2>4. DrainedOk'
    BY <1>2, <2>1, <2>2, <2>3 DEF ApInv, DrainedOk
  <2>. QED  BY <1>2, <1>3, <2>4 DEF ApInv, OneDrain, Actors
<1>14. Once'
  <2>1. SUFFICES ASSUME faults = 0, ~overlap PROVE Once'
    BY <1>2 DEF Once
  <2>2. ASSUME NEW x \in Rows', StillParked(x)' PROVE x = new \/ (x \in Rows /\ StillParked(x))
    <3>1. ASSUME NEW b \in Approvals, at[b].pc = "forget", Oldest(batch[b]) = x PROVE FALSE
      BY <1>2, <1>3, <2>2, <3>1 DEF StillParked, Actors
    <3>. QED  BY <1>7, <2>2, <3>1 DEF StillParked
  <2>3. new.rec \in Records /\ \A x \in Rows : x.rec \in Records
    BY <1>6 DEF ApInv, ApTypes, RowsOk, RowType
\* the record was in the hand of the consumer or in the row that is replayed
  <2>4. ~Stored(new.rec) /\ ~InHand(new.rec)' /\ \A x \in Rows : StillParked(x)' /\ StillParked(x) => x.rec # new.rec
    <3>1. CASE a = Consumer
      BY <1>9, <2>1, <2>3, <3>1 DEF ApInv, Once
    <3>2. CASE a \in Approvals
      <4>1. PICK row : row = Oldest(batch[a])
        OBVIOUS
      <4>2. row \in batch[a] /\ row \in Rows /\ row.rec = new.rec /\ row.proj = at[a].drains
            /\ at[a].drains \in Projects
        BY <1>3, <1>6, <3>2, <4>1 DEF Rows
      <4>3. StillParked(row)
        <5>1. ASSUME NEW b \in Approvals, at[b].pc = "forget", Oldest(batch[b]) = row PROVE FALSE
          <6>1. b # a
            BY <1>2, <5>1
          <6>2. ApprovalOk(at[b], batch[b]) /\ batch[b] \subseteq RowType
            BY DEF ApInv, ApTypes, ActorsOk
          <6>3. at[b].drains = row.proj
            BY <5>1, <6>2, OldestRow DEF ApprovalOk, Handling
          <6>. QED  BY <2>1, <3>2, <4>2, <6>1, <6>3, SlugFinds, <1>4 DEF ApInv, OneDrain, None
        <5>. QED  BY <5>1 DEF StillParked
      <4>4. ~StillParked(row)'
        BY <1>2, <1>3, <3>2, <4>1 DEF StillParked
      <4>. QED  BY <1>9, <2>1, <2>3, <4>2, <4>3, <4>4 DEF ApInv, Once
    <3>. QED  BY <3>1, <3>2 DEF Actors
  <2>5. \A x \in Rows' : StillParked(x)' => ~InHand(x.rec)' /\ ~Stored(x.rec)'
    BY <1>8, <1>9, <2>1, <2>2, <2>3, <2>4 DEF ApInv, Once
  <2>6. \A x, y \in Rows' : StillParked(x)' /\ StillParked(y)' /\ x.rec = y.rec => x = y
    BY <2>1, <2>2, <2>4 DEF ApInv, Once
  <2>7. \A r \in Records : Stored(r)' => ~InHand(r)'
    BY <1>8, <1>9, <2>1 DEF ApInv, Once
  <2>. QED  BY <1>2, <2>1, <2>5, <2>6, <2>7 DEF ApInv, Once
<1>15. InOrder'
  <2>1. (\A x : ReplayedRow(x)' = ReplayedRow(x)) /\ (\A q : Mixed(q) => Mixed(q)')
    BY <1>2 DEF ReplayedRow, Mixed
  <2>2. ReplayedInOrder'
    BY <1>2 DEF ApInv, InOrder, ReplayedInOrder
  <2>3. ASSUME NEW b \in Approvals, NEW y \in batch'[b], NEW x \in held', x.proj = y.proj, x.id < y.id
        PROVE  x \in batch'[b]
    <3>1. y \in Rows
      BY <1>2, <2>3 DEF Rows
    <3>2. x # new
      BY <1>5, <1>6, <2>3, <3>1
    <3>. QED  BY <1>2, <2>3, <3>2 DEF ApInv, InOrder
  <2>4. \A b \in Approvals : \A y \in batch'[b] : (ReplayedRow(y) \/ y \in held \/ y.proj \in deleted \cup reparked)'
    BY <1>2, <2>1 DEF ApInv, InOrder
  <2>5. ASSUME NEW b \in Approvals, at'[b].pc = "forget"
        PROVE  (ReplayedRow(Oldest(batch[b])) \/ at[b].drains \in reparked)'
    <3>1. CASE b = a
      BY <1>2, <1>3, <3>1, ApprovalAssumption
    <3>2. CASE b # a
      BY <1>2, <1>3, <2>1, <2>5, <3>2 DEF ApInv, InOrder, Actors
    <3>. QED  BY <3>1, <3>2
  <2>6. \A x \in Rows' : ~ReplayedRow(x)' /\ ~Mixed(x.proj)' =>
          \A i \in 1..Len(replayed') : replayed'[i].proj = x.proj => replayed'[i].id < x.id
    <3>1. \A i \in 1..Len(replayed) : replayed[i].id < nextRow
      BY DEF ApInv, ApTypes, RowsOk
    <3>. QED  BY <1>2, <1>6, <1>7, <2>1, <3>1 DEF ApInv, InOrder
  <2>. QED  BY <2>2, <2>3, <2>4, <2>5, <2>6 DEF InOrder
<1>. QED  BY <1>10, <1>11, <1>12, <1>13, <1>14, <1>15 DEF ApInv

\* A record is stored, by the consumer or by a replay of its row.
LEMMA PersistKeeps ==
  ASSUME ApInv, NEW a \in Actors, Persist(a)
  PROVE  ApInv'
<1>1. PICK row : row = Oldest(batch[a])
  OBVIOUS
<1>2. PICK r0, p0 : r0 = at[a].rec /\ p0 = at[a].pid
  OBVIOUS
<1>3. /\ at[a].pc = "persist" /\ Done(a) /\ stored' = OneMoreCopy(r0, p0)
      /\ UNCHANGED <<slugOf, projects, nextId, aliases, held, nextRow, dropped, taken, batch, del, faults>>
      /\ UNCHANGED <<deleted, discarded, merged, misdrained, reparked, undrained, overlap>>
      /\ replayed' = IF a = Consumer \/ ReplayedRow(row) THEN replayed ELSE Append(replayed, row)
  BY <1>1, <1>2 DEF Persist, counters
<1>4. /\ ActorsOk' /\ r0 \in Records
      /\ at' \in [Actors -> ActorType] /\ \A b \in Actors \ {a} : at'[b] = at[b]
      /\ \A b \in Actors : at'[b].rec = at[b].rec /\ at'[b].drains = at[b].drains
      /\ \A b \in Actors : at'[b].pc \in {"lookup", "persist"} => at'[b] = at[b] /\ b # a
      /\ a = Consumer => at'[a].pc = "ack" /\ r0 = taken
      /\ a \in Approvals =>
           /\ at'[a].pc = "forget" /\ at'[Consumer] = at[Consumer] /\ at[a].drains \in Projects
           /\ r0 = row.rec /\ row \in batch[a] /\ row \in Rows /\ row.proj = at[a].drains
           /\ \A y \in batch[a] : row.id <= y.id
  BY <1>1, <1>2, <1>3, HandIsDone DEF Rows
<1>5. p0 \in {Default} \cup Projects /\ Projects \subseteq Ids
  BY <1>2, <1>3, ApprovalAssumption DEF ApInv, ApTypes, ActorsOk, TargetOk, TypeOK, Projects, Ids
<1>6. stored \in [Records -> [{Default} \cup Ids -> 0..MaxCopies]]
  BY DEF ApInv, ApTypes, TypeOK
<1>7. /\ stored' \in [Records -> [{Default} \cup Ids -> 0..MaxCopies]]
      /\ \A r \in Records, p \in {Default} \cup Ids : r # r0 \/ p # p0 => stored'[r][p] = stored[r][p]
      /\ stored'[r0][p0] > 0 /\ (stored[r0][p0] = 0 => stored'[r0][p0] = 1)
  <2>1. PICK n : n = Min({MaxCopies, stored[r0][p0] + 1})
    OBVIOUS
  <2>2. stored' = [stored EXCEPT ![r0] = [stored[r0] EXCEPT ![p0] = n]]
    BY <1>3, <2>1 DEF OneMoreCopy
  <2>3. stored[r0][p0] \in 0..MaxCopies
    BY <1>4, <1>5, <1>6
  <2>4. n \in 0..MaxCopies /\ n > 0 /\ (stored[r0][p0] = 0 => n = 1)
    <3>1. PICK k : k = stored[r0][p0]
      OBVIOUS
    <3>2. k \in 0..2 /\ MaxCopies = 2
      BY <2>3, <3>1 DEF MaxCopies
    <3>3. n = Min({2, k + 1}) /\ k + 1 \in Int
      BY <2>1, <3>1, <3>2
    <3>4. n = IF 2 <= k + 1 THEN 2 ELSE k + 1
      BY <3>3, MinTwo
    <3>. QED  BY <3>1, <3>2, <3>4
  <2>. QED  BY <1>4, <1>5, <1>6, <2>2, <2>4
<1>8. \A r \in Records : (Stored(r) => Stored(r)') /\ (Stored(r)' => Stored(r) \/ r = r0)
  BY <1>4, <1>5, <1>6, <1>7 DEF Stored
<1>9. Stored(r0)'
  BY <1>4, <1>5, <1>7 DEF Stored
<1>10. Rows' = Rows
  BY <1>3 DEF Rows
<1>11. \A r \in Records : (InHand(r)' => InHand(r)) /\ (InHand(r) /\ r # r0 => InHand(r)')
                           /\ (a = Consumer => InHand(r0) /\ ~InHand(r0)')
  <2>1. CASE a = Consumer
    <3>1. at'[Consumer].rec = taken /\ at[Consumer].rec = taken /\ at'[Consumer].pc = "ack"
          /\ at[Consumer].pc = "persist" /\ r0 = taken /\ taken \in Int
      BY <1>2, <1>3, <1>4, <2>1 DEF ApInv, ApTypes, TypeOK
    <3>. QED  BY <1>3, <3>1 DEF InHand
  <2>2. CASE a \in Approvals
    BY <1>3, <1>4, <2>2, ApprovalAssumption DEF InHand
  <2>. QED  BY <2>1, <2>2 DEF Actors
<1>12. replayed \in Seq(RowType) /\ (a \in Approvals => row \in RowType)
  BY <1>4 DEF ApInv, ApTypes, RowsOk
<1>13. /\ replayed' \in Seq(RowType)
       /\ \A i \in 1..Len(replayed') :
            \/ i \in 1..Len(replayed) /\ replayed'[i] = replayed[i]
            \/ i = Len(replayed) + 1 /\ replayed'[i] = row /\ ~ReplayedRow(row) /\ a \in Approvals
       /\ \A i \in 1..Len(replayed) : i \in 1..Len(replayed') /\ replayed'[i] = replayed[i]
       /\ a \in Approvals => ReplayedRow(row)'
  <2>1. CASE a = Consumer \/ ReplayedRow(row)
    BY <1>3, <1>12, <2>1, ApprovalAssumption DEF ReplayedRow
  <2>2. CASE ~(a = Consumer \/ ReplayedRow(row))
    <3>1. a \in Approvals /\ row \in RowType /\ replayed' = Append(replayed, row)
      BY <1>3, <1>12, <2>2 DEF Actors
    <3>2. replayed' \in Seq(RowType) /\ Len(replayed') = Len(replayed) + 1 /\ Len(replayed) \in Nat
          /\ replayed'[Len(replayed) + 1] = row /\ \A i \in 1..Len(replayed) : replayed'[i] = replayed[i]
      BY <1>12, <3>1
    <3>. QED  BY <2>2, <3>1, <3>2 DEF ReplayedRow
  <2>. QED  BY <2>1, <2>2
<1>14. \A x : (ReplayedRow(x) => ReplayedRow(x)') /\ (ReplayedRow(x)' => ReplayedRow(x) \/ x = row)
  BY <1>13 DEF ReplayedRow
<1>15. ApTypes'
  <2>1. TypeOK'
    BY <1>3, <1>7 DEF ApInv, ApTypes, TypeOK
  <2>2. RowsOk'
    <3>1. \A i \in 1..Len(replayed') : replayed'[i].id < nextRow
      BY <1>4, <1>13 DEF ApInv, ApTypes, RowsOk
    <3>. QED  BY <1>3, <1>10, <1>13, <3>1 DEF ApInv, ApTypes, RowsOk, Projects
  <2>3. ProjectsOk'
    BY <1>3, <1>5, <1>7 DEF ApInv, ApTypes, ProjectsOk, Projects
  <2>. QED  BY <1>3, <1>4, <2>1, <2>2, <2>3 DEF ApInv, ApTypes
<1>16. HeldBack'
  <2>1. \A q : Open(q)' = Open(q)
    BY <1>3 DEF Open
  <2>2. Open(p0)
    BY <1>2, <1>3 DEF ApInv, HeldBack
  <2>3. ASSUME NEW r \in Records, NEW p \in Projects, stored'[r][p] > 0 PROVE Open(p)
    BY <1>5, <1>7, <2>2, <2>3 DEF ApInv, HeldBack
  <2>4. \A b \in Actors : at'[b].pc \in {"persist", "lookup"} => Open(at'[b].pid)
    BY <1>4 DEF ApInv, HeldBack
  <2>5. \A b \in Approvals : Open(at'[b].drains)
    BY <1>4 DEF ApInv, HeldBack, Actors
  <2>. QED  BY <1>3, <2>1, <2>3, <2>4, <2>5 DEF HeldBack, Projects
<1>17. KeptRecords'
  <2>1. \A r \in Records : \A n : Safe(r, n) => Safe(r, n)'
    BY <1>3, <1>8 DEF Safe
  <2>2. \A n : Safe(r0, n)'
    BY <1>9 DEF Safe
  <2>3. ASSUME NEW r \in Records PROVE (InHand(r) \/ r \in dropped \/ Safe(r, 0))'
    BY <1>3, <1>11, <2>1, <2>2 DEF ApInv, KeptRecords
  <2>4. ASSUME NEW b \in Approvals, at'[b].pc = "forget" PROVE Safe(at[b].rec, Oldest(batch[b]).id)'
    <3>1. PICK r, n : r = at[b].rec /\ n = Oldest(batch[b]).id
      OBVIOUS
    <3>2. Safe(r, n)'
      <4>1. CASE b = a
        BY <1>2, <2>2, <3>1, <4>1
      <4>2. CASE b # a
        <5>1. at'[b] = at[b] /\ b \in Actors
          BY <1>4, <4>2 DEF Actors
        <5>2. Safe(r, n)
          BY <2>4, <3>1, <5>1 DEF ApInv, KeptRecords
        <5>3. r \in Records
          <6>1. ApprovalOk(at[b], batch[b]) /\ batch[b] \subseteq RowType
            BY DEF ApInv, ApTypes, ActorsOk
          <6>. QED  BY <2>4, <3>1, <5>1, <6>1, OldestRow DEF ApprovalOk, Handling, RowType
        <5>. QED  BY <2>1, <5>2, <5>3
      <4>. QED  BY <4>1, <4>2
    <3>3. at'[b].rec = at[b].rec /\ batch' = batch
      BY <1>3, <1>4 DEF Actors
    <3>. QED  BY <3>1, <3>2, <3>3 DEF Safe, Stored
  <2>. QED  BY <2>3, <2>4 DEF KeptRecords
<1>18. DrainedOk' /\ OneDrain'
  <2>1. \A q : Served(q) => Served(q)'
    <3>1. \A b \in Approvals : at[b].pc = "lookup" => at'[b] = at[b]
      BY <1>3, <1>4 DEF Actors
    <3>. QED  BY <1>4, <3>1 DEF Served, Actors
  <2>. QED  BY <1>3, <1>4, <2>1 DEF ApInv, DrainedOk, OneDrain, Active, Actors
\* without overlap no other approval has the row
<1>19. ASSUME a \in Approvals, ~overlap, NEW b \in Approvals, row \in batch[b] PROVE b = a
  <2>1. at[b].drains = row.proj /\ row.proj # None
    BY <1>4, <1>5, <1>19 DEF ApInv, ApTypes, ActorsOk, ApprovalOk, None, Ids
  <2>. QED  BY <1>4, <1>19, <2>1 DEF ApInv, OneDrain
<1>20. Once'
  <2>1. SUFFICES ASSUME faults = 0, ~overlap PROVE Once'
    BY <1>3 DEF Once
  <2>2. \A x \in Rows : x.rec \in Records
    BY DEF ApInv, ApTypes, RowsOk, RowType
  <2>3. ASSUME NEW x, StillParked(x)' PROVE StillParked(x) /\ (a \in Approvals => x # row)
    <3>1. ASSUME NEW b \in Approvals, at[b].pc = "forget", Oldest(batch[b]) = x PROVE FALSE
      BY <1>3, <1>4, <2>3, <3>1 DEF StillParked, Actors
    <3>2. ASSUME a \in Approvals, x = row PROVE FALSE
      BY <1>1, <1>3, <1>4, <2>3, <3>2 DEF StillParked
    <3>. QED  BY <3>1, <3>2 DEF StillParked
\* the record was in the hand of the consumer or in the row that is replayed
  <2>4. ~Stored(r0) /\ ~InHand(r0)' /\ \A x \in Rows : StillParked(x)' => x.rec # r0
    <3>1. CASE a = Consumer
      BY <1>4, <1>11, <2>1, <2>3, <3>1 DEF ApInv, Once
    <3>2. CASE a \in Approvals
      <4>1. StillParked(row)
        <5>1. ASSUME NEW b \in Approvals, at[b].pc = "forget", Oldest(batch[b]) = row PROVE FALSE
          <6>1. ApprovalOk(at[b], batch[b]) /\ batch[b] \subseteq RowType
            BY DEF ApInv, ApTypes, ActorsOk
          <6>2. row \in batch[b]
            BY <5>1, <6>1, OldestRow DEF ApprovalOk, Handling
          <6>. QED  BY <1>3, <1>19, <2>1, <3>2, <5>1, <6>2
        <5>. QED  BY <5>1 DEF StillParked
      <4>. QED  BY <1>4, <1>11, <2>1, <2>2, <2>3, <3>2, <4>1 DEF ApInv, Once
    <3>. QED  BY <3>1, <3>2 DEF Actors
  <2>5. \A p \in {Default} \cup Ids : stored[r0][p] = 0
    BY <1>4, <1>6, <2>4 DEF Stored
  <2>6. \A x \in Rows' : StillParked(x)' => ~InHand(x.rec)' /\ ~Stored(x.rec)'
    BY <1>8, <1>10, <1>11, <2>1, <2>2, <2>3, <2>4 DEF ApInv, Once
  <2>7. \A x, y \in Rows' : StillParked(x)' /\ StillParked(y)' /\ x.rec = y.rec => x = y
    BY <1>10, <2>1, <2>3 DEF ApInv, Once
  <2>8. \A r \in Records : Stored(r)' => ~InHand(r)'
    BY <1>8, <1>11, <2>1, <2>4 DEF ApInv, Once
  <2>9. \A r \in Records, p \in {Default} \cup Ids : stored'[r][p] <= 1
    BY <1>5, <1>7, <2>1, <2>5 DEF ApInv, Once
  <2>10. \A r \in Records, p, q \in {Default} \cup Ids : stored'[r][p] > 0 /\ stored'[r][q] > 0 => p = q
    BY <1>7, <2>1, <2>5 DEF ApInv, Once
  <2>. QED  BY <2>6, <2>7, <2>8, <2>9, <2>10 DEF Once
<1>21. InOrder'
  <2>1. \A q : Mixed(q)' = Mixed(q)
    BY <1>3 DEF Mixed
\* an unreplayed row of the same project is younger than the one replayed now
  <2>2. ASSUME a \in Approvals, ~ReplayedRow(row), NEW x \in Rows, ~ReplayedRow(x), x # row, x.proj = row.proj,
               ~Mixed(x.proj)
        PROVE  row.id < x.id
    <3>1. row.id # x.id /\ row.id \in Int /\ x.id \in Int
      BY <1>4, <2>2 DEF ApInv, ApTypes, RowsOk
    <3>2. CASE x \in batch[a]
      BY <1>4, <2>2, <3>1, <3>2
    <3>3. CASE x \in held
      <4>1. x.id < row.id => x \in batch[a]
        BY <1>4, <2>2, <3>3 DEF ApInv, InOrder
      <4>. QED  BY <3>1, <3>2, <4>1
    <3>4. ASSUME NEW b \in Approvals, x \in batch[b], x \notin held, b # a PROVE FALSE
      <4>1. at[b].drains = x.proj /\ at[a].drains = x.proj /\ x.proj # None
        BY <1>4, <1>5, <2>2, <3>4 DEF ApInv, ApTypes, ActorsOk, ApprovalOk, None, Ids
      <4>2. overlap
        BY <2>2, <3>4, <4>1 DEF ApInv, OneDrain
      <4>3. x.proj \notin deleted \cup reparked
        BY <2>2, <4>2 DEF Mixed
      <4>. QED  BY <2>2, <3>4, <4>3 DEF ApInv, InOrder
    <3>. QED  BY <2>2, <3>2, <3>3, <3>4 DEF Rows
  <2>3. \A x \in Rows' : ~ReplayedRow(x)' /\ ~Mixed(x.proj)' =>
          \A i \in 1..Len(replayed') : replayed'[i].proj = x.proj => replayed'[i].id < x.id
    <3>1. SUFFICES ASSUME NEW x \in Rows, ~ReplayedRow(x)', ~Mixed(x.proj),
                          NEW i \in 1..Len(replayed'), replayed'[i].proj = x.proj
                   PROVE  replayed'[i].id < x.id
      BY <1>10, <2>1
    <3>2. ~ReplayedRow(x)
      BY <1>14, <3>1
    <3>3. CASE i \in 1..Len(replayed) /\ replayed'[i] = replayed[i]
      BY <3>1, <3>2, <3>3 DEF ApInv, InOrder
    <3>4. CASE replayed'[i] = row /\ ~ReplayedRow(row) /\ a \in Approvals
      BY <1>13, <2>2, <3>1, <3>2, <3>4
    <3>. QED  BY <1>13, <3>1, <3>3, <3>4
  <2>4. ReplayedInOrder'
    <3>1. SUFFICES ASSUME NEW i \in 1..Len(replayed'), NEW j \in 1..Len(replayed'), i < j,
                          replayed'[i].proj = replayed'[j].proj, ~Mixed(replayed'[i].proj)
                   PROVE  replayed'[i].id < replayed'[j].id
      BY <1>3 DEF ReplayedInOrder, Mixed
    <3>2. Len(replayed) \in Nat
      BY <1>12
    <3>3. i \in 1..Len(replayed) /\ replayed'[i] = replayed[i]
      <4>1. CASE replayed' = replayed
        BY <3>1, <4>1
      <4>2. CASE replayed' = Append(replayed, row)
        BY <3>1, <3>2, <4>2, <1>12, <1>13
      <4>. QED  BY <1>3, <4>1, <4>2
    <3>4. CASE j \in 1..Len(replayed) /\ replayed'[j] = replayed[j]
      BY <3>1, <3>3, <3>4 DEF ApInv, InOrder, ReplayedInOrder, Mixed
    <3>5. CASE replayed'[j] = row /\ ~ReplayedRow(row) /\ a \in Approvals
      BY <1>4, <3>1, <3>3, <3>5 DEF ApInv, InOrder
    <3>. QED  BY <1>13, <3>1, <3>4, <3>5
  <2>5. \A b \in Approvals : at'[b].pc = "forget" => (ReplayedRow(Oldest(batch[b])) \/ at[b].drains \in reparked)'
    <3>1. ASSUME NEW b \in Approvals, at'[b].pc = "forget"
          PROVE  (ReplayedRow(Oldest(batch[b])) \/ at[b].drains \in reparked)'
      <4>1. CASE b = a
        BY <1>1, <1>3, <1>13, <4>1 DEF ReplayedRow
      <4>2. CASE b # a
        <5>1. at'[b] = at[b] /\ batch' = batch /\ reparked' = reparked
          BY <1>3, <1>4, <4>2 DEF Actors
        <5>2. PICK x : x = Oldest(batch[b])
          OBVIOUS
        <5>3. ReplayedRow(x) \/ at[b].drains \in reparked
          BY <3>1, <5>1, <5>2 DEF ApInv, InOrder
        <5>4. ReplayedRow(x)' \/ at[b].drains \in reparked
          BY <1>14, <5>3
        <5>. QED  BY <5>1, <5>2, <5>4 DEF ReplayedRow
      <4>. QED  BY <4>1, <4>2
    <3>. QED  BY <3>1
  <2>6. \A b \in Approvals : \A y \in batch'[b] : (ReplayedRow(y) \/ y \in held \/ y.proj \in deleted \cup reparked)'
    BY <1>3, <1>14 DEF ApInv, InOrder
  <2>. QED  BY <1>3, <2>3, <2>4, <2>5, <2>6 DEF ApInv, InOrder
<1>. QED  BY <1>15, <1>16, <1>17, <1>18, <1>20, <1>21 DEF ApInv

\* Requests change the tables beside the actors.  What they must respect: rows and
\* stored records go only with a record of it, nothing becomes active, and a project
\* that held its data back still does.
AtOnce(s) ==
  /\ \A r \in Records, p \in {Default} \cup Ids : s[r][p] <= 1
  /\ \A r \in Records, p, q \in {Default} \cup Ids : s[r][p] > 0 /\ s[r][q] > 0 => p = q

\* A change of the tables that takes nothing out of reach keeps the parts about them.
LEMMA TablesChange ==
  ASSUME ApInv, UNCHANGED <<at, batch, taken, replayed, nextRow, overlap, slugOf, reparked, undrained,
                            dropped, misdrained>>,
         faults' \in Nat, faults' = 0 => faults = 0, TypeOK', ProjectsOk', Projects \subseteq Projects',
         deleted \subseteq deleted', merged \subseteq merged', discarded \subseteq discarded',
         held' \subseteq held,
         \A row \in held : row \in held' \/ (row.proj \in deleted' /\ row.rec \in discarded'),
         \A p \in Projects : (Active(p)' => Active(p)) /\ (Open(p) => Open(p)'),
         \A r \in Records, p \in Projects' : stored'[r][p] > 0 => Open(p)',
         \A r \in Records : (Stored(r) => Stored(r)' \/ r \in discarded') /\ (Stored(r)' => Stored(r)),
         AtOnce(stored) => AtOnce(stored')
  PROVE  ApInv'
<1>1. Rows' \subseteq Rows /\ (\A x : StillParked(x)' = StillParked(x)) /\ \A r : InHand(r)' = InHand(r)
  BY DEF Rows, StillParked, InHand
<1>2. ApTypes'
  <2>1. RowsOk'
    BY <1>1 DEF ApInv, ApTypes, RowsOk
  <2>2. ActorsOk'
    <3>1. \A a \in Approvals : ApprovalOk(at[a], batch[a])'
      BY DEF ApInv, ApTypes, ActorsOk, ApprovalOk
    <3>2. \A a \in Actors : TargetOk(at[a])'
      BY DEF ApInv, ApTypes, ActorsOk, TargetOk
    <3>3. ConsumerOk(at[Consumer], taken)'
      BY DEF ApInv, ApTypes, ActorsOk, ConsumerOk
    <3>. QED  BY <3>1, <3>2, <3>3 DEF ApInv, ApTypes, ActorsOk
  <2>. QED  BY <2>1, <2>2 DEF ApInv, ApTypes
<1>3. HeldBack'
  <2>1. \A p : p \notin Projects' => Open(p)'
    BY DEF Open, TypeOK, Projects
  <2>2. \A p : Open(p) /\ (p \in Projects \/ p \in {None, Default}) => Open(p)'
    BY <2>1 DEF None, Default, Projects
  <2>3. \A a \in Actors : at[a].pc \in {"persist", "lookup"} => at[a].pid \in Projects \cup {Default}
    <3>1. ASSUME NEW a \in Actors, at[a].pc = "lookup" PROVE a \in Approvals
      BY <3>1 DEF Actors, ApInv, ApTypes, ActorsOk, ConsumerOk
    <3>. QED  BY <3>1 DEF ApInv, ApTypes, ActorsOk, ApprovalOk, TargetOk
  <2>4. \A a \in Approvals : at[a].drains \in Projects \cup {None}
    BY DEF ApInv, ApTypes, ActorsOk, ApprovalOk
  <2>. QED  BY <2>2, <2>3, <2>4 DEF ApInv, HeldBack
<1>4. KeptRecords'
  <2>1. \A r \in Records : \A n : Safe(r, n) => Safe(r, n)'
    BY DEF Safe
  <2>2. \A a \in Approvals : at[a].pc = "forget" => at[a].rec \in Records
    <3>1. ASSUME NEW a \in Approvals, at[a].pc = "forget" PROVE at[a].rec \in Records
      <4>1. ApprovalOk(at[a], batch[a]) /\ batch[a] \subseteq RowType
        BY DEF ApInv, ApTypes, ActorsOk
      <4>. QED  BY <3>1, <4>1, OldestRow DEF ApprovalOk, Handling, RowType
    <3>. QED  BY <3>1
  <2>3. ASSUME NEW a \in Approvals, at[a].pc = "forget" PROVE Safe(at[a].rec, Oldest(batch[a]).id)'
    <3>1. PICK r, n : r = at[a].rec /\ n = Oldest(batch[a]).id
      OBVIOUS
    <3>2. Safe(r, n)'
      BY <2>1, <2>2, <2>3, <3>1 DEF ApInv, KeptRecords
    <3>. QED  BY <3>1, <3>2 DEF Safe, Stored
  <2>4. \A r \in Records : (InHand(r) \/ r \in dropped \/ Safe(r, 0))'
    BY <1>1, <2>1 DEF ApInv, KeptRecords
  <2>. QED  BY <2>3, <2>4 DEF KeptRecords
<1>5. DrainedOk' /\ OneDrain'
  <2>1. \A row \in held : row.proj \in Projects
    BY DEF ApInv, ApTypes, RowsOk, Rows
  <2>. QED  BY <2>1 DEF ApInv, DrainedOk, OneDrain, Served
<1>6. Once'
  <2>1. \A x \in Rows : x.rec \in Records
    BY DEF ApInv, ApTypes, RowsOk, RowType
  <2>2. SUFFICES ASSUME faults = 0, ~overlap PROVE Once'
    BY DEF Once
  <2>3. AtOnce(stored')
    BY <2>2 DEF ApInv, Once, AtOnce
  <2>4. \A r \in Records : Stored(r)' => ~InHand(r)'
    BY <1>1, <2>2 DEF ApInv, Once
  <2>5. \A x, y \in Rows' : StillParked(x)' /\ StillParked(y)' /\ x.rec = y.rec => x = y
    BY <1>1, <2>2 DEF ApInv, Once
  <2>6. \A x \in Rows' : StillParked(x)' => ~InHand(x.rec)' /\ ~Stored(x.rec)'
    BY <1>1, <2>1, <2>2 DEF ApInv, Once
  <2>. QED  BY <2>3, <2>4, <2>5, <2>6 DEF Once, AtOnce
<1>7. InOrder'
  <2>1. (\A x : ReplayedRow(x)' = ReplayedRow(x)) /\ (\A q : Mixed(q) => Mixed(q)')
    BY DEF ReplayedRow, Mixed
  <2>2. ReplayedInOrder'
    BY DEF ApInv, InOrder, ReplayedInOrder
  <2>3. \A a \in Approvals : \A y \in batch'[a] : (ReplayedRow(y) \/ y \in held \/ y.proj \in deleted \cup reparked)'
    BY <2>1 DEF ApInv, InOrder
  <2>4. \A a \in Approvals : at'[a].pc = "forget" => (ReplayedRow(Oldest(batch[a])) \/ at[a].drains \in reparked)'
    BY <2>1 DEF ApInv, InOrder, ReplayedRow
  <2>5. \A x \in Rows' : ~ReplayedRow(x)' /\ ~Mixed(x.proj)' =>
          \A i \in 1..Len(replayed') : replayed'[i].proj = x.proj => replayed'[i].id < x.id
    BY <1>1, <2>1 DEF ApInv, InOrder
  <2>6. \A a \in Approvals : \A y \in batch'[a], x \in held' : x.proj = y.proj /\ x.id < y.id => x \in batch'[a]
    BY DEF ApInv, InOrder
  <2>. QED  BY <2>2, <2>3, <2>4, <2>5, <2>6 DEF InOrder
<1>. QED  BY <1>2, <1>3, <1>4, <1>5, <1>6, <1>7 DEF ApInv

\* A new project gets a new id and a slug of its own.
LEMMA NewProject ==
  ASSUME ApInv, nextId \in Ids, NEW s \in Slugs, ProjectBySlug(s) = None, NEW st \in {"pending", "active"},
         projects' = [p \in DOMAIN projects \cup {nextId} |->
                        IF p = nextId THEN [slug |-> s, status |-> st] ELSE projects[p]],
         nextId' = nextId + 1, UNCHANGED <<aliases, held, nextRow, stored, taken, deleted, merged, del>>,
         dropped' \subseteq Records
  PROVE  /\ TypeOK' /\ ProjectsOk' /\ Projects' = Projects \cup {nextId} /\ nextId \notin Projects
         /\ nextId \notin DOMAIN projects /\ DOMAIN projects' = DOMAIN projects \cup {nextId}
         /\ projects'[nextId].status = st
         /\ \A p : p # nextId => Active(p)' = Active(p)
         /\ \A p : p # nextId => (Open(p) /\ UNCHANGED misdrained => Open(p)')
         /\ \A r \in Records : stored[r][nextId] = 0
<1>1. TypeOK
  BY DEF ApInv, ApTypes
<1>2. \A p \in DOMAIN projects : projects[p].slug # s
  BY <1>1, SlugFinds
<1>3. nextId \notin DOMAIN projects /\ DOMAIN projects' = DOMAIN projects \cup {nextId}
      /\ projects'[nextId] = [slug |-> s, status |-> st]
      /\ \A p \in DOMAIN projects : projects'[p] = projects[p]
  BY <1>1 DEF TypeOK
<1>4. Projects' = Projects \cup {nextId} /\ nextId \notin Projects
  BY <1>1 DEF TypeOK, Projects
<1>5. TypeOK'
  <2>1. DOMAIN projects' \subseteq 1..(nextId' - 1) /\ nextId' \in 1..(MaxProjects + 1)
    BY <1>1, <1>3, ApprovalAssumption DEF TypeOK, Ids
  <2>2. \A p \in DOMAIN projects' : projects'[p] \in [slug : Slugs, status : {"pending", "active"}]
    BY <1>1, <1>3 DEF TypeOK
  <2>3. \A p, q \in DOMAIN projects' : projects'[p].slug = projects'[q].slug => p = q
    BY <1>1, <1>2, <1>3 DEF TypeOK
  <2>4. \A t \in DOMAIN aliases' : t \in Slugs /\ aliases'[t] \in DOMAIN projects'
    BY <1>1, <1>3 DEF TypeOK
  <2>. QED  BY <1>1, <2>1, <2>2, <2>3, <2>4 DEF TypeOK
<1>6. ProjectsOk'
  BY <1>3, <1>4 DEF ApInv, ApTypes, ProjectsOk
<1>7. \A p : p # nextId => Active(p)' = Active(p)
  BY <1>3 DEF Active
<1>8. \A p : p # nextId => (Open(p) /\ UNCHANGED misdrained => Open(p)')
  BY <1>3 DEF Open
<1>9. \A r \in Records : stored[r][nextId] = 0
  <2>1. nextId # Default /\ \A r \in Records : stored[r][nextId] \in 0..MaxCopies
    BY <1>1 DEF TypeOK, Default
  <2>. QED  BY <1>4, <2>1 DEF ApInv, ApTypes, ProjectsOk, MaxCopies
<1>. QED  BY <1>3, <1>4, <1>5, <1>6, <1>7, <1>8, <1>9

\* A project created by hand is new and empty.
LEMMA CreateKeeps ==
  ASSUME ApInv, NEW s \in Slugs, CreateProject(s)
  PROVE  ApInv'
<1>1. /\ UNCHANGED <<at, batch, taken, replayed, nextRow, overlap, slugOf, reparked, undrained, dropped, misdrained>>
      /\ UNCHANGED <<faults, deleted, merged, discarded, held, stored, aliases, del>>
      /\ ProjectBySlug(s) = None /\ nextId \in Ids /\ nextId' = nextId + 1
      /\ projects' = [p \in DOMAIN projects \cup {nextId} |->
                        IF p = nextId THEN [slug |-> s, status |-> "active"] ELSE projects[p]]
  BY DEF CreateProject, history
<1>2. dropped' \subseteq Records /\ faults \in Nat
  BY <1>1 DEF ApInv, ApTypes, TypeOK
<1>3. /\ TypeOK' /\ ProjectsOk' /\ Projects' = Projects \cup {nextId} /\ nextId \notin Projects
      /\ \A p : p # nextId => (Active(p)' = Active(p)) /\ (Open(p) => Open(p)')
      /\ \A r \in Records : stored[r][nextId] = 0
  BY <1>1, <1>2, NewProject
<1>4. \A r : Stored(r)' = Stored(r)
  BY <1>1 DEF Stored
<1>5. \A r \in Records, p \in Projects' : stored'[r][p] > 0 => Open(p)'
  BY <1>1, <1>3 DEF ApInv, HeldBack
<1>6. \A p \in Projects : (Active(p)' => Active(p)) /\ (Open(p) => Open(p)')
  BY <1>3
<1>. QED  BY <1>1, <1>2, <1>3, <1>4, <1>5, <1>6, TablesChange DEF ApInv

\* A record that is resolved creates its project, pending or, if so configured, active.
LEMMA CreatePendingKeeps ==
  ASSUME ApInv, NEW a \in Actors, CreateProjectPending(a), ProjectBySlug(slugOf[at[a].rec]) = None
  PROVE  ApInv'
<1>1. PICK s, st : s = slugOf[at[a].rec] /\ st = IF AutoApprove THEN "active" ELSE "pending"
  OBVIOUS
<1>. DEFINE h == [at[a] EXCEPT !.pid = nextId, !.pc = IF st = "pending" THEN "hold" ELSE "persist"]
<1>2. /\ UNCHANGED <<batch, taken, replayed, nextRow, overlap, slugOf, reparked, undrained, dropped, misdrained>>
      /\ UNCHANGED <<faults, deleted, merged, discarded, held, stored, aliases, del>>
      /\ ProjectBySlug(s) = None /\ nextId \in Ids /\ nextId' = nextId + 1 /\ at[a].pc = "create"
      /\ projects' = [p \in DOMAIN projects \cup {nextId} |->
                        IF p = nextId THEN [slug |-> s, status |-> st] ELSE projects[p]]
      /\ at' = [at EXCEPT ![a] = h]
  BY <1>1 DEF CreateProjectPending, counters
<1>3. at[a] \in ActorType /\ (a \in Approvals => ApprovalOk(at[a], batch[a])) /\ (a = Consumer => ConsumerOk(at[a], taken))
      /\ nextId \in Int
  BY DEF ApInv, ApTypes, ActorsOk, TypeOK
<1>4. h \in ActorType /\ h.pid = nextId /\ h.pc = (IF st = "pending" THEN "hold" ELSE "persist")
      /\ h.drains = at[a].drains /\ h.rec = at[a].rec
  BY <1>3 DEF ActorType, Handling
<1>. HIDE DEF h
<1>5. s \in Slugs /\ st \in {"pending", "active"}
  <2>1. at[a].rec \in Records
    <3>1. CASE a = Consumer
      <4>1. at[a].rec = taken /\ taken > 0 /\ taken \in 0..MaxRecords
        BY <1>2, <1>3, <3>1 DEF ConsumerOk, ApInv, ApTypes, TypeOK
      <4>. QED  BY <4>1 DEF Records
    <3>2. CASE a \in Approvals
      <4>1. batch[a] # {} /\ batch[a] \subseteq RowType /\ at[a].rec = Oldest(batch[a]).rec
        BY <1>2, <1>3, <3>2 DEF ApprovalOk, Handling, ApInv, ApTypes, ActorsOk
      <4>. QED  BY <4>1, OldestRow DEF RowType
    <3>. QED  BY <3>1, <3>2 DEF Actors
  <2>. QED  BY <1>1, <2>1 DEF ApInv, ApTypes
<1>6. dropped' \subseteq Records /\ faults \in Nat
  BY <1>2 DEF ApInv, ApTypes, TypeOK
<1>7. /\ TypeOK' /\ ProjectsOk' /\ Projects' = Projects \cup {nextId} /\ nextId \notin Projects
      /\ nextId \notin DOMAIN projects /\ DOMAIN projects' = DOMAIN projects \cup {nextId}
      /\ projects'[nextId].status = st
      /\ \A p : p # nextId => (Active(p)' = Active(p)) /\ (Open(p) => Open(p)')
      /\ \A r \in Records : stored[r][nextId] = 0
  BY <1>2, <1>5, <1>6, NewProject
<1>8. at' \in [Actors -> ActorType] /\ at'[a] = h /\ \A b \in Actors \ {a} : at'[b] = at[b]
  BY <1>2, <1>4 DEF ApInv, ApTypes, ActorsOk
<1>9. /\ \A b \in Actors : at'[b].drains = at[b].drains /\ (at'[b].pc = "forget" <=> at[b].pc = "forget")
      /\ \A b \in Actors : (at'[b].pc = "lookup" <=> at[b].pc = "lookup")
      /\ \A b \in Actors : at'[b].pc \in {"forget", "lookup"} => at'[b] = at[b]
      /\ at'[Consumer].rec = at[Consumer].rec /\ (at'[Consumer].pc = "ack" <=> at[Consumer].pc = "ack")
  BY <1>2, <1>4, <1>8 DEF Actors
<1>10. Rows' = Rows /\ \A r : InHand(r)' = InHand(r) /\ Stored(r)' = Stored(r)
  BY <1>2, <1>9 DEF Rows, InHand, Stored
<1>11. \A x : StillParked(x)' = StillParked(x)
  BY <1>2, <1>9 DEF StillParked, Actors
<1>12. ApTypes'
  <2>1. RowsOk'
    BY <1>2, <1>7, <1>10 DEF ApInv, ApTypes, RowsOk
  <2>2. ActorsOk'
    <3>1. ASSUME NEW b \in Approvals PROVE ApprovalOk(at[b], batch[b])'
      <4>1. CASE b = a
        BY <1>2, <1>3, <1>4, <1>7, <1>8, <4>1 DEF ApprovalOk, Handling
      <4>2. CASE b # a
        <5>1. at'[b] = at[b] /\ ApprovalOk(at[b], batch[b])
          BY <1>8, <4>2 DEF ApInv, ApTypes, ActorsOk, Actors
        <5>. QED  BY <1>2, <1>7, <5>1 DEF ApprovalOk
      <4>. QED  BY <4>1, <4>2
    <3>2. ASSUME NEW b \in Actors PROVE TargetOk(at[b])'
      <4>1. CASE b = a
        BY <1>4, <1>7, <1>8, <4>1 DEF TargetOk
      <4>2. CASE b # a
        BY <1>7, <1>8, <4>2 DEF TargetOk, ApInv, ApTypes, ActorsOk
      <4>. QED  BY <4>1, <4>2
    <3>3. ConsumerOk(at[Consumer], taken)'
      <4>1. CASE a = Consumer
        BY <1>2, <1>3, <1>4, <1>8, <4>1 DEF ConsumerOk
      <4>2. CASE a # Consumer
        BY <1>2, <1>8, <4>2 DEF ConsumerOk, ApInv, ApTypes, ActorsOk, Actors
      <4>. QED  BY <4>1, <4>2
    <3>. QED  BY <1>2, <1>8, <3>1, <3>2, <3>3 DEF ApInv, ApTypes, ActorsOk
  <2>. QED  BY <1>2, <1>6, <1>7, <2>1, <2>2 DEF ApInv, ApTypes
<1>13. HeldBack'
  <2>1. \A r \in Records, p \in Projects' : stored'[r][p] > 0 => Open(p)'
    BY <1>2, <1>7 DEF ApInv, HeldBack
  <2>2. \A p : Open(p) /\ p # nextId => Open(p)'
    BY <1>7
  <2>3. \A b \in Actors : b # a /\ at[b].pc \in {"persist", "lookup"} => at[b].pid # nextId
    <3>1. ASSUME NEW b \in Actors, at[b].pc = "lookup" PROVE b \in Approvals
      BY <3>1 DEF Actors, ApInv, ApTypes, ActorsOk, ConsumerOk
    <3>2. nextId # Default
      BY <1>2 DEF Ids, Default
    <3>. QED  BY <1>7, <3>1, <3>2 DEF ApInv, ApTypes, ActorsOk, ApprovalOk, TargetOk
  <2>4. \A b \in Approvals : at[b].drains # nextId
    <3>1. nextId # None
      BY <1>2 DEF Ids, None
    <3>. QED  BY <1>7, <3>1 DEF ApInv, ApTypes, ActorsOk, ApprovalOk
  <2>5. \A p : p = nextId /\ st = "active" => Open(p)'
    BY <1>7, <1>2 DEF Open
  <2>6. ASSUME NEW b \in Actors, at'[b].pc \in {"persist", "lookup"} PROVE Open(at[b].pid)'
    <3>1. PICK p : p = at'[b].pid
      OBVIOUS
    <3>2. Open(p)'
      <4>1. CASE b = a
        BY <1>2, <1>4, <1>8, <2>5, <2>6, <3>1, <4>1, <1>5
      <4>2. CASE b # a
        BY <1>8, <2>2, <2>3, <2>6, <3>1, <4>2 DEF ApInv, HeldBack
      <4>. QED  BY <4>1, <4>2
    <3>. QED  BY <3>1, <3>2 DEF Open
  <2>7. ASSUME NEW b \in Approvals PROVE Open(at[b].drains)'
    <3>1. PICK p : p = at[b].drains
      OBVIOUS
    <3>2. Open(p)' /\ p = at'[b].drains
      BY <1>9, <2>2, <2>4, <3>1 DEF ApInv, HeldBack, Actors
    <3>. QED  BY <3>1, <3>2 DEF Open
  <2>. QED  BY <2>1, <2>6, <2>7 DEF HeldBack
<1>14. KeptRecords'
  BY <1>2, <1>9, <1>10 DEF ApInv, KeptRecords, Safe, Actors
<1>15. DrainedOk' /\ OneDrain'
  <2>1. \A row \in held : row.proj # nextId
    BY <1>7 DEF ApInv, ApTypes, RowsOk, Rows
  <2>2. \A q : Served(q)' = Served(q)
    BY <1>9 DEF Served, Actors
  <2>3. DrainedOk'
    BY <1>2, <1>7, <2>1, <2>2 DEF ApInv, DrainedOk
  <2>. QED  BY <1>2, <1>9, <2>3 DEF ApInv, OneDrain, Actors
<1>16. Once'
  BY <1>2, <1>10, <1>11 DEF ApInv, Once
<1>17. InOrder'
  <2>1. \A x : ReplayedRow(x)' = ReplayedRow(x) /\ \A p : Mixed(p)' = Mixed(p)
    BY <1>2 DEF ReplayedRow, Mixed
  <2>. QED  BY <1>2, <1>9, <1>10, <2>1 DEF ApInv, InOrder, ReplayedInOrder, Actors
<1>. QED  BY <1>12, <1>13, <1>14, <1>15, <1>16, <1>17 DEF ApInv

\* Created projects have ids within the bound.
LEMMA KnownProjects == ASSUME ApInv PROVE Projects \subseteq Ids
BY ApprovalAssumption DEF ApInv, ApTypes, TypeOK, Projects, Ids

\* What a deletion takes of the stored records is the part in the project.
Takes(R, p) ==
  \A r \in Records, q \in {Default} \cup Ids : stored'[r][q] = IF q = p /\ r \in R THEN 0 ELSE stored[r][q]

\* Where copies only go away, no record is stored twice that was not.
LEMMA StoredShrinks ==
  ASSUME TypeOK, NEW R \in SUBSET Records, NEW p, Takes(R, p)
  PROVE  /\ \A r \in Records : (Stored(r) => Stored(r)' \/ (r \in R /\ stored[r][p] > 0))
                               /\ (Stored(r)' => Stored(r))
         /\ AtOnce(stored) => AtOnce(stored')
         /\ \A r \in Records, q \in {Default} \cup Ids : stored'[r][q] > 0 => stored[r][q] > 0
<1>1. \A r \in Records, q \in {Default} \cup Ids : stored[r][q] \in 0..MaxCopies
  BY DEF TypeOK
<1>2. ASSUME NEW r \in Records, Stored(r), ~(r \in R /\ stored[r][p] > 0) PROVE Stored(r)'
  BY <1>2 DEF Stored, Takes
<1>3. ASSUME NEW r \in Records, Stored(r)' PROVE Stored(r)
  BY <1>3 DEF Stored, Takes
<1>4. AtOnce(stored) => AtOnce(stored')
  BY <1>1 DEF AtOnce, MaxCopies, Takes
<1>5. \A r \in Records, q \in {Default} \cup Ids : stored'[r][q] > 0 => stored[r][q] > 0
  BY DEF Takes
<1>. QED  BY <1>2, <1>3, <1>4, <1>5

\* The cascade from a project takes its copies and no others.
LEMMA CascadeShrinks ==
  ASSUME TypeOK, NEW p, stored' = CascadeStored(p)
  PROVE  /\ stored' \in [Records -> [{Default} \cup Ids -> 0..MaxCopies]]
         /\ \A r \in Records : (Stored(r) => Stored(r)' \/ (r \in Records \ Logs /\ stored[r][p] > 0))
                               /\ (Stored(r)' => Stored(r))
         /\ AtOnce(stored) => AtOnce(stored')
         /\ \A r \in Records, q \in {Default} \cup Ids : stored'[r][q] > 0 => stored[r][q] > 0
<1>1. stored' = [r \in Records |-> [q \in {Default} \cup Ids |->
                   IF q = p /\ r \in Records \ Logs THEN 0 ELSE stored[r][q]]]
  BY DEF CascadeStored
<1>2. \A r \in Records, q \in {Default} \cup Ids :
        stored'[r][q] = IF q = p /\ r \in Records \ Logs THEN 0 ELSE stored[r][q]
  BY <1>1
<1>3. stored' \in [Records -> [{Default} \cup Ids -> 0..MaxCopies]]
  BY <1>1 DEF TypeOK, MaxCopies
<1>4. PICK R : R = Records \ Logs
  OBVIOUS
<1>5. R \in SUBSET Records /\ Takes(R, p)
  BY <1>2, <1>4 DEF Takes
<1>6. /\ \A r \in Records : (Stored(r) => Stored(r)' \/ (r \in R /\ stored[r][p] > 0)) /\ (Stored(r)' => Stored(r))
      /\ AtOnce(stored) => AtOnce(stored')
      /\ \A r \in Records, q \in {Default} \cup Ids : stored'[r][q] > 0 => stored[r][q] > 0
  BY <1>5, StoredShrinks
<1>. QED  BY <1>3, <1>4, <1>6

\* A deletion that runs out of time leaves everything where it is.
LEMMA TimesOutKeeps ==
  ASSUME ApInv, DeleteTimesOut
  PROVE  ApInv'
<1>1. /\ UNCHANGED <<at, batch, taken, replayed, nextRow, overlap, slugOf, reparked, undrained, dropped, misdrained>>
      /\ UNCHANGED <<projects, nextId, aliases, held, stored, deleted, merged, discarded>>
      /\ del' = [pc |-> "idle", pid |-> None] /\ faults' = faults + 1
  BY DEF DeleteTimesOut, db, history
<1>2. TypeOK' /\ faults' \in Nat /\ faults' # 0
  <2>1. TypeOK /\ faults \in Nat
    BY DEF ApInv, ApTypes
  <2>2. TypeOK'
    BY <1>1, <2>1 DEF TypeOK
  <2>. QED  BY <1>1, <2>1, <2>2
<1>3. ProjectsOk' /\ Projects' = Projects
  BY <1>1 DEF ApInv, ApTypes, ProjectsOk, Projects
<1>4. (\A r : Stored(r)' = Stored(r)) /\ \A p : Active(p)' = Active(p) /\ Open(p)' = Open(p)
  BY <1>1 DEF Stored, Active, Open
<1>5. \A r \in Records, p \in Projects' : stored'[r][p] > 0 => Open(p)'
  BY <1>1, <1>3, <1>4 DEF ApInv, HeldBack
<1>. QED  BY <1>1, <1>2, <1>3, <1>4, <1>5, TablesChange

\* A deletion begins with the issues and events of the project.
LEMMA DeleteKeeps ==
  ASSUME ApInv, NEW s \in Slugs, DeleteProject(s)
  PROVE  ApInv'
<1>1. PICK p : p = ProjectBySlug(s)
  OBVIOUS
<1>2. /\ UNCHANGED <<at, batch, taken, replayed, nextRow, overlap, slugOf, reparked, undrained, dropped, misdrained>>
      /\ UNCHANGED <<projects, nextId, aliases, held, faults, merged>>
      /\ p # None /\ del' = [pc |-> "children", pid |-> p] /\ stored' = CascadeStored(p)
      /\ deleted' = deleted \cup {p}
      /\ discarded' = discarded \cup {r \in Records \ Logs : stored[r][p] > 0}
  BY <1>1 DEF DeleteProject
<1>3. TypeOK /\ faults \in Nat
  BY DEF ApInv, ApTypes
<1>4. p \in Projects
  BY <1>1, <1>2, <1>3, SlugFinds DEF TypeOK, Projects
<1>5. /\ stored' \in [Records -> [{Default} \cup Ids -> 0..MaxCopies]]
      /\ \A r \in Records : (Stored(r) => Stored(r)' \/ (r \in Records \ Logs /\ stored[r][p] > 0))
                            /\ (Stored(r)' => Stored(r))
      /\ AtOnce(stored) => AtOnce(stored')
      /\ \A r \in Records, q \in {Default} \cup Ids : stored'[r][q] > 0 => stored[r][q] > 0
  BY <1>2, <1>3, CascadeShrinks
<1>6. TypeOK'
  BY <1>2, <1>3, <1>5 DEF TypeOK
<1>7. ProjectsOk' /\ Projects' = Projects
  BY <1>2, <1>4, <1>5 DEF ApInv, ApTypes, ProjectsOk, Projects
<1>8. \A q : Active(q)' = Active(q) /\ Open(q)' = Open(q)
  BY <1>2 DEF Active, Open
<1>9. \A r \in Records, q \in Projects' : stored'[r][q] > 0 => Open(q)'
  BY <1>5, <1>7, <1>8, KnownProjects DEF ApInv, HeldBack
<1>10. \A r \in Records : (Stored(r) => Stored(r)' \/ r \in discarded') /\ (Stored(r)' => Stored(r))
  BY <1>2, <1>5
<1>. QED  BY <1>2, <1>3, <1>5, <1>6, <1>7, <1>8, <1>9, <1>10, TablesChange

\* The log entries, aliases and held rows of a deleted project go.
LEMMA ChildrenKeeps ==
  ASSUME ApInv, DeleteChildren
  PROVE  ApInv'
<1>1. PICK p : p = del.pid
  OBVIOUS
<1>2. /\ UNCHANGED <<at, batch, taken, replayed, nextRow, overlap, slugOf, reparked, undrained, dropped, misdrained>>
      /\ UNCHANGED <<projects, nextId, faults, merged, deleted>>
      /\ del.pc = "children" /\ del' = [del EXCEPT !.pc = "row"]
      /\ stored' = [r \in Records |-> [stored[r] EXCEPT ![p] = IF r \in Logs THEN 0 ELSE @]]
      /\ aliases' = Without(aliases, AliasesOf(p)) /\ held' = held \ HeldOf(p)
      /\ discarded' = discarded \cup {r \in Logs : stored[r][p] > 0} \cup {row.rec : row \in HeldOf(p)}
  BY <1>1 DEF DeleteChildren, counters
<1>3. TypeOK /\ faults \in Nat
  BY DEF ApInv, ApTypes
<1>4. p \in deleted /\ p \in Projects /\ p \in Ids
  BY <1>1, <1>2, <1>3, ApprovalAssumption DEF ApInv, ApTypes, ProjectsOk, TypeOK, Projects, Ids
<1>5. stored' \in [Records -> [{Default} \cup Ids -> 0..MaxCopies]]
      /\ \A r \in Records, q \in {Default} \cup Ids :
           stored'[r][q] = IF q = p /\ r \in Logs THEN 0 ELSE stored[r][q]
  <2>1. stored \in [Records -> [{Default} \cup Ids -> 0..MaxCopies]] /\ 0 \in 0..MaxCopies
    <3>1. 0 \in 0..MaxCopies
      BY DEF MaxCopies
    <3>. QED  BY <1>3, <3>1 DEF TypeOK
  <2>2. ASSUME NEW r \in Records
        PROVE  stored'[r] \in [{Default} \cup Ids -> 0..MaxCopies]
               /\ \A q \in {Default} \cup Ids : stored'[r][q] = IF q = p /\ r \in Logs THEN 0 ELSE stored[r][q]
    BY <1>2, <1>4, <2>1
  <2>. QED  BY <1>2, <2>2
<1>6. Logs \in SUBSET Records /\ Takes(Logs, p)
  BY <1>5, ApprovalAssumption DEF Takes
<1>7. /\ \A r \in Records : (Stored(r) => Stored(r)' \/ (r \in Logs /\ stored[r][p] > 0)) /\ (Stored(r)' => Stored(r))
      /\ AtOnce(stored) => AtOnce(stored')
      /\ \A r \in Records, q \in {Default} \cup Ids : stored'[r][q] > 0 => stored[r][q] > 0
  BY <1>3, <1>6, StoredShrinks
<1>8. TypeOK'
  <2>1. \A t \in DOMAIN aliases' : t \in Slugs /\ aliases'[t] \in DOMAIN projects'
    BY <1>2, <1>3 DEF TypeOK, Without
  <2>. QED  BY <1>2, <1>3, <1>5, <2>1 DEF TypeOK
<1>9. ProjectsOk' /\ Projects' = Projects
  <2>1. Projects' = Projects
    BY <1>2 DEF Projects
  <2>2. del'.pid = p
    BY <1>1, <1>2
  <2>. QED  BY <1>2, <1>4, <1>7, <2>1, <2>2 DEF ApInv, ApTypes, ProjectsOk
<1>10. \A q : Active(q)' = Active(q) /\ Open(q)' = Open(q)
  BY <1>2 DEF Active, Open
<1>11. \A r \in Records, q \in Projects' : stored'[r][q] > 0 => Open(q)'
  BY <1>7, <1>9, <1>10, KnownProjects DEF ApInv, HeldBack
<1>12. \A r \in Records : (Stored(r) => Stored(r)' \/ r \in discarded') /\ (Stored(r)' => Stored(r))
  BY <1>2, <1>7
<1>13. \A row \in held : row \in held' \/ (row.proj \in deleted' /\ row.rec \in discarded')
  BY <1>2, <1>4 DEF HeldOf
<1>. QED  BY <1>2, <1>3, <1>7, <1>8, <1>9, <1>10, <1>11, <1>12, <1>13, TablesChange

\* The row of a deleted project goes, and what references it.
LEMMA RowKeeps ==
  ASSUME ApInv, DeleteRow
  PROVE  ApInv'
<1>1. PICK p : p = del.pid
  OBVIOUS
<1>2. /\ UNCHANGED <<at, batch, taken, replayed, nextRow, overlap, slugOf, reparked, undrained, dropped, misdrained>>
      /\ UNCHANGED <<nextId, held, faults, merged, deleted>>
      /\ del.pc = "row" /\ del' = [pc |-> "idle", pid |-> None] /\ stored' = CascadeStored(p)
      /\ aliases' = Without(aliases, AliasesOf(p)) /\ projects' = Without(projects, {p})
      /\ discarded' = discarded \cup {r \in Records \ Logs : stored[r][p] > 0}
  BY <1>1 DEF DeleteRow, counters
<1>3. TypeOK /\ faults \in Nat
  BY DEF ApInv, ApTypes
<1>4. p \in deleted
  BY <1>1, <1>2 DEF ApInv, ApTypes, ProjectsOk
<1>5. /\ stored' \in [Records -> [{Default} \cup Ids -> 0..MaxCopies]]
      /\ \A r \in Records : (Stored(r) => Stored(r)' \/ (r \in Records \ Logs /\ stored[r][p] > 0))
                            /\ (Stored(r)' => Stored(r))
      /\ AtOnce(stored) => AtOnce(stored')
      /\ \A r \in Records, q \in {Default} \cup Ids : stored'[r][q] > 0 => stored[r][q] > 0
  BY <1>2, <1>3, CascadeShrinks
<1>6. DOMAIN projects' = DOMAIN projects \ {p} /\ \A q \in DOMAIN projects' : projects'[q] = projects[q]
  BY <1>2 DEF Without
<1>7. TypeOK'
  <2>1. \A t \in DOMAIN aliases' : t \in Slugs /\ aliases'[t] \in DOMAIN projects'
    BY <1>2, <1>3, <1>6 DEF TypeOK, Without, AliasesOf
  <2>2. \A q \in DOMAIN projects' : projects'[q] \in [slug : Slugs, status : {"pending", "active"}]
    BY <1>3, <1>6 DEF TypeOK
  <2>3. \A q, o \in DOMAIN projects' : projects'[q].slug = projects'[o].slug => q = o
    BY <1>3, <1>6 DEF TypeOK
  <2>. QED  BY <1>2, <1>3, <1>5, <1>6, <2>1, <2>2, <2>3 DEF TypeOK
<1>8. ProjectsOk' /\ Projects' = Projects
  BY <1>2, <1>4, <1>5, <1>6 DEF ApInv, ApTypes, ProjectsOk, Projects
<1>9. \A q : (Active(q)' => Active(q)) /\ (Open(q) => Open(q)')
  BY <1>2, <1>6 DEF Active, Open
<1>10. \A r \in Records, q \in Projects' : stored'[r][q] > 0 => Open(q)'
  BY <1>5, <1>8, <1>9, KnownProjects DEF ApInv, HeldBack
<1>11. \A r \in Records : (Stored(r) => Stored(r)' \/ r \in discarded') /\ (Stored(r)' => Stored(r))
  BY <1>2, <1>5
<1>. QED  BY <1>2, <1>3, <1>5, <1>7, <1>8, <1>9, <1>10, <1>11, TablesChange

\* A rename changes the slug of a project and nothing stored in it.
LEMMA RenameKeeps ==
  ASSUME ApInv, NEW s \in Slugs, NEW t \in Slugs, RenameProject(s, t)
  PROVE  ApInv'
<1>1. PICK p : p = ProjectBySlug(s)
  OBVIOUS
<1>2. /\ UNCHANGED <<at, batch, taken, replayed, nextRow, overlap, slugOf, reparked, undrained, dropped, misdrained>>
      /\ UNCHANGED <<nextId, held, stored, del, faults, merged, deleted, discarded>>
      /\ p # None /\ ProjectBySlug(t) = None
      /\ projects' = [projects EXCEPT ![p].slug = t]
      /\ aliases' = [x \in DOMAIN aliases \cup {s} |-> IF x = s THEN p ELSE aliases[x]]
  BY <1>1 DEF RenameProject, history
<1>3. TypeOK /\ faults \in Nat
  BY DEF ApInv, ApTypes
<1>4. p \in DOMAIN projects /\ \A q \in DOMAIN projects : projects[q].slug # t
  BY <1>1, <1>2, <1>3, SlugFinds
<1>5. /\ DOMAIN projects' = DOMAIN projects
      /\ \A q \in DOMAIN projects : /\ projects'[q].slug = IF q = p THEN t ELSE projects[q].slug
                                    /\ projects'[q].status = projects[q].status
                                    /\ projects'[q] \in [slug : Slugs, status : {"pending", "active"}]
  <2>1. projects[p] \in [slug : Slugs, status : {"pending", "active"}]
    BY <1>3, <1>4 DEF TypeOK
  <2>2. [projects[p] EXCEPT !.slug = t].slug = t
        /\ [projects[p] EXCEPT !.slug = t].status = projects[p].status
        /\ [projects[p] EXCEPT !.slug = t] \in [slug : Slugs, status : {"pending", "active"}]
    BY <2>1
  <2>3. projects' = [projects EXCEPT ![p] = [projects[p] EXCEPT !.slug = t]]
    BY <1>2
  <2>. QED  BY <1>3, <1>4, <2>2, <2>3 DEF TypeOK
<1>6. TypeOK'
  <2>1. \A x \in DOMAIN aliases' : x \in Slugs /\ aliases'[x] \in DOMAIN projects'
    BY <1>2, <1>3, <1>4, <1>5 DEF TypeOK
  <2>2. \A q, o \in DOMAIN projects' : projects'[q].slug = projects'[o].slug => q = o
    BY <1>3, <1>4, <1>5 DEF TypeOK
  <2>3. \A q \in DOMAIN projects' : projects'[q] \in [slug : Slugs, status : {"pending", "active"}]
    BY <1>5
  <2>. QED  BY <1>2, <1>3, <1>5, <2>1, <2>2, <2>3 DEF TypeOK
<1>7. ProjectsOk' /\ Projects' = Projects
  BY <1>2, <1>5 DEF ApInv, ApTypes, ProjectsOk, Projects
<1>8. (\A q : (Active(q)' => Active(q)) /\ (Open(q) => Open(q)')) /\ \A r : Stored(r)' = Stored(r)
  BY <1>2, <1>5 DEF Active, Open, Stored
<1>9. \A r \in Records, q \in Projects' : stored'[r][q] > 0 => Open(q)'
  BY <1>2, <1>7, <1>8 DEF ApInv, HeldBack
<1>. QED  BY <1>2, <1>3, <1>6, <1>7, <1>8, <1>9, TablesChange

\* A merge moves the issues and events, and both projects are remembered.
LEMMA MergeKeeps ==
  ASSUME ApInv, NEW s \in Slugs, NEW t \in Slugs, MergeProjects(s, t)
  PROVE  ApInv'
<1>1. PICK p, q : p = ProjectBySlug(s) /\ q = ProjectBySlug(t)
  OBVIOUS
<1>2. /\ UNCHANGED <<at, batch, taken, replayed, nextRow, overlap, slugOf, reparked, undrained, dropped, misdrained>>
      /\ UNCHANGED <<nextId, held, del, faults>>
      /\ p # None /\ q # None /\ s \notin DOMAIN aliases
      /\ projects' = Without(projects, {p}) /\ merged' = merged \cup {p, q}
      /\ aliases' = [x \in (DOMAIN aliases \ AliasesOf(p)) \cup (IF p = q THEN {} ELSE {s}) |->
                       IF x = s THEN q ELSE aliases[x]]
      /\ p = q => /\ stored' = CascadeStored(p) /\ deleted' = deleted \cup {p}
                  /\ discarded' = discarded \cup {r \in Records \ Logs : stored[r][p] > 0}
      /\ p # q => /\ deleted' = deleted /\ discarded' = discarded
                  /\ stored' = [r \in Records |-> IF r \in Logs THEN stored[r]
                                  ELSE [stored[r] EXCEPT ![p] = 0, ![q] = Min({MaxCopies, @ + stored[r][p]})]]
  BY <1>1 DEF MergeProjects
<1>3. TypeOK /\ faults \in Nat /\ MaxCopies = 2
  BY DEF ApInv, ApTypes, MaxCopies
<1>4. p \in DOMAIN projects /\ q \in DOMAIN projects /\ p \in Projects /\ q \in Projects /\ p \in Ids /\ q \in Ids
  BY <1>1, <1>2, <1>3, SlugFinds, KnownProjects DEF TypeOK, Projects
<1>5. stored \in [Records -> [{Default} \cup Ids -> 0..MaxCopies]]
  BY <1>3 DEF TypeOK
<1>6. DOMAIN projects' = DOMAIN projects \ {p} /\ \A o \in DOMAIN projects' : projects'[o] = projects[o]
  BY <1>2 DEF Without
<1>7. ASSUME p # q
      PROVE  /\ stored' \in [Records -> [{Default} \cup Ids -> 0..MaxCopies]]
             /\ \A r \in Records : (Stored(r) => Stored(r)') /\ (Stored(r)' => Stored(r))
             /\ AtOnce(stored) => AtOnce(stored')
             /\ \A r \in Records, o \in {Default} \cup Ids : o # q /\ stored'[r][o] > 0 => stored[r][o] > 0
  <2>1. ASSUME NEW r \in Records \ Logs
        PROVE  /\ stored'[r] \in [{Default} \cup Ids -> 0..MaxCopies]
               /\ stored'[r][p] = 0
               /\ stored'[r][q] = IF stored[r][q] + stored[r][p] < 2 THEN stored[r][q] + stored[r][p] ELSE 2
               /\ \A o \in {Default} \cup Ids : o # p /\ o # q => stored'[r][o] = stored[r][o]
    <3>1. PICK n : n = Min({MaxCopies, stored[r][q] + stored[r][p]})
      OBVIOUS
    <3>2. stored[r][q] \in 0..2 /\ stored[r][p] \in 0..2
      BY <1>3, <1>4, <1>5
    <3>3. n = (IF stored[r][q] + stored[r][p] < 2 THEN stored[r][q] + stored[r][p] ELSE 2) /\ n \in 0..MaxCopies
      <4>1. PICK k : k = stored[r][q] + stored[r][p]
        OBVIOUS
      <4>2. k \in Nat /\ MaxCopies \in Int /\ n = Min({MaxCopies, k})
        BY <1>3, <3>1, <3>2, <4>1
      <4>3. MaxCopies = 2 /\ n = IF MaxCopies <= k THEN MaxCopies ELSE k
        BY <1>3, <4>2, MinTwo
      <4>4. n = (IF k < 2 THEN k ELSE 2) /\ n \in 0..MaxCopies
        BY <4>2, <4>3
      <4>. QED  BY <4>1, <4>4
    <3>4. stored'[r] = [[stored[r] EXCEPT ![p] = 0] EXCEPT ![q] = n]
      BY <1>2, <1>4, <1>5, <1>7, <2>1, <3>1
    <3>. QED  BY <1>3, <1>4, <1>5, <1>7, <3>3, <3>4
  <2>2. \A r \in Logs : r \in Records /\ stored'[r] = stored[r]
    BY <1>2, <1>7, ApprovalAssumption
  <2>3. stored' \in [Records -> [{Default} \cup Ids -> 0..MaxCopies]]
    <3>1. \A r \in Records : stored'[r] \in [{Default} \cup Ids -> 0..MaxCopies]
      BY <1>5, <2>1, <2>2
    <3>2. stored' = [r \in Records |-> stored'[r]]
      BY <1>2, <1>7
    <3>. QED  BY <3>1, <3>2
  <2>4. \A r \in Records, o \in {Default} \cup Ids : stored[r][o] \in 0..2 /\ stored'[r][o] \in 0..2
    BY <1>3, <1>5, <2>3
  <2>5. ASSUME NEW r \in Records PROVE (Stored(r) => Stored(r)') /\ (Stored(r)' => Stored(r))
    <3>1. CASE r \in Logs
      BY <2>2, <3>1 DEF Stored
    <3>2. CASE r \notin Logs
      <4>1. ASSUME NEW o \in {Default} \cup Ids, stored[r][o] > 0 PROVE Stored(r)'
        <5>1. CASE o \in {p, q}
          <6>1. stored'[r][q] > 0
            BY <1>4, <2>1, <2>4, <3>2, <4>1, <5>1
          <6>. QED  BY <1>4, <6>1 DEF Stored
        <5>2. CASE o \notin {p, q}
          BY <2>1, <3>2, <4>1, <5>2 DEF Stored
        <5>. QED  BY <5>1, <5>2
      <4>2. ASSUME NEW o \in {Default} \cup Ids, stored'[r][o] > 0 PROVE Stored(r)
        BY <1>4, <2>1, <2>4, <3>2, <4>2 DEF Stored
      <4>. QED  BY <4>1, <4>2 DEF Stored
    <3>. QED  BY <3>1, <3>2
  <2>6. ASSUME AtOnce(stored) PROVE AtOnce(stored')
    <3>1. ASSUME NEW r \in Records, NEW o \in {Default} \cup Ids PROVE stored'[r][o] <= 1
      BY <1>4, <2>1, <2>2, <2>4, <2>6, <3>1 DEF AtOnce
    <3>2. ASSUME NEW r \in Records, NEW o \in {Default} \cup Ids, NEW u \in {Default} \cup Ids,
                 stored'[r][o] > 0, stored'[r][u] > 0
          PROVE  o = u
      BY <1>4, <1>7, <2>1, <2>2, <2>4, <2>6, <3>2 DEF AtOnce
    <3>. QED  BY <3>1, <3>2 DEF AtOnce
  <2>7. \A r \in Records, o \in {Default} \cup Ids : o # q /\ stored'[r][o] > 0 => stored[r][o] > 0
    BY <1>4, <2>1, <2>2, <2>4
  <2>. QED  BY <2>3, <2>5, <2>6, <2>7
<1>8. /\ stored' \in [Records -> [{Default} \cup Ids -> 0..MaxCopies]]
      /\ \A r \in Records : (Stored(r) => Stored(r)' \/ r \in discarded') /\ (Stored(r)' => Stored(r))
      /\ AtOnce(stored) => AtOnce(stored')
      /\ \A r \in Records, o \in {Default} \cup Ids : o # q /\ stored'[r][o] > 0 => stored[r][o] > 0
  <2>1. CASE p = q
    <3>1. stored' = CascadeStored(p)
      BY <1>2, <2>1
    <3>2. /\ stored' \in [Records -> [{Default} \cup Ids -> 0..MaxCopies]]
          /\ \A r \in Records : (Stored(r) => Stored(r)' \/ (r \in Records \ Logs /\ stored[r][p] > 0))
                                /\ (Stored(r)' => Stored(r))
          /\ AtOnce(stored) => AtOnce(stored')
          /\ \A r \in Records, o \in {Default} \cup Ids : stored'[r][o] > 0 => stored[r][o] > 0
      BY <1>3, <3>1, CascadeShrinks
    <3>. QED  BY <1>2, <2>1, <3>2
  <2>2. CASE p # q
    BY <1>7, <2>2
  <2>. QED  BY <2>1, <2>2
<1>9. TypeOK'
  <2>1. \A x \in DOMAIN aliases' : x \in Slugs /\ aliases'[x] \in DOMAIN projects'
    <3>1. ASSUME NEW x \in DOMAIN aliases', x = s PROVE x \in Slugs /\ aliases'[x] \in DOMAIN projects'
      <4>1. p # q
        BY <1>2, <3>1
      <4>. QED  BY <1>2, <1>4, <1>6, <3>1, <4>1
    <3>2. ASSUME NEW x \in DOMAIN aliases', x # s PROVE x \in Slugs /\ aliases'[x] \in DOMAIN projects'
      <4>1. x \in DOMAIN aliases /\ aliases'[x] = aliases[x] /\ aliases[x] # p
        BY <1>2, <3>2 DEF AliasesOf
      <4>. QED  BY <1>3, <1>6, <4>1 DEF TypeOK
    <3>. QED  BY <3>1, <3>2
  <2>2. \A o \in DOMAIN projects' : projects'[o] \in [slug : Slugs, status : {"pending", "active"}]
    BY <1>3, <1>6 DEF TypeOK
  <2>3. \A o, u \in DOMAIN projects' : projects'[o].slug = projects'[u].slug => o = u
    BY <1>3, <1>6 DEF TypeOK
  <2>. QED  BY <1>2, <1>3, <1>6, <1>8, <2>1, <2>2, <2>3 DEF TypeOK
<1>10. ProjectsOk' /\ Projects' = Projects
  <2>1. Projects' = Projects
    BY <1>2 DEF Projects
  <2>2. \A o \in Projects : o \in DOMAIN projects' \cup deleted' \cup merged'
    BY <1>2, <1>6 DEF ApInv, ApTypes, ProjectsOk
  <2>3. \A r \in Records, o \in {Default} \cup Ids : stored'[r][o] > 0 => o \in {Default} \cup Projects
    BY <1>4, <1>8 DEF ApInv, ApTypes, ProjectsOk
  <2>4. del'.pc # "idle" => del'.pid \in deleted' /\ del'.pid \in Projects
    BY <1>2 DEF ApInv, ApTypes, ProjectsOk
  <2>. QED  BY <2>1, <2>2, <2>3, <2>4 DEF ProjectsOk
<1>11. \A o : (Active(o)' => Active(o)) /\ (Open(o) => Open(o)')
  BY <1>2, <1>6 DEF Active, Open
<1>12. Open(q)'
  BY <1>2 DEF Open
<1>13. \A r \in Records, o \in Projects' : stored'[r][o] > 0 => Open(o)'
  BY <1>8, <1>10, <1>11, <1>12, KnownProjects DEF ApInv, HeldBack
<1>. QED  BY <1>2, <1>3, <1>8, <1>9, <1>10, <1>11, <1>13, TablesChange

\* The project becomes active and its approval goes on to look its slug up again.
LEMMA ApproveKeeps ==
  ASSUME ApInv, NEW a \in Approvals, NEW s \in Slugs, ApproveProject(a, s)
  PROVE  ApInv'
<1>1. PICK p : p = ProjectBySlug(s)
  OBVIOUS
<1>. DEFINE h == [Idle EXCEPT !.pc = "lookup", !.pid = p, !.slug = s]
<1>2. /\ UNCHANGED <<batch, taken, replayed, nextRow, nextId, overlap, slugOf, reparked, undrained, dropped, misdrained>>
      /\ UNCHANGED <<faults, deleted, merged, discarded, held, stored, aliases, del>>
      /\ at[a].pc = "idle" /\ p # None
      /\ projects' = [projects EXCEPT ![p].status = "active"]
      /\ at' = [at EXCEPT ![a] = h]
  BY <1>1 DEF ApproveProject, history
<1>3. TypeOK /\ faults \in Nat /\ a \in Actors /\ a # Consumer
  BY ApprovalAssumption DEF ApInv, ApTypes, Actors
<1>4. p \in DOMAIN projects /\ p \in Projects /\ p \in Int
  <2>1. p \in DOMAIN projects
    BY <1>1, <1>2, <1>3, SlugFinds
  <2>. QED  BY <1>3, <2>1 DEF TypeOK, Projects
<1>5. h \in ActorType /\ h.pc = "lookup" /\ h.pid = p /\ h.drains = None
  <2>1. Idle \in ActorType /\ Idle.drains = None
    BY DEF Idle, ActorType, None
  <2>. QED  BY <1>4, <2>1 DEF ActorType
<1>. HIDE DEF h
<1>6. at' \in [Actors -> ActorType] /\ at'[a] = h /\ \A b \in Actors \ {a} : at'[b] = at[b]
  BY <1>2, <1>3, <1>5 DEF ApInv, ApTypes, ActorsOk
<1>7. batch[a] = {} /\ at[a].drains = None
  BY <1>2 DEF ApInv, ApTypes, ActorsOk, ApprovalOk, Handling
<1>8. /\ at'[Consumer] = at[Consumer]
      /\ \A b \in Actors : at'[b].drains = at[b].drains /\ (at'[b].pc = "forget" <=> at[b].pc = "forget")
      /\ \A b \in Actors : at[b].pc = "lookup" => at'[b] = at[b]
      /\ \A b \in Actors : at'[b].pc \in {"forget", "persist"} => at'[b] = at[b]
  BY <1>2, <1>3, <1>5, <1>6, <1>7 DEF Actors
<1>9. /\ DOMAIN projects' = DOMAIN projects /\ projects'[p].status = "active"
      /\ \A q \in DOMAIN projects : /\ projects'[q].slug = projects[q].slug
                                    /\ projects'[q] \in [slug : Slugs, status : {"pending", "active"}]
                                    /\ q # p => projects'[q] = projects[q]
  <2>1. projects[p] \in [slug : Slugs, status : {"pending", "active"}]
    BY <1>3, <1>4 DEF TypeOK
  <2>2. [projects[p] EXCEPT !.status = "active"].slug = projects[p].slug
        /\ [projects[p] EXCEPT !.status = "active"].status = "active"
        /\ [projects[p] EXCEPT !.status = "active"] \in [slug : Slugs, status : {"pending", "active"}]
    BY <2>1
  <2>3. projects' = [projects EXCEPT ![p] = [projects[p] EXCEPT !.status = "active"]]
    BY <1>2
  <2>. QED  BY <1>3, <1>4, <2>2, <2>3 DEF TypeOK
<1>10. Rows' = Rows /\ (\A x : StillParked(x)' = StillParked(x)) /\ \A r : InHand(r)' = InHand(r) /\ Stored(r)' = Stored(r)
  BY <1>2, <1>8 DEF Rows, InHand, Stored, StillParked, Actors
<1>11. Projects' = Projects
  BY <1>2 DEF Projects
<1>12. ApTypes'
  <2>1. TypeOK'
    <3>1. \A q \in DOMAIN projects' : projects'[q] \in [slug : Slugs, status : {"pending", "active"}]
      BY <1>9
    <3>2. \A q, o \in DOMAIN projects' : projects'[q].slug = projects'[o].slug => q = o
      BY <1>3, <1>9 DEF TypeOK
    <3>. QED  BY <1>2, <1>3, <1>9, <3>1, <3>2 DEF TypeOK
  <2>2. RowsOk' /\ ProjectsOk'
    BY <1>2, <1>9, <1>10, <1>11 DEF ApInv, ApTypes, RowsOk, ProjectsOk
  <2>3. ActorsOk'
    <3>1. ASSUME NEW b \in Approvals PROVE ApprovalOk(at[b], batch[b])'
      <4>1. CASE b = a
        BY <1>2, <1>4, <1>5, <1>6, <1>7, <1>11, <4>1 DEF ApprovalOk, Handling
      <4>2. CASE b # a
        <5>1. at'[b] = at[b] /\ ApprovalOk(at[b], batch[b])
          BY <1>6, <4>2 DEF ApInv, ApTypes, ActorsOk, Actors
        <5>. QED  BY <1>2, <1>11, <5>1 DEF ApprovalOk
      <4>. QED  BY <4>1, <4>2
    <3>2. ASSUME NEW b \in Actors PROVE TargetOk(at[b])'
      BY <1>5, <1>6, <1>11 DEF TargetOk, ApInv, ApTypes, ActorsOk
    <3>3. ConsumerOk(at[Consumer], taken)'
      BY <1>2, <1>8 DEF ConsumerOk, ApInv, ApTypes, ActorsOk
    <3>. QED  BY <1>2, <1>6, <3>1, <3>2, <3>3 DEF ApInv, ApTypes, ActorsOk
  <2>. QED  BY <1>2, <2>1, <2>2, <2>3 DEF ApInv, ApTypes
<1>13. \A q : (Open(q) => Open(q)') /\ (q = p => Open(q)')
  BY <1>2, <1>9 DEF Open
<1>14. HeldBack'
  <2>1. \A b \in Actors : at'[b].pc \in {"persist", "lookup"} => at'[b] = at[b] \/ at'[b].pid = p
    BY <1>5, <1>6
  <2>. QED  BY <1>2, <1>8, <1>11, <1>13, <2>1 DEF ApInv, HeldBack, Actors
<1>15. KeptRecords'
  BY <1>2, <1>8, <1>10 DEF ApInv, KeptRecords, Safe, Actors
<1>16. DrainedOk'
  <2>1. \A q : Served(q) => Served(q)'
    BY <1>8 DEF Served, Actors
  <2>2. Served(p)'
    BY <1>5, <1>6 DEF Served
  <2>3. \A q : q # p /\ Active(q)' => Active(q)
    BY <1>9 DEF Active
  <2>. QED  BY <1>2, <2>1, <2>2, <2>3 DEF ApInv, DrainedOk
<1>17. OneDrain'
  BY <1>2, <1>8 DEF ApInv, OneDrain, Actors
<1>18. Once'
  BY <1>2, <1>10 DEF ApInv, Once
<1>19. InOrder'
  <2>1. \A x : ReplayedRow(x)' = ReplayedRow(x) /\ \A q : Mixed(q)' = Mixed(q)
    BY <1>2 DEF ReplayedRow, Mixed
  <2>. QED  BY <1>2, <1>8, <1>10, <2>1 DEF ApInv, InOrder, ReplayedInOrder, Actors
<1>. QED  BY <1>12, <1>14, <1>15, <1>16, <1>17, <1>18, <1>19 DEF ApInv

\* The writer stops: every actor and the deletion start anew.
LEMMA RestartKeeps ==
  ASSUME ApInv, Restart
  PROVE  ApInv'
<1>1. /\ UNCHANGED <<slugOf, projects, nextId, aliases, held, nextRow, stored, dropped>>
      /\ UNCHANGED <<replayed, deleted, discarded, merged, misdrained, reparked, overlap>>
      /\ faults' = faults + 1 /\ taken' = (IF at[Consumer].pc = "idle" THEN taken ELSE taken - 1)
      /\ at' = [a \in Actors |-> Idle] /\ batch' = [a \in Approvals |-> {}]
      /\ del' = [pc |-> "idle", pid |-> None]
      /\ undrained' = undrained \cup {at[a].drains : a \in Approvals} \cup {at[a].pid : a \in Approvals}
  BY DEF Restart, db
<1>2. TypeOK /\ faults \in Nat /\ taken \in 0..MaxRecords
  BY DEF ApInv, ApTypes, TypeOK
<1>3. taken' \in 0..MaxRecords /\ \A r \in Records : InHand(r) => r > taken'
  <2>1. ConsumerOk(at[Consumer], taken)
    BY DEF ApInv, ApTypes, ActorsOk
  <2>2. CASE at[Consumer].pc = "idle"
    BY <1>1, <1>2, <2>1, <2>2 DEF ConsumerOk, InHand, Records, None
  <2>3. CASE at[Consumer].pc # "idle"
    <3>1. taken' = taken - 1 /\ taken > 0 /\ at[Consumer].rec = taken /\ taken' \in 0..MaxRecords
      BY <1>1, <1>2, <2>1, <2>3, ApprovalAssumption DEF ConsumerOk
    <3>. QED  BY <1>2, <3>1 DEF InHand, Records
  <2>. QED  BY <2>2, <2>3
<1>4. Rows' = held /\ held \subseteq Rows
  BY <1>1 DEF Rows
<1>5. Projects' = Projects /\ faults' # 0 /\ faults' \in Nat
  BY <1>1, <1>2 DEF Projects
<1>6. /\ \A a \in Actors : at'[a] = Idle
      /\ \A a \in Approvals : batch'[a] = {} /\ at'[a] = Idle
      /\ at'[Consumer] = Idle /\ Idle.pc = "idle" /\ Idle.drains = None /\ Idle.rec = None
  BY <1>1 DEF Idle, Actors
<1>7. ApTypes'
  <2>1. TypeOK'
    BY <1>1, <1>2, <1>3 DEF TypeOK
  <2>2. RowsOk'
    BY <1>1, <1>4, <1>5 DEF ApInv, ApTypes, RowsOk
  <2>3. ProjectsOk'
    BY <1>1, <1>5 DEF ApInv, ApTypes, ProjectsOk
  <2>4. ActorsOk'
    <3>1. Idle \in ActorType
      BY DEF Idle, ActorType, None
    <3>2. at' \in [Actors -> ActorType] /\ batch' \in [Approvals -> SUBSET RowType]
      BY <1>1, <3>1
    <3>3. \A a \in Approvals : ApprovalOk(at[a], batch[a])'
      BY <1>6 DEF ApprovalOk, Handling
    <3>4. (\A a \in Actors : TargetOk(at[a])') /\ ConsumerOk(at[Consumer], taken)'
      BY <1>6 DEF TargetOk, ConsumerOk
    <3>. QED  BY <3>2, <3>3, <3>4 DEF ActorsOk
  <2>. QED  BY <1>1, <1>5, <2>1, <2>2, <2>3, <2>4 DEF ApInv, ApTypes
<1>8. HeldBack'
  <2>1. \A q : Open(q)' = Open(q)
    BY <1>1 DEF Open
  <2>2. Open(None)
    BY <1>2, SlugFinds DEF Open
  <2>. QED  BY <1>1, <1>5, <1>6, <2>1, <2>2 DEF ApInv, HeldBack
<1>9. KeptRecords'
  <2>1. \A r, n : Safe(r, n)' = Safe(r, n)
    BY <1>1 DEF Safe, Stored
  <2>. QED  BY <1>1, <1>3, <1>6, <2>1 DEF ApInv, KeptRecords, InHand
<1>10. DrainedOk' /\ OneDrain'
  BY <1>1, <1>6 DEF ApInv, DrainedOk, OneDrain, Served, Active
<1>11. Once'
  BY <1>5 DEF Once
<1>12. InOrder'
  <2>1. \A x : ReplayedRow(x)' = ReplayedRow(x) /\ \A p : Mixed(p)' = Mixed(p)
    BY <1>1 DEF ReplayedRow, Mixed
  <2>. QED  BY <1>1, <1>4, <1>6, <2>1 DEF ApInv, InOrder, ReplayedInOrder
<1>. QED  BY <1>7, <1>8, <1>9, <1>10, <1>11, <1>12 DEF ApInv

\* What the invariant says of one actor.
LEMMA HandOf ==
  ASSUME ApInv, NEW a \in Actors
  PROVE  /\ at[a] \in ActorType /\ TargetOk(at[a])
         /\ a = Consumer => ConsumerOk(at[a], taken)
         /\ a \in Approvals => ApprovalOk(at[a], batch[a]) /\ a # Consumer
         /\ a \notin Approvals => a = Consumer
         /\ at[a].pc = "persist" => Open(at[a].pid)
BY ApprovalAssumption DEF ApInv, ApTypes, ActorsOk, HeldBack, Actors

\* An error is tried again by the consumer up to its limit and ends an approval.
LEMMA RetryKeeps ==
  ASSUME ApInv, NEW a \in Actors, Retry(a), at[a].pc \in {"resolve", "create", "hold", "persist"},
         Frame, Safely, UNCHANGED <<taken, overlap>>
  PROVE  ApInv'
<1>1. CASE a = Consumer /\ at[a].attempt + 1 < MaxAttempts
  <2>1. PICK q, n : q = (IF at[a].rec \in Logs /\ at[a].pc = "persist" THEN "persist" ELSE "resolve")
                    /\ n = at[a].attempt + 1
    OBVIOUS
  <2>2. PICK h : h = [[at[a] EXCEPT !.attempt = n] EXCEPT !.pc = q]
    OBVIOUS
  <2>3. at' = [at EXCEPT ![a] = h] /\ UNCHANGED <<batch, undrained, dropped>>
    BY <1>1, <2>1, <2>2 DEF Retry, ApInv, ApTypes, ActorsOk
  <2>4. q \in {"persist", "resolve"} /\ (q = "persist" => at[a].pc = "persist") /\ n \in Int
    BY <2>1, HandOf DEF ActorType
  <2>5. h \in ActorType /\ h.pc = q /\ h.rec = at[a].rec /\ h.pid = at[a].pid /\ h.drains = at[a].drains
    BY <2>2, <2>4, HandOf DEF ActorType, Handling
  <2>6. TargetOk(h) /\ (h.pc = "persist" => Open(h.pid))
    BY <2>4, <2>5, HandOf DEF TargetOk
  <2>7. a \notin Approvals
    BY <1>1, ApprovalAssumption
  <2>. QED  BY <2>3, <2>4, <2>5, <2>6, <2>7, HandProceeds
<1>2. CASE a = Consumer /\ ~(at[a].attempt + 1 < MaxAttempts)
  BY <1>2, ConsumerEnds DEF Retry
<1>3. CASE a # Consumer
  <2>1. a \in Approvals
    BY <1>3, HandOf
  <2>2. at' = [at EXCEPT ![a] = Idle] /\ batch' = [batch EXCEPT ![a] = {}]
        /\ undrained' = undrained \cup {at[a].drains} /\ UNCHANGED dropped
    BY <1>3 DEF Retry
  <2>. QED  BY <2>1, <2>2, ApprovalStops
<1>. QED  BY <1>1, <1>2, <1>3

\* An event without a project goes to the default one, a log is tried again.
LEMMA UnresolvedKeeps ==
  ASSUME ApInv, NEW a \in Actors, Unresolved(a), at[a].pc \in {"resolve", "create"},
         Frame, Safely, UNCHANGED <<taken, overlap>>
  PROVE  ApInv'
<1>1. CASE at[a].rec \in Logs
  BY <1>1, RetryKeeps DEF Unresolved
<1>2. CASE at[a].rec \notin Logs
  <2>1. PICK h : h = [[at[a] EXCEPT !.pc = "persist"] EXCEPT !.pid = Default]
    OBVIOUS
  <2>2. at' = [at EXCEPT ![a] = h] /\ UNCHANGED <<batch, undrained, dropped>>
    BY <1>2, <2>1 DEF Unresolved, ApInv, ApTypes, ActorsOk
  <2>3. at[a] \in ActorType /\ Default \in Int /\ "persist" \in Handling
    BY HandOf DEF Handling, Default
  <2>6. h \in ActorType /\ h.pc = "persist" /\ h.rec = at[a].rec /\ h.pid = Default /\ h.drains = at[a].drains
    BY <2>1, <2>3 DEF ActorType
  <2>4. a \in Approvals => ApprovalOk(h, batch[a])
    BY <2>6, HandOf DEF ApprovalOk, Handling
  <2>5. TargetOk(h) /\ Open(h.pid)
    BY <2>6 DEF TargetOk, Open, Default, ApInv, ApTypes, TypeOK
  <2>. QED  BY <2>2, <2>6, <2>4, <2>5, HandProceeds
<1>. QED  BY <1>1, <1>2

\* A failing statement is tried again, goes to the default project or ends the drain.
LEMMA FailuresKeep ==
  ASSUME ApInv, NEW a \in Actors,
         ResolveFails(a) \/ HoldFails(a) \/ PersistBusy(a) \/ PersistRefused(a)
  PROVE  ApInv'
<1>1. /\ Frame /\ Safely /\ UNCHANGED <<taken, overlap>>
  <2>1. faults \in Nat
    BY DEF ApInv, ApTypes
  <2>2. CASE ResolveFails(a)
    BY <2>1, <2>2 DEF ResolveFails, Frame, Safely, db
  <2>3. CASE HoldFails(a)
    BY <2>1, <2>3 DEF HoldFails, Frame, Safely, db
  <2>4. CASE PersistBusy(a)
    BY <2>1, <2>4 DEF PersistBusy, Frame, Safely, db
  <2>5. CASE PersistRefused(a)
    BY <2>1, <2>5 DEF PersistRefused, Frame, Safely, db, counters
  <2>. QED  BY <2>2, <2>3, <2>4, <2>5
<1>2. CASE ResolveFails(a)
  BY <1>1, <1>2, UnresolvedKeeps DEF ResolveFails
<1>3. CASE PersistBusy(a)
  BY <1>1, <1>3, RetryKeeps DEF PersistBusy
<1>4. CASE HoldFails(a) /\ at[a].rec \notin Logs
  BY <1>1, <1>4, RetryKeeps DEF HoldFails
<1>5. CASE HoldFails(a) /\ at[a].rec \in Logs
  <2>1. at' = [at EXCEPT ![a] = Idle] /\ dropped' = dropped \cup {at[a].rec} /\ UNCHANGED <<batch, undrained>>
        /\ at[a].pc = "hold"
    BY <1>5 DEF HoldFails
  <2>2. a = Consumer
    BY <1>5, <2>1, HandOf DEF ApprovalOk
  <2>. QED  BY <1>1, <2>1, <2>2, ConsumerEnds
<1>6. CASE PersistRefused(a)
  <2>1. at' = [at EXCEPT ![a] = Idle] /\ at[a].pc = "persist"
    BY <1>6 DEF PersistRefused
  <2>2. CASE a = Consumer
    BY <1>1, <1>6, <2>1, <2>2, ConsumerEnds DEF PersistRefused
  <2>3. CASE a # Consumer
    <3>1. a \in Approvals /\ batch' = [batch EXCEPT ![a] = {}] /\ undrained' = undrained \cup {at[a].drains}
          /\ UNCHANGED dropped
      BY <1>6, <2>3, HandOf DEF PersistRefused
    <3>. QED  BY <1>1, <2>1, <3>1, ApprovalStops
  <2>. QED  BY <2>2, <2>3
<1>. QED  BY <1>2, <1>3, <1>4, <1>5, <1>6

\* The other steps of a record: it is resolved, or its approval takes the next row up.
LEMMA ResolveKeeps ==
  ASSUME ApInv, NEW a \in Actors, Found(a) \/ NotFound(a) \/ (a \in Approvals /\ ReplayOne(a))
  PROVE  ApInv'
<1>1. /\ Frame /\ Safely /\ UNCHANGED <<taken, overlap, batch, undrained, dropped>>
  <2>1. faults \in Nat
    BY DEF ApInv, ApTypes
  <2>2. CASE Found(a)
    BY <2>1, <2>2 DEF Found, Frame, Safely, db, counters, history
  <2>3. CASE NotFound(a)
    BY <2>1, <2>3 DEF NotFound, Frame, Safely, db, counters, history
  <2>4. CASE ReplayOne(a)
    BY <2>1, <2>4 DEF ReplayOne, Frame, Safely, db, counters, history
  <2>. QED  BY <2>2, <2>3, <2>4
<1>2. CASE Found(a)
  <2>1. PICK p, q, n : /\ p = Resolve(slugOf[at[a].rec])
                       /\ q = IF projects[p].status = "pending" THEN "hold" ELSE "persist"
                       /\ n = IF at[a].rec \in Logs THEN 0 ELSE at[a].attempt
    OBVIOUS
  <2>2. PICK h : h = [[[at[a] EXCEPT !.pid = p] EXCEPT !.attempt = n] EXCEPT !.pc = q]
    OBVIOUS
  <2>3. p # None /\ at[a].pc = "resolve" /\ at' = [at EXCEPT ![a] = h]
    BY <1>2, <2>1, <2>2 DEF Found, ApInv, ApTypes, ActorsOk
  <2>4. TypeOK
    BY DEF ApInv, ApTypes
  <2>5. p \in DOMAIN projects
    BY <2>1, <2>3, <2>4, SlugFinds
  <2>6. p \in Projects /\ p \in Int
    BY <2>4, <2>5 DEF TypeOK, Projects
  <2>7. q \in {"hold", "persist"} /\ n \in Int /\ (q = "persist" => Open(p))
    BY <2>1, HandOf DEF ActorType, Open
  <2>8. h \in ActorType /\ h.pc = q /\ h.rec = at[a].rec /\ h.pid = p /\ h.drains = at[a].drains
    BY <2>2, <2>6, <2>7, HandOf DEF ActorType, Handling
  <2>9. a \in Approvals => ApprovalOk(h, batch[a])
    BY <2>3, <2>7, <2>8, HandOf DEF ApprovalOk, Handling
  <2>10. TargetOk(h) /\ (h.pc = "persist" => Open(h.pid))
    BY <2>6, <2>7, <2>8 DEF TargetOk
  <2>. QED  BY <1>1, <2>3, <2>7, <2>8, <2>9, <2>10, HandProceeds
<1>3. CASE NotFound(a)
  <2>1. PICK h : h = [at[a] EXCEPT !.pc = "create"]
    OBVIOUS
  <2>2. at[a].pc = "resolve" /\ at' = [at EXCEPT ![a] = h]
    BY <1>3, <2>1 DEF NotFound, ApInv, ApTypes, ActorsOk
  <2>3. h \in ActorType /\ h.pc = "create" /\ h.rec = at[a].rec /\ h.drains = at[a].drains
    BY <2>1, HandOf DEF ActorType, Handling
  <2>4. (a \in Approvals => ApprovalOk(h, batch[a])) /\ TargetOk(h)
    BY <2>2, <2>3, HandOf DEF ApprovalOk, Handling, TargetOk
  <2>. QED  BY <1>1, <2>2, <2>3, <2>4, HandProceeds
<1>4. CASE a \in Approvals /\ ReplayOne(a)
  <2>1. PICK row, q : row = Oldest(batch[a]) /\ q = IF row.rec \in Logs THEN "persist" ELSE "resolve"
    OBVIOUS
  <2>2. PICK h : h = [[[at[a] EXCEPT !.rec = row.rec] EXCEPT !.pid = row.proj] EXCEPT !.pc = q]
    OBVIOUS
  <2>3. at[a].pc = "next" /\ at' = [at EXCEPT ![a] = h]
    BY <1>4, <2>1, <2>2 DEF ReplayOne, ApInv, ApTypes, ActorsOk
  <2>4. batch[a] # {} /\ batch[a] \in SUBSET RowType /\ a # Consumer
    BY <1>4, <2>3, HandOf DEF ApprovalOk, ApInv, ApTypes, ActorsOk
  <2>5. row \in batch[a] /\ row \in Rows /\ row.proj = at[a].drains /\ at[a].drains \in Projects
    BY <1>4, <2>1, <2>3, <2>4, HandOf, OldestRow DEF ApprovalOk, Rows
  <2>6. row.rec \in Records /\ row.proj \in Int /\ row.proj \in Projects
    BY <2>4, <2>5 DEF RowType
  <2>7. h \in ActorType /\ h.pc = q /\ h.rec = row.rec /\ h.pid = row.proj /\ h.drains = at[a].drains
    BY <2>1, <2>2, <2>6, HandOf DEF ActorType, Handling
  <2>8. ApprovalOk(h, batch[a]) /\ TargetOk(h)
    BY <1>4, <2>1, <2>3, <2>4, <2>5, <2>6, <2>7, HandOf DEF ApprovalOk, Handling, TargetOk
  <2>9. Open(h.pid)
    BY <1>4, <2>5, <2>7 DEF ApInv, HeldBack
  <2>10. q \in {"persist", "resolve"}
    BY <2>1
  <2>. QED  BY <1>1, <2>3, <2>4, <2>7, <2>8, <2>9, <2>10, HandProceeds
<1>. QED  BY <1>2, <1>3, <1>4

\* An approval ends with nothing left to drain, or is abandoned.
LEMMA StopsKeep ==
  ASSUME ApInv, NEW a \in Approvals,
         Abandon(a) \/ (LookUp(a) /\ ProjectBySlug(at[a].slug) = None)
         \/ (ListHeld(a) /\ HeldOf(at[a].drains) = {})
  PROVE  ApInv'
<1>1. faults \in Nat /\ overlap \in BOOLEAN /\ a \in Actors
  BY DEF ApInv, ApTypes, Actors
<1>2. ApprovalOk(at[a], batch[a]) /\ batch \in [Approvals -> SUBSET RowType]
  BY DEF ApInv, ApTypes, ActorsOk
<1>3. CASE Abandon(a)
  <2>1. /\ Frame /\ Safely /\ UNCHANGED <<overlap, taken, dropped>> /\ faults' = faults + 1
        /\ at' = [at EXCEPT ![a] = Idle] /\ batch' = [batch EXCEPT ![a] = {}]
        /\ undrained' = undrained \cup {at[a].pid, at[a].drains}
    BY <1>1, <1>3 DEF Abandon, Frame, Safely, db
  <2>2. faults' > 0 /\ undrained \subseteq undrained'
    BY <1>1, <2>1
  <2>3. \A row \in held : at[a].drains = row.proj \/ (at[a].pc = "lookup" /\ at[a].pid = row.proj)
                           => row.proj \in undrained'
    BY <2>1
  <2>. QED  BY <2>1, <2>2, <2>3, ApprovalStops
<1>4. CASE LookUp(a) /\ ProjectBySlug(at[a].slug) = None
  <2>1. /\ Frame /\ UNCHANGED <<discarded, reparked, taken, dropped, faults, batch>>
        /\ at' = [at EXCEPT ![a] = Idle] /\ at[a].pc = "lookup"
        /\ overlap' = overlap /\ misdrained' = misdrained
        /\ undrained' = undrained \cup ({at[a].pid} \ {None})
    BY <1>1, <1>4 DEF LookUp, Frame, db, counters
  <2>2. batch' = [batch EXCEPT ![a] = {}] /\ at[a].drains = None
    <3>1. batch[a] = {} /\ at[a].drains = None
      BY <1>2, <2>1 DEF ApprovalOk, Handling
    <3>. QED  BY <1>2, <2>1, <3>1
  <2>3. \A row \in held : row.proj # None
    <3>1. \A row \in held : row.proj \in Projects
      BY DEF ApInv, ApTypes, RowsOk, Rows
    <3>2. None \notin Ids
      BY DEF Ids, None
    <3>. QED  BY <3>1, <3>2, KnownProjects
  <2>4. Safely
    BY <1>1, <2>1 DEF Safely
  <2>. QED  BY <2>1, <2>2, <2>3, <2>4, ApprovalStops
<1>5. CASE ListHeld(a) /\ HeldOf(at[a].drains) = {}
  <2>1. /\ Frame /\ Safely /\ UNCHANGED <<overlap, taken, dropped, undrained>>
        /\ at' = [at EXCEPT ![a] = Idle] /\ batch' = [batch EXCEPT ![a] = {}] /\ at[a].pc = "list"
    BY <1>1, <1>5 DEF ListHeld, ReplayRows, Frame, Safely, db, counters, history
  <2>. QED  BY <1>5, <2>1, ApprovalStops DEF HeldOf
<1>. QED  BY <1>3, <1>4, <1>5

\* The invariant holds at the start.
LEMMA ApInitInv == Init => ApInv
<1>. SUFFICES ASSUME Init PROVE ApInv
  OBVIOUS
<1>1. Idle \in ActorType /\ Idle.pc = "idle" /\ Idle.drains = None /\ Idle.rec = None
  BY DEF Idle, ActorType, None
<1>2. at \in [Actors -> ActorType] /\ (\A a \in Actors : at[a] = Idle) /\ Consumer \in Actors
      /\ Approvals \subseteq Actors
  BY <1>1 DEF Init, Actors
<1>3. held = {} /\ Rows = {} /\ \A a \in Approvals : batch[a] = {}
  BY DEF Init, Rows
<1>4. nextId = 1 /\ projects = <<>> /\ DOMAIN projects = {} /\ DOMAIN aliases = {} /\ Projects = {}
      /\ aliases = <<>> /\ nextRow = 1 /\ taken = 0 /\ dropped = {} /\ replayed = <<>> /\ overlap = FALSE
      /\ faults = 0 /\ del.pc = "idle" /\ slugOf \in [Records -> Slugs]
  BY DEF Init, Projects
<1>5. stored \in [Records -> [{Default} \cup Ids -> 0..MaxCopies]]
      /\ \A r \in Records, p \in {Default} \cup Ids : stored[r][p] = 0
  BY DEF Init, MaxCopies
<1>6. TypeOK
  <2>1. nextId \in 1..(MaxProjects + 1) /\ dropped \subseteq Records /\ taken \in 0..MaxRecords
    BY <1>4, ApprovalAssumption
  <2>. QED  BY <1>3, <1>4, <1>5, <2>1 DEF TypeOK
<1>7. RowsOk /\ ProjectsOk
  BY <1>3, <1>4, <1>5 DEF RowsOk, ProjectsOk
<1>8. ActorsOk
  <2>1. batch \in [Approvals -> SUBSET RowType]
    BY DEF Init
  <2>2. ConsumerOk(at[Consumer], taken) /\ \A a \in Actors : TargetOk(at[a])
    BY <1>1, <1>2 DEF ConsumerOk, TargetOk
  <2>3. \A a \in Approvals : ApprovalOk(at[a], batch[a])
    BY <1>1, <1>2, <1>3 DEF ApprovalOk, Handling
  <2>. QED  BY <1>2, <2>1, <2>2, <2>3 DEF ActorsOk
<1>9. HeldBack
  BY <1>1, <1>2, <1>4 DEF HeldBack, Open
<1>10. KeptRecords
  BY <1>1, <1>2, <1>4 DEF KeptRecords, InHand, Records
<1>11. DrainedOk /\ OneDrain
  BY <1>1, <1>2, <1>3 DEF DrainedOk, OneDrain
<1>12. Once
  BY <1>3, <1>5 DEF Once, Stored
<1>13. InOrder
  BY <1>1, <1>2, <1>3, <1>4 DEF InOrder, ReplayedInOrder
<1>. QED  BY <1>4, <1>6, <1>7, <1>8, <1>9, <1>10, <1>11, <1>12, <1>13 DEF ApInv, ApTypes

\* Every step keeps the invariant.
LEMMA ApStep == ASSUME ApInv, Next PROVE ApInv'
<1>1. CASE Take
  BY <1>1, TakeKeeps
<1>2. CASE Ack
  <2>1. /\ Frame /\ Safely /\ UNCHANGED <<batch, overlap, undrained, taken, dropped>>
        /\ at' = [at EXCEPT ![Consumer] = Idle] /\ at[Consumer].pc = "ack"
    BY <1>2 DEF Ack, Frame, Safely, db, counters, history, ApInv, ApTypes
  <2>. QED  BY <2>1, ConsumerEnds
<1>3. CASE Restart
  BY <1>3, RestartKeeps
<1>4. ASSUME NEW a \in Actors, CreateProjectPending(a) PROVE ApInv'
  <2>1. CASE ProjectBySlug(slugOf[at[a].rec]) = None
    BY <1>4, <2>1, CreatePendingKeeps
  <2>2. CASE ProjectBySlug(slugOf[at[a].rec]) # None
    <3>1. Unresolved(a) /\ at[a].pc = "create" /\ Frame /\ UNCHANGED <<taken, overlap>>
      BY <1>4, <2>2 DEF CreateProjectPending, Frame
    <3>2. Safely
      BY <1>4 DEF CreateProjectPending, Safely, counters, ApInv, ApTypes
    <3>. QED  BY <3>1, <3>2, UnresolvedKeeps
  <2>. QED  BY <2>1, <2>2
<1>5. ASSUME NEW a \in Actors,
             \/ Found(a) \/ NotFound(a) \/ CreateProjectPending(a) \/ ResolveFails(a)
             \/ Hold(a) \/ HoldFails(a) \/ Persist(a) \/ PersistRefused(a) \/ PersistBusy(a)
      PROVE  ApInv'
  BY <1>4, <1>5, ResolveKeeps, FailuresKeep, HoldKeeps, PersistKeeps
<1>6. ASSUME NEW a \in Approvals,
             LookUp(a) \/ ListHeld(a) \/ ReplayOne(a) \/ DeleteHeldEvent(a) \/ Abandon(a)
      PROVE  ApInv'
  <2>1. CASE LookUp(a)
    <3>1. PICK p : p = ProjectBySlug(at[a].slug)
      OBVIOUS
    <3>. QED  BY <2>1, <3>1, LookUpKeeps, StopsKeep
  <2>2. CASE ListHeld(a)
    BY <2>2, ListKeeps, StopsKeep
  <2>3. CASE ReplayOne(a)
    BY <2>3, ResolveKeeps DEF Actors
  <2>4. CASE DeleteHeldEvent(a)
    BY <2>4, ForgetKeeps
  <2>5. CASE Abandon(a)
    BY <2>5, StopsKeep
  <2>. QED  BY <1>6, <2>1, <2>2, <2>3, <2>4, <2>5
<1>7. ASSUME NEW a \in Approvals, NEW s \in Slugs, ApproveProject(a, s) PROVE ApInv'
  BY <1>7, ApproveKeeps
<1>8. ASSUME NEW s \in Slugs, CreateProject(s) \/ DeleteProject(s) PROVE ApInv'
  BY <1>8, CreateKeeps, DeleteKeeps
<1>9. CASE DeleteChildren \/ DeleteRow \/ DeleteTimesOut
  BY <1>9, ChildrenKeeps, RowKeeps, TimesOutKeeps
<1>10. ASSUME NEW s \in Slugs, NEW t \in Slugs, RenameProject(s, t) \/ MergeProjects(s, t) PROVE ApInv'
  BY <1>10, RenameKeeps, MergeKeeps
<1>. QED  BY <1>1, <1>2, <1>3, <1>5, <1>6, <1>7, <1>8, <1>9, <1>10 DEF Next

\* So does a step that changes nothing.
LEMMA ApStutters == ASSUME ApInv, UNCHANGED vars PROVE ApInv'
<1>. USE DEF vars, db, counters, history
<1>1. /\ Frame /\ Safely /\ UNCHANGED <<batch, overlap, undrained, dropped, taken, at>>
  BY DEF Frame, Safely, ApInv, ApTypes
<1>2. Rows' = Rows /\ (\A x : StillParked(x)' = StillParked(x)) /\ \A r : InHand(r)' = InHand(r) /\ Stored(r)' = Stored(r)
  BY <1>1 DEF Rows, StillParked, InHand, Stored, Frame
<1>3. TypeOK' /\ RowsOk' /\ ProjectsOk' /\ ActorsOk'
  <2>1. TypeOK /\ RowsOk /\ ProjectsOk
    BY DEF ApInv, ApTypes
  <2>3. TypeOK'
    BY <2>1 DEF TypeOK
  <2>4. RowsOk'
    BY <1>2, <2>1 DEF RowsOk, Projects
  <2>5. ProjectsOk'
    BY <2>1 DEF ProjectsOk, Projects
  <2>2. ActorsOk'
    BY <1>1 DEF ApInv, ApTypes, ActorsOk, ApprovalOk, ConsumerOk, TargetOk, Projects, Frame
  <2>. QED  BY <2>2, <2>3, <2>4, <2>5
<1>4. ApTypes' /\ HeldBack'
  BY <1>1, <1>3 DEF ApInv, ApTypes, HeldBack, Open, Projects, Frame, Safely
<1>5. KeptRecords' /\ DrainedOk' /\ OneDrain' /\ Once'
  BY <1>1, <1>2 DEF ApInv, KeptRecords, Safe, DrainedOk, Served, Active, OneDrain, Once, Frame, Safely
<1>6. InOrder'
  BY <1>1, <1>2 DEF ApInv, InOrder, ReplayedInOrder, ReplayedRow, Mixed, Frame, Safely
<1>. QED  BY <1>4, <1>5, <1>6 DEF ApInv

\* A record of a pending project is held back until the approval and replayed in
\* order; it is lost, stranded or repeated only for the causes the parts name,
\* however many approvals, requests and failures interleave.
THEOREM ApprovalIsSafe == Spec => []ApprovalSafe
<1>1. ApInv => ApprovalSafe
  <2>. SUFFICES ASSUME ApInv PROVE ApprovalSafe
    OBVIOUS
  <2>1. TypeOK /\ Projects \subseteq Ids
    BY KnownProjects DEF ApInv, ApTypes
  <2>2. PendingHoldsBack
    <3>1. \A p \in DOMAIN projects : p \in Projects
      BY <2>1 DEF TypeOK, Projects
    <3>2. \A r \in Records, p \in DOMAIN projects : stored[r][p] \in 0..MaxCopies
      BY <2>1, <3>1 DEF TypeOK
    <3>. QED  BY <2>1, <3>1, <3>2 DEF ApInv, HeldBack, Open, PendingHoldsBack, MaxCopies
  <2>3. LostOnlyWithProject
    <3>1. ASSUME NEW r \in Records PROVE Accounted(r, deleted \cup merged)
      <4>1. CASE Stored(r)
        <5>1. PICK p \in {Default} \cup Ids : stored[r][p] > 0
          BY <4>1 DEF Stored
        <5>2. Exists(p) \/ p \in deleted \cup merged
          BY <5>1 DEF ApInv, ApTypes, ProjectsOk, Exists
        <5>. QED  BY <5>1, <5>2 DEF Accounted
      <4>2. CASE \E x \in held : x.rec = r
        BY <4>2 DEF Accounted, ApInv, ApTypes, ProjectsOk, RowsOk, Rows
      <4>3. CASE InHand(r) \/ r \in dropped \/ r \in discarded
        BY <4>3 DEF Accounted, InHand
      <4>. QED  BY <4>1, <4>2, <4>3 DEF ApInv, KeptRecords, Safe
    <3>. QED  BY <3>1 DEF LostOnlyWithProject
  <2>4. StrandedHasACause
    BY DEF ApInv, DrainedOk, StrandedHasACause, Undrained, Served, Active
  <2>5. RepeatsHaveACause
    <3>1. \A r \in Records, p \in {Default} \cup Ids : stored[r][p] \in 0..MaxCopies
      BY <2>1 DEF TypeOK
    <3>2. faults \in Nat /\ overlap \in BOOLEAN
      BY DEF ApInv, ApTypes
    <3>. QED  BY <3>1, <3>2 DEF ApInv, Once, RepeatsHaveACause, MaxCopies
  <2>6. ReplayedInOrder
    BY DEF ApInv, InOrder
  <2>. QED  BY <2>1, <2>2, <2>3, <2>4, <2>5, <2>6 DEF ApprovalSafe
<1>2. ApInv /\ [Next]_vars => ApInv'
  BY ApStep, ApStutters
<1>. QED  BY <1>1, <1>2, ApInitInv, PTL DEF Spec

-----------------------------------------------------------------------------
(* The detections counted from the security records.  That a rule's        *)
(* window counts right is inductive once it is said which record each      *)
(* bucket of the ring holds: a bucket that is inside the window has the    *)
(* records of one time, and every record inside the window has its bucket. *)

Counters ==
  [head : Nat, ids : [0 .. Slots - 1 -> Nat], counts : [0 .. Slots - 1 -> Nat], lastFired : Nat]
GroupEntries == [key : DetGroups, c : Counters]

DetTypes ==
  /\ detNow \in Nat \ {0}
  /\ detLru \in Seq(GroupEntries)
  /\ detHistory \in [DetGroups -> [added : Seq(Nat), fired : Seq(Nat)]]

\* The records of bucket b.
InBucket(added, b) == {n \in DOMAIN added : added[n] = b}

\* A counter's ring and the records that were added to it.
RingRight(c, added) ==
  /\ \A n \in DOMAIN added : added[n] >= 1 /\ added[n] <= c.head
  /\ \A i \in 0 .. Slots - 1 : c.ids[i] <= c.head /\ (c.ids[i] # 0 => c.ids[i] % Slots = i)
  /\ \A n \in DOMAIN added : added[n] > c.head - Slots => c.ids[added[n] % Slots] = added[n]
  /\ \A i \in Live(c) : c.counts[i] = Cardinality(InBucket(added, c.ids[i]))

\* The last report is the newest one, and they are a cooldown apart.
FiredRight(last, fired) ==
  /\ \A n \in DOMAIN fired : fired[n] >= 1 /\ fired[n] <= last
  /\ \A m, n \in DOMAIN fired : m < n => fired[n] - fired[m] >= DetCooldown

UniqueKeys(lru) == \A j, k \in DOMAIN lru : lru[j].key = lru[k].key => j = k

DetInv ==
  /\ DetTypes
  /\ UniqueKeys(detLru)
  /\ \A g \in DetGroups : g \notin Kept(detLru) => detHistory[g] = [added |-> <<>>, fired |-> <<>>]
  /\ \A k \in DOMAIN detLru : /\ RingRight(detLru[k].c, detHistory[detLru[k].key].added)
                              /\ FiredRight(detLru[k].c.lastFired, detHistory[detLru[k].key].fired)

\* A bucket is one of the ring's.
LEMMA BucketOf ==
  ASSUME NEW a \in Nat
  PROVE  a % Slots \in 0 .. Slots - 1
<1>1. PICK s \in Nat \ {0} : s = Slots
  BY DetAssumption
<1>2. a % s \in 0 .. s - 1
  BY SMT
<1> QED
  BY <1>1, <1>2

\* Two times of one bucket that are less than the ring apart are the same.
LEMMA SameBucket ==
  ASSUME NEW a \in Nat, NEW b \in Nat, a % Slots = b % Slots, a - b < Slots, b - a < Slots
  PROVE  a = b
<1>1. PICK s \in Nat \ {0} : s = Slots
  BY DetAssumption
<1>2. PICK x \in Int, y \in Int, r \in Int : a = (s * x) + r /\ b = (s * y) + r
  <2>1. a = (s * (a \div s)) + (a % s) /\ b = (s * (b \div s)) + (b % s)
    BY SMT
  <2>2. a \div s \in Int /\ b \div s \in Int /\ a % s \in Int
    BY SMT
  <2>3. a % s = b % s
    BY <1>1
  <2> QED
    BY <2>1, <2>2, <2>3
<1>3. a - b < s /\ b - a < s
  BY <1>1
<1>4. ~(x > y)
  <2>1. SUFFICES ASSUME x >= y + 1 PROVE FALSE
    BY <1>2
  <2>2. s * x >= (s * y) + s
    BY <2>1
  <2> QED
    BY <2>2, <1>2, <1>3
<1>5. ~(y > x)
  <2>1. SUFFICES ASSUME y >= x + 1 PROVE FALSE
    BY <1>2
  <2>2. s * y >= (s * x) + s
    BY <2>1
  <2> QED
    BY <2>2, <1>2, <1>3
<1>6. x = y
  BY <1>4, <1>5
<1> QED
  BY <1>2, <1>6

\* What adding a record does to a counter.
LEMMA AddResult ==
  ASSUME NEW c \in Counters, NEW ts \in Nat \ {0}
  PROVE  /\ Add(c, ts) \in Counters
         /\ Add(c, ts).lastFired = c.lastFired
         /\ Add(c, ts).head >= c.head /\ Add(c, ts).head >= ts
         /\ Add(c, ts).head \in {c.head, ts}
         /\ ts <= Add(c, ts).head - Slots =>
              Add(c, ts).ids = c.ids /\ Add(c, ts).counts = c.counts
         /\ ts > Add(c, ts).head - Slots =>
              /\ Add(c, ts).ids = [c.ids EXCEPT ![ts % Slots] = ts]
              /\ Add(c, ts).counts =
                   [c.counts EXCEPT ![ts % Slots] = (IF c.ids[ts % Slots] = ts THEN c.counts[ts % Slots] ELSE 0) + 1]
<1> DEFINE head == IF ts > c.head THEN ts ELSE c.head
           i == ts % Slots
           n == (IF c.ids[i] = ts THEN c.counts[i] ELSE 0) + 1
<1>1. i \in 0 .. Slots - 1
  BY BucketOf
<1>2. head \in Nat /\ head >= c.head /\ head >= ts /\ head \in {c.head, ts}
  BY DEF Counters
<1>3. n \in Nat
  <2>1. \A j \in 0 .. Slots - 1 : c.counts[j] \in Nat
    BY DEF Counters
  <2>2. PICK m \in Nat : m = c.counts[i]
    BY <1>1, <2>1
  <2>3. n = (IF c.ids[i] = ts THEN m ELSE 0) + 1
    BY <2>2
  <2> HIDE DEF n, i
  <2> QED
    BY <2>3
<1>s. Slots \in Nat
  BY DetAssumption
<1>4. CASE ts <= head - Slots
  <2>1. Add(c, ts) = [c EXCEPT !.head = head]
    BY <1>4 DEF Add
  <2>2. PICK h \in Nat : h = head
    BY <1>2
  <2>3. Add(c, ts) = [c EXCEPT !.head = h]
    BY <2>1, <2>2
  <2>4. Add(c, ts).head = h /\ Add(c, ts).ids = c.ids /\ Add(c, ts).counts = c.counts
        /\ Add(c, ts).lastFired = c.lastFired /\ Add(c, ts) \in Counters
    BY <2>3 DEF Counters
  <2>5. ~(ts > h - Slots)
    BY <1>4, <2>2, <1>s
  <2> HIDE DEF head
  <2> QED
    BY <2>4, <2>5, <2>2, <1>2
<1>5. CASE ~(ts <= head - Slots)
  <2>1. Add(c, ts) = [c EXCEPT !.head = head, !.ids[i] = ts, !.counts[i] = n]
    BY <1>5 DEF Add
  <2>2. PICK h \in Nat : h = head
    BY <1>2
  <2>3. PICK f \in [0 .. Slots - 1 -> Nat] : f = [c.ids EXCEPT ![i] = ts]
    BY <1>1 DEF Counters
  <2>4. PICK g \in [0 .. Slots - 1 -> Nat] : g = [c.counts EXCEPT ![i] = n]
    BY <1>1, <1>3 DEF Counters
  <2>5. Add(c, ts) = [c EXCEPT !.head = h, !.ids = f, !.counts = g]
    BY <2>1, <2>2, <2>3, <2>4 DEF Counters
  <2>6. Add(c, ts).head = h /\ Add(c, ts).ids = f /\ Add(c, ts).counts = g
        /\ Add(c, ts).lastFired = c.lastFired /\ Add(c, ts) \in Counters
    BY <2>5 DEF Counters
  <2>7. ~(ts <= h - Slots)
    BY <1>5, <2>2
  <2> HIDE DEF head
  <2> QED
    BY <2>6, <2>7, <2>2, <2>3, <2>4, <1>2
<1> QED
  BY <1>4, <1>5

\* What looking a group up does to the groups that are kept.
LEMMA LruGetResult ==
  ASSUME NEW lru \in Seq(GroupEntries), UniqueKeys(lru), NEW g \in DetGroups
  PROVE  /\ LruGet(lru, g) \in Seq(GroupEntries)
         /\ LruGet(lru, g) # <<>>
         /\ UniqueKeys(LruGet(lru, g))
         /\ LruGet(lru, g)[1].key = g
         /\ \/ \E k \in DOMAIN lru : LruGet(lru, g)[1] = lru[k]
            \/ g \notin Kept(lru) /\ LruGet(lru, g)[1].c = NewCounter
         /\ \A k \in DOMAIN LruGet(lru, g) :
              k # 1 => \E j \in DOMAIN lru : LruGet(lru, g)[k] = lru[j] /\ lru[j].key # g
<1> DEFINE p == Place(lru, g)
           entry == IF p > Len(lru) THEN [key |-> g, c |-> NewCounter] ELSE lru[p]
           size == IF p > Len(lru) /\ p <= MaxGroups THEN p ELSE Len(lru)
           r == LruGet(lru, g)
           from(k) == IF k <= p THEN k - 1 ELSE k
<1>1. DOMAIN lru = 1 .. Len(lru) /\ Len(lru) \in Nat /\ \A k \in DOMAIN lru : lru[k] \in GroupEntries
  BY ElementOfSeq
<1>2. \/ p \in 1 .. Len(lru) /\ lru[p].key = g
      \/ p = Len(lru) + 1 /\ \A k \in DOMAIN lru : lru[k].key # g
  BY <1>1 DEF Place
<1>3. MaxGroups \in Nat \ {0} /\ Slots \in Nat \ {0}
  BY DetAssumption
<1>4. p \in Nat \ {0}
  BY <1>1, <1>2
<1>5. size \in Nat \ {0} /\ (size = Len(lru) \/ (size = p /\ p = Len(lru) + 1))
  BY <1>1, <1>2, <1>3, <1>4
<1>6. NewCounter \in Counters
  BY <1>3 DEF NewCounter, NoFiring, Counters
<1>7. entry \in GroupEntries /\ entry.key = g
  <2>1. CASE p > Len(lru)
    BY <2>1, <1>6 DEF GroupEntries
  <2>2. CASE ~(p > Len(lru))
    BY <2>2, <1>1, <1>2
  <2> QED
    BY <2>1, <2>2
<1>8. r = [k \in 1 .. size |-> IF k = 1 THEN entry ELSE IF k <= p THEN lru[k - 1] ELSE lru[k]]
  BY DEF LruGet
<1> HIDE DEF p, entry, size, r
<1>9. \A k \in 1 .. size : k # 1 => /\ from(k) \in 1 .. Len(lru) /\ from(k) # p
                                    /\ r[k] = lru[from(k)]
  <2> SUFFICES ASSUME NEW k \in 1 .. size, k # 1
               PROVE  from(k) \in 1 .. Len(lru) /\ from(k) # p /\ r[k] = lru[from(k)]
    OBVIOUS
  <2>1. from(k) \in 1 .. Len(lru) /\ from(k) # p
    <3>1. PICK l \in Nat, q \in Nat \ {0}, s \in Nat \ {0} : l = Len(lru) /\ q = p /\ s = size
      BY <1>1, <1>4, <1>5
    <3>2. s = l \/ (s = q /\ q = l + 1)
      BY <1>5, <3>1
    <3>3. k \in 1 .. s
      BY <3>1
    <3>4. CASE k <= q
      <4>1. k - 1 \in 1 .. l /\ k - 1 # q
        BY <3>2, <3>3, <3>4
      <4> QED
        BY <4>1, <3>1, <3>4
    <3>5. CASE ~(k <= q)
      <4>1. k \in 1 .. l /\ k # q
        BY <3>2, <3>3, <3>5
      <4> QED
        BY <4>1, <3>1, <3>5
    <3> QED
      BY <3>4, <3>5
  <2>2. r[k] = IF k <= p THEN lru[k - 1] ELSE lru[k]
    BY <1>8
  <2> QED
    BY <2>1, <2>2
<1>10. DOMAIN r = 1 .. size /\ r[1] = entry
  BY <1>8, <1>5
<1>11. \A k \in 1 .. size : r[k] \in GroupEntries
  BY <1>1, <1>7, <1>9, <1>10
<1>12. r \in Seq(GroupEntries)
  <2>1. r \in [1 .. size -> GroupEntries]
    BY <1>8, <1>10, <1>11
  <2> QED
    BY <2>1, <1>5
<1>13. r # <<>>
  BY <1>10, <1>5
<1>14. \A k \in 1 .. size : k # 1 => lru[from(k)].key # g
  <2> SUFFICES ASSUME NEW k \in 1 .. size, k # 1, lru[from(k)].key = g
               PROVE  FALSE
    OBVIOUS
  <2>1. from(k) \in DOMAIN lru /\ from(k) # p
    BY <1>9, <1>1
  <2>2. p \in DOMAIN lru /\ lru[p].key = g
    BY <1>2, <1>1, <2>1
  <2> HIDE DEF from
  <2> QED
    BY <2>1, <2>2 DEF UniqueKeys
<1>15. UniqueKeys(r)
  <2> SUFFICES ASSUME NEW j \in 1 .. size, NEW k \in 1 .. size, r[j].key = r[k].key
               PROVE  j = k
    BY <1>10 DEF UniqueKeys
  <2>1. CASE j = 1 \/ k = 1
    BY <2>1, <1>7, <1>9, <1>10, <1>14
  <2>2. CASE j # 1 /\ k # 1
    <3>1. from(j) \in DOMAIN lru /\ from(k) \in DOMAIN lru /\ lru[from(j)].key = lru[from(k)].key
      BY <2>2, <1>9, <1>1
    <3>2. from(j) = from(k)
      <4> HIDE DEF from
      <4> QED
        BY <3>1 DEF UniqueKeys
    <3>3. from(j) # p /\ from(k) # p
      BY <2>2, <1>9
    <3> QED
      BY <3>2, <3>3, <1>4, <1>5
  <2> QED
    BY <2>1, <2>2
<1>16. \/ \E k \in DOMAIN lru : r[1] = lru[k]
       \/ g \notin Kept(lru) /\ r[1].c = NewCounter
  <2>1. CASE p > Len(lru)
    <3>1. entry = [key |-> g, c |-> NewCounter]
      BY <2>1 DEF entry
    <3> QED
      BY <2>1, <3>1, <1>1, <1>2, <1>10 DEF Kept
  <2>2. CASE ~(p > Len(lru))
    <3>1. entry = lru[p]
      BY <2>2 DEF entry
    <3> QED
      BY <2>2, <3>1, <1>1, <1>2, <1>10
  <2> QED
    BY <2>1, <2>2
<1>17. \A k \in DOMAIN r : k # 1 => \E j \in DOMAIN lru : r[k] = lru[j] /\ lru[j].key # g
  <2> SUFFICES ASSUME NEW k \in 1 .. size, k # 1
               PROVE  \E j \in DOMAIN lru : r[k] = lru[j] /\ lru[j].key # g
    BY <1>10
  <2>1. from(k) \in DOMAIN lru /\ r[k] = lru[from(k)] /\ lru[from(k)].key # g
    BY <1>1, <1>9, <1>14
  <2> HIDE DEF from
  <2> QED
    BY <2>1
<1>18. r[1].key = g
  BY <1>7, <1>10
<1> QED
  BY <1>12, <1>13, <1>15, <1>16, <1>17, <1>18 DEF r

\* One more record: its own bucket has one more, the others what they had.
LEMMA OneMore ==
  ASSUME NEW added \in Seq(Nat), NEW ts \in Nat, NEW b \in Nat
  PROVE  /\ IsFiniteSet(InBucket(added, b))
         /\ b # ts => InBucket(Append(added, ts), b) = InBucket(added, b)
         /\ Cardinality(InBucket(Append(added, ts), ts)) = Cardinality(InBucket(added, ts)) + 1
<1> DEFINE more == Append(added, ts)
           l == Len(added)
<1>1. l \in Nat /\ DOMAIN added = 1 .. l
  BY ElementOfSeq
<1>2. DOMAIN more = 1 .. l + 1 /\ more[l + 1] = ts /\ \A n \in 1 .. l : more[n] = added[n]
  BY AppendProperties
<1>3. \A x \in Nat : IsFiniteSet(InBucket(added, x))
  <2> TAKE x \in Nat
  <2>1. IsFiniteSet(1 .. l)
    BY <1>1, FS_Interval
  <2>2. InBucket(added, x) \in SUBSET (1 .. l)
    BY <1>1 DEF InBucket
  <2> QED
    BY <2>1, <2>2, FS_Subset
<1>4. b # ts => InBucket(more, b) = InBucket(added, b)
  BY <1>1, <1>2 DEF InBucket
<1>5. InBucket(more, ts) = InBucket(added, ts) \cup {l + 1} /\ l + 1 \notin InBucket(added, ts)
  BY <1>1, <1>2 DEF InBucket
<1>6. Cardinality(InBucket(more, ts)) = Cardinality(InBucket(added, ts)) + 1
  BY <1>3, <1>5, FS_AddElement
<1> QED
  BY <1>3, <1>4, <1>6

\* A record added to a counter whose ring is right leaves it right.
LEMMA AddRight ==
  ASSUME NEW c \in Counters, NEW added \in Seq(Nat), NEW ts \in Nat \ {0}, RingRight(c, added)
  PROVE  RingRight(Add(c, ts), Append(added, ts))
<1> DEFINE d == Add(c, ts)
           more == Append(added, ts)
           i == ts % Slots
           Ring == 0 .. Slots - 1
<1>1. Slots \in Nat \ {0}
  BY DetAssumption
<1>2. Len(added) \in Nat /\ DOMAIN added = 1 .. Len(added) /\ \A n \in DOMAIN added : added[n] \in Nat
  BY ElementOfSeq
<1>3. /\ DOMAIN more = 1 .. Len(added) + 1 /\ more[Len(added) + 1] = ts
      /\ \A n \in DOMAIN added : more[n] = added[n]
  BY <1>2, AppendProperties
<1>4. /\ d \in Counters
      /\ d.head >= c.head /\ d.head >= ts /\ d.head \in {c.head, ts}
      /\ ts <= d.head - Slots => d.ids = c.ids /\ d.counts = c.counts
      /\ ts > d.head - Slots =>
           /\ d.ids = [c.ids EXCEPT ![i] = ts]
           /\ d.counts = [c.counts EXCEPT ![i] = (IF c.ids[i] = ts THEN c.counts[i] ELSE 0) + 1]
  BY AddResult
<1>5. /\ c.head \in Nat /\ d.head \in Nat
      /\ DOMAIN c.ids = Ring /\ DOMAIN d.ids = Ring
      /\ DOMAIN c.counts = Ring /\ DOMAIN d.counts = Ring
      /\ \A j \in Ring : c.ids[j] \in Nat /\ d.ids[j] \in Nat /\ c.counts[j] \in Nat
  BY <1>4 DEF Counters
<1>6. i \in Ring /\ \A n \in DOMAIN added : added[n] % Slots \in Ring
  BY <1>2, BucketOf
<1>7. \A n \in DOMAIN added : added[n] >= 1 /\ added[n] <= c.head
  BY DEF RingRight
<1>8. \A j \in Ring : c.ids[j] <= c.head /\ (c.ids[j] # 0 => c.ids[j] % Slots = j)
  BY DEF RingRight
<1>9. \A n \in DOMAIN added : added[n] > c.head - Slots => c.ids[added[n] % Slots] = added[n]
  BY DEF RingRight
<1>10. \A j \in Ring : c.ids[j] > c.head - Slots => c.counts[j] = Cardinality(InBucket(added, c.ids[j]))
  BY <1>5, <1>8 DEF RingRight, Live
<1>a. \A b \in Nat : b # ts => InBucket(more, b) = InBucket(added, b)
  BY OneMore
<1>b. /\ IsFiniteSet(InBucket(added, ts))
      /\ Cardinality(InBucket(more, ts)) = Cardinality(InBucket(added, ts)) + 1
  BY OneMore
<1> HIDE DEF d, more, i
<1>11. \A n \in DOMAIN more : more[n] >= 1 /\ more[n] <= d.head
  BY <1>2, <1>3, <1>4, <1>5, <1>7
<1>12. CASE ts <= d.head - Slots
  <2>1. d.head = c.head /\ d.ids = c.ids /\ d.counts = c.counts
    BY <1>12, <1>1, <1>4, <1>5
  <2>2. \A n \in DOMAIN more : more[n] > d.head - Slots => d.ids[more[n] % Slots] = more[n]
    <3> SUFFICES ASSUME NEW n \in DOMAIN more, more[n] > d.head - Slots
                 PROVE  d.ids[more[n] % Slots] = more[n]
      OBVIOUS
    <3>1. n # Len(added) + 1
      BY <1>12, <1>1, <1>3, <1>5
    <3>2. n \in DOMAIN added
      BY <3>1, <1>2, <1>3
    <3>3. more[n] = added[n] /\ added[n] > c.head - Slots
      BY <3>2, <1>3, <2>1
    <3> QED
      BY <3>2, <3>3, <1>9, <2>1
  <2>3. \A j \in Live(d) : d.counts[j] = Cardinality(InBucket(more, d.ids[j]))
    <3> SUFFICES ASSUME NEW j \in Live(d)
                 PROVE  d.counts[j] = Cardinality(InBucket(more, d.ids[j]))
      OBVIOUS
    <3>1. j \in Ring /\ c.ids[j] > c.head - Slots
      BY <1>5, <2>1 DEF Live
    <3>2. c.ids[j] # ts /\ c.ids[j] \in Nat
      BY <3>1, <1>1, <1>5, <1>12, <2>1
    <3> QED
      BY <3>1, <3>2, <1>10, <1>a, <2>1
  <2> QED
    BY <1>8, <1>11, <2>1, <2>2, <2>3 DEF RingRight, d, more
<1>13. CASE ~(ts <= d.head - Slots)
  <2>1. ts > d.head - Slots /\ ts > c.head - Slots
    BY <1>13, <1>1, <1>4, <1>5
  <2>2. /\ d.ids = [c.ids EXCEPT ![i] = ts]
        /\ d.counts = [c.counts EXCEPT ![i] = (IF c.ids[i] = ts THEN c.counts[i] ELSE 0) + 1]
    BY <1>4, <2>1
  <2>3. d.ids[i] = ts /\ \A j \in Ring : j # i => d.ids[j] = c.ids[j] /\ d.counts[j] = c.counts[j]
    BY <2>2, <1>5, <1>6
  <2>4. \A j \in Ring : d.ids[j] <= d.head /\ (d.ids[j] # 0 => d.ids[j] % Slots = j)
    <3> SUFFICES ASSUME NEW j \in Ring
                 PROVE  d.ids[j] <= d.head /\ (d.ids[j] # 0 => d.ids[j] % Slots = j)
      OBVIOUS
    <3>1. CASE j = i
      BY <3>1, <2>3, <1>4 DEF i
    <3>2. CASE j # i
      <4>1. d.ids[j] = c.ids[j] /\ c.ids[j] \in Nat
        BY <3>2, <2>3, <1>5
      <4> QED
        BY <4>1, <1>8, <1>4, <1>5
    <3> QED
      BY <3>1, <3>2
  <2>5. \A n \in DOMAIN more : more[n] > d.head - Slots => d.ids[more[n] % Slots] = more[n]
    <3> SUFFICES ASSUME NEW n \in DOMAIN more, more[n] > d.head - Slots
                 PROVE  d.ids[more[n] % Slots] = more[n]
      OBVIOUS
    <3>1. CASE n = Len(added) + 1
      BY <3>1, <1>3, <2>3 DEF i
    <3>2. CASE n # Len(added) + 1
      <4>1. n \in DOMAIN added
        BY <3>2, <1>2, <1>3
      <4>2. PICK a \in Nat : a = added[n] /\ a = more[n]
        BY <4>1, <1>2, <1>3
      <4>3. a > d.head - Slots /\ a > c.head - Slots /\ a <= d.head
        BY <4>1, <4>2, <1>1, <1>4, <1>5, <1>11
      <4>4. c.ids[a % Slots] = a /\ a % Slots \in Ring
        BY <4>1, <4>2, <4>3, <1>6, <1>9
      <4>5. CASE a % Slots = i
        <5>1. a % Slots = ts % Slots
          BY <4>5 DEF i
        <5>2. a - ts < Slots /\ ts - a < Slots
          BY <4>3, <2>1, <1>1, <1>4, <1>5
        <5>3. a = ts
          BY <5>1, <5>2, SameBucket
        <5> QED
          BY <5>3, <4>2, <4>5, <2>3
      <4>6. CASE a % Slots # i
        BY <4>2, <4>4, <4>6, <2>3
      <4> QED
        BY <4>5, <4>6
    <3> QED
      BY <3>1, <3>2
  <2>6. \A j \in Live(d) : d.counts[j] = Cardinality(InBucket(more, d.ids[j]))
    <3> SUFFICES ASSUME NEW j \in Live(d)
                 PROVE  d.counts[j] = Cardinality(InBucket(more, d.ids[j]))
      OBVIOUS
    <3>1. j \in Ring /\ d.ids[j] > d.head - Slots
      BY <1>5 DEF Live
    <3>2. CASE j # i
      <4>1. d.ids[j] = c.ids[j] /\ d.counts[j] = c.counts[j] /\ c.ids[j] \in Nat
        BY <3>1, <3>2, <2>3, <1>5
      <4>2. c.ids[j] > c.head - Slots
        <5>1. PICK x \in Nat, h \in Nat, f \in Nat, s \in Nat :
                x = c.ids[j] /\ h = c.head /\ f = d.head /\ s = Slots
          BY <4>1, <1>1, <1>5
        <5>2. x > f - s /\ f >= h
          BY <5>1, <3>1, <4>1, <1>4
        <5>3. x > h - s
          BY <5>2
        <5> QED
          BY <5>1, <5>3
      <4>3. c.ids[j] # ts
        <5> SUFFICES ASSUME c.ids[j] = ts PROVE FALSE
          OBVIOUS
        <5>1. c.ids[j] % Slots = j
          BY <3>1, <1>8
        <5> QED
          BY <5>1, <3>2 DEF i
      <4> QED
        BY <3>1, <4>1, <4>2, <4>3, <1>10, <1>a
    <3>3. CASE j = i
      <4>1. d.ids[j] = ts
        BY <3>3, <2>3
      <4>2. CASE c.ids[i] = ts
        <5>1. d.counts[i] = c.counts[i] + 1
          BY <4>2, <2>2, <1>5, <1>6
        <5>2. c.counts[i] = Cardinality(InBucket(added, ts))
          BY <4>2, <2>1, <1>6, <1>10
        <5> QED
          BY <3>3, <4>1, <5>1, <5>2, <1>b
      <4>3. CASE c.ids[i] # ts
        <5>1. d.counts[i] = 0 + 1
          BY <4>3, <2>2, <1>5, <1>6
        <5>2. InBucket(added, ts) = {}
          <6> SUFFICES ASSUME NEW n \in DOMAIN added, added[n] = ts PROVE FALSE
            BY DEF InBucket
          <6>1. c.ids[added[n] % Slots] = added[n]
            BY <1>9, <2>1
          <6> QED
            BY <6>1, <4>3 DEF i
        <5>3. Cardinality(InBucket(added, ts)) = 0
          BY <5>2, FS_EmptySet
        <5> QED
          BY <3>3, <4>1, <5>1, <5>3, <1>b
      <4> QED
        BY <4>2, <4>3
    <3> QED
      BY <3>2, <3>3
  <2> QED
    BY <1>11, <2>4, <2>5, <2>6 DEF RingRight, d, more
<1> QED
  BY <1>12, <1>13

\* A ring that is right counts the records of its window: the bucket of a
\* record and its rank within the bucket tell it from all others.
LEMMA TotalCounts ==
  ASSUME NEW c \in Counters, NEW added \in Seq(Nat), RingRight(c, added)
  PROVE  Total(c) = Cardinality({n \in DOMAIN added : added[n] > c.head - Slots})
<1> DEFINE Ring == 0 .. Slots - 1
           W == {n \in DOMAIN added : added[n] > c.head - Slots}
           T == UNION {{i} \X (1 .. c.counts[i]) : i \in Live(c)}
           Rank(i) == CHOOSE f : f \in Bijection(InBucket(added, c.ids[i]), 1 .. c.counts[i])
           G == [n \in W |-> <<added[n] % Slots, Rank(added[n] % Slots)[n]>>]
<1>1. Slots \in Nat \ {0}
  BY DetAssumption
<1>2. Len(added) \in Nat /\ DOMAIN added = 1 .. Len(added) /\ \A n \in DOMAIN added : added[n] \in Nat
  BY ElementOfSeq
<1>3. /\ c.head \in Nat /\ DOMAIN c.ids = Ring
      /\ \A j \in Ring : c.ids[j] \in Nat /\ c.counts[j] \in Nat
  BY DEF Counters
<1>4. \A i \in Live(c) : i \in Ring /\ c.ids[i] > c.head - Slots
  BY <1>3 DEF Live
<1>5. \A i \in Live(c) : Rank(i) \in Bijection(InBucket(added, c.ids[i]), 1 .. c.counts[i])
  <2> SUFFICES ASSUME NEW i \in Live(c)
               PROVE  ExistsBijection(InBucket(added, c.ids[i]), 1 .. c.counts[i])
    BY DEF ExistsBijection
  <2>1. IsFiniteSet(InBucket(added, c.ids[i]))
    <3>1. IsFiniteSet(1 .. Len(added))
      BY <1>2, FS_Interval
    <3>2. InBucket(added, c.ids[i]) \in SUBSET (1 .. Len(added))
      BY <1>2 DEF InBucket
    <3> QED
      BY <3>1, <3>2, FS_Subset
  <2>2. c.counts[i] = Cardinality(InBucket(added, c.ids[i])) /\ c.counts[i] \in Nat
    BY <1>3, <1>4 DEF RingRight
  <2>3. IsFiniteSet(1 .. c.counts[i]) /\ Cardinality(1 .. c.counts[i]) = c.counts[i]
    <3>1. PICK m \in Nat : m = c.counts[i]
      BY <2>2
    <3>2. IsFiniteSet(1 .. m) /\ Cardinality(1 .. m) = m
      BY FS_Interval
    <3> QED
      BY <3>1, <3>2
  <2> QED
    BY <2>1, <2>2, <2>3, FS_SameCardinalityBij
<1>6. \A n \in W : /\ added[n] % Slots \in Live(c)
                   /\ c.ids[added[n] % Slots] = added[n]
                   /\ n \in InBucket(added, c.ids[added[n] % Slots])
  <2> SUFFICES ASSUME NEW n \in W
               PROVE  /\ added[n] % Slots \in Live(c)
                      /\ c.ids[added[n] % Slots] = added[n]
                      /\ n \in InBucket(added, c.ids[added[n] % Slots])
    OBVIOUS
  <2>1. added[n] % Slots \in Ring
    BY <1>2, BucketOf
  <2>2. c.ids[added[n] % Slots] = added[n] /\ added[n] <= c.head
    BY DEF RingRight
  <2> QED
    BY <2>1, <2>2, <1>3 DEF Live, InBucket
<1> HIDE DEF Rank
<1>7. G \in [W -> T]
  <2> SUFFICES ASSUME NEW n \in W
               PROVE  <<added[n] % Slots, Rank(added[n] % Slots)[n]>> \in T
    OBVIOUS
  <2>1. PICK i \in Live(c) : i = added[n] % Slots
    BY <1>6
  <2>2. n \in InBucket(added, c.ids[i])
    BY <1>6, <2>1
  <2>3. Rank(i)[n] \in 1 .. c.counts[i]
    BY <1>5, <2>2 DEF Bijection, Injection, Surjection
  <2>4. <<i, Rank(i)[n]>> \in {i} \X (1 .. c.counts[i])
    BY <2>3
  <2> QED
    BY <2>1, <2>4
<1>8. \A m, n \in W : G[m] = G[n] => m = n
  <2> SUFFICES ASSUME NEW m \in W, NEW n \in W, G[m] = G[n]
               PROVE  m = n
    OBVIOUS
  <2>1. PICK i \in Live(c) : i = added[m] % Slots
    BY <1>6
  <2>2. i = added[n] % Slots /\ Rank(i)[m] = Rank(i)[n]
    BY <2>1
  <2>3. m \in InBucket(added, c.ids[i]) /\ n \in InBucket(added, c.ids[i])
    BY <1>6, <2>1, <2>2
  <2> HIDE DEF G, W
  <2> QED
    BY <1>5, <2>2, <2>3 DEF Bijection, Injection, IsInjective
<1>9. \A t \in T : \E n \in W : G[n] = t
  <2> SUFFICES ASSUME NEW t \in T
               PROVE  \E n \in W : G[n] = t
    OBVIOUS
  <2>a. PICK i \in Live(c) : t \in {i} \X (1 .. c.counts[i])
    OBVIOUS
  <2>b. PICK k \in 1 .. c.counts[i] : t = <<i, k>>
    BY <2>a
  <2>1. PICK n \in InBucket(added, c.ids[i]) : Rank(i)[n] = k
    BY <1>5 DEF Bijection, Surjection
  <2>2. n \in DOMAIN added /\ added[n] = c.ids[i]
    BY DEF InBucket
  <2>3. n \in W
    BY <2>2, <1>4
  <2>4. added[n] >= 1
    BY <2>2 DEF RingRight
  <2>5. c.ids[i] % Slots = i
    BY <1>2, <1>3, <1>4, <2>2, <2>4 DEF RingRight
  <2> QED
    BY <2>1, <2>2, <2>3, <2>5, <2>b
<1>10. G \in Bijection(W, T)
  <2> HIDE DEF G, W, T
  <2>1. G \in Injection(W, T)
    BY <1>7, <1>8 DEF Injection, IsInjective
  <2>2. G \in Surjection(W, T)
    BY <1>7, <1>9 DEF Surjection
  <2> QED
    BY <2>1, <2>2 DEF Bijection
<1>11. IsFiniteSet(W)
  <2>1. IsFiniteSet(1 .. Len(added))
    BY <1>2, FS_Interval
  <2>2. W \in SUBSET (1 .. Len(added))
    BY <1>2
  <2> QED
    BY <2>1, <2>2, FS_Subset
<1>12. Cardinality(T) = Cardinality(W)
  <2> HIDE DEF G, W, T
  <2>1. ExistsBijection(W, T)
    BY <1>10 DEF ExistsBijection
  <2> QED
    BY <2>1, <1>11, FS_Bijection
<1> QED
  BY <1>12 DEF Total

\* The invariant says what the property asks for.
LEMMA DetInvSound ==
  ASSUME DetInv
  PROVE  WindowsSound
<1>1. \A k \in DOMAIN detLru : detLru[k] \in GroupEntries
  BY ElementOfSeq DEF DetInv, DetTypes
<1>2. WindowCountExact
  <2> SUFFICES ASSUME NEW k \in DOMAIN detLru
               PROVE  LET e == detLru[k]  added == detHistory[e.key].added
                      IN Total(e.c) = Cardinality({n \in DOMAIN added : added[n] > e.c.head - Slots})
    BY DEF WindowCountExact
  <2>1. PICK e \in GroupEntries : e = detLru[k]
    BY <1>1
  <2>2. e.c \in Counters /\ e.key \in DetGroups
    BY DEF GroupEntries
  <2>3. detHistory[e.key].added \in Seq(Nat)
    BY <2>2 DEF DetInv, DetTypes
  <2>4. RingRight(e.c, detHistory[e.key].added)
    BY <2>1 DEF DetInv
  <2> QED
    BY <2>1, <2>2, <2>3, <2>4, TotalCounts
<1>3. CooldownKept
  <2> SUFFICES ASSUME NEW g \in DetGroups,
                      NEW m \in DOMAIN detHistory[g].fired, NEW n \in DOMAIN detHistory[g].fired, m < n
               PROVE  detHistory[g].fired[n] - detHistory[g].fired[m] >= DetCooldown
    BY DEF CooldownKept
  <2>1. g \in Kept(detLru)
    <3> SUFFICES ASSUME g \notin Kept(detLru) PROVE FALSE
      OBVIOUS
    <3>1. detHistory[g].fired = <<>>
      BY DEF DetInv
    <3> QED
      BY <3>1
  <2>2. PICK k \in DOMAIN detLru : detLru[k].key = g
    BY <2>1 DEF Kept
  <2> QED
    BY <2>2 DEF DetInv, FiredRight
<1> QED
  BY <1>2, <1>3 DEF WindowsSound

\* A record keeps the invariant.
LEMMA ObserveKeepsInv ==
  ASSUME DetInv, NEW g \in DetGroups, NEW stamp \in 0 .. detNow + 1, ObserveSecurity(g, stamp)
  PROVE  DetInv'
<1> DEFINE ts == IF stamp = 0 \/ stamp > detNow THEN detNow ELSE stamp
           lru == LruGet(detLru, g)
           c == Add(lru[1].c, ts)
           fires == Total(c) >= DetThreshold /\ CooledDown(c.lastFired, ts)
           old == [k \in DetGroups |-> IF k \in Kept(lru) THEN detHistory[k] ELSE NoHistory[k]]
           NoRecords == [added |-> <<>>, fired |-> <<>>]
           last == IF fires THEN [c EXCEPT !.lastFired = ts] ELSE c
<1>1. /\ detLru' = [lru EXCEPT ![1].c = last]
      /\ detHistory' = [old EXCEPT ![g] = [added |-> Append(old[g].added, ts),
                                        fired |-> IF fires THEN Append(old[g].fired, ts) ELSE old[g].fired]]
      /\ detNow' = detNow
  BY DEF ObserveSecurity
<1>2. ts \in Nat \ {0}
  BY DEF DetInv, DetTypes
<1>3. /\ lru \in Seq(GroupEntries) /\ lru # <<>> /\ UniqueKeys(lru) /\ lru[1].key = g
      /\ (\E k \in DOMAIN detLru : lru[1] = detLru[k]) \/ (g \notin Kept(detLru) /\ lru[1].c = NewCounter)
      /\ \A k \in DOMAIN lru : k # 1 => \E j \in DOMAIN detLru : lru[k] = detLru[j] /\ detLru[j].key # g
  BY LruGetResult DEF DetInv, DetTypes
<1>4. /\ Len(lru) \in Nat \ {0} /\ DOMAIN lru = 1 .. Len(lru) /\ 1 \in DOMAIN lru
      /\ \A k \in DOMAIN lru : lru[k] \in GroupEntries
  BY <1>3, ElementOfSeq, EmptySeq
<1>5. lru[1].c \in Counters
  BY <1>4 DEF GroupEntries
<1> HIDE DEF ts, lru, c, fires, old, last
<1>6. c \in Counters /\ c.lastFired = lru[1].c.lastFired /\ c.head >= ts
  BY <1>2, <1>5, AddResult DEF c
<1>7. last \in Counters /\ last.head = c.head /\ last.ids = c.ids /\ last.counts = c.counts
      /\ last.lastFired = IF fires THEN ts ELSE c.lastFired
  BY <1>2, <1>6 DEF last, Counters
<1>8. /\ DOMAIN detLru' = DOMAIN lru
      /\ detLru'[1] = [key |-> g, c |-> last]
      /\ \A k \in DOMAIN lru : k # 1 => detLru'[k] = lru[k]
  <2>1. detLru'[1] = [lru[1] EXCEPT !.c = last]
    BY <1>1, <1>4
  <2>2. [lru[1] EXCEPT !.c = last] = [key |-> g, c |-> last]
    BY <1>3, <1>4 DEF GroupEntries
  <2> QED
    BY <2>1, <2>2, <1>1, <1>4
<1>9. /\ detHistory \in [DetGroups -> [added : Seq(Nat), fired : Seq(Nat)]]
      /\ \A k \in DetGroups : k \notin Kept(detLru) => detHistory[k] = NoRecords
  BY DEF DetInv, DetTypes
<1>10. g \in Kept(lru) /\ Kept(detLru') = Kept(lru)
  BY <1>3, <1>4, <1>8 DEF Kept
<1>11. PICK h \in [added : Seq(Nat), fired : Seq(Nat)] : h = detHistory[g]
  BY <1>9
<1>12. old \in [DetGroups -> [added : Seq(Nat), fired : Seq(Nat)]] /\ old[g] = h
  <2>1. \A k \in DetGroups : NoHistory[k] = NoRecords
    BY DEF NoHistory
  <2>2. NoRecords \in [added : Seq(Nat), fired : Seq(Nat)]
    BY EmptySeq
  <2> QED
    BY <2>1, <2>2, <1>9, <1>10, <1>11 DEF old
<1>13. PICK a \in Seq(Nat), f \in Seq(Nat) : a = Append(h.added, ts) /\ f = IF fires THEN Append(h.fired, ts) ELSE h.fired
  BY <1>2, <1>11, AppendProperties
<1>14. /\ detHistory' \in [DetGroups -> [added : Seq(Nat), fired : Seq(Nat)]]
       /\ detHistory'[g].added = a /\ detHistory'[g].fired = f
       /\ \A k \in DetGroups : k # g => detHistory'[k] = old[k]
  <2>1. detHistory' = [old EXCEPT ![g] = [added |-> a, fired |-> f]]
    BY <1>1, <1>12, <1>13
  <2> QED
    BY <2>1, <1>12
<1>15. DetTypes'
  <2>a. detLru'[1] \in GroupEntries
    BY <1>7, <1>8 DEF GroupEntries
  <2>1. \A k \in 1 .. Len(lru) : detLru'[k] \in GroupEntries
    BY <1>4, <1>8, <2>a
  <2>2. detLru' \in [1 .. Len(lru) -> GroupEntries]
    BY <2>1, <1>1, <1>4
  <2>b. PICK l \in Nat : l = Len(lru)
    BY <1>4
  <2>c. PICK q \in [1 .. l -> GroupEntries] : q = detLru'
    BY <2>2, <2>b
  <2>d. q \in Seq(GroupEntries)
    OBVIOUS
  <2>3. detLru' \in Seq(GroupEntries)
    BY <2>c, <2>d
  <2> QED
    BY <2>3, <1>1, <1>14 DEF DetTypes, DetInv
<1>16. UniqueKeys(detLru)'
  <2>1. \A k \in DOMAIN lru : detLru'[k].key = lru[k].key
    BY <1>3, <1>8
  <2> QED
    BY <1>3, <1>8, <2>1 DEF UniqueKeys
<1>17. \A k \in DetGroups : k \notin Kept(detLru)' => detHistory'[k] = NoRecords
  <2> SUFFICES ASSUME NEW k \in DetGroups, k \notin Kept(lru)
               PROVE  detHistory'[k] = NoRecords
    BY <1>10
  <2> QED
    BY <1>10, <1>14 DEF old, NoHistory
<1>18. /\ RingRight(lru[1].c, h.added)
       /\ FiredRight(lru[1].c.lastFired, h.fired)
  <2>1. CASE \E k \in DOMAIN detLru : lru[1] = detLru[k]
    BY <2>1, <1>3, <1>11 DEF DetInv
  <2>2. CASE g \notin Kept(detLru) /\ lru[1].c = NewCounter
    <3>1. h.added = <<>> /\ h.fired = <<>>
      BY <2>2, <1>9, <1>11
    <3>2. RingRight(NewCounter, <<>>)
      <4>1. Cardinality(InBucket(<<>>, 0)) = 0
        BY FS_EmptySet DEF InBucket
      <4> QED
        BY <4>1, DetAssumption DEF RingRight, NewCounter, Live
    <3> QED
      BY <2>2, <3>1, <3>2 DEF FiredRight
  <2> QED
    BY <2>1, <2>2, <1>3
<1>19. RingRight(last, a)
  <2>1. RingRight(c, a)
    BY <1>2, <1>5, <1>11, <1>13, <1>18, AddRight DEF c
  <2> QED
    BY <2>1, <1>7 DEF RingRight, Live
<1>20. FiredRight(last.lastFired, f)
  <2>1. CASE ~fires
    BY <2>1, <1>6, <1>7, <1>13, <1>18
  <2>2. CASE fires
    <3>1. last.lastFired = ts /\ f = Append(h.fired, ts)
      BY <2>2, <1>7, <1>13
    <3>2. PICK l \in Nat, t \in Nat, cd \in Nat \ {0} : l = c.lastFired /\ t = ts /\ cd = DetCooldown
      BY <1>2, <1>6, DetAssumption DEF Counters
    <3>3. l = 0 \/ t - l >= cd
      BY <2>2, <3>2 DEF fires, CooledDown, NoFiring
    <3>4. /\ \A n \in DOMAIN h.fired : h.fired[n] >= 1 /\ h.fired[n] <= l
          /\ \A m, n \in DOMAIN h.fired : m < n => h.fired[n] - h.fired[m] >= cd
      BY <1>6, <1>18, <3>2 DEF FiredRight
    <3>5. Len(h.fired) \in Nat /\ DOMAIN h.fired = 1 .. Len(h.fired) /\ \A n \in DOMAIN h.fired : h.fired[n] \in Nat
      BY <1>11, ElementOfSeq
    <3>6. /\ DOMAIN f = 1 .. Len(h.fired) + 1 /\ f[Len(h.fired) + 1] = t
          /\ \A n \in DOMAIN h.fired : f[n] = h.fired[n]
      BY <1>11, <3>1, <3>2, <3>5, AppendProperties
    <3>7. \A n \in DOMAIN h.fired : t - h.fired[n] >= cd /\ h.fired[n] <= t
      <4> TAKE n \in DOMAIN h.fired
      <4>1. PICK v \in Nat : v = h.fired[n]
        BY <3>5
      <4>2. v >= 1 /\ v <= l
        BY <3>4, <4>1
      <4>3. t - v >= cd /\ v <= t
        BY <3>3, <4>2
      <4> QED
        BY <4>1, <4>3
    <3>a. t >= 1
      BY <1>2, <3>2
    <3>8. \A n \in DOMAIN f : f[n] >= 1 /\ f[n] <= t
      <4> TAKE n \in DOMAIN f
      <4>1. CASE n \in DOMAIN h.fired
        BY <4>1, <3>4, <3>6, <3>7
      <4>2. CASE n \notin DOMAIN h.fired
        <5>1. n = Len(h.fired) + 1
          BY <4>2, <3>5, <3>6
        <5> QED
          BY <5>1, <3>6, <3>a
      <4> QED
        BY <4>1, <4>2
    <3>9. \A m, n \in DOMAIN f : m < n => f[n] - f[m] >= cd
      <4> SUFFICES ASSUME NEW m \in DOMAIN f, NEW n \in DOMAIN f, m < n
                   PROVE  f[n] - f[m] >= cd
        OBVIOUS
      <4>1. m \in DOMAIN h.fired
        BY <3>5, <3>6
      <4>2. CASE n \in DOMAIN h.fired
        BY <4>1, <4>2, <3>4, <3>6
      <4>3. CASE n \notin DOMAIN h.fired
        <5>1. n = Len(h.fired) + 1
          BY <4>3, <3>5, <3>6
        <5>2. f[n] = t /\ f[m] = h.fired[m]
          BY <5>1, <4>1, <3>6
        <5> QED
          BY <5>2, <4>1, <3>7
      <4> QED
        BY <4>2, <4>3
    <3> QED
      BY <3>1, <3>2, <3>8, <3>9 DEF FiredRight
  <2> QED
    BY <2>1, <2>2
<1>21. \A k \in DOMAIN detLru' :
         /\ RingRight(detLru'[k].c, detHistory'[detLru'[k].key].added)
         /\ FiredRight(detLru'[k].c.lastFired, detHistory'[detLru'[k].key].fired)
  <2> SUFFICES ASSUME NEW k \in DOMAIN lru
               PROVE  /\ RingRight(detLru'[k].c, detHistory'[detLru'[k].key].added)
                      /\ FiredRight(detLru'[k].c.lastFired, detHistory'[detLru'[k].key].fired)
    BY <1>8
  <2>1. CASE k = 1
    BY <2>1, <1>8, <1>14, <1>19, <1>20
  <2>2. CASE k # 1
    <3>1. PICK j \in DOMAIN detLru : lru[k] = detLru[j] /\ detLru[j].key # g
      BY <2>2, <1>3
    <3>2. PICK x \in DetGroups : x = lru[k].key
      BY <1>4 DEF GroupEntries
    <3>3. x \in Kept(lru) /\ x # g
      BY <3>1, <3>2 DEF Kept
    <3>4. detHistory'[x] = detHistory[x]
      BY <3>3, <1>14 DEF old
    <3> QED
      BY <2>2, <3>1, <3>2, <3>4, <1>8 DEF DetInv
  <2> QED
    BY <2>1, <2>2
<1> QED
  BY <1>15, <1>16, <1>17, <1>21 DEF DetInv, UniqueKeys, Kept

\* A detection rule's window counts the records it is said to count, whatever
\* their order and age and however the groups replace each other, and a group
\* that is kept is not reported twice within the cooldown.
THEOREM WindowsCountRight == DetSpec => []WindowsSound
<1>1. DetInit => DetInv
  <2> SUFFICES ASSUME DetInit PROVE DetInv
    OBVIOUS
  <2>1. detLru = <<>> /\ detNow \in Nat \ {0} /\ detHistory = [g \in DetGroups |-> [added |-> <<>>, fired |-> <<>>]]
    BY DetAssumption DEF DetInit, NoHistory
  <2> QED
    BY <2>1, EmptySeq DEF DetInv, DetTypes, UniqueKeys
<1>2. DetInv /\ [DetNext]_detVars => DetInv'
  <2> SUFFICES ASSUME DetInv, [DetNext]_detVars PROVE DetInv'
    OBVIOUS
  <2>1. CASE \E g \in DetGroups, stamp \in 0 .. detNow + 1 : ObserveSecurity(g, stamp)
    BY <2>1, ObserveKeepsInv
  <2>2. CASE detLru' = <<>> /\ detHistory' = NoHistory /\ detNow' = detNow
    <3>1. DetTypes'
      BY <2>2, EmptySeq DEF DetInv, DetTypes, NoHistory
    <3> QED
      BY <2>2, <3>1 DEF DetInv, NoHistory, UniqueKeys
  <2>3. CASE detLru' = detLru /\ detHistory' = detHistory /\ detNow' \in {detNow, detNow + 1}
    <3>1. DetTypes'
      BY <2>3 DEF DetInv, DetTypes
    <3> QED
      BY <2>3, <3>1 DEF DetInv, UniqueKeys, Kept
  <2>4. CASE SetRules \/ DetRestart
    BY <2>2, <2>4 DEF SetRules, DetRestart
  <2>5. CASE \/ ObserveExcluded \/ EmitTake \/ EmitPersisted
             \/ \E retryable \in BOOLEAN : EmitFails(retryable)
             \/ DetTick \/ UNCHANGED detVars
    BY <2>3, <2>5 DEF ObserveExcluded, EmitTake, EmitPersisted, EmitFails, DetTick, detVars
  <2> QED
    BY <2>1, <2>4, <2>5 DEF DetNext
<1>3. DetInv => WindowsSound
  BY DetInvSound
<1> QED
  BY <1>1, <1>2, <1>3, PTL DEF DetSpec
=============================================================================
