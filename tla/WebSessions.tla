---------------------------- MODULE WebSessions ----------------------------
(***************************************************************************)
(* One browser session signed in through the identity provider: its row in *)
(* web_sessions, the provider's grant with its single-use refresh tokens,  *)
(* the requests that are checked against the row, the refresh flight they  *)
(* share, and everything that ends a session: the user's logout, the       *)
(* provider's back-channel logout, a refused refresh, the absolute expiry. *)
(* Requests arrive at the writer or at reader replicas, which read the row *)
(* themselves and send every refresh to the writer.                        *)
(***************************************************************************)
EXTENDS Integers, FiniteSets

CONSTANTS Requests,   \* requests that may be under way at once
          Readers,    \* those of them that a reader replica serves
          TTL,        \* lifetime of an access token
          Skew,       \* accessSkew
          Grace,      \* oidcRefreshGrace
          Lifetime,   \* absolute lifetime of a session
          MaxTime,    \* the clock stops here
          Faults,     \* among "outage", "lost", "db", "unreachable", "crash"
          MaxFaults   \* failures in one behaviour; outages of the provider do not count

ASSUME SessionAssumption ==
    /\ Readers \subseteq Requests
    /\ TTL \in Nat /\ Skew \in 0..TTL /\ Grace \in Nat /\ Lifetime \in Nat /\ MaxTime \in Nat
    /\ MaxFaults \in Nat /\ Faults \subseteq {"outage", "lost", "db", "unreachable", "crash"}

None == -1
NoRow == [exp |-> None, abs |-> None, token |-> None, failing |-> None]

VARIABLES now,      \* the clock
          login,    \* the callback: "none", "exchanged" or "done", with the tokens it holds
          row,      \* the web_sessions row, NoRow when there is none
          idp,      \* external: is the grant alive, and its current refresh token
          flight,   \* the refresh flight: its step, start, the row it read and the tokens it got
          req,      \* each request: its step, start time, the row it read, served stale or not
          pending,  \* deletions under way: by a "logout", by a "backchannel" logout
          faults,
          gone,     \* history: the row was deleted
          failed,   \* history: start of the first failed refresh since the last good one
          unmarked, \* history: that failure is not recorded in the row
          ended,    \* history: when the provider ended the grant
          replayed, \* history: a refresh token was sent after it had been exchanged
          stranded  \* history: an exchanged token did not reach the row

history == <<gone, failed, unmarked, ended, replayed, stranded>>
vars == <<now, login, row, idp, flight, req, pending, faults, history>>

NoFlight == [pc |-> "none", start |-> None, ws |-> NoRow, token |-> None, exp |-> None]
Free == [pc |-> "idle", start |-> None, ws |-> NoRow, stale |-> FALSE]
Served(start, stale) == [pc |-> "served", start |-> start, ws |-> NoRow, stale |-> stale]

Init ==
    /\ now = 0
    /\ login = [pc |-> "none", exp |-> None, token |-> None]
    /\ row = NoRow
    /\ idp = [alive |-> FALSE, token |-> 0]
    /\ flight = NoFlight
    /\ req = [q \in Requests |-> Free]
    /\ pending = {} /\ faults = 0
    /\ gone = FALSE /\ failed = None /\ unmarked = FALSE
    /\ ended = None /\ replayed = FALSE /\ stranded = FALSE

\* a failure of this kind happens now
Fails(f) == f \in Faults /\ faults < MaxFaults /\ faults' = faults + 1

\* history: a refresh that started at t failed, recorded in the row or not
Failed(t, recorded) ==
    /\ failed' = IF failed = None THEN t ELSE failed
    /\ unmarked' = (unmarked \/ (~recorded /\ failed = None))

-----------------------------------------------------------------------------
(* Signing in.                                                             *)

\* ExchangeFull: the provider opens a grant, with or without a refresh token (0)
Exchange ==
    /\ login.pc = "none"
    /\ \E token \in {0, 1} :
         /\ login' = [pc |-> "exchanged", exp |-> now + TTL, token |-> token]
         /\ idp' = [alive |-> TRUE, token |-> token]
    /\ UNCHANGED <<now, row, flight, req, pending, faults, history>>

\* createWebSession inserts the row on the writer, or fails and nobody is signed in
CreateWebSession ==
    /\ login.pc = "exchanged"
    /\ login' = [login EXCEPT !.pc = "done"]
    /\ \/ /\ row' = [exp |-> login.exp, abs |-> now + Lifetime, token |-> login.token,
                     failing |-> None]
          /\ UNCHANGED faults
       \/ Fails("db") /\ UNCHANGED row
    /\ UNCHANGED <<now, idp, flight, req, pending, history>>

-----------------------------------------------------------------------------
(* resolveSession: what a request with the session's cookie goes through.  *)

\* the row is deleted; where the error is only logged, or ignored, it may stay
DeleteWebSession == row' = NoRow /\ gone' = (gone \/ row # NoRow)

BestEffortDelete ==
    \/ DeleteWebSession /\ UNCHANGED faults
    \/ Fails("db") /\ UNCHANGED <<row, gone>>

\* mutant: the skew is added
NeedsRefreshLate(ws, t) == t >= ws.exp + Skew

NeedsRefresh(ws, t) == t >= ws.exp - Skew

\* the row is read; past its absolute expiry it is deleted, with a token that is
\* still good the request is served
ResolveSession(q) ==
    /\ req[q].pc = "idle" /\ row # NoRow
    /\ \/ now > row.abs /\ BestEffortDelete /\ UNCHANGED req
       \/ /\ now <= row.abs /\ ~NeedsRefresh(row, now)
          /\ req' = [req EXCEPT ![q] = Served(now, FALSE)] /\ UNCHANGED <<row, gone, faults>>
       \/ /\ now <= row.abs /\ NeedsRefresh(row, now)
          /\ req' = [req EXCEPT ![q] = [Free EXCEPT !.pc = "refresh", !.start = now, !.ws = row]]
          /\ UNCHANGED <<row, gone, faults>>
    /\ UNCHANGED <<now, login, idp, flight, pending, failed, unmarked, ended, replayed, stranded>>

\* the handler behind the check is done
Return(q) ==
    /\ req[q].pc = "served"
    /\ req' = [req EXCEPT ![q] = Free]
    /\ UNCHANGED <<now, login, row, idp, flight, pending, faults, history>>

\* Refresh joins the flight under way or starts one
Refresh(q) ==
    /\ req[q].pc = "refresh"
    /\ req' = [req EXCEPT ![q].pc = "waiting"]
    /\ flight' = IF flight.pc = "none" THEN [NoFlight EXCEPT !.pc = "get"] ELSE flight
    /\ UNCHANGED <<now, login, row, idp, pending, faults, history>>

\* staleSessionWithinGrace: the outage counts from the recorded failure or the expiry
WithinGrace(stale, start) ==
    LET anchor == IF stale.failing # None THEN stale.failing ELSE stale.exp
    IN start - anchor <= Grace

\* what becomes of a request with the result of its refresh and the row that came with it
Outcome(r, res, ws) ==
    IF res = "ok" THEN Served(r.start, FALSE)
    ELSE IF res = "transient" /\ WithinGrace(IF ws = NoRow THEN r.ws ELSE ws, r.start)
    THEN Served(r.start, TRUE) ELSE Free

\* a reader cannot reach the writer, or gives up waiting for it: nothing is recorded
WriterUnreachable(q) ==
    /\ q \in Readers /\ req[q].pc \in {"refresh", "waiting"}
    /\ Fails("unreachable")
    /\ req' = [req EXCEPT ![q] = Outcome(@, "transient", NoRow)]
    /\ Failed(req[q].start, FALSE)
    /\ UNCHANGED <<now, login, row, idp, flight, pending, gone, ended, replayed, stranded>>

-----------------------------------------------------------------------------
(* refreshLocked: the flight, on the writer.                               *)

\* every request that waits gets the flight's result, and its row if there is one
Finish(res, ws) ==
    /\ flight' = NoFlight
    /\ req' = [q \in Requests |->
                 IF req[q].pc = "waiting" THEN Outcome(req[q], res, ws) ELSE req[q]]

\* mutant: the flight sends the token of the request that started it
FlightUsesCallersRow ==
    /\ flight.pc = "get"
    /\ \E q \in Requests :
         /\ req[q].pc = "waiting" /\ req[q].ws.token > 0
         /\ flight' = [flight EXCEPT !.pc = "send", !.ws = req[q].ws, !.start = now]
    /\ UNCHANGED <<now, login, row, idp, req, pending, faults, history>>

\* mutant: a session without a refresh token leaves its callers waiting
FlightForgetsCallers ==
    /\ flight.pc = "get" /\ row # NoRow
    /\ flight' = IF NeedsRefresh(row, now) /\ row.token > 0
                 THEN [flight EXCEPT !.pc = "send", !.ws = row, !.start = now] ELSE NoFlight
    /\ UNCHANGED <<now, login, row, idp, req, pending, faults, history>>

\* the row is read again: it may be gone, or renewed by an earlier flight; without a
\* refresh token it dies with its access token
FlightGet ==
    /\ flight.pc = "get"
    /\ \/ row = NoRow /\ Finish("notfound", NoRow) /\ UNCHANGED <<row, gone, faults>>
       \/ /\ row # NoRow /\ ~NeedsRefresh(row, now)
          /\ Finish("ok", row) /\ UNCHANGED <<row, gone, faults>>
       \/ /\ row # NoRow /\ NeedsRefresh(row, now) /\ row.token = 0
          /\ BestEffortDelete /\ Finish("revoked", NoRow)
       \/ /\ row # NoRow /\ NeedsRefresh(row, now) /\ row.token > 0
          /\ flight' = [flight EXCEPT !.pc = "send", !.ws = row, !.start = now]
          /\ UNCHANGED <<row, gone, req, faults>>
    /\ UNCHANGED <<now, login, idp, pending, failed, unmarked, ended, replayed, stranded>>

FlightGetFails ==
    /\ flight.pc = "get" /\ Fails("db")
    /\ Finish("transient", NoRow)
    /\ Failed(now, FALSE)
    /\ UNCHANGED <<now, login, row, idp, pending, gone, ended, replayed, stranded>>

\* external: the provider exchanges the current token of a living grant for the next one
Exchanged == idp.alive /\ flight.ws.token = idp.token /\ idp' = [idp EXCEPT !.token = @ + 1]

IdpRotates ==
    /\ flight.pc = "send" /\ Exchanged
    /\ flight' = [flight EXCEPT !.pc = "apply", !.token = idp.token + 1, !.exp = now + TTL]
    /\ UNCHANGED <<now, login, row, req, pending, faults, history>>

\* invalid_grant: the grant is dead, or the token was used before, which kills it;
\* the session goes with it
IdpRefuses ==
    /\ flight.pc = "send" /\ ~(idp.alive /\ flight.ws.token = idp.token)
    /\ idp' = [idp EXCEPT !.alive = FALSE]
    /\ replayed' = (replayed \/ flight.ws.token # idp.token)
    /\ BestEffortDelete /\ Finish("revoked", NoRow)
    /\ UNCHANGED <<now, login, pending, failed, unmarked, ended, stranded>>

\* mutant: every failure moves the start of the outage
MarksLatest ==
    row' = IF row = NoRow THEN NoRow ELSE [row EXCEPT !.failing = flight.start]

\* MarkWebSessionRefreshFailing: only the first failure sets the time
MarkRefreshFailing ==
    row' = IF row = NoRow \/ row.failing # None THEN row ELSE [row EXCEPT !.failing = flight.start]

\* no usable answer: the provider is down, or its answer is lost after the exchange;
\* an error of the mark is ignored
RefreshTransient ==
    /\ flight.pc = "send"
    /\ \/ "outage" \in Faults /\ UNCHANGED <<idp, stranded, faults>>
       \/ Fails("lost") /\ Exchanged /\ stranded' = TRUE
    /\ \/ MarkRefreshFailing /\ Failed(flight.start, TRUE)
       \/ "db" \in Faults /\ UNCHANGED row /\ Failed(flight.start, FALSE)
    /\ Finish("transient", IF flight.ws.failing # None THEN flight.ws
                           ELSE [flight.ws EXCEPT !.failing = flight.start])
    /\ UNCHANGED <<now, login, pending, gone, ended, replayed>>

\* the new claims may not be allowed any more
RefreshDisallowed ==
    /\ flight.pc = "apply"
    /\ BestEffortDelete /\ Finish("revoked", NoRow)
    /\ stranded' = (stranded \/ row' # NoRow)
    /\ UNCHANGED <<now, login, idp, pending, failed, unmarked, ended, replayed>>

\* mutant: the tokens are written back even when the row is gone
AppliesOverLogout ==
    /\ flight.pc = "apply"
    /\ row' = [flight.ws EXCEPT !.exp = flight.exp, !.token = flight.token, !.failing = None]
    /\ Finish("ok", row')
    /\ failed' = None /\ unmarked' = FALSE
    /\ UNCHANGED <<now, login, idp, pending, faults, gone, ended, replayed, stranded>>

\* UpdateWebSessionTokens touches an existing row only
ApplyRefreshedTokens ==
    /\ flight.pc = "apply"
    /\ \/ /\ row # NoRow
          /\ row' = [row EXCEPT !.exp = flight.exp, !.token = flight.token, !.failing = None]
          /\ Finish("ok", row')
          /\ failed' = None /\ unmarked' = FALSE
       \/ row = NoRow /\ Finish("revoked", NoRow) /\ UNCHANGED <<row, failed, unmarked>>
    /\ UNCHANGED <<now, login, idp, pending, faults, gone, ended, replayed, stranded>>

ApplyFails ==
    /\ flight.pc = "apply" /\ Fails("db")
    /\ Finish("transient", NoRow)
    /\ stranded' = TRUE /\ Failed(flight.start, FALSE)
    /\ UNCHANGED <<now, login, row, idp, pending, gone, ended, replayed>>

-----------------------------------------------------------------------------
(* The ends of a session.                                                  *)

\* the user's logout reads the row and asks the provider to revoke its token, which
\* need not succeed; then it deletes the row
Logout ==
    /\ row # NoRow /\ "logout" \notin pending
    /\ pending' = pending \union {"logout"}
    /\ \E alive \in {FALSE, idp.alive} : idp' = [idp EXCEPT !.alive = alive]
    /\ UNCHANGED <<now, login, row, flight, req, faults, history>>

LogoutDelete ==
    /\ "logout" \in pending /\ pending' = pending \ {"logout"}
    /\ BestEffortDelete
    /\ UNCHANGED <<now, login, idp, flight, req, failed, unmarked, ended, replayed, stranded>>

\* external: the provider ends the grant and announces it
CentralLogout ==
    /\ idp.alive
    /\ idp' = [idp EXCEPT !.alive = FALSE]
    /\ ended' = now
    /\ pending' = pending \union {"backchannel"}
    /\ UNCHANGED <<now, login, row, flight, req, faults, gone, failed, unmarked, replayed, stranded>>

\* oidcBackchannelLogout deletes the rows of that sign-in, or answers with an error
BackchannelLogout ==
    /\ "backchannel" \in pending /\ pending' = pending \ {"backchannel"}
    /\ BestEffortDelete
    /\ UNCHANGED <<now, login, idp, flight, req, failed, unmarked, ended, replayed, stranded>>

\* external: the announcement does not arrive
NoticeLost ==
    /\ "backchannel" \in pending /\ pending' = pending \ {"backchannel"}
    /\ Fails("unreachable")
    /\ UNCHANGED <<now, login, row, idp, flight, req, history>>

PruneWebSessions ==
    /\ row # NoRow /\ row.abs < now
    /\ BestEffortDelete
    /\ UNCHANGED <<now, login, idp, flight, req, pending, failed, unmarked, ended, replayed,
                   stranded>>

\* the writer stops: its flight and its own requests are gone, readers get an error
Crash ==
    /\ Fails("crash")
    /\ flight' = NoFlight
    /\ req' = [q \in Requests |->
                 IF q \notin Readers THEN Free
                 ELSE IF req[q].pc = "waiting" THEN Outcome(req[q], "transient", NoRow)
                 ELSE req[q]]
    /\ stranded' = (stranded \/ flight.pc = "apply")
    /\ IF \E q \in Readers : req[q].pc = "waiting" THEN Failed(now, FALSE)
                                                   ELSE UNCHANGED <<failed, unmarked>>
    /\ login' = IF login.pc = "exchanged" THEN [login EXCEPT !.pc = "done"] ELSE login
    /\ pending' = pending \ {"logout"}
    /\ UNCHANGED <<now, row, idp, gone, ended, replayed>>

\* the clock starts with the sign-in; waiting for the provider and reaching the writer take
\* time, local steps and statements on the database do not on this scale
Tick ==
    /\ login.pc = "done" /\ flight.pc \in {"none", "send"}
    /\ \A q \in Requests : req[q].pc # "served" /\ (req[q].pc = "refresh" => q \in Readers)
    /\ now < MaxTime /\ now' = now + 1
    /\ UNCHANGED <<login, row, idp, flight, req, pending, faults, history>>

-----------------------------------------------------------------------------
FlightStep ==
    \/ FlightGet \/ FlightGetFails \/ IdpRotates \/ IdpRefuses \/ RefreshTransient
    \/ RefreshDisallowed \/ ApplyRefreshedTokens \/ ApplyFails

Next ==
    \/ Exchange \/ CreateWebSession \/ FlightStep
    \/ \E q \in Requests :
         \/ ResolveSession(q) \/ Refresh(q) \/ WriterUnreachable(q) \/ Return(q)
    \/ Logout \/ LogoutDelete \/ CentralLogout \/ BackchannelLogout \/ NoticeLost \/ PruneWebSessions
    \/ Crash \/ Tick

Spec == Init /\ [][Next]_vars

\* a handler and the flight it waits for run on: the call to the provider is bounded by
\* the client's timeout
FairSpec ==
    /\ Spec
    /\ WF_vars(FlightStep)
    /\ \A q \in Requests :
         WF_vars(Refresh(q)) /\ WF_vars(Return(q))

-----------------------------------------------------------------------------
Time == None..(MaxTime + TTL + Lifetime)
Row == [exp : Time, abs : Time, token : Nat \cup {None}, failing : Time]

\* Every variable keeps its shape, nobody waits without a flight under way (sf.Do), and
\* neither the row nor a flight holds a token the provider has not issued: what
\* applyRefreshedTokens stores comes from the provider.
TypeOK ==
    /\ now \in 0..MaxTime /\ faults \in 0..MaxFaults
    /\ pending \subseteq {"logout", "backchannel"}
    /\ row \in Row /\ row.token <= idp.token /\ flight.token <= idp.token
    /\ flight.pc \in {"none", "get", "send", "apply"} /\ flight.ws \in Row
    /\ \A q \in Requests :
         /\ req[q].pc \in {"idle", "refresh", "waiting", "served"}
         /\ req[q].pc = "waiting" => flight.pc # "none"
    /\ {gone, replayed, stranded, unmarked, idp.alive} \subseteq BOOLEAN

\* A session that was deleted, by logout, back-channel logout, expiry or a refused refresh,
\* never comes back, although a refresh may be waiting for the provider meanwhile:
\* UpdateWebSessionTokens reports a missing row instead of inserting one.
RevokedStaysDead == gone => row = NoRow

\* A refresh token that the provider has already exchanged is sent again only after a
\* failure kept its successor from the row (a lost answer, a failed write, a stop in
\* between): concurrent requests alone never do it, which is what the shared flight and
\* its second look at the row are for.
ReplayHasACause == replayed => stranded

\* A request served on a stale session started at most the grace and the skew after the
\* first failed refresh, when that failure was recorded in the row: retries do not move
\* the anchor.
GraceBounded ==
    \A q \in Requests :
        req[q].stale /\ failed # None /\ ~unmarked => req[q].start - failed <= Grace + Skew

\* Once the provider has ended a sign-in, a request that comes in later is let through
\* without a failed refresh only while the access token issued before that lasts, even if
\* the back-channel logout never arrives.
CentralEndBites ==
    \A q \in Requests :
        ended # None /\ req[q].pc = "served" /\ ~req[q].stale /\ req[q].start > ended
            => req[q].start < ended + TTL - Skew

\* Every request that waits for the refresh flight gets an answer.
RequestsAnswered ==
    \A q \in Requests : req[q].pc = "waiting" ~> req[q].pc # "waiting"

\* What the comment on Direct says: the single-use refresh token is never sent twice.
NeverReplayed == ~replayed

\* What the comment on staleSessionWithinGrace says: the ceiling is anchored at the first
\* failure, whether the provider was down or the writer unreachable.
GraceFromFirstFailure ==
    \A q \in Requests : req[q].stale /\ failed # None => req[q].start - failed <= Grace

\* A session ends when it is revoked here or at the identity provider, within
\* the grace, and a refresh token is replayed only for a cause.
SessionsSafe ==
  /\ TypeOK /\ RevokedStaysDead /\ ReplayHasACause /\ GraceBounded /\ CentralEndBites
=============================================================================
