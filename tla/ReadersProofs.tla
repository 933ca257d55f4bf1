---------------------------- MODULE ReadersProofs ----------------------------
(***************************************************************************)
(* What readers get, for every value of the constants: those of the web    *)
(* interface their sessions, the events they page through and are          *)
(* streamed, and the live log; the worker the lines of a spool segment.    *)
(***************************************************************************)
EXTENDS WebSessions, EventFeed, LogStream, SpoolFile, Functions, FiniteSetTheorems,
        FunctionTheorems, SequenceTheorems, NaturalsInduction, WellFoundedInduction, TLAPS

----------------------------------------------------------------------------
(***************************************************************************)
(* A browser session, for any number of requests, readers, failures and    *)
(* any lifetimes.  Its promises depend on one another through what a       *)
(* request or the flight read earlier and still holds:                     *)
(*                                                                         *)
(*   LifeInv    what there is before the sign-in is complete: nothing      *)
(*   TokenInv   unless an exchange was stranded, the newest token is in    *)
(*              the row, or with the flight that is about to store it      *)
(*   EndInv     no access token outlives the provider's end by a lifetime  *)
(*   MarkInv    the row's mark is the first failure, if that is on record  *)
(*   FlightInv  the row under a flight is the one it read, or it is gone   *)
(*   ReqInv     what a request read is not newer than what the flight read *)
(***************************************************************************)

Tokens == Nat \cup {None}
Logins == [pc : {"none", "exchanged", "done"}, exp : Time, token : Tokens]
Flights == [pc : {"none", "get", "send", "apply"}, start : Time, ws : Row, token : Tokens, exp : Time]
Reqs == [pc : {"idle", "refresh", "waiting", "served"}, start : Time, ws : Row, stale : BOOLEAN]

Types ==
  /\ now \in 0..MaxTime /\ faults \in 0..MaxFaults
  /\ login \in Logins /\ row \in Row /\ flight \in Flights
  /\ idp \in [alive : BOOLEAN, token : Nat]
  /\ req \in [Requests -> Reqs]
  /\ pending \subseteq {"logout", "backchannel"}
  /\ gone \in BOOLEAN /\ unmarked \in BOOLEAN /\ replayed \in BOOLEAN /\ stranded \in BOOLEAN
  /\ failed \in None..MaxTime /\ ended \in None..MaxTime

\* The flight holds a row it read.
InFlight == flight.pc \in {"send", "apply"}

\* There was a failure, and the first one is on record.
Known == failed # None /\ ~unmarked

\* Where staleSessionWithinGrace counts from.
Anchor(ws) == IF ws.failing # None THEN ws.failing ELSE ws.exp

LifeInv ==
  /\ gone => row = NoRow /\ login.pc = "done"
  /\ row # NoRow => login.pc = "done"
  /\ login.pc # "done" => flight.pc = "none" /\ failed = None
  /\ login.pc = "none" => ~idp.alive /\ ended = None /\ idp.token = 0

TokenInv ==
  /\ row.token <= idp.token /\ flight.token <= idp.token /\ login.token <= idp.token
  /\ replayed => stranded
  /\ ~stranded =>
       /\ login.pc = "exchanged" => login.token = idp.token
       /\ row # NoRow /\ flight.pc # "apply" => row.token = idp.token
       /\ flight.pc = "send" => flight.ws.token = idp.token
       /\ flight.pc = "apply" => flight.token = idp.token

EndInv ==
  /\ login.pc = "exchanged" => login.exp <= now + TTL
  /\ row # NoRow => row.exp <= now + TTL
  /\ flight.pc = "apply" => flight.exp = now + TTL
  /\ ended # None => /\ ~idp.alive /\ ended <= now
                     /\ login.pc = "exchanged" => login.exp <= ended + TTL
                     /\ row # NoRow => row.exp <= ended + TTL
                     /\ flight.pc = "apply" => flight.exp <= ended + TTL

MarkInv ==
  /\ row.failing # None => failed # None /\ row.failing <= now
  /\ row # NoRow /\ Known => row.failing = failed

FlightInv ==
  InFlight => /\ row = NoRow \/ row = flight.ws
              /\ flight.start \in 0..now /\ flight.ws.exp - Skew <= flight.start
              /\ flight.ws.failing <= flight.start
              /\ flight.ws.failing # None => failed # None
              /\ Known => flight.ws.failing = failed

\* What a request that has read the row may rely on.
PendingInv(q) ==
  /\ req[q].ws.failing <= now
  /\ row # NoRow => req[q].ws.exp <= row.exp
  /\ InFlight => req[q].ws.exp <= flight.ws.exp /\ req[q].ws.failing <= flight.start
  /\ Known => Anchor(req[q].ws) <= failed + Skew

StaleInv(q) ==
  /\ Known => req[q].start - failed <= Grace + Skew
  /\ failed = None /\ InFlight => req[q].start <= flight.start

FreshInv(q) == ended # None /\ req[q].start > ended => req[q].start < ended + TTL - Skew

ReqInv(q) ==
  /\ req[q].pc # "idle" => req[q].start \in 0..now /\ login.pc = "done"
  /\ req[q].pc = "waiting" => flight.pc # "none"
  /\ req[q].pc \in {"refresh", "waiting"} => PendingInv(q)
  /\ req[q].stale => req[q].pc = "served" /\ StaleInv(q)
  /\ req[q].pc = "served" /\ ~req[q].stale => FreshInv(q)

GlobalInv == LifeInv /\ TokenInv /\ EndInv /\ MarkInv /\ FlightInv

SessionInv == Types /\ GlobalInv /\ \A q \in Requests : ReqInv(q)

-----------------------------------------------------------------------------
(* Shapes. *)

\* The fields of a row.
LEMMA RowShape ==
  ASSUME NEW r \in Row
  PROVE  r.exp \in Int /\ r.abs \in Int /\ r.token \in Int /\ r.failing \in Int /\ -1 <= r.failing
<1>1. Time \subseteq Int /\ \A t \in Time : -1 <= t
  BY SessionAssumption DEF Time, None
<1>2. r.exp \in Time /\ r.abs \in Time /\ r.failing \in Time /\ r.token \in Nat \cup {None}
  BY DEF Row
<1>3. \A t \in Nat \cup {None} : t \in Int
  BY DEF None
<1> QED
  BY <1>1, <1>2, <1>3

\* The fields of the flight.
LEMMA FlightShape ==
  ASSUME NEW f \in Flights
  PROVE  /\ f.start \in Int /\ f.exp \in Int /\ f.token \in Int /\ f.ws \in Row /\ f.exp \in Time
         /\ f.token \in Tokens /\ f.pc \in {"none", "get", "send", "apply"}
<1>1. Time \subseteq Int
  BY SessionAssumption DEF Time, None
<1>2. /\ f.start \in Time /\ f.exp \in Time /\ f.token \in Tokens /\ f.ws \in Row
      /\ f.pc \in {"none", "get", "send", "apply"}
  BY DEF Flights
<1>3. \A t \in Tokens : t \in Int
  BY DEF None, Tokens
<1> QED
  BY <1>1, <1>2, <1>3

\* The fields of a request.
LEMMA ReqShape ==
  ASSUME NEW r \in Reqs
  PROVE  /\ r.start \in Int /\ r.start \in Time /\ r.ws \in Row /\ r.stale \in BOOLEAN
         /\ r.pc \in {"idle", "refresh", "waiting", "served"}
<1>1. Time \subseteq Int
  BY SessionAssumption DEF Time, None
<1>2. r.start \in Time /\ r.ws \in Row /\ r.stale \in BOOLEAN /\ r.pc \in {"idle", "refresh", "waiting", "served"}
  BY DEF Reqs
<1> QED
  BY <1>1, <1>2

\* The times the code computes.
LEMMA Times ==
  /\ None \in Time /\ 0..MaxTime \subseteq Time
  /\ \A t \in 0..MaxTime : t \in Int /\ t \in None..MaxTime /\ t # None /\ t + TTL \in Time /\ t + Lifetime \in Time
BY SessionAssumption DEF Time, None

\* The empty records.
LEMMA Empties ==
  /\ NoRow \in Row /\ NoRow.failing = None /\ NoRow.token = None
  /\ NoFlight \in Flights /\ NoFlight.pc = "none" /\ NoFlight.token = None
  /\ Free \in Reqs /\ Free.pc = "idle" /\ Free.stale = FALSE
<1>1. None \in Time
  BY Times
<1>2. NoRow \in Row
  BY <1>1 DEF NoRow, Row
<1> QED
  BY <1>1, <1>2 DEF NoRow, NoFlight, Free, Flights, Reqs, Tokens

\* A served request holds no row.
LEMMA ServedShape ==
  ASSUME NEW t \in Time, NEW b \in BOOLEAN
  PROVE  Served(t, b) \in Reqs /\ Served(t, b).pc = "served" /\ Served(t, b).start = t /\ Served(t, b).stale = b
BY Empties DEF Served, Reqs

\* A failure that is not on record does not make one known.
LEMMA FailedUnrecorded ==
  ASSUME Types, NEW t \in 0..MaxTime, Failed(t, FALSE)
  PROVE  /\ failed' \in None..MaxTime /\ unmarked' \in BOOLEAN /\ failed' # None
         /\ Known' => Known /\ failed' = failed
<1>1. failed' = (IF failed = None THEN t ELSE failed) /\ unmarked' = (unmarked \/ failed = None)
  BY DEF Failed
<1>2. failed \in None..MaxTime /\ unmarked \in BOOLEAN /\ t \in None..MaxTime /\ t # None
  BY Times DEF Types
<1> QED
  BY <1>1, <1>2 DEF Known

\* A fault is counted.
LEMMA FaultCounted ==
  ASSUME Types, NEW f, Fails(f) PROVE faults' \in 0..MaxFaults
<1>1. faults \in 0..MaxFaults /\ MaxFaults \in Nat /\ faults < MaxFaults /\ faults' = faults + 1
  BY SessionAssumption DEF Types, Fails
<1> QED
  BY <1>1

\* A deletion, successful or not.
LEMMA BestEffort ==
  ASSUME Types, LifeInv, BestEffortDelete
  PROVE  /\ row' = row \/ row' = NoRow
         /\ row' \in Row /\ gone' \in BOOLEAN /\ faults' \in 0..MaxFaults
         /\ gone' => row' = NoRow /\ login.pc = "done"
<1>1. row \in Row /\ gone \in BOOLEAN /\ faults \in 0..MaxFaults
  BY DEF Types
<1>2. CASE DeleteWebSession /\ UNCHANGED faults
  BY <1>1, <1>2, Empties DEF DeleteWebSession, LifeInv
<1>3. CASE Fails("db") /\ UNCHANGED <<row, gone>>
  BY <1>1, <1>3, FaultCounted DEF LifeInv
<1> QED
  BY <1>2, <1>3 DEF BestEffortDelete

-----------------------------------------------------------------------------
(* What most steps leave alone. *)

\* A request that does not move: the clock may, the row may be deleted or renewed, the
\* flight may end, begin or go on, and the first failure may become known.
LEMMA ReqCalm ==
  ASSUME Types, Types', FlightInv, NEW q \in Requests, ReqInv(q), req'[q] = req[q],
         now <= now', login.pc = "done" => login'.pc = "done",
         row' # NoRow => row # NoRow /\ row.exp <= row'.exp,
         InFlight' => \/ InFlight /\ flight'.ws = flight.ws /\ flight'.start = flight.start
                      \/ row # NoRow /\ flight'.ws = row /\ flight'.start = now,
         req[q].pc = "waiting" => flight'.pc # "none",
         Known' => (Known /\ failed' = failed) \/ (failed = None /\ InFlight /\ failed' = flight.start),
         failed' = None /\ InFlight' => ~InFlight \/ failed = None,
         ended' = ended \/ ended' = now
  PROVE  ReqInv(q)'
<1>1. /\ now \in Int /\ now' \in Int /\ req[q] \in Reqs /\ flight \in Flights /\ flight' \in Flights
      /\ row \in Row /\ row' \in Row /\ failed \in Int /\ failed' \in Int /\ ended \in Int
      /\ req[q].start \in Int /\ req[q].ws \in Row /\ req[q].stale \in BOOLEAN
      /\ flight.ws \in Row /\ flight.start \in Int
      /\ TTL \in Int /\ Skew \in Int /\ 0 <= Skew /\ Grace \in Int /\ 0 <= Grace
  BY SessionAssumption, ReqShape, FlightShape DEF Types, None
<1>2. /\ req[q].ws.exp \in Int /\ req[q].ws.failing \in Int /\ row.exp \in Int /\ row'.exp \in Int
      /\ flight.ws.exp \in Int /\ flight.ws.failing \in Int
  BY <1>1, RowShape
<1>3. req'[q].pc # "idle" => req'[q].start \in 0..now' /\ login'.pc = "done"
  BY <1>1 DEF ReqInv
<1>4. ASSUME req[q].pc \in {"refresh", "waiting"} PROVE PendingInv(q)'
  <2>1. PendingInv(q)
    BY <1>4 DEF ReqInv
  <2>2. req[q].ws.failing <= now'
    BY <1>1, <1>2, <2>1 DEF PendingInv
  <2>3. row' # NoRow => req[q].ws.exp <= row'.exp
    BY <1>1, <1>2, <2>1 DEF PendingInv
  <2>4. InFlight' => req[q].ws.exp <= flight'.ws.exp /\ req[q].ws.failing <= flight'.start
    BY <2>1 DEF PendingInv
  <2>5. ASSUME Known' PROVE Anchor(req[q].ws) <= failed' + Skew
    <3>1. CASE Known /\ failed' = failed
      BY <2>1, <3>1 DEF PendingInv
    <3>2. CASE failed = None /\ InFlight /\ failed' = flight.start
      <4>1. /\ req[q].ws.exp <= flight.ws.exp /\ req[q].ws.failing <= flight.start
            /\ flight.ws.exp - Skew <= flight.start
        BY <2>1, <3>2 DEF PendingInv, FlightInv
      <4>2. req[q].ws.exp <= flight.start + Skew /\ req[q].ws.failing <= flight.start + Skew
        BY <1>1, <1>2, <4>1
      <4> QED
        BY <3>2, <4>2 DEF Anchor
    <3> QED
      BY <2>5, <3>1, <3>2
  <2> QED
    BY <2>2, <2>3, <2>4, <2>5 DEF PendingInv
<1>5. ASSUME req[q].stale PROVE StaleInv(q)'
  <2>1. StaleInv(q) /\ req[q].pc = "served"
    BY <1>5 DEF ReqInv
  <2>2. req[q].start <= now
    BY <1>1, <2>1 DEF ReqInv
  <2>3. ASSUME Known' PROVE req[q].start - failed' <= Grace + Skew
    <3>1. CASE Known /\ failed' = failed
      BY <2>1, <3>1 DEF StaleInv
    <3>2. CASE failed = None /\ InFlight /\ failed' = flight.start
      <4>1. req[q].start <= flight.start
        BY <2>1, <3>2 DEF StaleInv
      <4> QED
        BY <1>1, <3>2, <4>1
    <3> QED
      BY <2>3, <3>1, <3>2
  <2>4. ASSUME failed' = None, InFlight' PROVE req[q].start <= flight'.start
    <3>1. CASE InFlight /\ flight'.ws = flight.ws /\ flight'.start = flight.start
      BY <2>1, <2>4, <3>1 DEF StaleInv
    <3>2. CASE row # NoRow /\ flight'.ws = row /\ flight'.start = now
      BY <2>2, <3>2
    <3> QED
      BY <2>4, <3>1, <3>2
  <2> QED
    BY <2>3, <2>4 DEF StaleInv
<1>6. ASSUME req[q].pc = "served", ~req[q].stale PROVE FreshInv(q)'
  <2>1. FreshInv(q) /\ req[q].start <= now
    BY <1>1, <1>6 DEF ReqInv
  <2> QED
    BY <1>1, <2>1 DEF FreshInv
<1>7. req[q].stale => req[q].pc = "served"
  BY DEF ReqInv
<1> QED
  BY <1>3, <1>4, <1>5, <1>6, <1>7 DEF ReqInv

\* What the flight's result makes of a request that waits.
LEMMA OutcomeKept ==
  ASSUME Types, NEW q \in Requests, ReqInv(q), req[q].pc \in {"refresh", "waiting"},
         NEW res, NEW ws \in Row, req'[q] = Outcome(req[q], res, ws),
         now' = now, login.pc = "done" => login'.pc = "done",
         res = "ok" => (ended' # None /\ req[q].start > ended' => req[q].start < ended' + TTL - Skew),
         res = "transient" /\ WithinGrace(IF ws = NoRow THEN req[q].ws ELSE ws, req[q].start) =>
           /\ Known' => req[q].start - failed' <= Grace + Skew
           /\ failed' # None
  PROVE  req'[q] \in Reqs /\ ReqInv(q)'
<1>1. req[q] \in Reqs /\ req[q].start \in Time
  BY ReqShape DEF Types
<1>2. req[q].start \in 0..now' /\ login'.pc = "done"
  BY DEF ReqInv
<1>3. CASE req'[q] = Served(req[q].start, FALSE) /\ res = "ok"
  <2>1. req'[q] \in Reqs /\ req'[q].pc = "served" /\ req'[q].start = req[q].start /\ req'[q].stale = FALSE
    BY <1>1, <1>3, ServedShape
  <2>2. FreshInv(q)'
    BY <1>3, <2>1 DEF FreshInv
  <2> QED
    BY <1>2, <2>1, <2>2 DEF ReqInv
<1>4. CASE req'[q] = Served(req[q].start, TRUE) /\ res = "transient"
           /\ WithinGrace(IF ws = NoRow THEN req[q].ws ELSE ws, req[q].start)
  <2>1. req'[q] \in Reqs /\ req'[q].pc = "served" /\ req'[q].start = req[q].start /\ req'[q].stale = TRUE
    BY <1>1, <1>4, ServedShape
  <2>2. StaleInv(q)'
    BY <1>4, <2>1 DEF StaleInv
  <2> QED
    BY <1>2, <2>1, <2>2 DEF ReqInv
<1>5. CASE req'[q] = Free
  <2>1. req'[q] \in Reqs /\ req'[q].pc = "idle" /\ req'[q].stale = FALSE
    BY <1>5, Empties
  <2> QED
    BY <2>1 DEF ReqInv
<1> QED
  BY <1>3, <1>4, <1>5 DEF Outcome

\* Without a row of its own, a failed refresh is judged by what the request read.
LEMMA OwnGrace ==
  ASSUME Types, NEW q \in Requests, ReqInv(q), req[q].pc \in {"refresh", "waiting"},
         WithinGrace(req[q].ws, req[q].start), Known
  PROVE  req[q].start - failed <= Grace + Skew
<1>1. /\ req[q].start \in Int /\ req[q].ws \in Row /\ failed \in Int /\ Grace \in Int /\ Skew \in Int
  BY ReqShape, SessionAssumption DEF Types, None
<1>2. Anchor(req[q].ws) \in Int
  BY <1>1, RowShape DEF Anchor
<1>3. Anchor(req[q].ws) <= failed + Skew
  BY DEF ReqInv, PendingInv
<1>4. req[q].start - Anchor(req[q].ws) <= Grace
  BY DEF WithinGrace, Anchor
<1> QED
  BY <1>1, <1>2, <1>3, <1>4

\* The steps that at most delete the row, end the flight or add a failure.
LEMMA GlobalCalm ==
  ASSUME Types, Types', GlobalInv, now' = now,
         login'.token = login.token /\ login'.exp = login.exp,
         login'.pc = login.pc \/ (login.pc = "exchanged" /\ login'.pc = "done"),
         row' = row \/ row' = NoRow,
         gone' => row' = NoRow /\ login'.pc = "done",
         flight' = flight \/ flight' = NoFlight,
         flight.pc = "apply" => flight' = flight \/ stranded' \/ row' = NoRow,
         idp'.token = idp.token, idp'.alive => idp.alive, ended' = ended,
         stranded => stranded', replayed' => replayed \/ stranded',
         failed' = failed \/ (login.pc = "done" /\ failed' # None),
         failed # None => failed' # None,
         Known' => Known /\ failed' = failed
  PROVE  GlobalInv'
<1>1. /\ now \in Int /\ idp.token \in Nat /\ ended \in Int /\ TTL \in Int /\ Skew \in Int
      /\ None = -1
  BY SessionAssumption DEF Types, None
<1>2. LifeInv'
  BY Empties DEF GlobalInv, LifeInv
<1>3. TokenInv'
  <2>1. row'.token <= idp.token /\ flight'.token <= idp.token /\ login'.token <= idp.token
    BY <1>1, Empties DEF GlobalInv, TokenInv
  <2>2. ~stranded' => /\ login'.pc = "exchanged" => login'.token = idp.token
                      /\ row' # NoRow /\ flight'.pc # "apply" => row'.token = idp.token
                      /\ flight'.pc = "send" => flight'.ws.token = idp.token
                      /\ flight'.pc = "apply" => flight'.token = idp.token
    BY Empties DEF GlobalInv, TokenInv
  <2> QED
    BY <2>1, <2>2 DEF GlobalInv, TokenInv
<1>4. EndInv'
  BY Empties DEF GlobalInv, EndInv
<1>5. MarkInv'
  BY Empties DEF GlobalInv, MarkInv
<1>6. FlightInv'
  BY Empties DEF GlobalInv, FlightInv, InFlight
<1> QED
  BY <1>2, <1>3, <1>4, <1>5, <1>6 DEF GlobalInv

-----------------------------------------------------------------------------
(* Steps beside the flight. *)

\* A step that at most deletes the row, ends the grant or changes what is pending.
LEMMA CalmStep ==
  ASSUME SessionInv, UNCHANGED <<now, login, flight, req, failed, unmarked, ended, replayed, stranded>>,
         row' = row \/ row' = NoRow, row' \in Row, gone' \in BOOLEAN, gone' => row' = NoRow /\ login.pc = "done",
         faults' \in 0..MaxFaults, pending' \subseteq {"logout", "backchannel"},
         idp' \in [alive : BOOLEAN, token : Nat], idp'.token = idp.token, idp'.alive => idp.alive
  PROVE  SessionInv'
<1>1. Types /\ GlobalInv /\ FlightInv /\ now \in Int /\ \A q \in Requests : ReqInv(q)
  BY DEF SessionInv, GlobalInv, Types
<1>2. Types'
  BY <1>1 DEF Types
<1>3. (Known' <=> Known) /\ (InFlight' <=> InFlight)
  BY DEF Known, InFlight
<1>4. GlobalInv'
  BY <1>1, <1>2, <1>3, GlobalCalm
<1>5. row' # NoRow => row # NoRow /\ row.exp <= row'.exp
  BY <1>1, RowShape DEF Types
<1>6. \A q \in Requests : ReqInv(q)'
  <2> SUFFICES ASSUME NEW q \in Requests PROVE ReqInv(q)'
    OBVIOUS
  <2>1. ReqInv(q) /\ req'[q] = req[q] /\ now <= now' /\ (req[q].pc = "waiting" => flight'.pc # "none")
    BY <1>1 DEF ReqInv
  <2> QED
    BY <1>1, <1>2, <1>3, <1>5, <2>1, ReqCalm
<1> QED
  BY <1>2, <1>4, <1>6 DEF SessionInv

\* A deletion beside the flight.
LEMMA CalmDelete ==
  ASSUME SessionInv, BestEffortDelete, pending' \subseteq {"logout", "backchannel"},
         UNCHANGED <<now, login, idp, flight, req, failed, unmarked, ended, replayed, stranded>>
  PROVE  SessionInv'
<1>1. Types /\ LifeInv
  BY DEF SessionInv, GlobalInv
<1>2. /\ row' = row \/ row' = NoRow
      /\ row' \in Row /\ gone' \in BOOLEAN /\ faults' \in 0..MaxFaults
      /\ gone' => row' = NoRow /\ login.pc = "done"
  BY <1>1, BestEffort
<1>3. idp \in [alive : BOOLEAN, token : Nat]
  BY <1>1 DEF Types
<1> QED
  BY <1>2, <1>3, CalmStep

\* The ends of a session.
LEMMA StepEnds ==
  ASSUME SessionInv, Logout \/ LogoutDelete \/ BackchannelLogout \/ NoticeLost \/ PruneWebSessions
  PROVE  SessionInv'
<1>1. Types /\ LifeInv /\ pending \subseteq {"logout", "backchannel"} /\ faults \in 0..MaxFaults
  BY DEF SessionInv, GlobalInv, Types
<1>2. row \in Row /\ gone \in BOOLEAN /\ (gone => row = NoRow /\ login.pc = "done") /\ idp \in [alive : BOOLEAN, token : Nat]
  BY <1>1 DEF Types, LifeInv
<1>3. CASE LogoutDelete \/ BackchannelLogout \/ PruneWebSessions
  <2>1. BestEffortDelete /\ pending' \subseteq {"logout", "backchannel"}
    BY <1>1, <1>3 DEF LogoutDelete, BackchannelLogout, PruneWebSessions
  <2>2. UNCHANGED <<now, login, idp, flight, req, failed, unmarked, ended, replayed, stranded>>
    BY <1>3 DEF LogoutDelete, BackchannelLogout, PruneWebSessions
  <2> QED
    BY <2>1, <2>2, CalmDelete
<1>4. CASE Logout
  <2>1. pending' \subseteq {"logout", "backchannel"}
    BY <1>1, <1>4 DEF Logout
  <2>2. UNCHANGED <<now, login, row, flight, req, faults, gone, failed, unmarked, ended, replayed, stranded>>
    BY <1>4 DEF Logout, history
  <2>3. PICK alive \in {FALSE, idp.alive} : idp' = [idp EXCEPT !.alive = alive]
    BY <1>4 DEF Logout
  <2>4. idp' \in [alive : BOOLEAN, token : Nat] /\ idp'.token = idp.token /\ (idp'.alive => idp.alive)
    BY <1>2, <2>3
  <2> QED
    BY <1>1, <1>2, <2>1, <2>2, <2>4, CalmStep
<1>5. CASE NoticeLost
  <2>1. pending' \subseteq {"logout", "backchannel"} /\ faults' \in 0..MaxFaults
    BY <1>1, <1>5, FaultCounted DEF NoticeLost
  <2>2. UNCHANGED <<now, login, row, idp, flight, req, gone, failed, unmarked, ended, replayed, stranded>>
    BY <1>5 DEF NoticeLost, history
  <2> QED
    BY <1>1, <1>2, <2>1, <2>2, CalmStep
<1> QED
  BY <1>3, <1>4, <1>5

\* Nothing happens.
LEMMA StepStutter == ASSUME SessionInv, UNCHANGED vars PROVE SessionInv'
<1>1. Types /\ LifeInv
  BY DEF SessionInv, GlobalInv
<1>2. UNCHANGED <<now, login, row, idp, flight, req, pending, faults, gone, failed, unmarked, ended, replayed, stranded>>
  BY DEF vars, history
<1>3. /\ row \in Row /\ gone \in BOOLEAN /\ (gone => row = NoRow /\ login.pc = "done") /\ faults \in 0..MaxFaults
      /\ pending \subseteq {"logout", "backchannel"} /\ idp \in [alive : BOOLEAN, token : Nat]
  BY <1>1 DEF Types, LifeInv
<1> QED
  BY <1>2, <1>3, CalmStep

\* Exchange: the tokens are there, the row is not.
LEMMA StepExchange == ASSUME SessionInv, Exchange PROVE SessionInv'
<1>1. Types /\ GlobalInv /\ FlightInv /\ now \in 0..MaxTime /\ now \in Int /\ \A q \in Requests : ReqInv(q)
  BY DEF SessionInv, GlobalInv, Types
<1>2. PICK token \in {0, 1} : /\ login' = [pc |-> "exchanged", exp |-> now + TTL, token |-> token]
                              /\ idp' = [alive |-> TRUE, token |-> token]
  BY DEF Exchange
<1>3. /\ login.pc = "none"
      /\ UNCHANGED <<now, row, flight, req, pending, faults, gone, failed, unmarked, ended, replayed, stranded>>
  BY DEF Exchange, history
<1>4. login' \in Logins /\ idp' \in [alive : BOOLEAN, token : Nat]
  BY <1>1, <1>2, Times DEF Logins, Tokens
<1>5. Types'
  BY <1>1, <1>3, <1>4 DEF Types
<1>6. /\ login'.pc = "exchanged" /\ login'.exp = now + TTL /\ login'.token = idp'.token
      /\ idp.token = 0 /\ idp.token <= idp'.token /\ idp'.token \in Nat
  BY <1>1, <1>2, <1>3 DEF GlobalInv, LifeInv
<1>7. row = NoRow /\ flight.pc = "none" /\ ended = None /\ failed = None /\ gone = FALSE
  BY <1>1, <1>3 DEF GlobalInv, LifeInv, Types
<1>8. LifeInv'
  BY <1>3, <1>6, <1>7 DEF LifeInv
<1>9. TokenInv'
  <2>1. row.token \in Int /\ flight.token \in Int /\ row.token <= idp.token /\ flight.token <= idp.token
    BY <1>1, RowShape, FlightShape DEF GlobalInv, TokenInv, Types
  <2>2. row'.token <= idp'.token /\ flight'.token <= idp'.token /\ login'.token <= idp'.token
    BY <1>3, <1>6, <2>1
  <2>3. replayed' => stranded'
    BY <1>1, <1>3 DEF GlobalInv, TokenInv
  <2> QED
    BY <1>3, <1>6, <1>7, <2>2, <2>3 DEF TokenInv
<1>10. EndInv'
  <2>1. login'.exp <= now' + TTL
    BY <1>1, <1>3, <1>6, SessionAssumption
  <2> QED
    BY <1>3, <1>7, <2>1 DEF EndInv
<1>11. MarkInv' /\ FlightInv'
  BY <1>1, <1>3, <1>7 DEF GlobalInv, MarkInv, FlightInv, InFlight, Known
<1>12. \A q \in Requests : ReqInv(q)'
  <2> SUFFICES ASSUME NEW q \in Requests PROVE ReqInv(q)'
    OBVIOUS
  <2>1. ReqInv(q) /\ req'[q] = req[q] /\ req[q].pc = "idle"
    BY <1>1, <1>3 DEF ReqInv, Types, Reqs
  <2> QED
    BY <2>1 DEF ReqInv
<1> QED
  BY <1>5, <1>8, <1>9, <1>10, <1>11, <1>12 DEF SessionInv, GlobalInv

\* CreateWebSession: the row has the tokens of the exchange.
LEMMA StepCreate == ASSUME SessionInv, CreateWebSession PROVE SessionInv'
<1>1. Types /\ GlobalInv /\ FlightInv /\ now \in 0..MaxTime /\ now \in Int /\ \A q \in Requests : ReqInv(q)
  BY DEF SessionInv, GlobalInv, Types
<1>2. /\ login.pc = "exchanged" /\ login' = [login EXCEPT !.pc = "done"]
      /\ UNCHANGED <<now, idp, flight, req, pending, gone, failed, unmarked, ended, replayed, stranded>>
  BY DEF CreateWebSession, history
<1>3. /\ login' \in Logins /\ login'.pc = "done" /\ login'.exp = login.exp /\ login'.token = login.token
      /\ login.exp \in Time /\ login.token \in Tokens
  BY <1>1, <1>2 DEF Types, Logins
<1>4. row = NoRow /\ flight.pc = "none" /\ failed = None /\ gone = FALSE
  BY <1>1, <1>2 DEF GlobalInv, LifeInv, Types
<1>5. \A q \in Requests : ReqInv(q)'
  <2> SUFFICES ASSUME NEW q \in Requests PROVE ReqInv(q)'
    OBVIOUS
  <2>1. ReqInv(q) /\ req'[q] = req[q] /\ req[q].pc = "idle"
    BY <1>1, <1>2 DEF ReqInv, Types, Reqs
  <2> QED
    BY <2>1 DEF ReqInv
<1>6. CASE Fails("db") /\ UNCHANGED row
  <2>1. faults' \in 0..MaxFaults
    BY <1>1, <1>6, FaultCounted
  <2>2. Types'
    BY <1>1, <1>2, <1>3, <1>6, <2>1 DEF Types
  <2>3. Known' <=> Known
    BY <1>2 DEF Known
  <2>4. GlobalInv'
    BY <1>1, <1>2, <1>3, <1>4, <1>6, <2>2, <2>3, GlobalCalm
  <2> QED
    BY <1>5, <2>2, <2>4 DEF SessionInv
<1>7. CASE row' = [exp |-> login.exp, abs |-> now + Lifetime, token |-> login.token, failing |-> None] /\ UNCHANGED faults
  <2>1. now + Lifetime \in Time /\ None \in Time
    BY <1>1, Times
  <2>2. row' \in Row /\ row'.exp = login.exp /\ row'.token = login.token /\ row'.failing = None
    BY <1>3, <1>7, <2>1 DEF Row, Tokens
  <2>3. Types'
    BY <1>1, <1>2, <1>3, <1>7, <2>2 DEF Types
  <2>4. LifeInv'
    BY <1>2, <1>3, <1>4 DEF LifeInv
  <2>5. TokenInv'
    BY <1>1, <1>2, <1>3, <1>4, <2>2 DEF GlobalInv, TokenInv
  <2>6. EndInv'
    BY <1>1, <1>2, <1>3, <1>4, <2>2 DEF GlobalInv, EndInv
  <2>7. MarkInv' /\ FlightInv'
    BY <1>2, <1>4, <2>2 DEF MarkInv, FlightInv, InFlight, Known
  <2> QED
    BY <1>5, <2>3, <2>4, <2>5, <2>6, <2>7 DEF SessionInv, GlobalInv
<1> QED
  BY <1>6, <1>7 DEF CreateWebSession

\* CentralLogout: the grant ends while older tokens are still good.
LEMMA StepCentral == ASSUME SessionInv, CentralLogout PROVE SessionInv'
<1>1. Types /\ GlobalInv /\ FlightInv /\ now \in 0..MaxTime /\ now \in Int /\ \A q \in Requests : ReqInv(q)
  BY DEF SessionInv, GlobalInv, Types
<1>2. /\ idp.alive /\ idp' = [idp EXCEPT !.alive = FALSE] /\ ended' = now /\ pending' = pending \union {"backchannel"}
      /\ UNCHANGED <<now, login, row, flight, req, faults, gone, failed, unmarked, replayed, stranded>>
  BY DEF CentralLogout
<1>3. idp' \in [alive : BOOLEAN, token : Nat] /\ idp'.token = idp.token /\ idp'.alive = FALSE
  BY <1>1, <1>2 DEF Types
<1>4. ended' \in None..MaxTime
  BY <1>1, <1>2, Times
<1>5. Types'
  BY <1>1, <1>2, <1>3, <1>4 DEF Types
<1>6. login.pc # "none"
  BY <1>1, <1>2 DEF GlobalInv, LifeInv
<1>7. LifeInv'
  BY <1>1, <1>2, <1>3, <1>6 DEF GlobalInv, LifeInv
<1>8. TokenInv'
  BY <1>1, <1>2, <1>3 DEF GlobalInv, TokenInv
<1>9. EndInv'
  <2>1. now <= now /\ (flight.pc = "apply" => flight.exp <= now + TTL)
    BY <1>1, SessionAssumption DEF GlobalInv, EndInv
  <2> QED
    BY <1>1, <1>2, <1>3, <2>1 DEF GlobalInv, EndInv
<1>10. MarkInv' /\ FlightInv' /\ (Known' <=> Known) /\ (InFlight' <=> InFlight)
  BY <1>1, <1>2 DEF GlobalInv, MarkInv, FlightInv, InFlight, Known
<1>11. row' # NoRow => row # NoRow /\ row.exp <= row'.exp
  BY <1>1, <1>2, RowShape DEF Types
<1>12. \A q \in Requests : ReqInv(q)'
  <2> SUFFICES ASSUME NEW q \in Requests PROVE ReqInv(q)'
    OBVIOUS
  <2>1. ReqInv(q) /\ req'[q] = req[q] /\ now <= now' /\ (req[q].pc = "waiting" => flight'.pc # "none")
    BY <1>1, <1>2 DEF ReqInv
  <2> QED
    BY <1>1, <1>2, <1>5, <1>10, <1>11, <2>1, ReqCalm
<1> QED
  BY <1>5, <1>7, <1>8, <1>9, <1>10, <1>12 DEF SessionInv, GlobalInv

\* Tick: only a flight that waits for the provider sees time pass.
LEMMA StepTick == ASSUME SessionInv, Tick PROVE SessionInv'
<1>1. Types /\ GlobalInv /\ FlightInv /\ now \in 0..MaxTime /\ now \in Int /\ \A q \in Requests : ReqInv(q)
  BY DEF SessionInv, GlobalInv, Types
<1>2. /\ login.pc = "done" /\ flight.pc \in {"none", "send"} /\ now < MaxTime /\ now' = now + 1
      /\ UNCHANGED <<login, row, idp, flight, req, pending, faults, gone, failed, unmarked, ended, replayed, stranded>>
  BY DEF Tick, history
<1>3. now' \in 0..MaxTime /\ now <= now' /\ now + TTL <= now' + TTL
  BY <1>1, <1>2, SessionAssumption
<1>4. Types'
  BY <1>1, <1>2, <1>3 DEF Types
<1>5. LifeInv' /\ TokenInv'
  BY <1>1, <1>2 DEF GlobalInv, LifeInv, TokenInv
<1>6. row.exp \in Int /\ row.failing \in Int /\ flight.start \in Int /\ ended \in Int /\ TTL \in Int
  BY <1>1, RowShape, FlightShape, SessionAssumption DEF Types, None
<1>7. EndInv'
  <2>1. row # NoRow => row.exp <= now' + TTL
    BY <1>1, <1>3, <1>2, <1>6 DEF GlobalInv, EndInv
  <2>2. ended # None => ended <= now'
    BY <1>1, <1>3, <1>2, <1>6 DEF GlobalInv, EndInv
  <2> QED
    BY <1>1, <1>2, <2>1, <2>2 DEF GlobalInv, EndInv
<1>8. (Known' <=> Known) /\ (InFlight' <=> InFlight)
  BY <1>2 DEF InFlight, Known
<1>9. MarkInv'
  <2>1. row.failing # None => failed # None /\ row.failing <= now'
    BY <1>1, <1>2, <1>3, <1>6 DEF GlobalInv, MarkInv
  <2> QED
    BY <1>1, <1>2, <1>8, <2>1 DEF GlobalInv, MarkInv
<1>10. FlightInv'
  <2>1. InFlight => flight.start \in 0..now'
    BY <1>1, <1>2, <1>3, <1>6 DEF GlobalInv, FlightInv
  <2> QED
    BY <1>1, <1>2, <1>8, <2>1 DEF GlobalInv, FlightInv
<1>11. row' # NoRow => row # NoRow /\ row.exp <= row'.exp
  BY <1>2, <1>6
<1>12. \A q \in Requests : ReqInv(q)'
  <2> SUFFICES ASSUME NEW q \in Requests PROVE ReqInv(q)'
    OBVIOUS
  <2>1. ReqInv(q) /\ req'[q] = req[q] /\ (req[q].pc = "waiting" => flight'.pc # "none")
    BY <1>1, <1>2 DEF ReqInv
  <2> QED
    BY <1>1, <1>2, <1>3, <1>4, <1>8, <1>11, <2>1, ReqCalm
<1> QED
  BY <1>4, <1>5, <1>7, <1>9, <1>10, <1>12 DEF SessionInv, GlobalInv

-----------------------------------------------------------------------------
(* Requests. *)

\* A request that moves alone.
LEMMA RequestStep ==
  ASSUME SessionInv, Types', NEW q \in Requests, ReqInv(q)',
         \A p \in Requests : p # q => req'[p] = req[p],
         UNCHANGED <<now, login, idp, ended, replayed, stranded>>,
         row' = row \/ row' = NoRow, gone' => row' = NoRow /\ login.pc = "done",
         flight' = flight,
         failed' = failed \/ (login.pc = "done" /\ failed' # None), failed # None => failed' # None,
         Known' => Known /\ failed' = failed
  PROVE  SessionInv'
<1>1. Types /\ GlobalInv /\ FlightInv /\ now \in Int /\ \A p \in Requests : ReqInv(p)
  BY DEF SessionInv, GlobalInv, Types
<1>2. GlobalInv'
  BY <1>1, GlobalCalm
<1>3. (InFlight' <=> InFlight) /\ now <= now'
  BY <1>1 DEF InFlight
<1>4. row' # NoRow => row # NoRow /\ row.exp <= row'.exp
  BY <1>1, RowShape DEF Types
<1>5. ASSUME NEW p \in Requests, p # q PROVE ReqInv(p)'
  <2>1. ReqInv(p) /\ req'[p] = req[p] /\ (req[p].pc = "waiting" => flight'.pc # "none")
    BY <1>1, <1>5 DEF ReqInv
  <2> QED
    BY <1>1, <1>3, <1>4, <2>1, ReqCalm
<1> QED
  BY <1>2, <1>5 DEF SessionInv

\* ResolveSession.
LEMMA StepResolve == ASSUME SessionInv, NEW q \in Requests, ResolveSession(q) PROVE SessionInv'
<1>1. /\ Types /\ GlobalInv /\ FlightInv /\ LifeInv /\ now \in 0..MaxTime /\ now \in Int /\ now \in Time
      /\ row \in Row /\ row # NoRow /\ login.pc = "done"
  BY Times DEF SessionInv, GlobalInv, LifeInv, Types, ResolveSession
<1>2. UNCHANGED <<now, login, idp, flight, pending, failed, unmarked, ended, replayed, stranded>>
  BY DEF ResolveSession
<1>3. /\ row.exp \in Int /\ row.failing \in Int /\ ended \in Int /\ TTL \in Int /\ Skew \in Int
      /\ 0 <= Skew /\ failed \in Int
  BY <1>1, RowShape, SessionAssumption DEF Types, None
<1>4. CASE now > row.abs /\ BestEffortDelete /\ UNCHANGED req
  <2>1. pending' \subseteq {"logout", "backchannel"}
    BY <1>1, <1>2 DEF Types
  <2> QED
    BY <1>2, <1>4, <2>1, CalmDelete
<1>5. CASE /\ ~NeedsRefresh(row, now) /\ req' = [req EXCEPT ![q] = Served(now, FALSE)]
           /\ UNCHANGED <<row, gone, faults>>
  <2>1. /\ Served(now, FALSE) \in Reqs /\ Served(now, FALSE).pc = "served"
        /\ Served(now, FALSE).start = now /\ Served(now, FALSE).stale = FALSE
    BY <1>1, ServedShape
  <2>2. /\ req' \in [Requests -> Reqs] /\ req'[q] = Served(now, FALSE)
        /\ \A p \in Requests : p # q => req'[p] = req[p]
    BY <1>1, <1>5, <2>1 DEF Types
  <2>3. Types'
    BY <1>1, <1>2, <1>5, <2>2 DEF Types
  <2>4. ended # None => now < ended + TTL - Skew
    <3>1. now < row.exp - Skew
      BY <1>1, <1>3, <1>5 DEF NeedsRefresh
    <3>2. ended # None => row.exp <= ended + TTL
      BY <1>1 DEF GlobalInv, EndInv
    <3> QED
      BY <1>1, <1>3, <3>1, <3>2
  <2>5. ReqInv(q)'
    <3>1. req'[q].pc = "served" /\ req'[q].start = now /\ req'[q].stale = FALSE
      BY <2>1, <2>2
    <3>2. FreshInv(q)'
      BY <1>2, <2>4, <3>1 DEF FreshInv
    <3>3. now \in 0..now'
      BY <1>1, <1>2
    <3> QED
      BY <1>1, <1>2, <3>1, <3>2, <3>3 DEF ReqInv
  <2>6. gone' => row' = NoRow /\ login.pc = "done"
    BY <1>1, <1>5 DEF LifeInv
  <2>7. Known' => Known /\ failed' = failed
    BY <1>2 DEF Known
  <2> QED
    BY <1>2, <1>5, <2>2, <2>3, <2>5, <2>6, <2>7, RequestStep
<1>6. CASE /\ req' = [req EXCEPT ![q] = [Free EXCEPT !.pc = "refresh", !.start = now, !.ws = row]]
           /\ UNCHANGED <<row, gone, faults>>
  <2> DEFINE r == [Free EXCEPT !.pc = "refresh", !.start = now, !.ws = row]
  <2>1. r \in Reqs /\ r.pc = "refresh" /\ r.start = now /\ r.ws = row /\ r.stale = FALSE
    BY <1>1 DEF Free, Reqs
  <2> HIDE DEF r
  <2>2. /\ req' \in [Requests -> Reqs] /\ req'[q] = r
        /\ \A p \in Requests : p # q => req'[p] = req[p]
    BY <1>1, <1>6, <2>1 DEF Types, r
  <2>3. Types'
    BY <1>1, <1>2, <1>6, <2>2 DEF Types
  <2>4. PendingInv(q)'
    <3>1. row.failing <= now
      <4>1. row.failing = None \/ row.failing <= now
        BY <1>1 DEF GlobalInv, MarkInv
      <4> QED
        BY <1>1, <4>1 DEF None
    <3>2. row.exp <= row.exp
      BY <1>3
    <3>3. InFlight => row = flight.ws /\ row.failing <= flight.start
      BY <1>1 DEF FlightInv
    <3>4. Known => Anchor(row) <= failed + Skew
      <4>1. Known => row.failing = failed /\ failed # None
        BY <1>1 DEF GlobalInv, MarkInv, Known
      <4> QED
        BY <1>3, <4>1 DEF Anchor
    <3>5. (Known' <=> Known) /\ (InFlight' <=> InFlight)
      BY <1>2 DEF Known, InFlight
    <3>6. req'[q].ws = row
      BY <2>1, <2>2
    <3>7. InFlight' => req'[q].ws.exp <= flight'.ws.exp /\ req'[q].ws.failing <= flight'.start
      BY <1>2, <3>2, <3>3, <3>5, <3>6
    <3>8. Known' => Anchor(req'[q].ws) <= failed' + Skew
      BY <1>2, <3>4, <3>5, <3>6
    <3> QED
      BY <1>2, <1>6, <3>1, <3>2, <3>6, <3>7, <3>8 DEF PendingInv
  <2>5. ReqInv(q)'
    BY <1>1, <1>2, <2>1, <2>2, <2>4 DEF ReqInv
  <2>6. gone' => row' = NoRow /\ login.pc = "done"
    BY <1>1, <1>6 DEF LifeInv
  <2>7. Known' => Known /\ failed' = failed
    BY <1>2 DEF Known
  <2> QED
    BY <1>2, <1>6, <2>2, <2>3, <2>5, <2>6, <2>7, RequestStep
<1> QED
  BY <1>4, <1>5, <1>6 DEF ResolveSession

\* Return.
LEMMA StepReturn == ASSUME SessionInv, NEW q \in Requests, Return(q) PROVE SessionInv'
<1>1. Types /\ LifeInv
  BY DEF SessionInv, GlobalInv
<1>2. UNCHANGED <<now, login, row, idp, flight, pending, faults, gone, failed, unmarked, ended, replayed, stranded>>
  BY DEF Return, history
<1>3. /\ req' \in [Requests -> Reqs] /\ req'[q] = Free
      /\ \A p \in Requests : p # q => req'[p] = req[p]
  BY <1>1, Empties DEF Types, Return
<1>4. Types'
  BY <1>1, <1>2, <1>3 DEF Types
<1>5. ReqInv(q)'
  BY <1>3, Empties DEF ReqInv
<1>6. (gone' => row' = NoRow /\ login.pc = "done") /\ (Known' => Known /\ failed' = failed)
  BY <1>1, <1>2 DEF LifeInv, Known
<1> QED
  BY <1>2, <1>3, <1>4, <1>5, <1>6, RequestStep

\* WriterUnreachable: the reader judges by the row it read.
LEMMA StepUnreachable == ASSUME SessionInv, NEW q \in Requests, WriterUnreachable(q) PROVE SessionInv'
<1>1. /\ Types /\ GlobalInv /\ LifeInv /\ ReqInv(q) /\ req \in [Requests -> Reqs] /\ req[q] \in Reqs
      /\ req[q].pc \in {"refresh", "waiting"} /\ now \in 0..MaxTime
  BY DEF SessionInv, GlobalInv, Types, WriterUnreachable
<1>2. /\ Fails("unreachable") /\ Failed(req[q].start, FALSE)
      /\ req' = [req EXCEPT ![q] = Outcome(req[q], "transient", NoRow)]
      /\ UNCHANGED <<now, login, row, idp, flight, pending, gone, ended, replayed, stranded>>
  BY DEF WriterUnreachable
<1>3. req[q].start \in 0..MaxTime /\ login.pc = "done"
  <2>1. req[q].start \in 0..now /\ login.pc = "done"
    BY <1>1 DEF ReqInv
  <2> QED
    BY <1>1, <2>1, SessionAssumption
<1>4. /\ failed' \in None..MaxTime /\ unmarked' \in BOOLEAN /\ failed' # None
      /\ Known' => Known /\ failed' = failed
  BY <1>1, <1>2, <1>3, FailedUnrecorded
<1>5. req'[q] = Outcome(req[q], "transient", NoRow) /\ \A p \in Requests : p # q => req'[p] = req[p]
  BY <1>1, <1>2
<1>6. Known' /\ WithinGrace(req[q].ws, req[q].start) => req[q].start - failed' <= Grace + Skew
  BY <1>1, <1>4, OwnGrace
<1>7. req'[q] \in Reqs /\ ReqInv(q)'
  BY <1>1, <1>2, <1>3, <1>4, <1>5, <1>6, Empties, OutcomeKept
<1>8. req' \in [Requests -> Reqs]
  BY <1>1, <1>2, <1>5, <1>7
<1>9. faults' \in 0..MaxFaults
  BY <1>1, <1>2, FaultCounted
<1>10. Types'
  BY <1>1, <1>2, <1>4, <1>8, <1>9 DEF Types
<1>11. gone' => row' = NoRow /\ login.pc = "done"
  BY <1>1, <1>2 DEF LifeInv
<1> QED
  BY <1>2, <1>3, <1>4, <1>5, <1>7, <1>10, <1>11, RequestStep

\* Refresh joins a flight, or starts one that has read nothing yet.
LEMMA StepRefresh == ASSUME SessionInv, NEW q \in Requests, Refresh(q) PROVE SessionInv'
<1>1. /\ Types /\ GlobalInv /\ FlightInv /\ req \in [Requests -> Reqs] /\ req[q] \in Reqs /\ req[q].pc = "refresh"
      /\ now \in Int /\ flight \in Flights /\ \A p \in Requests : ReqInv(p)
  BY DEF SessionInv, GlobalInv, Types, Refresh
<1>2. UNCHANGED <<now, login, row, idp, pending, faults, gone, failed, unmarked, ended, replayed, stranded>>
  BY DEF Refresh, history
<1>3. \/ flight' = flight /\ flight.pc # "none"
      \/ flight.pc = "none" /\ flight' = [NoFlight EXCEPT !.pc = "get"]
  BY DEF Refresh
<1>4. flight' \in Flights /\ flight'.pc # "none" /\ (InFlight' <=> InFlight) /\ (InFlight => flight' = flight)
  <2>1. [NoFlight EXCEPT !.pc = "get"] \in Flights /\ [NoFlight EXCEPT !.pc = "get"].pc = "get"
    BY Empties DEF Flights
  <2> QED
    BY <1>1, <1>3, <2>1 DEF InFlight
<1>5. req' = [req EXCEPT ![q].pc = "waiting"]
  BY DEF Refresh
<1>6. /\ req' \in [Requests -> Reqs] /\ \A p \in Requests : p # q => req'[p] = req[p]
      /\ req'[q].pc = "waiting" /\ req'[q].ws = req[q].ws /\ req'[q].start = req[q].start /\ req'[q].stale = req[q].stale
  BY <1>1, <1>5 DEF Reqs
<1>7. Types'
  BY <1>1, <1>2, <1>4, <1>6 DEF Types
<1>8. Known' <=> Known
  BY <1>2 DEF Known
<1>9. row' # NoRow => row # NoRow /\ row.exp <= row'.exp
  BY <1>1, <1>2, RowShape DEF Types
<1>10. ASSUME NEW p \in Requests, p # q PROVE ReqInv(p)'
  <2>1. ReqInv(p) /\ req'[p] = req[p] /\ now <= now'
    BY <1>1, <1>2, <1>6, <1>10
  <2> QED
    BY <1>1, <1>2, <1>4, <1>7, <1>8, <1>9, <2>1, ReqCalm
<1>11. ReqInv(q)'
  <2>1. PendingInv(q) /\ req[q].start \in 0..now /\ login.pc = "done" /\ ~req[q].stale
    BY <1>1 DEF ReqInv, Reqs
  <2>2. PendingInv(q)'
    BY <1>2, <1>4, <1>6, <1>8, <2>1 DEF PendingInv
  <2> QED
    BY <1>2, <1>4, <1>6, <2>1, <2>2 DEF ReqInv
<1>12. login.pc = "done"
  BY <1>1 DEF ReqInv
<1>13. LifeInv' /\ EndInv'
  <2>1. flight.pc # "apply" => flight'.pc # "apply"
    BY <1>4 , <1>3, Empties DEF NoFlight
  <2>2. flight'.pc = "apply" => flight' = flight
    BY <1>3, <2>1
  <2> QED
    BY <1>1, <1>2, <1>12, <2>1, <2>2 DEF GlobalInv, LifeInv, EndInv
<1>14. TokenInv'
  <2>1. flight' = flight \/ (flight.pc = "none" /\ flight'.pc = "get" /\ flight'.token = None)
    BY <1>3 DEF NoFlight
  <2>2. idp.token \in Nat
    BY <1>1 DEF Types
  <2>3. flight'.token <= idp.token
    BY <1>1, <2>1, <2>2 DEF GlobalInv, TokenInv, None
  <2> QED
    BY <1>1, <1>2, <2>1, <2>3 DEF GlobalInv, TokenInv
<1>15. MarkInv' /\ FlightInv'
  BY <1>1, <1>2, <1>4, <1>8 DEF GlobalInv, MarkInv, FlightInv
<1> QED
  BY <1>7, <1>10, <1>11, <1>13, <1>14, <1>15 DEF SessionInv, GlobalInv

-----------------------------------------------------------------------------
(* The flight. *)

\* The result goes to everybody who waits.
LEMMA FinishShape ==
  ASSUME Types, NEW res, NEW ws, Finish(res, ws)
  PROVE  /\ flight' = NoFlight /\ flight' \in Flights /\ ~InFlight' /\ req' \in [Requests -> Reqs]
         /\ \A q \in Requests :
              req'[q] = IF req[q].pc = "waiting" THEN Outcome(req[q], res, ws) ELSE req[q]
<1>1. flight' = NoFlight /\ req' = [q \in Requests |->
                 IF req[q].pc = "waiting" THEN Outcome(req[q], res, ws) ELSE req[q]]
  BY DEF Finish
<1>2. ASSUME NEW r \in Reqs PROVE Outcome(r, res, ws) \in Reqs
  <2>1. Served(r.start, FALSE) \in Reqs /\ Served(r.start, TRUE) \in Reqs /\ Free \in Reqs
    BY <1>2, ReqShape, ServedShape, Empties
  <2> QED
    BY <2>1 DEF Outcome
<1>3. \A q \in Requests : req[q] \in Reqs
  BY DEF Types
<1> QED
  BY <1>1, <1>2, <1>3, Empties DEF InFlight

\* Every request is as it should be after a flight.
LEMMA FinishKept ==
  ASSUME SessionInv, Types', NEW res, NEW ws \in Row, Finish(res, ws),
         now' = now, login' = login, ended' = ended,
         row' # NoRow => row # NoRow /\ row.exp <= row'.exp,
         Known' => (Known /\ failed' = failed) \/ (failed = None /\ InFlight /\ failed' = flight.start),
         \A q \in Requests : req[q].pc = "waiting" =>
           /\ res = "ok" => (ended # None /\ req[q].start > ended => req[q].start < ended + TTL - Skew)
           /\ res = "transient" /\ WithinGrace(IF ws = NoRow THEN req[q].ws ELSE ws, req[q].start) =>
                /\ Known' => req[q].start - failed' <= Grace + Skew
                /\ failed' # None
  PROVE  \A q \in Requests : ReqInv(q)'
<1> SUFFICES ASSUME NEW q \in Requests PROVE ReqInv(q)'
  OBVIOUS
<1>1. Types /\ FlightInv /\ ReqInv(q) /\ now \in Int
  BY DEF SessionInv, GlobalInv, Types
<1>2. ~InFlight' /\ req'[q] = IF req[q].pc = "waiting" THEN Outcome(req[q], res, ws) ELSE req[q]
  BY <1>1, FinishShape
<1>3. CASE req[q].pc = "waiting"
  <2>1. req'[q] = Outcome(req[q], res, ws)
    BY <1>2, <1>3
  <2> QED
    BY <1>1, <1>3, <2>1, OutcomeKept
<1>4. CASE req[q].pc # "waiting"
  <2>1. req'[q] = req[q] /\ now <= now'
    BY <1>1, <1>2, <1>4
  <2> QED
    BY <1>1, <1>2, <1>4, <2>1, ReqCalm
<1> QED
  BY <1>3, <1>4

\* A flight that ends without new tokens and without a mark.
LEMMA FlightEnds ==
  ASSUME SessionInv, Types', NEW res, NEW ws \in Row, Finish(res, ws),
         UNCHANGED <<now, login, ended>>, login.pc = "done",
         row' = row \/ row' = NoRow, gone' => row' = NoRow,
         idp'.token = idp.token, idp'.alive => idp.alive,
         flight.pc = "apply" => stranded' \/ row' = NoRow,
         stranded => stranded', replayed' => replayed \/ stranded',
         failed' = failed \/ failed' # None, failed # None => failed' # None,
         Known' => Known /\ failed' = failed,
         \A q \in Requests : req[q].pc = "waiting" =>
           /\ res = "ok" => (ended # None /\ req[q].start > ended => req[q].start < ended + TTL - Skew)
           /\ res = "transient" => ws = NoRow /\ failed' # None
  PROVE  SessionInv'
<1>1. Types /\ GlobalInv /\ \A q \in Requests : ReqInv(q)
  BY DEF SessionInv
<1>2. flight' = NoFlight
  BY <1>1, FinishShape
<1>3. GlobalInv'
  BY <1>1, <1>2, GlobalCalm
<1>4. row' # NoRow => row # NoRow /\ row.exp <= row'.exp
  BY <1>1, RowShape DEF Types
<1>5. ASSUME NEW q \in Requests, req[q].pc = "waiting", res = "transient",
             WithinGrace(IF ws = NoRow THEN req[q].ws ELSE ws, req[q].start)
      PROVE  failed' # None /\ (Known' => req[q].start - failed' <= Grace + Skew)
  <2>1. WithinGrace(req[q].ws, req[q].start) /\ failed' # None
    BY <1>5
  <2> QED
    BY <1>1, <1>5, <2>1, OwnGrace
<1>6. \A q \in Requests : ReqInv(q)'
  BY <1>4, <1>5, FinishKept
<1> QED
  BY <1>3, <1>6 DEF SessionInv

\* A flight is under way only in a session.
LEMMA FlightAfterLogin ==
  ASSUME SessionInv, flight.pc # "none"
  PROVE  /\ Types /\ GlobalInv /\ LifeInv /\ FlightInv /\ login.pc = "done"
         /\ now \in 0..MaxTime /\ now \in Int /\ row \in Row /\ flight \in Flights /\ flight.ws \in Row
         /\ row.exp \in Int /\ row.failing \in Int /\ flight.start \in Int /\ flight.exp \in Int /\ flight.token \in Int
         /\ flight.ws.exp \in Int /\ flight.ws.failing \in Int /\ idp.token \in Nat
         /\ failed \in Int /\ ended \in Int /\ TTL \in Int /\ 0 <= TTL /\ Skew \in Int /\ 0 <= Skew /\ Skew <= TTL
         /\ Grace \in Int /\ 0 <= Grace
         /\ \A q \in Requests : ReqInv(q) /\ req[q].start \in Int /\ (req[q].pc = "waiting" => req[q].start <= now)
<1>1. Types /\ GlobalInv /\ LifeInv /\ FlightInv /\ login.pc = "done"
  BY DEF SessionInv, GlobalInv, LifeInv
<1>2. /\ now \in 0..MaxTime /\ now \in Int /\ row \in Row /\ flight \in Flights /\ idp.token \in Nat
      /\ failed \in Int /\ ended \in Int
  BY <1>1 DEF Types, None
<1>3. flight.ws \in Row /\ flight.start \in Int /\ flight.exp \in Int /\ flight.token \in Int
  BY <1>2, FlightShape
<1>4. row.exp \in Int /\ row.failing \in Int /\ flight.ws.exp \in Int /\ flight.ws.failing \in Int
  BY <1>2, <1>3, RowShape
<1>5. ASSUME NEW q \in Requests
      PROVE  ReqInv(q) /\ req[q].start \in Int /\ (req[q].pc = "waiting" => req[q].start <= now)
  <2>1. ReqInv(q) /\ req[q].start \in Int
    BY <1>1, ReqShape DEF SessionInv, Types
  <2> QED
    BY <1>2, <2>1 DEF ReqInv
<1> QED
  BY <1>1, <1>2, <1>3, <1>4, <1>5, SessionAssumption

\* FlightGet: the row is gone, fresh, without a refresh token, or held by the flight.
LEMMA StepFlightGet == ASSUME SessionInv, FlightGet PROVE SessionInv'
<1>1. flight.pc = "get" /\ UNCHANGED <<now, login, idp, pending, failed, unmarked, ended, replayed, stranded>>
  BY DEF FlightGet
<1>2. /\ Types /\ GlobalInv /\ LifeInv /\ FlightInv /\ login.pc = "done"
      /\ now \in 0..MaxTime /\ now \in Int /\ row \in Row /\ flight \in Flights /\ row.exp \in Int /\ row.failing \in Int
      /\ ended \in Int /\ TTL \in Int /\ Skew \in Int /\ 0 <= Skew /\ flight.ws \in Row
      /\ \A q \in Requests : ReqInv(q) /\ req[q].start \in Int /\ (req[q].pc = "waiting" => req[q].start <= now)
  BY <1>1, FlightAfterLogin
<1>3. (Known' => Known /\ failed' = failed) /\ (failed' = failed) /\ flight.pc # "apply"
  BY <1>1 DEF Known
<1>4. CASE row = NoRow /\ Finish("notfound", NoRow) /\ UNCHANGED <<row, gone, faults>>
  <2>1. flight' \in Flights /\ req' \in [Requests -> Reqs]
    BY <1>2, <1>4, FinishShape
  <2>2. Types' /\ (gone' => row' = NoRow)
    BY <1>1, <1>2, <1>4, <2>1 DEF Types, LifeInv
  <2> QED
    BY <1>1, <1>2, <1>3, <1>4, <2>2, Empties, FlightEnds
<1>5. CASE row # NoRow /\ ~NeedsRefresh(row, now) /\ Finish("ok", row) /\ UNCHANGED <<row, gone, faults>>
  <2>1. flight' \in Flights /\ req' \in [Requests -> Reqs]
    BY <1>2, <1>5, FinishShape
  <2>2. Types' /\ (gone' => row' = NoRow)
    BY <1>1, <1>2, <1>5, <2>1 DEF Types, LifeInv
  <2>3. ASSUME NEW q \in Requests, req[q].pc = "waiting", ended # None
        PROVE  req[q].start < ended + TTL - Skew
    <3>1. now < row.exp - Skew /\ row.exp <= ended + TTL
      BY <1>2, <1>5, <2>3 DEF NeedsRefresh, GlobalInv, EndInv
    <3> QED
      BY <1>2, <2>3, <3>1
  <2> QED
    BY <1>1, <1>2, <1>3, <1>5, <2>2, <2>3, FlightEnds
<1>6. CASE BestEffortDelete /\ Finish("revoked", NoRow)
  <2>1. flight' \in Flights /\ req' \in [Requests -> Reqs]
    BY <1>2, <1>6, FinishShape
  <2>2. /\ row' = row \/ row' = NoRow
        /\ row' \in Row /\ gone' \in BOOLEAN /\ faults' \in 0..MaxFaults /\ (gone' => row' = NoRow)
    BY <1>2, <1>6, BestEffort
  <2>3. Types'
    BY <1>1, <1>2, <2>1, <2>2 DEF Types
  <2> QED
    BY <1>1, <1>2, <1>3, <1>6, <2>2, <2>3, Empties, FlightEnds
<1>7. CASE /\ row # NoRow /\ NeedsRefresh(row, now) /\ row.token > 0
           /\ flight' = [flight EXCEPT !.pc = "send", !.ws = row, !.start = now]
           /\ UNCHANGED <<row, gone, req, faults>>
  <2>1. /\ flight' \in Flights /\ flight'.pc = "send" /\ flight'.ws = row /\ flight'.start = now
        /\ flight'.token = flight.token
    <3>1. now \in Time
      BY <1>2, Times
    <3> QED
      BY <1>2, <1>7, <3>1 DEF Flights
  <2>2. Types'
    BY <1>1, <1>2, <1>7, <2>1 DEF Types
  <2>3. LifeInv' /\ EndInv' /\ MarkInv'
    BY <1>1, <1>2, <1>7, <2>1, <1>3 DEF GlobalInv, LifeInv, EndInv, MarkInv
  <2>4. TokenInv'
    BY <1>1, <1>2, <1>7, <2>1 DEF GlobalInv, TokenInv
  <2>5. FlightInv'
    <3>1. row.exp - Skew <= now
      BY <1>2, <1>7 DEF NeedsRefresh
    <3>2. row.failing <= now
      <4>1. row.failing = None \/ row.failing <= now
        BY <1>2 DEF GlobalInv, MarkInv
      <4> QED
        BY <1>2, <4>1 DEF None
    <3>3. (row.failing # None => failed # None) /\ (Known => row.failing = failed)
      BY <1>2, <1>7 DEF GlobalInv, MarkInv
    <3>4. now \in 0..now' /\ (Known' <=> Known)
      BY <1>1, <1>2 DEF Known
    <3> QED
      BY <1>1, <1>7, <2>1, <3>1, <3>2, <3>3, <3>4 DEF FlightInv
  <2>6. \A q \in Requests : ReqInv(q)'
    <3> SUFFICES ASSUME NEW q \in Requests PROVE ReqInv(q)'
      OBVIOUS
    <3>1. ReqInv(q) /\ req'[q] = req[q] /\ now <= now' /\ row.exp <= row'.exp /\ ~InFlight
      BY <1>1, <1>2, <1>7 DEF InFlight
    <3> QED
      BY <1>1, <1>2, <1>3, <1>7, <2>1, <2>2, <3>1, ReqCalm
  <2> QED
    BY <2>2, <2>3, <2>4, <2>5, <2>6 DEF SessionInv, GlobalInv
<1> QED
  BY <1>4, <1>5, <1>6, <1>7 DEF FlightGet

\* FlightGetFails and ApplyFails: a failure nobody records.
LEMMA StepUnrecorded == ASSUME SessionInv, FlightGetFails \/ ApplyFails PROVE SessionInv'
<1>1. flight.pc # "none" /\ flight.pc \in {"get", "apply"} /\ Fails("db") /\ Finish("transient", NoRow)
  BY DEF FlightGetFails, ApplyFails
<1>2. /\ Types /\ GlobalInv /\ LifeInv /\ FlightInv /\ login.pc = "done" /\ now \in 0..MaxTime
  BY <1>1, FlightAfterLogin
<1>3. UNCHANGED <<now, login, row, idp, pending, gone, ended, replayed>>
  BY DEF FlightGetFails, ApplyFails
<1>4. PICK t \in 0..MaxTime : Failed(t, FALSE)
  <2>1. CASE FlightGetFails
    BY <1>2, <2>1 DEF FlightGetFails
  <2>2. CASE ApplyFails
    <3>1. flight.start \in 0..MaxTime
      <4>1. flight.start \in 0..now
        BY <1>2, <2>2 DEF ApplyFails, FlightInv, InFlight
      <4> QED
        BY <1>2, <4>1, SessionAssumption
    <3> QED
      BY <2>2, <3>1 DEF ApplyFails
  <2> QED
    BY <2>1, <2>2
<1>5. /\ failed' \in None..MaxTime /\ unmarked' \in BOOLEAN /\ failed' # None
      /\ Known' => Known /\ failed' = failed
  BY <1>2, <1>4, FailedUnrecorded
<1>6. flight' \in Flights /\ req' \in [Requests -> Reqs] /\ faults' \in 0..MaxFaults
  BY <1>1, <1>2, FinishShape, FaultCounted
<1>7. stranded' \in BOOLEAN /\ (stranded => stranded') /\ (flight.pc = "apply" => stranded')
  BY <1>1, <1>2 DEF FlightGetFails, ApplyFails, Types
<1>8. Types' /\ (gone' => row' = NoRow)
  BY <1>2, <1>3, <1>5, <1>6, <1>7 DEF Types, LifeInv
<1> QED
  BY <1>1, <1>2, <1>3, <1>5, <1>7, <1>8, Empties, FlightEnds

\* IdpRefuses and RefreshDisallowed: the session ends.
LEMMA StepRevoked == ASSUME SessionInv, IdpRefuses \/ RefreshDisallowed PROVE SessionInv'
<1>1. flight.pc # "none" /\ BestEffortDelete /\ Finish("revoked", NoRow)
  BY DEF IdpRefuses, RefreshDisallowed
<1>2. Types /\ GlobalInv /\ LifeInv /\ login.pc = "done"
  BY <1>1, FlightAfterLogin
<1>3. UNCHANGED <<now, login, pending, failed, unmarked, ended>>
  BY DEF IdpRefuses, RefreshDisallowed
<1>4. flight' \in Flights /\ req' \in [Requests -> Reqs]
  BY <1>1, <1>2, FinishShape
<1>5. /\ row' = row \/ row' = NoRow
      /\ row' \in Row /\ gone' \in BOOLEAN /\ faults' \in 0..MaxFaults /\ (gone' => row' = NoRow)
  BY <1>1, <1>2, BestEffort
<1>6. /\ idp' \in [alive : BOOLEAN, token : Nat] /\ idp'.token = idp.token /\ (idp'.alive => idp.alive)
  <2>1. idp' = idp \/ idp' = [idp EXCEPT !.alive = FALSE]
    BY DEF IdpRefuses, RefreshDisallowed
  <2> QED
    BY <1>2, <2>1 DEF Types
<1>7. /\ replayed' \in BOOLEAN /\ stranded' \in BOOLEAN
      /\ stranded => stranded'
      /\ replayed' => replayed \/ stranded'
      /\ flight.pc = "apply" => stranded' \/ row' = NoRow
  <2>1. CASE IdpRefuses
    <3>1. flight.pc = "send" /\ stranded' = stranded /\ replayed' = (replayed \/ flight.ws.token # idp.token)
      BY <2>1 DEF IdpRefuses
    <3>2. flight.ws.token # idp.token => stranded
      BY <1>2, <3>1 DEF GlobalInv, TokenInv, Types
    <3> QED
      BY <1>2, <3>1, <3>2 DEF Types
  <2>2. CASE RefreshDisallowed
    BY <1>2, <2>2 DEF RefreshDisallowed, Types
  <2> QED
    BY <2>1, <2>2
<1>8. Types'
  BY <1>2, <1>3, <1>4, <1>5, <1>6, <1>7 DEF Types
<1>9. Known' => Known /\ failed' = failed
  BY <1>3 DEF Known
<1> QED
  BY <1>1, <1>2, <1>3, <1>5, <1>6, <1>7, <1>8, <1>9, Empties, FlightEnds

\* IdpRotates: the newest token is with the flight now.
LEMMA StepRotates == ASSUME SessionInv, IdpRotates PROVE SessionInv'
<1>1. /\ flight.pc = "send" /\ idp.alive /\ idp' = [idp EXCEPT !.token = @ + 1]
      /\ flight' = [flight EXCEPT !.pc = "apply", !.token = idp.token + 1, !.exp = now + TTL]
  BY DEF IdpRotates, Exchanged
<1>2. UNCHANGED <<now, login, row, req, pending, faults, gone, failed, unmarked, ended, replayed, stranded>>
  BY DEF IdpRotates, history
<1>3. /\ Types /\ GlobalInv /\ LifeInv /\ FlightInv /\ login.pc = "done"
      /\ now \in 0..MaxTime /\ now \in Int /\ row \in Row /\ flight \in Flights
      /\ row.exp \in Int /\ row.token \in Int /\ idp.token \in Nat /\ ended \in Int /\ TTL \in Int
      /\ login.token <= idp.token /\ login.token \in Int
      /\ \A q \in Requests : ReqInv(q)
  <2>1. login.token \in Int
    BY DEF SessionInv, Types, Logins, Tokens, None
  <2> QED
    BY <1>1, <2>1, FlightAfterLogin, RowShape DEF GlobalInv, TokenInv
<1>4. idp' \in [alive : BOOLEAN, token : Nat] /\ idp'.token = idp.token + 1 /\ idp.token + 1 \in Nat
  BY <1>1, <1>3 DEF Types
<1>5. now + TTL \in Time /\ idp.token + 1 \in Tokens
  BY <1>3, <1>4, Times DEF Tokens
<1>6. /\ flight' \in Flights /\ flight'.pc = "apply" /\ flight'.token = idp.token + 1 /\ flight'.exp = now + TTL
      /\ flight'.ws = flight.ws /\ flight'.start = flight.start
  BY <1>1, <1>3, <1>5 DEF Flights
<1>7. Types'
  BY <1>2, <1>3, <1>4, <1>6 DEF Types
<1>8. ended = None
  BY <1>1, <1>3 DEF GlobalInv, EndInv
<1>9. InFlight /\ InFlight' /\ (Known' <=> Known)
  BY <1>1, <1>2, <1>6 DEF InFlight, Known
<1>10. LifeInv' /\ EndInv'
  BY <1>2, <1>3, <1>6, <1>8 DEF GlobalInv, LifeInv, EndInv
<1>11. TokenInv'
  <2>1. row.token <= idp.token + 1 /\ login.token <= idp.token + 1 /\ idp.token + 1 <= idp.token + 1
    BY <1>3 DEF GlobalInv, TokenInv
  <2>2. replayed => stranded
    BY <1>3 DEF GlobalInv, TokenInv
  <2> QED
    BY <1>2, <1>3, <1>4, <1>6, <2>1, <2>2 DEF TokenInv
<1>12. MarkInv' /\ FlightInv'
  BY <1>2, <1>3, <1>6, <1>9 DEF GlobalInv, MarkInv, FlightInv
<1>13. \A q \in Requests : ReqInv(q)'
  <2> SUFFICES ASSUME NEW q \in Requests PROVE ReqInv(q)'
    OBVIOUS
  <2>1. ReqInv(q) /\ req'[q] = req[q] /\ now <= now' /\ row.exp <= row'.exp
    BY <1>2, <1>3
  <2> QED
    BY <1>2, <1>3, <1>6, <1>7, <1>9, <2>1, ReqCalm
<1> QED
  BY <1>7, <1>10, <1>11, <1>12, <1>13 DEF SessionInv, GlobalInv

\* RefreshTransient: what becomes known, and what the requests are judged by, is the
\* mark in the row the flight read, or its own start.
LEMMA StepTransient == ASSUME SessionInv, RefreshTransient PROVE SessionInv'
<1> DEFINE ws == IF flight.ws.failing # None THEN flight.ws ELSE [flight.ws EXCEPT !.failing = flight.start]
<1>1. /\ flight.pc = "send" /\ flight.pc # "none" /\ InFlight /\ Finish("transient", ws)
      /\ UNCHANGED <<now, login, pending, gone, ended, replayed>>
  BY DEF RefreshTransient, InFlight
<1>2. /\ Types /\ GlobalInv /\ LifeInv /\ FlightInv /\ login.pc = "done"
      /\ now \in 0..MaxTime /\ now \in Int /\ row \in Row /\ flight \in Flights /\ flight.ws \in Row
      /\ row.exp \in Int /\ row.failing \in Int /\ flight.start \in Int /\ row.token \in Int
      /\ flight.ws.exp \in Int /\ flight.ws.failing \in Int /\ idp.token \in Nat
      /\ failed \in Int /\ ended \in Int /\ TTL \in Int /\ Skew \in Int /\ 0 <= Skew /\ Grace \in Int
      /\ \A q \in Requests : ReqInv(q) /\ req[q].start \in Int
  BY <1>1, FlightAfterLogin, RowShape
<1>3. /\ row = NoRow \/ row = flight.ws
      /\ flight.start \in 0..now /\ flight.ws.failing <= flight.start
      /\ flight.ws.failing # None => failed # None
      /\ Known => flight.ws.failing = failed
  BY <1>1, <1>2 DEF FlightInv
<1>4. /\ flight.start \in 0..MaxTime /\ flight.start \in Time /\ flight.start \in None..MaxTime
      /\ flight.start # None /\ flight.start <= now
  <2>1. flight.start \in 0..MaxTime /\ flight.start <= now
    BY <1>2, <1>3, SessionAssumption
  <2> QED
    BY <2>1, Times
<1>5. /\ ws \in Row /\ ws.failing # None /\ ws # NoRow
      /\ ws.failing = IF flight.ws.failing # None THEN flight.ws.failing ELSE flight.start
      /\ ws.exp = flight.ws.exp /\ ws.token = flight.ws.token
  <2>1. CASE flight.ws.failing # None
    BY <1>2, <2>1, Empties
  <2>2. CASE flight.ws.failing = None
    <3>1. ws \in Row /\ ws.failing = flight.start /\ ws.exp = flight.ws.exp /\ ws.token = flight.ws.token
      BY <1>2, <1>4, <2>2 DEF Row
    <3> QED
      BY <1>4, <2>2, <3>1, Empties
  <2> QED
    BY <2>1, <2>2
<1> HIDE DEF ws
<1>6. \/ row' = row /\ Failed(flight.start, FALSE)
      \/ MarkRefreshFailing /\ Failed(flight.start, TRUE)
  BY DEF RefreshTransient
<1>7. /\ failed' \in None..MaxTime /\ unmarked' \in BOOLEAN /\ failed' # None
      /\ Known' => (Known /\ failed' = failed) \/ (failed = None /\ failed' = flight.start)
  <2>1. CASE Failed(flight.start, FALSE)
    BY <1>2, <1>4, <2>1, FailedUnrecorded
  <2>2. CASE Failed(flight.start, TRUE)
    BY <1>2, <1>4, <2>2 DEF Failed, Known, Types
  <2> QED
    BY <1>6, <2>1, <2>2
<1>8. Known' => failed' = ws.failing
  BY <1>3, <1>5, <1>7 DEF Known
<1>9. /\ row' \in Row /\ row'.exp = row.exp /\ row'.token = row.token
      /\ row = NoRow => row' = NoRow
      /\ row' # NoRow => row # NoRow
      /\ row' = row \/ (row # NoRow /\ row'.failing = ws.failing)
  <2>1. CASE row' = row
    BY <1>2, <2>1
  <2>2. CASE row # NoRow /\ row.failing = None /\ row' = [row EXCEPT !.failing = flight.start]
    <3>1. row' \in Row /\ row'.exp = row.exp /\ row'.token = row.token /\ row'.failing = flight.start
      BY <1>2, <1>4, <2>2 DEF Row
    <3>2. ws.failing = flight.start
      BY <1>3, <1>5, <2>2
    <3> QED
      BY <2>2, <3>1, <3>2
  <2> QED
    BY <1>6, <2>1, <2>2 DEF MarkRefreshFailing
<1>10. /\ idp' \in [alive : BOOLEAN, token : Nat] /\ idp'.alive = idp.alive
       /\ stranded' \in BOOLEAN /\ faults' \in 0..MaxFaults
       /\ \/ idp' = idp /\ stranded' = stranded
          \/ idp'.token = idp.token + 1 /\ stranded' = TRUE
  <2>1. CASE UNCHANGED <<idp, stranded, faults>>
    BY <1>2, <2>1 DEF Types
  <2>2. CASE Fails("lost") /\ Exchanged /\ stranded' = TRUE
    <3>1. idp' = [idp EXCEPT !.token = @ + 1] /\ faults' \in 0..MaxFaults
      BY <1>2, <2>2, FaultCounted DEF Exchanged
    <3> QED
      BY <1>2, <2>2, <3>1 DEF Types
  <2> QED
    BY <2>1, <2>2 DEF RefreshTransient
<1>11. flight' = NoFlight /\ flight' \in Flights /\ req' \in [Requests -> Reqs] /\ ~InFlight'
  BY <1>1, <1>2, FinishShape
<1>12. Types'
  BY <1>1, <1>2, <1>7, <1>9, <1>10, <1>11 DEF Types
<1>13. LifeInv'
  BY <1>1, <1>2, <1>9, <1>11, Empties DEF LifeInv
<1>14. EndInv'
  BY <1>1, <1>2, <1>9, <1>10, <1>11, Empties DEF GlobalInv, EndInv
<1>15. TokenInv'
  <2>1. login.token \in Int
    BY <1>2 DEF Types, Logins, Tokens, None
  <2>2. row'.token <= idp'.token /\ flight'.token <= idp'.token /\ login'.token <= idp'.token
    BY <1>1, <1>2, <1>9, <1>10, <1>11, <2>1, Empties DEF GlobalInv, TokenInv, None
  <2>3. ~stranded' /\ row' # NoRow => row'.token = idp'.token
    BY <1>1, <1>2, <1>9, <1>10 DEF GlobalInv, TokenInv
  <2>4. replayed' => stranded'
    <3>1. (replayed => stranded) /\ replayed' = replayed
      BY <1>1, <1>2 DEF GlobalInv, TokenInv
    <3>2. stranded => stranded'
      BY <1>10
    <3> QED
      BY <3>1, <3>2
  <2> QED
    BY <1>1, <1>2, <1>11, <2>2, <2>3, <2>4, Empties DEF TokenInv
<1>16. MarkInv'
  <2>1. ws.failing <= now
    BY <1>2, <1>3, <1>4, <1>5
  <2>2. CASE row' = row
    <3>1. row.failing # None => row.failing <= now
      BY <1>2 DEF GlobalInv, MarkInv
    <3>2. row # NoRow /\ Known' => row.failing = failed'
      <4>1. row' = row /\ row # NoRow /\ Known' => (Known /\ failed' = failed) \/ row.failing = ws.failing
        <5>1. CASE row' = row /\ Failed(flight.start, FALSE)
          BY <1>2, <1>4, <5>1, FailedUnrecorded
        <5>2. CASE MarkRefreshFailing
          <6>1. ASSUME row' = row, row # NoRow PROVE row.failing = ws.failing
            <7>1. CASE row.failing # None
              BY <1>3, <1>5, <6>1, <7>1
            <7>2. CASE row.failing = None
              <8>1. row' = [row EXCEPT !.failing = flight.start]
                BY <5>2, <6>1, <7>2 DEF MarkRefreshFailing
              <8>2. row'.failing = flight.start
                BY <1>2, <8>1 DEF Row
              <8> QED
                BY <1>4, <6>1, <7>2, <8>2
            <7> QED
              BY <7>1, <7>2
          <6> QED
            BY <6>1
        <5> QED
          BY <1>6, <5>1, <5>2
      <4> QED
        BY <1>2, <1>8, <2>2, <4>1 DEF GlobalInv, MarkInv
    <3> QED
      BY <1>1, <1>7, <2>2, <3>1, <3>2 DEF MarkInv
  <2>3. CASE row # NoRow /\ row'.failing = ws.failing
    BY <1>1, <1>7, <1>8, <2>1, <2>3 DEF MarkInv
  <2> QED
    BY <1>9, <2>2, <2>3
<1>17. FlightInv'
  BY <1>11 DEF FlightInv
<1>18. \A q \in Requests : ReqInv(q)'
  <2>1. ASSUME NEW q \in Requests, WithinGrace(IF ws = NoRow THEN req[q].ws ELSE ws, req[q].start), Known'
        PROVE  req[q].start - failed' <= Grace + Skew
    <3>1. req[q].start - ws.failing <= Grace
      BY <1>5, <2>1 DEF WithinGrace
    <3>2. ws.failing \in Int
      BY <1>5, RowShape
    <3> QED
      BY <1>2, <1>8, <2>1, <3>1, <3>2
  <2>2. row' # NoRow => row # NoRow /\ row.exp <= row'.exp
    BY <1>2, <1>9
  <2> QED
    BY <1>1, <1>5, <1>7, <1>12, <2>1, <2>2, FinishKept
<1> QED
  BY <1>12, <1>13, <1>14, <1>15, <1>16, <1>17, <1>18 DEF SessionInv, GlobalInv

\* ApplyRefreshedTokens: into the row that is still there, or nowhere.
LEMMA StepApply == ASSUME SessionInv, ApplyRefreshedTokens PROVE SessionInv'
<1>1. /\ flight.pc = "apply" /\ flight.pc # "none" /\ InFlight
      /\ UNCHANGED <<now, login, idp, pending, faults, gone, ended, replayed, stranded>>
  BY DEF ApplyRefreshedTokens, InFlight
<1>2. /\ Types /\ GlobalInv /\ LifeInv /\ FlightInv /\ login.pc = "done"
      /\ now \in 0..MaxTime /\ now \in Int /\ row \in Row /\ flight \in Flights /\ flight.ws \in Row
      /\ row.exp \in Int /\ flight.start \in Int /\ flight.exp \in Int
      /\ flight.ws.exp \in Int /\ idp.token \in Nat
      /\ ended \in Int /\ TTL \in Int /\ Skew \in Int /\ Skew <= TTL
      /\ \A q \in Requests : ReqInv(q) /\ req[q].start \in Int /\ (req[q].pc = "waiting" => req[q].start <= now)
  BY <1>1, FlightAfterLogin
<1>3. CASE row = NoRow /\ Finish("revoked", NoRow) /\ UNCHANGED <<row, failed, unmarked>>
  <2>1. flight' \in Flights /\ req' \in [Requests -> Reqs]
    BY <1>2, <1>3, FinishShape
  <2>2. Types' /\ (Known' => Known)
    BY <1>1, <1>2, <1>3, <2>1 DEF Types, Known
  <2> QED
    BY <1>1, <1>2, <1>3, <2>2, Empties, FlightEnds
<1>4. CASE /\ row # NoRow
           /\ row' = [row EXCEPT !.exp = flight.exp, !.token = flight.token, !.failing = None]
           /\ Finish("ok", row') /\ failed' = None /\ unmarked' = FALSE
  <2>1. flight.exp \in Time /\ flight.token \in Tokens /\ None \in Time
    BY <1>2, FlightShape, Times
  <2>2. row' \in Row /\ row'.exp = flight.exp /\ row'.token = flight.token /\ row'.failing = None
    BY <1>2, <1>4, <2>1 DEF Row, Tokens
  <2>3. flight' = NoFlight /\ flight' \in Flights /\ req' \in [Requests -> Reqs] /\ ~InFlight'
    BY <1>2, <1>4, FinishShape
  <2>4. failed' \in None..MaxTime /\ unmarked' \in BOOLEAN /\ ~Known'
    <3>1. None \in None..MaxTime
      BY SessionAssumption DEF None
    <3>2. ~Known'
      BY <1>4 DEF Known
    <3> QED
      BY <1>4, <3>1, <3>2
  <2>5. Types'
    BY <1>1, <1>2, <2>2, <2>3, <2>4 DEF Types
  <2>6. LifeInv'
    BY <1>1, <1>2, <1>4, <2>3, Empties DEF LifeInv
  <2>7. TokenInv'
    BY <1>1, <1>2, <1>4, <2>2, <2>3, Empties DEF GlobalInv, TokenInv, None
  <2>8. EndInv'
    <3>1. flight.exp = now + TTL /\ (ended # None => flight.exp <= ended + TTL)
      BY <1>1, <1>2 DEF GlobalInv, EndInv
    <3> QED
      BY <1>1, <1>2, <2>2, <2>3, <3>1, Empties DEF GlobalInv, EndInv
  <2>9. MarkInv' /\ FlightInv'
    BY <2>2, <2>3, <2>4 DEF MarkInv, FlightInv
  <2>10. row.exp <= row'.exp
    <3>1. row = flight.ws /\ flight.ws.exp - Skew <= flight.start /\ flight.start <= now
      BY <1>1, <1>2, <1>4 DEF FlightInv
    <3>2. flight.exp = now + TTL
      BY <1>1, <1>2 DEF GlobalInv, EndInv
    <3> QED
      BY <1>2, <2>2, <3>1, <3>2
  <2>11. ASSUME NEW q \in Requests, req[q].pc = "waiting", ended # None, req[q].start > ended PROVE FALSE
    <3>1. flight.exp = now + TTL /\ flight.exp <= ended + TTL /\ req[q].start <= now
      BY <1>1, <1>2, <2>11 DEF GlobalInv, EndInv
    <3> QED
      BY <1>2, <2>11, <3>1
  <2>12. \A q \in Requests : ReqInv(q)'
    BY <1>1, <1>4, <2>2, <2>4, <2>5, <2>10, <2>11, FinishKept
  <2> QED
    BY <2>5, <2>6, <2>7, <2>8, <2>9, <2>12 DEF SessionInv, GlobalInv
<1> QED
  BY <1>3, <1>4 DEF ApplyRefreshedTokens

\* Crash: whoever waits at a reader gets an error.
LEMMA StepCrash == ASSUME SessionInv, Crash PROVE SessionInv'
<1>1. /\ Types /\ GlobalInv /\ LifeInv /\ FlightInv /\ now \in 0..MaxTime /\ now \in Int
      /\ \A q \in Requests : ReqInv(q) /\ req[q] \in Reqs
  BY DEF SessionInv, GlobalInv, Types
<1>2. Fails("crash") /\ flight' = NoFlight /\ UNCHANGED <<now, row, idp, gone, ended, replayed>>
  BY DEF Crash
<1>3. \A q \in Requests : req'[q] = IF q \notin Readers THEN Free
                                    ELSE IF req[q].pc = "waiting" THEN Outcome(req[q], "transient", NoRow) ELSE req[q]
  BY DEF Crash
<1>4. req' \in [Requests -> Reqs]
  <2>1. ASSUME NEW r \in Reqs PROVE Outcome(r, "transient", NoRow) \in Reqs
    <3>1. Served(r.start, TRUE) \in Reqs /\ Free \in Reqs
      BY <2>1, ReqShape, ServedShape, Empties
    <3> QED
      BY <3>1 DEF Outcome
  <2> QED
    BY <1>1, <2>1, Empties DEF Crash
<1>5. /\ failed' \in None..MaxTime /\ unmarked' \in BOOLEAN
      /\ failed # None => failed' # None
      /\ Known' => Known /\ failed' = failed
      /\ \A q \in Readers : req[q].pc = "waiting" => failed' # None
      /\ failed' = failed \/ (login.pc = "done" /\ failed' # None)
  <2>1. CASE \E q \in Readers : req[q].pc = "waiting"
    <3>1. Failed(now, FALSE)
      BY <2>1 DEF Crash
    <3>2. login.pc = "done"
      BY <1>1, <2>1, SessionAssumption DEF ReqInv
    <3> QED
      BY <1>1, <3>1, <3>2, FailedUnrecorded
  <2>2. CASE ~(\E q \in Readers : req[q].pc = "waiting")
    <3>1. failed' = failed /\ unmarked' = unmarked
      BY <2>2 DEF Crash
    <3> QED
      BY <1>1, <2>2, <3>1 DEF Known, Types
  <2> QED
    BY <2>1, <2>2
<1>6. /\ login' \in Logins /\ login'.token = login.token /\ login'.exp = login.exp
      /\ login'.pc = login.pc \/ (login.pc = "exchanged" /\ login'.pc = "done")
  <2>1. login \in Logins /\ login' = IF login.pc = "exchanged" THEN [login EXCEPT !.pc = "done"] ELSE login
    BY <1>1 DEF Crash, Types
  <2> QED
    BY <2>1 DEF Logins
<1>7. faults' \in 0..MaxFaults /\ pending' \subseteq {"logout", "backchannel"}
  <2>1. faults' \in 0..MaxFaults
    BY <1>1, <1>2, FaultCounted
  <2>2. pending' = pending \ {"logout"} /\ pending \subseteq {"logout", "backchannel"}
    BY <1>1 DEF Crash, Types
  <2> QED
    BY <2>1, <2>2
<1>8. stranded' \in BOOLEAN /\ (stranded => stranded') /\ (flight.pc = "apply" => stranded')
  BY <1>1 DEF Crash, Types
<1>9. Types'
  BY <1>1, <1>2, <1>4, <1>5, <1>6, <1>7, <1>8, Empties DEF Types
<1>10. GlobalInv'
  <2>1. gone' => row' = NoRow /\ login'.pc = "done"
    BY <1>1, <1>2, <1>6 DEF LifeInv
  <2> QED
    BY <1>1, <1>2, <1>5, <1>6, <1>8, <1>9, <2>1, GlobalCalm
<1>11. ~InFlight'
  BY <1>2, Empties DEF InFlight
<1>12. ASSUME NEW q \in Requests PROVE ReqInv(q)'
  <2>1. ReqInv(q) /\ (login.pc = "done" => login'.pc = "done")
    BY <1>1, <1>6
  <2>2. CASE q \notin Readers
    <3>1. req'[q] = Free
      BY <1>3, <2>2
    <3> QED
      BY <3>1, Empties DEF ReqInv
  <2>3. CASE q \in Readers /\ req[q].pc = "waiting"
    <3>1. req'[q] = Outcome(req[q], "transient", NoRow) /\ failed' # None
      BY <1>3, <1>5, <2>3
    <3>2. Known' /\ WithinGrace(req[q].ws, req[q].start) => req[q].start - failed' <= Grace + Skew
      BY <1>1, <1>5, <2>3, OwnGrace
    <3> QED
      BY <1>1, <1>2, <2>1, <2>3, <3>1, <3>2, Empties, OutcomeKept
  <2>4. CASE q \in Readers /\ req[q].pc # "waiting"
    <3>1. req'[q] = req[q] /\ now <= now'
      BY <1>1, <1>2, <1>3, <2>4
    <3>2. row' # NoRow => row # NoRow /\ row.exp <= row'.exp
      BY <1>1, <1>2, RowShape DEF Types
    <3> QED
      BY <1>1, <1>2, <1>5, <1>9, <1>11, <2>1, <2>4, <3>1, <3>2, ReqCalm
  <2> QED
    BY <2>2, <2>3, <2>4
<1> QED
  BY <1>9, <1>10, <1>12 DEF SessionInv

-----------------------------------------------------------------------------
(* The whole session. *)

\* Before anybody signs in.
LEMMA SessionStarts == Init => SessionInv
<1> SUFFICES ASSUME Init PROVE SessionInv
  OBVIOUS
<1>1. /\ now = 0 /\ faults = 0 /\ row = NoRow /\ flight = NoFlight /\ pending = {} /\ gone = FALSE
      /\ login = [pc |-> "none", exp |-> None, token |-> None] /\ idp = [alive |-> FALSE, token |-> 0]
      /\ failed = None /\ unmarked = FALSE /\ ended = None /\ replayed = FALSE /\ stranded = FALSE
      /\ req = [q \in Requests |-> Free]
  BY DEF Init
<1>2. Types
  <2>1. login \in Logins
    BY <1>1, Times DEF Logins, Tokens
  <2>2. idp \in [alive : BOOLEAN, token : Nat] /\ req \in [Requests -> Reqs]
    BY <1>1, Empties
  <2>3. 0 \in 0..MaxTime /\ 0 \in 0..MaxFaults /\ None \in None..MaxTime
    BY SessionAssumption DEF None
  <2> QED
    BY <1>1, <2>1, <2>2, <2>3, Empties DEF Types
<1>3. LifeInv /\ MarkInv /\ FlightInv
  BY <1>1, Empties DEF LifeInv, MarkInv, FlightInv, InFlight, Known
<1>4. TokenInv
  <2>1. None <= 0
    BY DEF None
  <2> QED
    BY <1>1, <2>1, Empties DEF TokenInv
<1>5. EndInv
  BY <1>1, Empties DEF EndInv
<1>6. \A q \in Requests : ReqInv(q)
  BY <1>1, Empties DEF ReqInv
<1> QED
  BY <1>2, <1>3, <1>4, <1>5, <1>6 DEF SessionInv, GlobalInv

\* No step breaks it.
LEMMA SessionSteps == SessionInv /\ [Next]_vars => SessionInv'
<1> SUFFICES ASSUME SessionInv, [Next]_vars PROVE SessionInv'
  OBVIOUS
<1>1. CASE FlightStep
  BY <1>1, StepFlightGet, StepUnrecorded, StepRotates, StepRevoked, StepTransient, StepApply DEF FlightStep
<1>2. CASE \E q \in Requests : ResolveSession(q) \/ Refresh(q) \/ WriterUnreachable(q) \/ Return(q)
  BY <1>2, StepResolve, StepRefresh, StepUnreachable, StepReturn
<1>3. CASE Exchange \/ CreateWebSession \/ CentralLogout \/ Crash \/ Tick
  BY <1>3, StepExchange, StepCreate, StepCentral, StepCrash, StepTick
<1>4. CASE Logout \/ LogoutDelete \/ BackchannelLogout \/ NoticeLost \/ PruneWebSessions
  BY <1>4, StepEnds
<1>5. CASE UNCHANGED vars
  BY <1>5, StepStutter
<1> QED
  BY <1>1, <1>2, <1>3, <1>4, <1>5 DEF Next

\* What the invariant says of a session.
LEMMA SessionMeansSafe == SessionInv => SessionsSafe
<1> SUFFICES ASSUME SessionInv PROVE SessionsSafe
  OBVIOUS
<1>1. Types /\ GlobalInv /\ \A q \in Requests : ReqInv(q) /\ req[q] \in Reqs
  BY DEF SessionInv, Types
<1>2. TypeOK
  <2>1. flight.pc \in {"none", "get", "send", "apply"} /\ flight.ws \in Row
    BY <1>1, FlightShape DEF Types
  <2>2. \A q \in Requests : /\ req[q].pc \in {"idle", "refresh", "waiting", "served"}
                            /\ req[q].pc = "waiting" => flight.pc # "none"
    BY <1>1, ReqShape DEF ReqInv
  <2>3. row.token <= idp.token /\ flight.token <= idp.token
    BY <1>1 DEF GlobalInv, TokenInv
  <2>4. {gone, replayed, stranded, unmarked, idp.alive} \subseteq BOOLEAN
    BY <1>1 DEF Types
  <2> QED
    BY <1>1, <2>1, <2>2, <2>3, <2>4 DEF TypeOK, Types
<1>3. RevokedStaysDead /\ ReplayHasACause
  BY <1>1 DEF GlobalInv, LifeInv, TokenInv, RevokedStaysDead, ReplayHasACause
<1>4. GraceBounded
  BY <1>1 DEF ReqInv, StaleInv, Known, GraceBounded
<1>5. CentralEndBites
  BY <1>1 DEF ReqInv, FreshInv, CentralEndBites
<1> QED
  BY <1>2, <1>3, <1>4, <1>5 DEF SessionsSafe

\* A session that was ended never comes back, a refresh token is replayed only for a
\* cause, no request is served stale for longer than the grace and the skew after a
\* failure on record, and the provider's end bites, for any number of requests,
\* readers, failures and restarts and any lifetimes.
THEOREM SessionsKeepTheirWord == Spec => []SessionsSafe
<1>1. Spec => []SessionInv
  BY SessionStarts, SessionSteps, PTL DEF Spec
<1> QED
  BY <1>1, SessionMeansSafe, PTL

----------------------------------------------------------------------------
(* Reading events.  What the live stream leaves out is explained by what    *)
(* it wrote: an event that is older than the cursor was there when a later  *)
(* one was written, so it is enough to keep the explanation of every event  *)
(* with a later one written.  The pages show what lies between their last   *)
(* row and the first they began with.                                       *)

FeedTypes ==
  /\ efNow \in Nat /\ efRemoved \in Nat /\ efSince \in Int /\ efCursor \in Int
  /\ efEvents \in Seq([received : Int, observed : Int]) /\ Len(efEvents) <= EfMaxEvents
  /\ efWritten \in [EventIds -> {0, 1}] /\ \A e \in EventIds : e > Len(efEvents) => efWritten[e] = 0

\* The cursor is where the stream began or the time of the latest event written.
CursorInv ==
  /\ efSince <= efCursor /\ \A f \in StreamedIds : FeedTime(f) <= efCursor
  /\ efCursor = efSince \/ \E f \in StreamedIds : FeedTime(f) = efCursor

SkipInv ==
  \A e \in LiveIds :
    efEvents[e].received > efSince /\ e \notin StreamedIds /\ (efStream = "polled" \/ \E f \in StreamedIds : f > e) => PassedOver(e)

PageInv ==
  /\ efPages \in [pc : {"idle", "more", "done"}, before : Nat, top : 0 .. Len(efEvents), shown : [EventIds -> {0, 1}]]
  /\ efPages.pc = "idle" => efPages.top = 0
  /\ efPages.pc = "idle" => \A e \in EventIds : efPages.shown[e] = 0
  /\ efPages.pc = "more" => efPages.before > 0
  /\ \A e \in EventIds : e < efPages.before => efPages.shown[e] = 0
  /\ \A e \in LiveIds : efPages.before <= e /\ e <= efPages.top => efPages.shown[e] = 1
  /\ efPages.pc = "done" => \A e \in LiveIds : e <= efPages.top => efPages.shown[e] = 1

EfInv == FeedTypes /\ CursorInv /\ SkipInv /\ PageInv

\* The least of some numbers, and the greatest below a bound.
LEMMA LeastOf ==
  ASSUME NEW T \in SUBSET Nat, T # {}
  PROVE  \E n \in T : \A k \in T : n <= k
<1>1. PICK n \in T : \A k \in T : ~(<<k, n>> \in OpToRel(<, Nat))
  BY NatLessThanWellFounded, WFMin
<1>2. \A k \in T : ~(k < n)
  <2>1. ASSUME NEW k \in T, k < n PROVE FALSE
    <3>1. <<k, n>> \in Nat \X Nat
      OBVIOUS
    <3>. QED  BY <1>1, <2>1, <3>1 DEF OpToRel
  <2>. QED  BY <2>1
<1>. QED  BY <1>2

\* A set of numbers below a bound has a greatest one.
LEMMA GreatestOf ==
  ASSUME NEW N \in Nat, NEW T \in SUBSET (0 .. N), T # {}
  PROVE  \E n \in T : \A k \in T : k <= n
<1>1. PICK m \in {N - k : k \in T} : \A j \in {N - k : k \in T} : m <= j
  <2>1. PICK D : D = {N - k : k \in T}
    OBVIOUS
  <2>2. \A k \in T : N - k \in Nat
    OBVIOUS
  <2>3. D \in SUBSET Nat /\ D # {}
    BY <2>1, <2>2
  <2>. QED  BY <2>1, <2>3, LeastOf
<1>2. PICK n \in T : m = N - n
  BY <1>1
<1>3. ASSUME NEW k \in T PROVE k <= n
  <2>1. N - n <= N - k
    BY <1>1, <1>2
  <2>. QED  BY <2>1
<1>. QED  BY <1>3

\* The stored events and their times.
LEMMA EventsAre ==
  ASSUME FeedTypes
  PROVE  /\ Len(efEvents) \in Nat /\ DOMAIN efEvents = 1 .. Len(efEvents) /\ DOMAIN efEvents \subseteq EventIds
         /\ IsFiniteSet(DOMAIN efEvents) /\ StreamedIds \subseteq DOMAIN efEvents /\ LiveIds \subseteq DOMAIN efEvents
         /\ \A e \in DOMAIN efEvents : /\ efEvents[e].received \in Int /\ efEvents[e].observed \in Int
                                       /\ FeedTime(e) \in Int /\ efEvents[e].received <= FeedTime(e)
<1>1. PICK R : R = [received : Int, observed : Int]
  OBVIOUS
<1>2. efEvents \in Seq(R) /\ Len(efEvents) <= EfMaxEvents /\ EfMaxEvents \in Nat
  BY <1>1, EventFeedAssumption DEF FeedTypes
<1>3. Len(efEvents) \in Nat /\ DOMAIN efEvents = 1 .. Len(efEvents) /\ DOMAIN efEvents \subseteq EventIds
  BY <1>2 DEF EventIds
<1>4. \A e \in DOMAIN efEvents : efEvents[e] \in R
  BY <1>2
<1>5. \A e \in DOMAIN efEvents : efEvents[e].received \in Int /\ efEvents[e].observed \in Int
  BY <1>1, <1>4
<1>6. IsFiniteSet(DOMAIN efEvents)
  BY <1>3, FS_Interval
<1>. QED  BY <1>3, <1>5, <1>6 DEF FeedTime, StreamedIds, LiveIds

\* The order of the poll's query has a first and a last.
Earlier(e) == {f \in DOMAIN efEvents : ReceivedBefore(f, e)}

\* An event that was received before another has fewer before it.
LEMMA EarlierFewer ==
  ASSUME FeedTypes, NEW e \in DOMAIN efEvents, NEW f \in DOMAIN efEvents, ReceivedBefore(f, e)
  PROVE  Cardinality(Earlier(f)) < Cardinality(Earlier(e))
<1>1. Earlier(f) \subseteq Earlier(e) /\ f \in Earlier(e) /\ f \notin Earlier(f)
  BY EventsAre DEF Earlier, ReceivedBefore
<1>2. IsFiniteSet(Earlier(e)) /\ IsFiniteSet(Earlier(f))
  BY EventsAre, FS_Subset DEF Earlier
<1>3. Cardinality(Earlier(f)) \in Nat /\ Cardinality(Earlier(e)) \in Nat
  BY <1>2, FS_CardinalityType
<1>4. Earlier(f) # Earlier(e)
  BY <1>1
<1>5. Cardinality(Earlier(f)) <= Cardinality(Earlier(e)) /\ Cardinality(Earlier(f)) # Cardinality(Earlier(e))
  BY <1>1, <1>2, <1>4, FS_Subset
<1>. QED  BY <1>3, <1>5

\* Of a set of events, one was received first ...
LEMMA FirstReceived ==
  ASSUME FeedTypes, NEW S \in SUBSET DOMAIN efEvents, S # {}
  PROVE  \E g \in S : \A h \in S : ~ReceivedBefore(h, g)
<1>1. \A e \in DOMAIN efEvents : Cardinality(Earlier(e)) \in Nat
  <2>1. ASSUME NEW e \in DOMAIN efEvents PROVE IsFiniteSet(Earlier(e))
    BY EventsAre, FS_Subset DEF Earlier
  <2>. QED  BY <2>1, FS_CardinalityType
<1>2. PICK T : T = {Cardinality(Earlier(e)) : e \in S}
  OBVIOUS
<1>3. T \in SUBSET Nat /\ T # {}
  BY <1>1, <1>2
<1>4. PICK n \in T : \A k \in T : n <= k
  BY <1>3, LeastOf
<1>5. PICK g \in S : Cardinality(Earlier(g)) = n
  BY <1>2
<1>6. ASSUME NEW h \in S, ReceivedBefore(h, g) PROVE FALSE
  <2>1. Cardinality(Earlier(h)) < Cardinality(Earlier(g)) /\ Cardinality(Earlier(h)) \in T
    BY <1>2, <1>6, EarlierFewer
  <2>2. Cardinality(Earlier(h)) \in Nat /\ n \in Nat
    BY <1>3, <2>1
  <2>. QED  BY <1>4, <1>5, <2>1, <2>2
<1>. QED  BY <1>6

\* ... and one last.
LEMMA LastReceived ==
  ASSUME FeedTypes, NEW S \in SUBSET DOMAIN efEvents, S # {}
  PROVE  \E g \in S : \A h \in S : h = g \/ ReceivedBefore(h, g)
<1>1. PICK N \in Nat : N = Cardinality(DOMAIN efEvents)
  BY EventsAre, FS_CardinalityType
<1>2. \A e \in DOMAIN efEvents : Cardinality(Earlier(e)) \in 0 .. N
  <2>1. ASSUME NEW e \in DOMAIN efEvents PROVE IsFiniteSet(Earlier(e)) /\ Cardinality(Earlier(e)) <= N
    BY <1>1, EventsAre, FS_Subset DEF Earlier
  <2>2. \A e \in DOMAIN efEvents : Cardinality(Earlier(e)) \in Nat
    BY <2>1, FS_CardinalityType
  <2>. QED  BY <2>1, <2>2
<1>3. PICK T : T = {Cardinality(Earlier(e)) : e \in S}
  OBVIOUS
<1>4. T \in SUBSET (0 .. N) /\ T # {}
  BY <1>2, <1>3
<1>5. PICK n \in T : \A k \in T : k <= n
  BY <1>4, GreatestOf
<1>6. PICK g \in S : Cardinality(Earlier(g)) = n
  BY <1>3
<1>8. n \in Int /\ \A x \in T : x \in Int
  BY <1>4
<1>7. ASSUME NEW h \in S, h # g PROVE ReceivedBefore(h, g)
  <2>1. ~ReceivedBefore(g, h)
    <3>1. SUFFICES ASSUME ReceivedBefore(g, h) PROVE FALSE
      OBVIOUS
    <3>2. Cardinality(Earlier(g)) < Cardinality(Earlier(h)) /\ Cardinality(Earlier(h)) \in T
      BY <1>3, <3>1, EarlierFewer
    <3>3. Cardinality(Earlier(h)) \in Int /\ n \in Int
      BY <1>6, <3>2, <1>8
    <3>. QED  BY <1>5, <1>6, <3>2, <3>3
  <2>. QED  BY <1>7, <2>1, EventsAre DEF ReceivedBefore
<1>. QED  BY <1>7

\* A cause stays a cause: events are only added, and written.
LEMMA CauseStays ==
  ASSUME FeedTypes, FeedTypes', NEW e \in DOMAIN efEvents, PassedOver(e), DOMAIN efEvents \subseteq DOMAIN efEvents',
         \A f \in DOMAIN efEvents : efEvents'[f] = efEvents[f], StreamedIds \subseteq StreamedIds'
  PROVE  PassedOver(e)'
<1>1. CASE \E f \in StreamedIds : /\ FeedTime(f) >= efEvents[e].received
                                  /\ FeedTime(f) = FeedTime(e) \/ efEvents[f].observed > efEvents[f].received \/ f < e
  BY <1>1, EventsAre DEF PassedOver, FeedTime
<1>2. CASE Cardinality({f \in DOMAIN efEvents : ReceivedBefore(e, f)}) >= FeedLimit
  <2>1. PICK A, B : A = {f \in DOMAIN efEvents : ReceivedBefore(e, f)} /\ B = {f \in DOMAIN efEvents' : ReceivedBefore(e, f)'}
    OBVIOUS
  <2>2. A \subseteq B
    BY <2>1 DEF ReceivedBefore
  <2>3. IsFiniteSet(B)
    <3>1. IsFiniteSet(DOMAIN efEvents')
      <4>1. PICK n : n = Len(efEvents')
        OBVIOUS
      <4>2. n \in Nat /\ DOMAIN efEvents' = 1 .. n
        BY <4>1 DEF FeedTypes
      <4>. QED  BY <4>2, FS_Interval
    <3>. QED  BY <2>1, <3>1, FS_Subset
  <2>4. IsFiniteSet(A) /\ Cardinality(A) <= Cardinality(B) /\ Cardinality(A) \in Nat /\ Cardinality(B) \in Nat
    BY <2>2, <2>3, FS_Subset, FS_CardinalityType
  <2>5. Cardinality(B) >= FeedLimit
    BY <1>2, <2>1, <2>4, EventFeedAssumption
  <2>. QED  BY <2>1, <2>5 DEF PassedOver
<1>. QED  BY <1>1, <1>2 DEF PassedOver

\* What a poll writes: the first of the events it got that is as late as e is
\* written before e is passed over.
LEMMA WritesAre ==
  ASSUME FeedTypes, NEW events \in SUBSET LiveIds, NEW e \in events, FeedTime(e) > efCursor, e \notin WritesOf(events), efCursor \in Int
  PROVE  \E g \in WritesOf(events) : /\ FeedTime(g) >= efEvents[e].received
                                     /\ FeedTime(g) = FeedTime(e) \/ efEvents[g].observed > efEvents[g].received
<1>1. PICK G : G = {f \in events : ReceivedBefore(f, e) /\ FeedTime(f) >= FeedTime(e)}
  OBVIOUS
<1>2. \A f \in events : f \in DOMAIN efEvents /\ FeedTime(f) \in Int /\ efEvents[f].received \in Int /\ efEvents[f].observed \in Int
                        /\ efEvents[f].received <= FeedTime(f)
  BY EventsAre
<1>3. \A f \in events : ~(FeedTime(f) < FeedTime(e)) => FeedTime(f) >= FeedTime(e)
  BY <1>2
<1>4. G # {} /\ G \in SUBSET DOMAIN efEvents
  BY <1>1, <1>2, <1>3 DEF WritesOf
<1>5. PICK g \in G : \A h \in G : ~ReceivedBefore(h, g)
  BY <1>4, FirstReceived
<1>6. g \in events /\ ReceivedBefore(g, e) /\ FeedTime(g) >= FeedTime(e) /\ FeedTime(g) > efCursor
  <2>1. g \in events /\ ReceivedBefore(g, e) /\ FeedTime(g) >= FeedTime(e)
    BY <1>1, <1>5
  <2>. QED  BY <1>2, <2>1
<1>7. \A h \in events : ReceivedBefore(h, g) => FeedTime(h) < FeedTime(g)
  <2>1. ASSUME NEW h \in events, ReceivedBefore(h, g) PROVE FeedTime(h) < FeedTime(g)
    <3>1. h \notin G
      BY <1>5, <2>1
    <3>2. ReceivedBefore(h, e)
      <4>1. h \in Int /\ g \in Int /\ e \in Int
        BY <1>2, <1>6, EventsAre
      <4>. QED  BY <1>2, <1>6, <2>1, <4>1 DEF ReceivedBefore
    <3>3. FeedTime(h) < FeedTime(e)
      BY <1>1, <1>2, <3>1, <3>2
    <3>. QED  BY <1>2, <1>6, <3>3
  <2>. QED  BY <2>1
<1>8. g \in WritesOf(events)
  BY <1>6, <1>7 DEF WritesOf
<1>9. FeedTime(g) >= efEvents[e].received
  BY <1>2, <1>6
<1>10. FeedTime(g) = FeedTime(e) \/ efEvents[g].observed > efEvents[g].received
  <2>1. SUFFICES ASSUME ~(efEvents[g].observed > efEvents[g].received) PROVE FeedTime(g) = FeedTime(e)
    OBVIOUS
  <2>2. FeedTime(g) = efEvents[g].received
    BY <2>1 DEF FeedTime
  <2>3. efEvents[g].received <= efEvents[e].received
    BY <1>2, <1>6 DEF ReceivedBefore
  <2>. QED  BY <1>2, <1>6, <2>2, <2>3
<1>. QED  BY <1>8, <1>9, <1>10

\* The cursor follows what is written.
LEMMA CursorFollows ==
  ASSUME FeedTypes, NEW events \in SUBSET LiveIds
  PROVE  LET w == WritesOf(events) IN
           /\ w \in SUBSET LiveIds /\ \A f \in w : FeedTime(f) > efCursor
           /\ w = {} => NextCursor(w) = efCursor
           /\ w # {} => /\ NextCursor(w) \in Int /\ NextCursor(w) > efCursor /\ \A f \in w : FeedTime(f) <= NextCursor(w)
                        /\ \E f \in w : FeedTime(f) = NextCursor(w)
<1>1. PICK w : w = WritesOf(events)
  OBVIOUS
<1>2. w \in SUBSET LiveIds /\ w \in SUBSET DOMAIN efEvents /\ w \subseteq events /\ \A f \in w : FeedTime(f) > efCursor /\ FeedTime(f) \in Int
  BY <1>1, EventsAre DEF WritesOf
<1>3. w = {} => NextCursor(w) = efCursor
  BY DEF NextCursor
<1>4. ASSUME w # {}
      PROVE  /\ NextCursor(w) \in Int /\ NextCursor(w) > efCursor /\ \A f \in w : FeedTime(f) <= NextCursor(w)
             /\ \E f \in w : FeedTime(f) = NextCursor(w)
  <2>1. PICK l : l = CHOOSE e \in w : \A f \in w : f = e \/ ReceivedBefore(f, e)
    OBVIOUS
  <2>2. \E e \in w : \A f \in w : f = e \/ ReceivedBefore(f, e)
    BY <1>2, <1>4, LastReceived
  <2>3. l \in w /\ \A f \in w : f = l \/ ReceivedBefore(f, l)
    BY <2>1, <2>2
  <2>4. NextCursor(w) = FeedTime(l)
    BY <1>4, <2>1 DEF NextCursor
  <2>5. \A f \in events : ReceivedBefore(f, l) => FeedTime(f) < FeedTime(l)
    BY <1>1, <2>3 DEF WritesOf
  <2>6. \A f \in w : FeedTime(f) <= FeedTime(l)
    BY <1>2, <2>3, <2>5
  <2>. QED  BY <1>2, <2>3, <2>4, <2>6
<1>. QED  BY <1>1, <1>2, <1>3, <1>4

\* Nothing of the stream changes but its state, that no poll has just ended in.
LEMMA StreamStays ==
  ASSUME EfInv, UNCHANGED <<efEvents, efSince, efCursor, efWritten>>, LiveIds' \subseteq LiveIds,
         efNow' \in Nat, efRemoved' \in Nat, efStream' = "polled" => efStream = "polled"
  PROVE  FeedTypes' /\ CursorInv' /\ SkipInv'
<1>1. FeedTypes'
  BY DEF EfInv, FeedTypes
<1>2. StreamedIds' = StreamedIds
  BY DEF StreamedIds
<1>3. CursorInv'
  BY <1>2 DEF EfInv, CursorInv, FeedTime
<1>4. SkipInv'
  <2>1. ASSUME NEW e \in LiveIds', efEvents'[e].received > efSince', e \notin StreamedIds',
               efStream' = "polled" \/ \E f \in StreamedIds' : f > e
        PROVE  PassedOver(e)'
    <3>1. PassedOver(e)
      BY <1>2, <2>1 DEF EfInv, SkipInv
    <3>2. e \in DOMAIN efEvents /\ FeedTypes
      BY <2>1, EventsAre DEF EfInv
    <3>. QED  BY <1>1, <1>2, <3>1, <3>2, CauseStays
  <2>. QED  BY <2>1 DEF SkipInv
<1>. QED  BY <1>1, <1>3, <1>4

\* Rows go, and the pages shown with them.
LEMMA PagesStay ==
  ASSUME EfInv, UNCHANGED <<efEvents, efPages>>, LiveIds' \subseteq LiveIds
  PROVE  PageInv'
BY DEF EfInv, PageInv

\* A new event is stored, perhaps with a time that has passed.
LEMMA StoreStep ==
  ASSUME EfInv, NEW skew \in Skews, NEW delay \in Delays, InsertEvent(skew, delay)
  PROVE  EfInv'
<1>1. PICK v, n : v = [received |-> efNow - delay, observed |-> efNow - delay + skew] /\ n = Len(efEvents) + 1
  OBVIOUS
<1>2. v \in [received : Int, observed : Int]
  BY <1>1, EventFeedAssumption DEF EfInv, FeedTypes
<1>3. /\ efEvents' = Append(efEvents, v) /\ n <= EfMaxEvents /\ efStream' # "polled"
      /\ UNCHANGED <<efNow, efRemoved, efSince, efCursor, efWritten, efPages>>
  BY <1>1, EventsAre, EventFeedAssumption DEF InsertEvent, EfInv
<1>4. PICK R : R = [received : Int, observed : Int]
  OBVIOUS
<1>5. efEvents \in Seq(R) /\ v \in R /\ FeedTypes
  BY <1>2, <1>4 DEF EfInv, FeedTypes
<1>6. /\ efEvents' \in Seq(R) /\ Len(efEvents') = n /\ n \in Nat /\ n - 1 = Len(efEvents) /\ DOMAIN efEvents' = 1 .. n
      /\ \A f \in DOMAIN efEvents : efEvents'[f] = efEvents[f]
  BY <1>1, <1>3, <1>5
<1>7. FeedTypes'
  <2>1. efEvents' \in Seq([received : Int, observed : Int]) /\ Len(efEvents') <= EfMaxEvents
    BY <1>3, <1>4, <1>6
  <2>2. \A e \in EventIds : e > Len(efEvents') => efWritten'[e] = 0
    <3>1. \A e \in EventIds : e > n => e > Len(efEvents)
      BY <1>6, EventFeedAssumption DEF EventIds
    <3>. QED  BY <1>3, <1>6, <3>1 DEF EfInv, FeedTypes
  <2>. QED  BY <1>3, <2>1, <2>2 DEF EfInv, FeedTypes
<1>8. DOMAIN efEvents \subseteq DOMAIN efEvents' /\ DOMAIN efEvents' = DOMAIN efEvents \cup {n} /\ n \in EventIds /\ n \notin DOMAIN efEvents
  BY <1>3, <1>5, <1>6, EventsAre, EventFeedAssumption DEF EventIds
<1>9. StreamedIds' = StreamedIds
  <2>1. efWritten'[n] = 0
    BY <1>3, <1>6, <1>8 DEF EfInv, FeedTypes
  <2>. QED  BY <1>3, <1>8, <2>1 DEF StreamedIds
<1>10. CursorInv'
  <2>1. \A f \in StreamedIds : FeedTime(f)' = FeedTime(f)
    BY <1>5, <1>6, EventsAre DEF FeedTime
  <2>2. efSince' = efSince /\ efCursor' = efCursor /\ CursorInv
    BY <1>3 DEF EfInv
  <2>. QED  BY <1>9, <2>1, <2>2 DEF CursorInv, FeedTime
<1>11. SkipInv'
  <2>1. ASSUME NEW e \in LiveIds', efEvents'[e].received > efSince', e \notin StreamedIds',
               efStream' = "polled" \/ \E f \in StreamedIds' : f > e
        PROVE  PassedOver(e)'
    <3>1. PICK f \in StreamedIds : f > e
      BY <1>3, <1>9, <2>1
    <3>2. e \in DOMAIN efEvents
      <4>1. f \in 1 .. n - 1 /\ e \in 1 .. n /\ DOMAIN efEvents = 1 .. n - 1
        BY <1>5, <1>6, <2>1, EventsAre DEF LiveIds
      <4>. QED  BY <1>6, <3>1, <4>1
    <3>3. e \in LiveIds /\ efEvents'[e] = efEvents[e]
      BY <1>3, <1>6, <2>1, <3>2 DEF LiveIds
    <3>4. PassedOver(e)
      BY <1>3, <1>9, <2>1, <3>1, <3>3 DEF EfInv, SkipInv
    <3>. QED  BY <1>5, <1>6, <1>7, <1>8, <1>9, <3>2, <3>4, CauseStays
  <2>. QED  BY <2>1 DEF SkipInv
<1>12. PageInv'
  <2>1. efPages' = efPages /\ efPages.top \in 0 .. n - 1
    BY <1>3, <1>6 DEF EfInv, PageInv
  <2>2. \A e \in LiveIds' : e <= efPages.top => e \in LiveIds
    BY <1>3, <1>5, <1>6, <2>1, EventsAre DEF LiveIds
  <2>3. efPages \in [pc : {"idle", "more", "done"}, before : Nat, top : 0 .. n, shown : [EventIds -> {0, 1}]]
    <3>1. 0 .. n - 1 \subseteq 0 .. n /\ n - 1 = Len(efEvents)
      BY <1>6
    <3>. QED  BY <3>1 DEF EfInv, PageInv
  <2>. QED  BY <1>6, <2>1, <2>2, <2>3 DEF EfInv, PageInv
<1>. QED  BY <1>7, <1>10, <1>11, <1>12 DEF EfInv

\* A poll writes each event at most once, and what it leaves has its cause.
LEMMA PollStep ==
  ASSUME EfInv, Poll
  PROVE  EfInv'
<1>1. PICK events, w : events = ListRecentEvents(efCursor) /\ w = WritesOf(ListRecentEvents(efCursor))
  OBVIOUS
<1>2. /\ efStream = "open" /\ efCursor' = NextCursor(w) /\ efStream' = "polled"
      /\ efWritten' = [e \in EventIds |-> efWritten[e] + (IF e \in w THEN 1 ELSE 0)]
      /\ UNCHANGED <<efNow, efEvents, efRemoved, efSince, efPages, efFaults>>
  BY <1>1 DEF Poll
<1>3. events = {e \in LiveIds : efEvents[e].received >= efCursor /\
                   Cardinality({f \in {x \in LiveIds : efEvents[x].received >= efCursor} : ReceivedBefore(e, f)}) < FeedLimit}
  BY <1>1 DEF ListRecentEvents
<1>4. FeedTypes /\ events \in SUBSET LiveIds /\ w = WritesOf(events) /\ efCursor \in Int /\ efSince \in Int
  BY <1>1, <1>3 DEF EfInv, FeedTypes
<1>5. /\ w \in SUBSET LiveIds /\ \A f \in w : FeedTime(f) > efCursor
      /\ w = {} => NextCursor(w) = efCursor
      /\ w # {} => /\ NextCursor(w) \in Int /\ NextCursor(w) > efCursor /\ \A f \in w : FeedTime(f) <= NextCursor(w)
                   /\ \E f \in w : FeedTime(f) = NextCursor(w)
  BY <1>4, CursorFollows
<1>6. \A e \in DOMAIN efEvents : FeedTime(e) \in Int /\ efEvents[e].received \in Int /\ efEvents[e].received <= FeedTime(e)
  BY <1>4, EventsAre
<1>7. \A f \in StreamedIds : FeedTime(f) <= efCursor /\ f \in DOMAIN efEvents
  BY <1>4, EventsAre DEF EfInv, CursorInv
<1>8. w \cap StreamedIds = {} /\ w \subseteq DOMAIN efEvents
  BY <1>4, <1>5, <1>6, <1>7, EventsAre
<1>9. StreamedIds' = StreamedIds \cup w
  <2>1. DOMAIN efEvents' = DOMAIN efEvents /\ DOMAIN efEvents \subseteq EventIds
    BY <1>2, <1>4, EventsAre
  <2>2. \A e \in DOMAIN efEvents : efWritten[e] \in {0, 1} /\ efWritten'[e] = efWritten[e] + (IF e \in w THEN 1 ELSE 0)
    BY <1>2, <2>1 DEF EfInv, FeedTypes
  <2>3. \A e \in DOMAIN efEvents : efWritten'[e] > 0 <=> (efWritten[e] > 0 \/ e \in w)
    BY <2>2
  <2>. QED  BY <1>8, <2>1, <2>3 DEF StreamedIds
<1>10. FeedTypes'
  <2>1. efCursor' \in Int
    BY <1>2, <1>4, <1>5
  <2>2. ASSUME NEW e \in EventIds
        PROVE  efWritten'[e] \in {0, 1} /\ (e > Len(efEvents) => efWritten'[e] = 0)
    <3>1. efWritten[e] \in {0, 1} /\ (e > Len(efEvents) => efWritten[e] = 0)
      BY DEF EfInv, FeedTypes
    <3>2. e \in w => e \in DOMAIN efEvents /\ e \notin StreamedIds
      BY <1>8
    <3>3. e \in w => efWritten[e] = 0 /\ ~(e > Len(efEvents))
      BY <1>4, <3>1, <3>2, EventsAre DEF StreamedIds
    <3>. QED  BY <1>2, <3>1, <3>3
  <2>3. efWritten' \in [EventIds -> {0, 1}]
    BY <1>2, <2>2
  <2>. QED  BY <1>2, <2>1, <2>2, <2>3 DEF EfInv, FeedTypes
<1>11. \A f \in DOMAIN efEvents : FeedTime(f)' = FeedTime(f)
  BY <1>2 DEF FeedTime
<1>12. CursorInv'
  <2>1. efSince <= efCursor /\ (efCursor = efSince \/ \E f \in StreamedIds : FeedTime(f) = efCursor)
    BY DEF EfInv, CursorInv
  <2>2. CASE w = {}
    BY <1>2, <1>5, <1>7, <1>9, <1>11, <2>1, <2>2 DEF CursorInv, FeedTime
  <2>3. CASE w # {}
    <3>1. PICK c \in Int : c = NextCursor(w) /\ c > efCursor
      BY <1>5, <2>3
    <3>2. \A f \in StreamedIds' : f \in DOMAIN efEvents /\ FeedTime(f) <= c
      BY <1>4, <1>5, <1>6, <1>7, <1>8, <1>9, <2>3, <3>1
    <3>3. \E f \in StreamedIds' : f \in DOMAIN efEvents /\ FeedTime(f) = c
      BY <1>5, <1>8, <1>9, <2>3, <3>1
    <3>4. efCursor' = c /\ efSince' = efSince /\ efSince <= c
      BY <1>2, <1>4, <2>1, <3>1
    <3>. QED  BY <1>11, <3>2, <3>3, <3>4 DEF CursorInv
  <2>. QED  BY <2>2, <2>3
<1>13. SkipInv'
  <2>1. ASSUME NEW e \in LiveIds, efEvents[e].received > efSince, e \notin StreamedIds' PROVE PassedOver(e)'
    <3>1. e \in DOMAIN efEvents /\ e \notin StreamedIds /\ e \notin w /\ e \in Int
      BY <1>4, <1>9, <2>1, EventsAre
    <3>2. ASSUME NEW f \in StreamedIds', FeedTime(f) >= efEvents[e].received,
                 FeedTime(f) = FeedTime(e) \/ efEvents[f].observed > efEvents[f].received \/ f < e
          PROVE  PassedOver(e)'
      <4>1. f \in DOMAIN efEvents
        BY <1>7, <1>8, <1>9
      <4>2. FeedTime(f)' = FeedTime(f) /\ FeedTime(e)' = FeedTime(e) /\ efEvents' = efEvents
        BY <1>2, <1>11, <3>1, <4>1
      <4>. QED  BY <3>2, <4>2 DEF PassedOver
    <3>3. CASE efEvents[e].received >= efCursor /\ e \notin events
      <4>1. PICK A, B : A = {f \in {x \in LiveIds : efEvents[x].received >= efCursor} : ReceivedBefore(e, f)}
                        /\ B = {f \in DOMAIN efEvents : ReceivedBefore(e, f)}
        OBVIOUS
      <4>2. ~(Cardinality(A) < FeedLimit)
        BY <1>3, <2>1, <3>3, <4>1
      <4>3. A \subseteq B /\ IsFiniteSet(B)
        <5>1. IsFiniteSet(DOMAIN efEvents) /\ LiveIds \subseteq DOMAIN efEvents
          BY <1>4, EventsAre
        <5>. QED  BY <4>1, <5>1, FS_Subset
      <4>4. Cardinality(A) <= Cardinality(B) /\ Cardinality(A) \in Nat /\ Cardinality(B) \in Nat /\ FeedLimit \in Nat
        BY <4>3, FS_Subset, FS_CardinalityType, EventFeedAssumption
      <4>5. Cardinality(B) >= FeedLimit
        BY <4>2, <4>4
      <4>6. PassedOver(e)
        BY <4>1, <4>5 DEF PassedOver
      <4>7. DOMAIN efEvents' = DOMAIN efEvents /\ (\A f \in DOMAIN efEvents : efEvents'[f] = efEvents[f]) /\ StreamedIds \subseteq StreamedIds'
        BY <1>2, <1>9
      <4>. QED  BY <1>4, <1>10, <3>1, <4>6, <4>7, CauseStays
    <3>4. CASE e \in events /\ FeedTime(e) > efCursor
      <4>1. PICK g \in w : FeedTime(g) >= efEvents[e].received /\ (FeedTime(g) = FeedTime(e) \/ efEvents[g].observed > efEvents[g].received)
        BY <1>4, <3>1, <3>4, WritesAre
      <4>. QED  BY <1>9, <3>2, <4>1
    <3>5. ASSUME NEW f \in StreamedIds, FeedTime(f) = efCursor, efCursor >= efEvents[e].received,
                 FeedTime(e) = efCursor \/ efCursor > efEvents[e].received
          PROVE  PassedOver(e)'
      <4>1. CASE FeedTime(f) = FeedTime(e) \/ efEvents[f].observed > efEvents[f].received \/ f < e
        BY <1>9, <3>2, <3>5, <4>1
      <4>2. CASE f > e
        <5>1. PassedOver(e)
          BY <2>1, <3>1, <4>2 DEF EfInv, SkipInv
        <5>2. DOMAIN efEvents' = DOMAIN efEvents /\ (\A x \in DOMAIN efEvents : efEvents'[x] = efEvents[x]) /\ StreamedIds \subseteq StreamedIds'
          BY <1>2, <1>9
        <5>. QED  BY <1>4, <1>10, <3>1, <5>1, <5>2, CauseStays
      <4>3. f \in Int /\ f # e
        BY <1>4, <1>7, <3>1, EventsAre
      <4>. QED  BY <3>1, <4>1, <4>2, <4>3
    <3>6. CASE ~(efEvents[e].received >= efCursor) \/ ~(FeedTime(e) > efCursor)
      <4>1. efCursor >= efEvents[e].received /\ (FeedTime(e) = efCursor \/ efCursor > efEvents[e].received)
        BY <1>4, <1>6, <3>1, <3>6
      <4>2. efCursor # efSince
        BY <1>4, <1>6, <2>1, <3>1, <4>1
      <4>3. PICK f \in StreamedIds : FeedTime(f) = efCursor
        BY <4>2 DEF EfInv, CursorInv
      <4>. QED  BY <3>5, <4>1, <4>3
    <3>. QED  BY <3>3, <3>4, <3>6
  <2>2. LiveIds' = LiveIds /\ efEvents' = efEvents /\ efSince' = efSince
    BY <1>2 DEF LiveIds
  <2>. QED  BY <2>1, <2>2 DEF SkipInv
<1>14. PageInv'
  <2>1. LiveIds' \subseteq LiveIds
    BY <1>2 DEF LiveIds
  <2>. QED  BY <1>2, <2>1, PagesStay
<1>. QED  BY <1>10, <1>12, <1>13, <1>14 DEF EfInv

Due(before) == {e \in LiveIds : before > 0 => e < before}
Above(S, e) == {f \in S : f > e}

\* The newest n of some ids are an upper part of them.
LEMMA NewestAbove ==
  ASSUME NEW S, IsFiniteSet(S), S \subseteq Nat, NEW m \in S, NEW e \in S, m <= e
  PROVE  /\ Cardinality(Above(S, e)) \in Nat /\ Cardinality(Above(S, m)) \in Nat
         /\ Cardinality(Above(S, e)) <= Cardinality(Above(S, m))
<1>1. Above(S, e) \subseteq Above(S, m) /\ Above(S, m) \subseteq S
  <2>1. \A f \in S : f > e => f > m
    <3>1. \A f \in S : f \in Nat
      OBVIOUS
    <3>. QED  BY <3>1
  <2>. QED  BY <2>1 DEF Above
<1>2. IsFiniteSet(Above(S, m)) /\ IsFiniteSet(Above(S, e))
  BY <1>1, FS_Subset
<1>. QED  BY <1>1, <1>2, FS_Subset, FS_CardinalityType

\* A page: what follows it in the order of ids is on it; and when no row is left
\* over, all that was due is.
LEMMA PageHolds ==
  ASSUME FeedTypes, NEW before \in Nat, NEW rows, NEW page, rows = ListIssueEvents(before), page = PageOf(rows)
  PROVE  /\ page \subseteq Due(before) /\ Due(before) \subseteq LiveIds /\ Cardinality(rows) \in Nat
         /\ \A m \in page, e \in Due(before) : m <= e => e \in page
         /\ Cardinality(rows) <= EventPage => page = Due(before)
         /\ Cardinality(rows) > EventPage => page # {}
<1>1. PICK due : due = Due(before)
  OBVIOUS
<1>2. rows = {e \in due : Cardinality(Above(due, e)) < EventPage + 1}
  BY <1>1 DEF ListIssueEvents, Due, Above
<1>3. page = {e \in rows : Cardinality(Above(rows, e)) < EventPage}
  BY DEF PageOf, Above
<1>4. due \subseteq LiveIds /\ due \subseteq DOMAIN efEvents /\ due \subseteq Nat /\ EventPage \in Nat \ {0}
  BY <1>1, EventsAre, EventFeedAssumption DEF Due
<1>5. rows \subseteq due /\ page \subseteq rows /\ IsFiniteSet(due) /\ IsFiniteSet(rows)
  BY <1>2, <1>3, <1>4, EventsAre, FS_Subset
<1>6. Cardinality(rows) \in Nat /\ \A e \in due : Cardinality(Above(due, e)) \in Nat /\ Cardinality(Above(rows, e)) \in Nat
  <2>1. ASSUME NEW e \in due PROVE IsFiniteSet(Above(due, e)) /\ IsFiniteSet(Above(rows, e))
    BY <1>5, FS_Subset DEF Above
  <2>. QED  BY <1>5, <2>1, FS_CardinalityType
<1>7. \A m \in page, e \in due : m <= e => e \in page
  <2>1. ASSUME NEW m \in page, NEW e \in due, m <= e PROVE e \in page
    <3>1. Cardinality(Above(due, e)) <= Cardinality(Above(due, m)) /\ Cardinality(Above(due, m)) < EventPage + 1 /\ m \in due
      BY <1>2, <1>4, <1>5, <2>1, NewestAbove
    <3>2. e \in rows
      BY <1>2, <1>4, <1>6, <3>1
    <3>3. Cardinality(Above(rows, e)) <= Cardinality(Above(rows, m)) /\ Cardinality(Above(rows, m)) < EventPage
      BY <1>3, <1>4, <1>5, <2>1, <3>2, NewestAbove
    <3>. QED  BY <1>3, <1>4, <1>6, <3>1, <3>2, <3>3
  <2>. QED  BY <2>1
<1>8. ASSUME Cardinality(rows) <= EventPage PROVE page = due
  <2>1. rows = due
    <3>1. SUFFICES ASSUME due \ rows # {} PROVE FALSE
      BY <1>5
    <3>2. PICK N \in Nat : due \subseteq 0 .. N
      BY <1>4, EventsAre
    <3>3. PICK T : T = due \ rows
      OBVIOUS
    <3>4. T \in SUBSET (0 .. N) /\ T # {}
      BY <3>1, <3>2, <3>3
    <3>5. PICK d \in T : \A k \in T : k <= d
      BY <3>4, GreatestOf
    <3>6. d \in due /\ Cardinality(Above(due, d)) >= EventPage + 1
      BY <1>2, <1>4, <1>6, <3>3, <3>5
    <3>7. Above(due, d) \subseteq rows
      <4>1. \A f \in due : f > d => f \notin T
        BY <1>4, <3>5, <3>6
      <4>. QED  BY <3>3, <4>1 DEF Above
    <3>8. Cardinality(Above(due, d)) <= Cardinality(rows)
      BY <1>5, <3>7, FS_Subset
    <3>. QED  BY <1>4, <1>6, <1>8, <3>6, <3>8
  <2>2. ASSUME NEW e \in rows PROVE Cardinality(Above(rows, e)) < EventPage
    <3>1. Above(rows, e) \subseteq rows /\ Above(rows, e) # rows
      BY <1>4, <1>5 DEF Above
    <3>2. Cardinality(Above(rows, e)) <= Cardinality(rows) /\ Cardinality(Above(rows, e)) # Cardinality(rows)
      BY <1>5, <3>1, FS_Subset
    <3>. QED  BY <1>4, <1>5, <1>6, <1>8, <3>2
  <2>. QED  BY <1>3, <2>1, <2>2
<1>9. ASSUME Cardinality(rows) > EventPage PROVE page # {}
  <2>1. rows # {}
    BY <1>4, <1>9, FS_EmptySet
  <2>2. PICK N \in Nat : rows \subseteq 0 .. N
    BY <1>4, <1>5, EventsAre
  <2>3. PICK d \in rows : \A k \in rows : k <= d
    BY <2>1, <2>2, GreatestOf
  <2>4. Above(rows, d) = {}
    BY <1>4, <1>5, <2>3 DEF Above
  <2>. QED  BY <1>3, <1>4, <2>3, <2>4, FS_EmptySet
<1>. QED  BY <1>1, <1>4, <1>5, <1>6, <1>7, <1>8, <1>9

\* The next page begins where the last one ended.
LEMMA PageStep ==
  ASSUME EfInv, NextPage
  PROVE  EfInv'
<1>1. PICK g, b, rows, page : g = efPages /\ b = g.before /\ rows = ListIssueEvents(b) /\ page = PageOf(rows)
  <2>1. \E g : g = efPages
    OBVIOUS
  <2>. QED  BY <2>1, Zenon
<1>2. PICK more \in BOOLEAN : more <=> Cardinality(rows) > EventPage
  OBVIOUS
<1>3. PICK b2, t2 : /\ b2 = IF page = {} THEN b ELSE OldestId(page)
                    /\ t2 = IF g.pc = "idle" /\ page # {} THEN NewestId(page) ELSE g.top
  OBVIOUS
<1>4. /\ g.pc # "done" /\ UNCHANGED <<efNow, efEvents, efRemoved, efSince, efCursor, efStream, efWritten, efFaults>>
      /\ efPages' = [pc |-> IF more THEN "more" ELSE "done", before |-> b2, top |-> t2,
                     shown |-> [e \in EventIds |-> g.shown[e] + (IF e \in page THEN 1 ELSE 0)]]
  BY <1>1, <1>2, <1>3 DEF NextPage
<1>5. FeedTypes /\ g \in [pc : {"idle", "more", "done"}, before : Nat, top : 0 .. Len(efEvents), shown : [EventIds -> {0, 1}]]
  BY <1>1 DEF EfInv, PageInv
<1>6. /\ b \in Nat /\ g.top \in 0 .. Len(efEvents) /\ \A e \in EventIds : g.shown[e] \in {0, 1}
      /\ g.pc = "idle" => g.top = 0 /\ \A e \in EventIds : g.shown[e] = 0
      /\ g.pc = "more" => b > 0
      /\ g.pc \in {"idle", "more"}
      /\ \A e \in EventIds : e < b => g.shown[e] = 0
      /\ \A e \in LiveIds : b <= e /\ e <= g.top => g.shown[e] = 1
  BY <1>1, <1>4, <1>5 DEF EfInv, PageInv
<1>7. /\ page \subseteq Due(b) /\ Due(b) \subseteq LiveIds /\ Cardinality(rows) \in Nat
      /\ \A m \in page, e \in Due(b) : m <= e => e \in page
      /\ Cardinality(rows) <= EventPage => page = Due(b)
      /\ Cardinality(rows) > EventPage => page # {}
  BY <1>1, <1>5, <1>6, PageHolds
<1>8. LiveIds \subseteq DOMAIN efEvents /\ DOMAIN efEvents = 1 .. Len(efEvents) /\ DOMAIN efEvents \subseteq EventIds /\ Len(efEvents) \in Nat
      /\ EventIds \subseteq Nat /\ EventPage \in Nat
  BY <1>5, EventsAre, EventFeedAssumption DEF EventIds
<1>9. ASSUME page # {}
      PROVE  b2 \in page /\ (\A f \in page : b2 <= f) /\ (g.pc = "idle" => t2 \in page /\ \A f \in page : f <= t2)
  <2>1. page \in SUBSET Nat /\ page \in SUBSET (0 .. Len(efEvents))
    BY <1>7, <1>8
  <2>2. \E e \in page : \A f \in page : e <= f
    BY <1>9, <2>1, LeastOf
  <2>3. \E e \in page : \A f \in page : f <= e
    BY <1>8, <1>9, <2>1, GreatestOf
  <2>. QED  BY <1>3, <1>9, <2>2, <2>3 DEF OldestId, NewestId
<1>10. \A e \in page : e \in EventIds /\ e \in LiveIds /\ g.shown[e] = 0 /\ (b > 0 => e < b)
  <2>1. ASSUME NEW e \in page PROVE e \in EventIds /\ e \in LiveIds /\ g.shown[e] = 0 /\ (b > 0 => e < b)
    <3>1. e \in EventIds /\ e \in LiveIds /\ (b > 0 => e < b)
      BY <1>7, <1>8, <2>1 DEF Due
    <3>. QED  BY <1>6, <3>1
  <2>. QED  BY <2>1
<1>11. PICK s : s = [e \in EventIds |-> g.shown[e] + (IF e \in page THEN 1 ELSE 0)]
  OBVIOUS
<1>12. s \in [EventIds -> {0, 1}] /\ \A e \in EventIds : s[e] = IF e \in page THEN 1 ELSE g.shown[e]
  BY <1>6, <1>10, <1>11
<1>13. /\ efPages'.pc = (IF more THEN "more" ELSE "done") /\ efPages'.before = b2 /\ efPages'.top = t2 /\ efPages'.shown = s
       /\ efPages' = [pc |-> IF more THEN "more" ELSE "done", before |-> b2, top |-> t2, shown |-> s]
  BY <1>4, <1>11
<1>15. b2 \in Nat /\ t2 \in 0 .. Len(efEvents)
  <2>1. CASE page = {}
    BY <1>3, <1>6, <2>1
  <2>2. CASE page # {}
    <3>1. b2 \in Nat
      BY <1>8, <1>9, <1>10, <2>2
    <3>2. t2 \in 0 .. Len(efEvents)
      BY <1>3, <1>6, <1>8, <1>9, <1>10, <2>2
    <3>. QED  BY <3>1, <3>2
  <2>. QED  BY <2>1, <2>2
<1>16. more => b2 > 0
  <2>1. ASSUME more PROVE b2 \in 1 .. Len(efEvents)
    BY <1>2, <1>7, <1>8, <1>9, <1>10, <2>1
  <2>. QED  BY <1>8, <2>1
\* Nothing before the new cursor has been shown.
<1>17. \A e \in EventIds : e < b2 => s[e] = 0
  <2>1. ASSUME NEW e \in EventIds, e < b2 PROVE s[e] = 0
    <3>1. CASE page = {}
      BY <1>3, <1>6, <1>12, <2>1, <3>1
    <3>2. CASE page # {}
      <4>1. e \notin page /\ b2 \in page
        BY <1>8, <1>9, <1>15, <2>1, <3>2
      <4>2. (b > 0 => b2 < b) /\ (b = 0 => g.pc = "idle")
        BY <1>6, <1>10, <4>1
      <4>3. g.shown[e] = 0
        BY <1>6, <1>8, <1>15, <2>1, <4>2
      <4>. QED  BY <1>12, <4>1, <4>3
    <3>. QED  BY <3>1, <3>2
  <2>. QED  BY <2>1
\* What is kept between the new cursor and the top has.
<1>18. ASSUME NEW e \in LiveIds, e <= t2, b2 <= e \/ ~more PROVE s[e] = 1
  <2>1. e \in EventIds /\ e \in Nat \ {0}
    BY <1>8
  <2>2. CASE e \in Due(b)
    <3>1. CASE ~more
      <4>1. Cardinality(rows) <= EventPage
        BY <1>2, <1>7, <1>8, <3>1
      <4>. QED  BY <1>7, <1>12, <2>1, <2>2, <4>1
    <3>2. CASE page # {} /\ b2 <= e
      BY <1>7, <1>9, <1>12, <2>1, <2>2, <3>2
    <3>. QED  BY <1>2, <1>7, <1>18, <3>1, <3>2
  <2>3. CASE e \notin Due(b)
    <3>1. b > 0 /\ b <= e
      BY <1>6, <2>1, <2>3 DEF Due
    <3>2. t2 = g.top
      <4>1. SUFFICES ASSUME g.pc = "idle", page # {} PROVE FALSE
        BY <1>3
      <4>2. t2 \in page /\ t2 < b
        BY <1>9, <1>10, <3>1, <4>1
      <4>. QED  BY <1>6, <1>15, <1>18, <2>1, <3>1, <4>2
    <3>3. g.shown[e] = 1
      BY <1>6, <1>18, <3>1, <3>2
    <3>. QED  BY <1>12, <2>1, <3>3
  <2>. QED  BY <2>2, <2>3
<1>19. PageInv'
  <2>1. efPages' \in [pc : {"idle", "more", "done"}, before : Nat, top : 0 .. Len(efEvents'), shown : [EventIds -> {0, 1}]]
    BY <1>4, <1>12, <1>13, <1>15
  <2>2. efPages'.pc # "idle" /\ (efPages'.pc = "more" <=> more) /\ (efPages'.pc = "done" <=> ~more)
    BY <1>13
  <2>3. LiveIds' = LiveIds
    BY <1>4 DEF LiveIds
  <2>. QED  BY <1>13, <1>16, <1>17, <1>18, <2>1, <2>2, <2>3 DEF PageInv
<1>20. FeedTypes' /\ CursorInv' /\ SkipInv'
  <2>1. LiveIds' \subseteq LiveIds /\ efRemoved' \in Nat /\ efNow' \in Nat
    BY <1>4 DEF LiveIds, EfInv, FeedTypes
  <2>. QED  BY <1>4, <2>1, StreamStays
<1>. QED  BY <1>19, <1>20 DEF EfInv

\* A stream opens where it is to begin, with nothing written.
LEMMA OpenStep ==
  ASSUME EfInv, StreamOpens
  PROVE  EfInv'
<1>1. /\ efSince' = efNow - FeedLookback /\ efCursor' = efSince' /\ efStream' = "open" /\ efWritten' = NotStreamed
      /\ UNCHANGED <<efNow, efEvents, efRemoved, efPages, efFaults>>
  BY DEF StreamOpens
<1>2. efSince' \in Int
  BY <1>1, EventFeedAssumption DEF EfInv, FeedTypes
<1>3. FeedTypes'
  BY <1>1, <1>2 DEF EfInv, FeedTypes, NotStreamed
<1>4. StreamedIds' = {}
  <2>1. \A e \in DOMAIN efEvents' : efWritten'[e] = 0
    BY <1>1, EventsAre DEF EfInv, NotStreamed
  <2>. QED  BY <2>1 DEF StreamedIds
<1>5. CursorInv' /\ SkipInv'
  BY <1>1, <1>2, <1>4 DEF CursorInv, SkipInv
<1>6. PageInv'
  <2>1. LiveIds' \subseteq LiveIds
    BY <1>1 DEF LiveIds
  <2>. QED  BY <1>1, <2>1, PagesStay
<1>. QED  BY <1>3, <1>5, <1>6 DEF EfInv

\* Retention, the clock and a lost connection.
LEMMA OtherFeedStep ==
  ASSUME EfInv, DeleteOldest \/ StreamEnds \/ EfTick
  PROVE  EfInv'
<1>1. /\ UNCHANGED <<efEvents, efSince, efCursor, efWritten, efPages>> /\ efRemoved' \in {efRemoved, efRemoved + 1}
      /\ efNow' \in {efNow, efNow + 1} /\ (efStream' = "polled" => efStream = "polled")
  BY DEF DeleteOldest, StreamEnds, EfTick
<1>2. efRemoved \in Nat /\ efNow \in Nat
  BY DEF EfInv, FeedTypes
<1>3. efRemoved' \in Nat /\ efNow' \in Nat
  BY <1>1, <1>2
<1>4. LiveIds' \subseteq LiveIds
  <2>1. \A e \in DOMAIN efEvents : e \in Nat
    BY EventsAre DEF EfInv
  <2>. QED  BY <1>1, <1>2, <2>1 DEF LiveIds
<1>5. FeedTypes'
  BY <1>1, <1>3 DEF EfInv, FeedTypes
<1>6. CursorInv' /\ SkipInv'
  BY <1>1, <1>3, <1>4, StreamStays
<1>7. PageInv'
  BY <1>1, <1>4, PagesStay
<1>. QED  BY <1>5, <1>6, <1>7 DEF EfInv

\* Nothing has been streamed or shown at first.
LEMMA FeedStarts == EfInit => EfInv
<1>. SUFFICES ASSUME EfInit PROVE EfInv
  OBVIOUS
<1>1. /\ efNow = 1 /\ efEvents = <<>> /\ efRemoved = 0 /\ efSince = 0 /\ efCursor = 0 /\ efWritten = NotStreamed
      /\ efPages = [pc |-> "idle", before |-> 0, top |-> 0, shown |-> NotStreamed]
  BY DEF EfInit, NoPages
<1>2. NotStreamed \in [EventIds -> {0, 1}] /\ \A e \in EventIds : NotStreamed[e] = 0
  BY DEF NotStreamed
<1>3. FeedTypes
  BY <1>1, <1>2, EventFeedAssumption DEF FeedTypes
<1>4. StreamedIds = {} /\ LiveIds = {}
  BY <1>1 DEF StreamedIds, LiveIds
<1>5. CursorInv /\ SkipInv
  BY <1>1, <1>4 DEF CursorInv, SkipInv
<1>6. PageInv
  <2>1. efPages \in [pc : {"idle", "more", "done"}, before : Nat, top : 0 .. Len(efEvents), shown : [EventIds -> {0, 1}]]
    BY <1>1, <1>2
  <2>. QED  BY <1>1, <1>2, <1>4, <2>1 DEF PageInv
<1>. QED  BY <1>3, <1>5, <1>6 DEF EfInv

\* No step of the store, of the stream or of a client breaks the invariant.
LEMMA FeedStep == EfInv /\ [EfNext]_efVars => EfInv'
<1>. SUFFICES ASSUME EfInv, [EfNext]_efVars PROVE EfInv'
  OBVIOUS
<1>1. CASE \E skew \in Skews, delay \in Delays : InsertEvent(skew, delay)
  BY <1>1, StoreStep
<1>2. CASE UNCHANGED efVars
  <2>1. /\ UNCHANGED <<efEvents, efSince, efCursor, efWritten, efPages>> /\ LiveIds' \subseteq LiveIds
        /\ efNow' \in Nat /\ efRemoved' \in Nat /\ efStream' = efStream
    BY <1>2 DEF efVars, LiveIds, EfInv, FeedTypes
  <2>. QED  BY <2>1, StreamStays, PagesStay DEF EfInv
<1>. QED  BY <1>1, <1>2, OpenStep, OtherFeedStep, PollStep, PageStep DEF EfNext

\* Whatever is stored, deleted or delayed, and for any limits: the live stream
\* writes no event twice and passes one over only for a cause it names, and a
\* reader who pages back sees each event that is kept all along exactly once.
THEOREM FeedsStayTrue == EfSpec => []FeedsShowEvents
<1>1. EfInv => FeedsShowEvents
  <2>. SUFFICES ASSUME EfInv PROVE FeedsShowEvents
    OBVIOUS
  <2>1. \A e \in EventIds : efWritten[e] \in {0, 1} /\ efPages.shown[e] \in {0, 1}
    BY DEF EfInv, FeedTypes, PageInv
  <2>2. StreamSkipsHaveACause
    BY <2>1 DEF StreamSkipsHaveACause, EfInv, SkipInv
  <2>3. PagesShowEachEventOnce
    BY <2>1 DEF PagesShowEachEventOnce, EfInv, PageInv
  <2>. QED  BY <2>2, <2>3 DEF FeedsShowEvents
<1>. QED  BY <1>1, FeedStarts, FeedStep, PTL DEF EfSpec

----------------------------------------------------------------------------
(* The live log and its readers.  A publisher walks copies of the lists'    *)
(* headers over arrays that go on changing; the invariant says what the     *)
(* copies still stand for.  A new subscriber lands behind the copied length *)
(* or in an array of its own, so the slots ahead keep their channels, and   *)
(* the channels ahead and those served are disjoint and cover the ones that *)
(* were there at the copy.  Only a cancel moves them, and it disturbs every *)
(* walk.  A reader has been promised the rows at or above its cursor; the   *)
(* next page takes the rest from the top, so nothing falls between pages.   *)

Slot == Subscribers \cup {"none"}
SliceHeader == [array : Nat, len : Nat]
WalkHeader == [array : Nat, len : Nat, at : Nat]
Channel == [state : {"none", "open", "closed"}, list : Lists \cup {"none"}, buffer : Seq(Nat)]
Publisher ==
  [pc : {"insert", "publish", "send", "answered", "failed", "panicked"}, attempts : Nat, todo : SUBSET Nat,
   walk : Seq(WalkHeader), owed : SUBSET Slot, offered : Seq(Slot), disturbed : BOOLEAN]

LogTypes ==
  /\ lsNext \in Nat \ {0} /\ lsRows \subseteq 1 .. lsNext - 1
  /\ lsArrays \in Seq(Seq(Slot)) /\ lsSlice \in [Lists -> SliceHeader]
  /\ lsChan \in [Subscribers -> Channel] /\ lsPub \in [Publishers -> Publisher]

\* A list's slice is its own stretch of an array, and holds its open channels, each once.
SliceSound(A, s, C, list) ==
  /\ s.len = 0 => s.array = 0
  /\ s.len > 0 => s.array \in 1 .. Len(A) /\ s.len <= Len(A[s.array])
  /\ \A i \in 1 .. s.len : /\ A[s.array][i] \in Subscribers
                           /\ C[A[s.array][i]].state = "open" /\ C[A[s.array][i]].list = list
  /\ \A i, j \in 1 .. s.len : A[s.array][i] = A[s.array][j] => i = j
  /\ \A c \in Subscribers : C[c].state = "open" /\ C[c].list = list => \E i \in 1 .. s.len : A[s.array][i] = c

HubSound(A, S, C) ==
  /\ \A list \in Lists : SliceSound(A, S[list], C, list)
  /\ \A c \in Subscribers : C[c].state = "open" => C[c].list \in Lists
  /\ S["project"].array > 0 => S["project"].array # S["all"].array

\* The channels a copied slice still leads to.
Ahead(A, h) == {A[h.array][i] : i \in h.at .. h.len}

\* A copied slice lies within its array.
HeaderFits(A, h) == h.array \in 1 .. Len(A) /\ h.at \in 1 .. h.len /\ h.len <= Len(A[h.array])

\* The lists have at most grown since the copy, and every channel ahead is open, and there once.
HeaderSound(A, S, C, h) ==
  /\ \A list \in Lists : S[list].array = h.array => h.len <= S[list].len
  /\ \A i \in h.at .. h.len : A[h.array][i] \in Subscribers /\ C[A[h.array][i]].state = "open"
  /\ \A i, j \in h.at .. h.len : A[h.array][i] = A[h.array][j] => i = j

\* An undisturbed walk: no channel is ahead twice, or ahead and served, or served twice; and every
\* channel that was there at the copy is ahead or served.
WalkSound(A, S, C, pub) ==
  /\ \A k \in DOMAIN pub.walk : HeaderSound(A, S, C, pub.walk[k])
  /\ \A j, k \in DOMAIN pub.walk : j # k => Ahead(A, pub.walk[j]) \cap Ahead(A, pub.walk[k]) = {}
  /\ \A k \in DOMAIN pub.walk, n \in DOMAIN pub.offered : pub.offered[n] \notin Ahead(A, pub.walk[k])
  /\ \A m, n \in DOMAIN pub.offered : pub.offered[m] = pub.offered[n] => m = n
  /\ \A c \in pub.owed : \/ \E k \in DOMAIN pub.walk : c \in Ahead(A, pub.walk[k])
                         \/ \E n \in DOMAIN pub.offered : pub.offered[n] = c

PubSound(pub, A, S, C, next) ==
  /\ pub.pc = "publish" => pub.todo \subseteq 1 .. next - 1
  /\ pub.pc = "send" =>
       /\ pub.todo # {} /\ pub.todo \subseteq 1 .. next - 1
       /\ \A k \in DOMAIN pub.walk : HeaderFits(A, pub.walk[k])
       /\ ~pub.disturbed => WalkSound(A, S, C, pub)

HubInv ==
  /\ HubSound(lsArrays, lsSlice, lsChan)
  /\ \A p \in Publishers : PubSound(lsPub[p], lsArrays, lsSlice, lsChan, lsNext)
  /\ \A p \in lsPanics : p \in Publishers /\ lsPub[p].pc = "panicked" /\ lsPub[p].disturbed

\* The rows a reader has been promised are the ones at or above its cursor.
ReaderInv ==
  /\ lsPage \in [before : Nat, seen : SUBSET Nat, again : SUBSET Nat, done : BOOLEAN, first : SUBSET Nat]
  /\ lsPage.again = {} /\ lsPage.first \subseteq 1 .. lsNext - 1
  /\ ~lsPage.done /\ lsPage.before = 0 => lsPage.seen = {}
  /\ ~lsPage.done /\ lsPage.before > 0 => /\ \A r \in lsPage.first \cap lsRows : r >= lsPage.before => r \in lsPage.seen
                                          /\ \A r \in lsPage.seen : r >= lsPage.before
  /\ lsPage.done => lsPage.first \cap lsRows \subseteq lsPage.seen

NewestKept == {r \in 1 .. lsNext - 1 : r >= lsNext - (RetentionCap - 1)} \subseteq lsRows

LogInv == LogTypes /\ HubInv /\ ReaderInv /\ NewestKept

\* A walk stays sound when the slots ahead keep their channels, those stay open, and the lists grow.
LEMMA WalkStays ==
  ASSUME NEW pub \in Publisher, NEW A, NEW B, NEW S, NEW T, NEW C, NEW D, WalkSound(A, S, C, pub),
         \A k \in DOMAIN pub.walk : \A i \in pub.walk[k].at .. pub.walk[k].len :
            A[pub.walk[k].array][i] = B[pub.walk[k].array][i],
         \A c \in Subscribers : C[c].state = "open" => D[c].state = "open",
         \A k \in DOMAIN pub.walk : \A list \in Lists :
            T[list].array = pub.walk[k].array => pub.walk[k].len <= T[list].len
  PROVE  WalkSound(B, T, D, pub)
<1>1. ASSUME NEW k \in DOMAIN pub.walk
      PROVE  Ahead(B, pub.walk[k]) = Ahead(A, pub.walk[k]) /\ HeaderSound(B, T, D, pub.walk[k])
  <2>1. PICK h : h = pub.walk[k]
    OBVIOUS
  <2>2. \A i \in h.at .. h.len : A[h.array][i] = B[h.array][i]
    BY <2>1
  <2>3. HeaderSound(A, S, C, h)
    BY <2>1 DEF WalkSound
  <2>4. Ahead(B, h) = Ahead(A, h)
    BY <2>2 DEF Ahead
  <2>5. \A list \in Lists : T[list].array = h.array => h.len <= T[list].len
    BY <2>1
  <2>6. \A i \in h.at .. h.len : B[h.array][i] \in Subscribers /\ D[B[h.array][i]].state = "open"
    BY <2>2, <2>3 DEF HeaderSound
  <2>7. \A i, j \in h.at .. h.len : B[h.array][i] = B[h.array][j] => i = j
    BY <2>2, <2>3 DEF HeaderSound
  <2> QED
    BY <2>1, <2>4, <2>5, <2>6, <2>7 DEF HeaderSound
<1>2. \A j, k \in DOMAIN pub.walk : j # k => Ahead(B, pub.walk[j]) \cap Ahead(B, pub.walk[k]) = {}
  BY <1>1 DEF WalkSound
<1>3. \A k \in DOMAIN pub.walk, n \in DOMAIN pub.offered : pub.offered[n] \notin Ahead(B, pub.walk[k])
  BY <1>1 DEF WalkSound
<1>4. \A c \in pub.owed : \/ \E k \in DOMAIN pub.walk : c \in Ahead(B, pub.walk[k])
                          \/ \E n \in DOMAIN pub.offered : pub.offered[n] = c
  BY <1>1 DEF WalkSound
<1> QED
  BY <1>1, <1>2, <1>3, <1>4 DEF WalkSound

\* A publisher is as it was when the lists and channels it looks at are.
LEMMA PublisherStays ==
  ASSUME NEW pub \in Publisher, NEW A, NEW S, NEW C, NEW D, NEW next \in Nat, NEW later \in Nat, next <= later,
         PubSound(pub, A, S, C, next), \A list \in Lists : S[list] \in SliceHeader,
         \A c \in Subscribers : C[c].state = "open" => D[c].state = "open"
  PROVE  PubSound(pub, A, S, D, later)
<1>1. ASSUME WalkSound(A, S, C, pub) PROVE WalkSound(A, S, D, pub)
  <2>1. \A k \in DOMAIN pub.walk : \A list \in Lists :
            S[list].array = pub.walk[k].array => pub.walk[k].len <= S[list].len
    BY <1>1 DEF WalkSound, HeaderSound
  <2> QED
    BY <1>1, <2>1, WalkStays
<1>2. 1 .. next - 1 \subseteq 1 .. later - 1
  OBVIOUS
<1> QED
  BY <1>1, <1>2 DEF PubSound

\* Channels whose state and list stay.
LEMMA HubStays ==
  ASSUME NEW A, NEW S, NEW C, NEW D, HubSound(A, S, C),
         \A c \in Subscribers : C[c].state = D[c].state /\ C[c].list = D[c].list
  PROVE  HubSound(A, S, D)
<1>1. ASSUME NEW list \in Lists PROVE SliceSound(A, S[list], D, list)
  <2>1. PICK s : s = S[list]
    OBVIOUS
  <2>2. SliceSound(A, s, C, list)
    BY <2>1 DEF HubSound
  <2> QED
    BY <2>1, <2>2 DEF SliceSound
<1> QED
  BY <1>1 DEF HubSound

\* A list of one channel more, in a slot behind its slice or in a new array.
Grown(A, B, S, T, c, list) ==
  /\ Len(A) \in Nat /\ Len(B) \in Nat /\ S \in [Lists -> SliceHeader] /\ T \in [Lists -> SliceHeader]
  /\ \A l \in Lists \ {list} : T[l] = S[l]
  /\ T[list].len = S[list].len + 1
  /\ T[list].array \in 1 .. Len(B) /\ T[list].len <= Len(B[T[list].array])
  /\ \A i \in 1 .. S[list].len : B[T[list].array][i] = A[S[list].array][i]
  /\ B[T[list].array][S[list].len + 1] = c
  /\ \A k \in 1 .. Len(A) : /\ k \in 1 .. Len(B) /\ Len(B[k]) = Len(A[k]) /\ Len(A[k]) \in Nat
                            /\ \A i \in 1 .. Len(A[k]) : B[k][i] = A[k][i] \/ (k = S[list].array /\ i = S[list].len + 1)
  /\ T[list].array = S[list].array \/ T[list].array = Len(A) + 1

\* Its new channel is opened, and the other ones stay.
Opened(C, D, c, list) ==
  /\ C[c].state = "none" /\ D[c].state = "open" /\ D[c].list = list
  /\ \A d \in Subscribers \ {c} : C[d].state = D[d].state /\ C[d].list = D[d].list

\* The lists are sound with one channel more.
LEMMA GrownHub ==
  ASSUME NEW A, NEW B, NEW S, NEW T, NEW C, NEW D, NEW c \in Subscribers, NEW list \in Lists,
         HubSound(A, S, C), Grown(A, B, S, T, c, list), Opened(C, D, c, list)
  PROVE  HubSound(B, T, D)
<1>0. PICK s, t : s = S[list] /\ t = T[list]
  OBVIOUS
<1>a. /\ Len(A) \in Nat /\ Len(B) \in Nat /\ S \in [Lists -> SliceHeader] /\ T \in [Lists -> SliceHeader]
      /\ \A l \in Lists \ {list} : T[l] = S[l]
      /\ t.len = s.len + 1 /\ t.array \in 1 .. Len(B) /\ t.len <= Len(B[t.array])
      /\ \A i \in 1 .. s.len : B[t.array][i] = A[s.array][i]
      /\ B[t.array][s.len + 1] = c
      /\ \A k \in 1 .. Len(A) : /\ k \in 1 .. Len(B) /\ Len(B[k]) = Len(A[k])
                                /\ \A i \in 1 .. Len(A[k]) : B[k][i] = A[k][i] \/ (k = s.array /\ i = s.len + 1)
      /\ t.array = s.array \/ t.array = Len(A) + 1
  BY <1>0 DEF Grown
<1>b. /\ C[c].state = "none" /\ D[c].state = "open" /\ D[c].list = list
      /\ \A d \in Subscribers \ {c} : C[d].state = D[d].state /\ C[d].list = D[d].list
  BY DEF Opened
<1> USE <1>0, <1>a, <1>b
<1>1. \A l \in Lists : SliceSound(A, S[l], C, l) /\ S[l].array \in Nat /\ S[l].len \in Nat
                       /\ T[l].array \in Nat /\ T[l].len \in Nat
  BY DEF HubSound, SliceHeader
<1>2. SliceSound(A, s, C, list) /\ s.array \in Nat /\ s.len \in Nat
  BY <1>1
<1>3. SliceSound(B, t, D, list)
  <2>1. \A i \in 1 .. t.len : i \in 1 .. s.len \/ i = s.len + 1
    BY <1>2
  <2>2. \A i \in 1 .. s.len : /\ B[t.array][i] \in Subscribers \ {c}
                              /\ D[B[t.array][i]].state = "open" /\ D[B[t.array][i]].list = list
    <3> TAKE i \in 1 .. s.len
    <3>1. PICK d : d = A[s.array][i]
      OBVIOUS
    <3>2. d \in Subscribers /\ C[d].state = "open" /\ C[d].list = list
      BY <1>2, <3>1 DEF SliceSound
    <3>3. d # c /\ D[d].state = "open" /\ D[d].list = list
      BY <3>2
    <3> QED
      BY <3>1, <3>2, <3>3
  <2>3. \A i \in 1 .. t.len : /\ B[t.array][i] \in Subscribers
                              /\ D[B[t.array][i]].state = "open" /\ D[B[t.array][i]].list = list
    BY <2>1, <2>2
  <2>4. ASSUME NEW i \in 1 .. t.len, NEW j \in 1 .. t.len, B[t.array][i] = B[t.array][j] PROVE i = j
    <3>1. CASE i \in 1 .. s.len /\ j \in 1 .. s.len
      BY <1>2, <2>4, <3>1 DEF SliceSound
    <3>2. CASE i = s.len + 1 /\ j \in 1 .. s.len
      BY <2>2, <2>4, <3>2
    <3>3. CASE j = s.len + 1 /\ i \in 1 .. s.len
      BY <2>2, <2>4, <3>3
    <3> QED
      BY <2>1, <3>1, <3>2, <3>3
  <2>5. ASSUME NEW d \in Subscribers, D[d].state = "open", D[d].list = list
        PROVE  \E i \in 1 .. t.len : B[t.array][i] = d
    <3>1. CASE d = c
      <4>1. s.len + 1 \in 1 .. t.len
        BY <1>2
      <4> QED
        BY <3>1, <4>1
    <3>2. CASE d # c
      <4>1. PICK i \in 1 .. s.len : A[s.array][i] = d
        BY <1>2, <2>5, <3>2 DEF SliceSound
      <4>2. i \in 1 .. t.len
        BY <1>2
      <4> QED
        BY <4>1, <4>2
    <3> QED
      BY <3>1, <3>2
  <2>6. t.len # 0
    BY <1>2
  <2> QED
    BY <2>3, <2>4, <2>5, <2>6 DEF SliceSound
<1>4. ASSUME NEW l \in Lists \ {list}
      PROVE  SliceSound(B, T[l], D, l) /\ (T[l].array > 0 => T[l].array # t.array)
  <2>1. PICK u : u = S[l] /\ u = T[l]
    OBVIOUS
  <2>2. SliceSound(A, u, C, l) /\ u.array \in Nat /\ u.len \in Nat
    BY <1>1, <2>1
  <2>3. u.array > 0 => u.array # s.array /\ u.array # t.array
    <3>1. u.array > 0 => u.array # s.array
      BY <2>1 DEF HubSound, Lists
    <3>2. u.array > 0 => u.array \in 1 .. Len(A)
      BY <2>2 DEF SliceSound
    <3>3. u.array > 0 => u.array # Len(A) + 1
      BY <2>2, <3>2
    <3> QED
      BY <3>1, <3>3
  <2>4. ASSUME NEW i \in 1 .. u.len PROVE B[u.array][i] = A[u.array][i]
    <3>1. u.array \in 1 .. Len(A) /\ u.len <= Len(A[u.array]) /\ u.array > 0
      BY <2>2 DEF SliceSound
    <3>2. Len(B[u.array]) = Len(A[u.array]) /\ i \in 1 .. Len(A[u.array])
      BY <2>2, <3>1
    <3> QED
      BY <2>3, <3>1, <3>2
  <2>5. u.len > 0 => u.array \in 1 .. Len(B) /\ u.len <= Len(B[u.array])
    BY <2>2 DEF SliceSound
  <2>6. \A i \in 1 .. u.len : /\ B[u.array][i] \in Subscribers
                              /\ D[B[u.array][i]].state = "open" /\ D[B[u.array][i]].list = l
    <3>1. \A i \in 1 .. u.len : /\ A[u.array][i] \in Subscribers
                                /\ C[A[u.array][i]].state = "open" /\ C[A[u.array][i]].list = l
      BY <2>2 DEF SliceSound
    <3> TAKE i \in 1 .. u.len
    <3>2. PICK d : d = A[u.array][i]
      OBVIOUS
    <3>5. d = B[u.array][i]
      BY <2>4, <3>2
    <3>3. d \in Subscribers /\ C[d].state = "open" /\ C[d].list = l
      BY <3>1, <3>2
    <3>4. d # c /\ D[d].state = "open" /\ D[d].list = l
      BY <3>3
    <3> QED
      BY <3>3, <3>4, <3>5
  <2>7. \A i, j \in 1 .. u.len : B[u.array][i] = B[u.array][j] => i = j
    BY <2>2, <2>4 DEF SliceSound
  <2>8. ASSUME NEW d \in Subscribers, D[d].state = "open", D[d].list = l
        PROVE  \E i \in 1 .. u.len : B[u.array][i] = d
    <3>1. d # c /\ C[d].state = "open" /\ C[d].list = l
      BY <2>8
    <3>2. PICK i \in 1 .. u.len : A[u.array][i] = d
      BY <2>2, <3>1 DEF SliceSound
    <3> QED
      BY <2>4, <3>2
  <2>9. u.len = 0 => u.array = 0
    BY <2>2 DEF SliceSound
  <2>10. SliceSound(B, u, D, l)
    BY <2>5, <2>6, <2>7, <2>8, <2>9 DEF SliceSound
  <2> QED
    BY <2>1, <2>3, <2>10
<1>5. \A l \in Lists : SliceSound(B, T[l], D, l)
  BY <1>3, <1>4
<1>6. \A d \in Subscribers : D[d].state = "open" => D[d].list \in Lists
  BY DEF HubSound
<1>7. T["project"].array > 0 => T["project"].array # T["all"].array
  <2>1. CASE list = "project"
    <3>1. T["all"].array > 0 => T["all"].array # t.array
      BY <1>4, <2>1 DEF Lists
    <3>2. T["all"].array \in Nat /\ T["project"] = t
      BY <1>1, <2>1 DEF Lists
    <3> QED
      BY <3>1, <3>2
  <2>2. CASE list = "all"
    BY <1>4, <2>2 DEF Lists
  <2> QED
    BY <2>1, <2>2 DEF Lists
<1> QED
  BY <1>5, <1>6, <1>7 DEF HubSound

\* What a publisher walks is not touched by it.
LEMMA GrownWalk ==
  ASSUME NEW A, NEW B, NEW S, NEW T, NEW C, NEW D, NEW c \in Subscribers, NEW list \in Lists,
         Grown(A, B, S, T, c, list), Opened(C, D, c, list),
         NEW next, NEW pub \in Publisher, PubSound(pub, A, S, C, next)
  PROVE  PubSound(pub, B, T, D, next)
<1>0. PICK s, t : s = S[list] /\ t = T[list]
  OBVIOUS
<1>a. /\ Len(A) \in Nat /\ Len(B) \in Nat /\ S \in [Lists -> SliceHeader] /\ T \in [Lists -> SliceHeader]
      /\ \A l \in Lists \ {list} : T[l] = S[l]
      /\ t.len = s.len + 1
      /\ \A k \in 1 .. Len(A) : /\ k \in 1 .. Len(B) /\ Len(B[k]) = Len(A[k]) /\ Len(A[k]) \in Nat
                                /\ \A i \in 1 .. Len(A[k]) : B[k][i] = A[k][i] \/ (k = s.array /\ i = s.len + 1)
      /\ t.array = s.array \/ t.array = Len(A) + 1
  BY <1>0 DEF Grown
<1>b. \A d \in Subscribers : C[d].state = "open" => D[d].state = "open"
  BY DEF Opened
<1> USE <1>0, <1>a, <1>b
<1>1. s.array \in Nat /\ s.len \in Nat
  BY DEF SliceHeader
<1>2. ASSUME pub.pc = "send", NEW k \in DOMAIN pub.walk PROVE HeaderFits(B, pub.walk[k])
  BY <1>2 DEF PubSound, HeaderFits
<1>3. ASSUME pub.pc = "send", ~pub.disturbed PROVE WalkSound(B, T, D, pub)
  <2>1. WalkSound(A, S, C, pub) /\ \A k \in DOMAIN pub.walk : HeaderFits(A, pub.walk[k])
    BY <1>3 DEF PubSound
  <2>2. ASSUME NEW k \in DOMAIN pub.walk
        PROVE  /\ \A i \in pub.walk[k].at .. pub.walk[k].len : A[pub.walk[k].array][i] = B[pub.walk[k].array][i]
               /\ \A l \in Lists : T[l].array = pub.walk[k].array => pub.walk[k].len <= T[l].len
    <3>1. PICK h : h = pub.walk[k]
      OBVIOUS
    <3>2. h \in WalkHeader
      <4>1. pub.walk \in Seq(WalkHeader)
        BY DEF Publisher
      <4> QED
        BY <3>1, <4>1
    <3>3. /\ h.array \in 1 .. Len(A) /\ h.at \in 1 .. h.len /\ h.len <= Len(A[h.array])
          /\ \A l \in Lists : S[l].array = h.array => h.len <= S[l].len
      BY <2>1, <3>1 DEF HeaderFits, WalkSound, HeaderSound
    <3>4. h.array \in Nat /\ h.at \in Nat /\ h.len \in Nat /\ Len(A[h.array]) \in Nat
      BY <3>2, <3>3 DEF WalkHeader
    <3>5. ASSUME NEW i \in h.at .. h.len PROVE A[h.array][i] = B[h.array][i]
      <4>1. i \in 1 .. Len(A[h.array])
        BY <3>3, <3>4
      <4>2. h.array = s.array => i # s.len + 1
        <5>1. h.array = s.array => h.len <= s.len
          BY <3>3
        <5> QED
          BY <1>1, <3>4, <5>1
      <4> QED
        BY <3>3, <4>1, <4>2
    <3>6. ASSUME NEW l \in Lists, T[l].array = h.array PROVE h.len <= T[l].len
      <4>1. CASE l # list
        BY <3>3, <3>6, <4>1
      <4>2. CASE l = list
        <5>1. t.array # Len(A) + 1
          BY <3>3, <3>4, <3>6, <4>2
        <5>2. h.len <= s.len
          BY <3>3, <3>6, <4>2, <5>1
        <5> QED
          BY <1>1, <3>4, <4>2, <5>2
      <4> QED
        BY <4>1, <4>2
    <3> QED
      BY <3>1, <3>5, <3>6
  <2> QED
    BY <2>1, <2>2, WalkStays
<1> QED
  BY <1>2, <1>3 DEF PubSound

\* A new subscriber.
LEMMA SubscribeKeeps ==
  ASSUME LogTypes, HubInv, NEW c \in Subscribers, NEW list \in Lists, Subscribe(c, list)
  PROVE  LogTypes' /\ HubInv'
<1>1. PICK A, B, S, T, C, D : /\ A = lsArrays /\ B = lsArrays' /\ S = lsSlice /\ T = lsSlice'
                              /\ C = lsChan /\ D = lsChan'
  OBVIOUS
<1>2. A \in Seq(Seq(Slot)) /\ S \in [Lists -> SliceHeader] /\ C \in [Subscribers -> Channel]
  BY <1>1 DEF LogTypes
<1>3. PICK s : s = S[list]
  OBVIOUS
<1>4. s \in SliceHeader /\ s.array \in Nat /\ s.len \in Nat
  BY <1>2, <1>3 DEF SliceHeader
<1>5. /\ Len(A) \in Nat /\ \A k \in 1 .. Len(A) : A[k] \in Seq(Slot) /\ Len(A[k]) \in Nat
  BY <1>2
<1>6. HubSound(A, S, C) /\ SliceSound(A, s, C, list)
  BY <1>1, <1>3 DEF HubInv, HubSound
<1>7. /\ C[c].state = "none" /\ D \in [Subscribers -> Channel] /\ D[c].state = "open" /\ D[c].list = list
      /\ \A d \in Subscribers \ {c} : C[d] = D[d]
  BY <1>1, <1>2 DEF Subscribe, Channel
<1>8. PICK slots \in Nat : slots = Slots(s) /\ (s.array > 0 => slots = Len(A[s.array])) /\ (s.array = 0 => slots = 0)
  <2>1. CASE s.array = 0
    BY <2>1 DEF Slots
  <2>2. CASE s.array > 0
    <3>1. s.array \in 1 .. Len(A)
      BY <1>4, <1>6, <2>2 DEF SliceSound
    <3> QED
      BY <1>1, <1>4, <1>5, <2>2, <3>1 DEF Slots
  <2> QED
    BY <1>4, <2>1, <2>2
<1>9. /\ B \in Seq(Seq(Slot)) /\ T \in [Lists -> SliceHeader]
      /\ \A l \in Lists \ {list} : T[l] = S[l]
      /\ T[list].len = s.len + 1 /\ T[list].array \in 1 .. Len(B) /\ T[list].len <= Len(B[T[list].array])
      /\ \A i \in 1 .. s.len : B[T[list].array][i] = A[s.array][i]
      /\ B[T[list].array][s.len + 1] = c
      /\ \A k \in 1 .. Len(A) : /\ k \in 1 .. Len(B) /\ Len(B[k]) = Len(A[k])
                                /\ \A i \in 1 .. Len(A[k]) : B[k][i] = A[k][i] \/ (k = s.array /\ i = s.len + 1)
      /\ T[list].array = s.array \/ T[list].array = Len(A) + 1
  <2>1. CASE s.len < slots
    <3>1. s.array \in 1 .. Len(A) /\ slots = Len(A[s.array])
      BY <1>4, <1>6, <1>8, <2>1 DEF SliceSound
    <3>2. PICK a \in Seq(Slot) : a = A[s.array]
      BY <1>5, <3>1
    <3>3. PICK b : b = [a EXCEPT ![s.len + 1] = c]
      OBVIOUS
    <3>4. PICK t : t = [s EXCEPT !.len = s.len + 1]
      OBVIOUS
    <3>5. B = [A EXCEPT ![s.array] = b] /\ T = [S EXCEPT ![list] = t]
      BY <1>1, <1>3, <1>8, <2>1, <3>2, <3>3, <3>4 DEF Subscribe
    <3>6. b \in Seq(Slot) /\ Len(b) = Len(a) /\ b[s.len + 1] = c /\ \A i \in 1 .. Len(a) : i # s.len + 1 => b[i] = a[i]
      <4>1. c \in Slot /\ s.len + 1 \in 1 .. Len(a)
        BY <1>4, <2>1, <3>1, <3>2 DEF Slot
      <4> QED
        BY <3>2, <3>3, <4>1
    <3>7. B \in Seq(Seq(Slot)) /\ Len(B) = Len(A) /\ B[s.array] = b /\ \A k \in 1 .. Len(A) : k # s.array => B[k] = A[k]
      BY <1>2, <3>1, <3>5, <3>6
    <3>8. t \in SliceHeader /\ t.array = s.array /\ t.len = s.len + 1
      BY <1>4, <3>4 DEF SliceHeader
    <3>9. T \in [Lists -> SliceHeader] /\ T[list] = t /\ \A l \in Lists \ {list} : T[l] = S[l]
      BY <1>2, <3>5, <3>8
    <3>10. s.len + 1 <= Len(b) /\ \A i \in 1 .. s.len : b[i] = a[i]
      BY <1>4, <2>1, <3>1, <3>2, <3>6
    <3>11. ASSUME NEW k \in 1 .. Len(A)
           PROVE  /\ k \in 1 .. Len(B) /\ Len(B[k]) = Len(A[k])
                  /\ \A i \in 1 .. Len(A[k]) : B[k][i] = A[k][i] \/ (k = s.array /\ i = s.len + 1)
      <4>1. CASE k = s.array
        BY <3>2, <3>6, <3>7, <4>1
      <4>2. CASE k # s.array
        BY <3>7, <4>2
      <4> QED
        BY <4>1, <4>2
    <3> QED
      BY <3>1, <3>2, <3>6, <3>7, <3>8, <3>9, <3>10, <3>11
  <2>2. CASE ~(s.len < slots)
    <3>1. PICK m : m = Max({1, 2 * s.len})
      OBVIOUS
    <3>2. m \in Nat /\ m >= s.len + 1
      <4>1. \E x \in {1, 2 * s.len} : \A y \in {1, 2 * s.len} : x >= y
        BY <1>4
      <4>2. m \in {1, 2 * s.len} /\ \A y \in {1, 2 * s.len} : m >= y
        BY <3>1, <4>1 DEF Max
      <4> QED
        BY <1>4, <4>2
    <3>3. PICK b : b = [i \in 1 .. m |-> IF i <= s.len THEN A[s.array][i] ELSE IF i = s.len + 1 THEN c ELSE "none"]
      OBVIOUS
    <3>4. PICK t : t = [array |-> Len(A) + 1, len |-> s.len + 1]
      OBVIOUS
    <3>5. B = Append(A, b) /\ T = [S EXCEPT ![list] = t]
      BY <1>1, <1>3, <1>8, <2>2, <3>1, <3>3, <3>4 DEF Subscribe
    <3>6. ASSUME NEW i \in 1 .. m PROVE b[i] \in Slot
      <4>1. CASE i <= s.len
        <5>1. A[s.array][i] \in Subscribers
          BY <1>4, <1>6, <4>1 DEF SliceSound
        <5> QED
          BY <3>3, <4>1, <5>1 DEF Slot
      <4>2. CASE ~(i <= s.len)
        BY <3>3, <4>2 DEF Slot
      <4> QED
        BY <4>1, <4>2
    <3>7. b \in Seq(Slot) /\ Len(b) = m
      <4>1. b \in [1 .. m -> Slot]
        BY <3>3, <3>6
      <4> QED
        BY <3>2, <4>1, SeqDef
    <3>8. b[s.len + 1] = c /\ \A i \in 1 .. s.len : b[i] = A[s.array][i]
      BY <1>4, <3>2, <3>3
    <3>9. B \in Seq(Seq(Slot)) /\ Len(B) = Len(A) + 1 /\ B[Len(A) + 1] = b /\ \A k \in 1 .. Len(A) : B[k] = A[k]
      BY <1>2, <3>5, <3>7
    <3>10. t \in SliceHeader /\ t.array = Len(A) + 1 /\ t.len = s.len + 1
      BY <1>4, <1>5, <3>4 DEF SliceHeader
    <3>11. T \in [Lists -> SliceHeader] /\ T[list] = t /\ \A l \in Lists \ {list} : T[l] = S[l]
      BY <1>2, <3>5, <3>10
    <3>12. t.array \in 1 .. Len(B)
      BY <1>5, <3>9, <3>10
    <3>13. \A k \in 1 .. Len(A) : k \in 1 .. Len(B)
      BY <1>5, <3>9
    <3> QED
      BY <3>2, <3>7, <3>8, <3>9, <3>10, <3>11, <3>12, <3>13
  <2> QED
    BY <2>1, <2>2
<1>10. Grown(A, B, S, T, c, list)
  <2>1. Len(B) \in Nat
    BY <1>9
  <2> QED
    BY <1>2, <1>3, <1>5, <1>9, <2>1 DEF Grown
<1>11. Opened(C, D, c, list)
  BY <1>7 DEF Opened
<1>12. lsPub' = lsPub /\ lsNext' = lsNext /\ lsRows' = lsRows /\ lsPanics' = lsPanics
  BY DEF Subscribe, store
<1>13. HubSound(B, T, D) /\ \A p \in Publishers : PubSound(lsPub[p], B, T, D, lsNext)
  <2>1. HubSound(B, T, D)
    BY <1>6, <1>10, <1>11, GrownHub
  <2>2. ASSUME NEW p \in Publishers PROVE PubSound(lsPub[p], B, T, D, lsNext)
    <3>1. PICK pub, next : pub = lsPub[p] /\ next = lsNext
      OBVIOUS
    <3>2. pub \in Publisher /\ PubSound(pub, A, S, C, next)
      BY <1>1, <3>1 DEF LogTypes, HubInv
    <3>3. PubSound(pub, B, T, D, next)
      BY <1>10, <1>11, <3>2, GrownWalk
    <3> QED
      BY <3>1, <3>3
  <2> QED
    BY <2>1, <2>2
<1>14. LogTypes'
  BY <1>1, <1>7, <1>9, <1>12 DEF LogTypes
<1>15. HubInv'
  BY <1>1, <1>12, <1>13 DEF HubInv
<1> QED
  BY <1>14, <1>15

\* A list without one of its channels: the later ones have moved up.
Shrunk(A, B, S, T, C, D, c, at) ==
  LET list == C[c].list
      s    == S[list]
  IN /\ list \in Lists /\ s.len > 0 /\ at \in 1 .. s.len /\ A[s.array][at] = c
     /\ S \in [Lists -> SliceHeader] /\ T \in [Lists -> SliceHeader]
     /\ Len(A) \in Nat /\ Len(B) = Len(A) /\ \A k \in 1 .. Len(A) : Len(B[k]) = Len(A[k])
     /\ \A k \in 1 .. Len(A) : k # s.array => B[k] = A[k]
     /\ \A i \in 1 .. s.len - 1 : B[s.array][i] = A[s.array][IF i >= at THEN i + 1 ELSE i]
     /\ \A l \in Lists \ {list} : T[l] = S[l]
     /\ T[list].len = s.len - 1 /\ T[list].array = IF s.len = 1 THEN 0 ELSE s.array
     /\ C[c].state = "open" /\ D[c].state = "closed" /\ D[c].list = list
     /\ \A d \in Subscribers \ {c} : C[d].state = D[d].state /\ C[d].list = D[d].list

\* The lists are sound with one channel fewer.
LEMMA ShrunkHub ==
  ASSUME NEW A, NEW B, NEW S, NEW T, NEW C, NEW D, NEW c \in Subscribers, NEW at,
         HubSound(A, S, C), Shrunk(A, B, S, T, C, D, c, at)
  PROVE  HubSound(B, T, D)
<1>0. PICK list, s, t : list = C[c].list /\ s = S[list] /\ t = T[list]
  OBVIOUS
<1>a. /\ list \in Lists /\ s.len > 0 /\ at \in 1 .. s.len /\ A[s.array][at] = c
      /\ S \in [Lists -> SliceHeader] /\ T \in [Lists -> SliceHeader]
      /\ Len(A) \in Nat /\ Len(B) = Len(A) /\ \A k \in 1 .. Len(A) : Len(B[k]) = Len(A[k])
      /\ \A k \in 1 .. Len(A) : k # s.array => B[k] = A[k]
      /\ \A i \in 1 .. s.len - 1 : B[s.array][i] = A[s.array][IF i >= at THEN i + 1 ELSE i]
      /\ \A l \in Lists \ {list} : T[l] = S[l]
      /\ t.len = s.len - 1 /\ t.array = IF s.len = 1 THEN 0 ELSE s.array
  BY <1>0 DEF Shrunk
<1>b. /\ C[c].state = "open" /\ D[c].state = "closed"
      /\ \A d \in Subscribers \ {c} : C[d].state = D[d].state /\ C[d].list = D[d].list
  BY DEF Shrunk
<1>1. \A l \in Lists : SliceSound(A, S[l], C, l) /\ S[l].array \in Nat /\ S[l].len \in Nat
                       /\ T[l].array \in Nat /\ T[l].len \in Nat
  BY <1>a DEF HubSound, SliceHeader
<1>2. SliceSound(A, s, C, list) /\ s.array \in Nat /\ s.len \in Nat /\ t.len \in Nat /\ at \in Nat
  BY <1>0, <1>a, <1>1
<1>3. SliceSound(B, t, D, list)
  <2>1. ASSUME NEW i \in 1 .. t.len
        PROVE  \E j \in 1 .. s.len : /\ j = (IF i >= at THEN i + 1 ELSE i) /\ j # at /\ B[t.array][i] = A[s.array][j]
                                     /\ A[s.array][j] \in Subscribers \ {c}
    <3>1. PICK j : j = IF i >= at THEN i + 1 ELSE i
      OBVIOUS
    <3>2. i \in 1 .. s.len - 1 /\ t.array = s.array
      BY <1>a, <1>2
    <3>3. j \in 1 .. s.len /\ j # at
      BY <1>2, <3>1, <3>2
    <3>4. B[t.array][i] = A[s.array][j]
      BY <1>a, <3>1, <3>2
    <3>5. A[s.array][j] \in Subscribers /\ A[s.array][j] # c
      BY <1>a, <1>2, <3>3 DEF SliceSound
    <3> QED
      BY <3>1, <3>3, <3>4, <3>5
  <2>2. ASSUME NEW i \in 1 .. t.len
        PROVE  /\ B[t.array][i] \in Subscribers
               /\ D[B[t.array][i]].state = "open" /\ D[B[t.array][i]].list = list
    <3>1. PICK j \in 1 .. s.len : B[t.array][i] = A[s.array][j] /\ A[s.array][j] \in Subscribers \ {c}
      BY <2>1
    <3>2. PICK d : d = A[s.array][j]
      OBVIOUS
    <3>3. d \in Subscribers \ {c} /\ C[d].state = "open" /\ C[d].list = list
      BY <1>2, <3>1, <3>2 DEF SliceSound
    <3>4. D[d].state = "open" /\ D[d].list = list
      BY <1>b, <3>3
    <3> QED
      BY <3>1, <3>2, <3>3, <3>4
  <2>3. ASSUME NEW i \in 1 .. t.len, NEW k \in 1 .. t.len, B[t.array][i] = B[t.array][k] PROVE i = k
    <3>1. PICK j \in 1 .. s.len : j = (IF i >= at THEN i + 1 ELSE i) /\ B[t.array][i] = A[s.array][j]
      BY <2>1
    <3>2. PICK m \in 1 .. s.len : m = (IF k >= at THEN k + 1 ELSE k) /\ B[t.array][k] = A[s.array][m]
      BY <2>1
    <3>3. j = m
      <4>1. A[s.array][j] = A[s.array][m]
        BY <2>3, <3>1, <3>2
      <4> QED
        BY <1>2, <4>1 DEF SliceSound
    <3> QED
      BY <1>2, <3>1, <3>2, <3>3
  <2>4. ASSUME NEW d \in Subscribers, D[d].state = "open", D[d].list = list
        PROVE  \E i \in 1 .. t.len : B[t.array][i] = d
    <3>1. d # c
      BY <1>b, <2>4
    <3>2. PICK j \in 1 .. s.len : A[s.array][j] = d
      BY <1>b, <1>2, <2>4, <3>1 DEF SliceSound
    <3>3. j # at
      BY <1>a, <3>1, <3>2
    <3>4. PICK i : i = IF j > at THEN j - 1 ELSE j
      OBVIOUS
    <3>5. i \in 1 .. s.len - 1 /\ (IF i >= at THEN i + 1 ELSE i) = j
      BY <1>a, <1>2, <3>3, <3>4
    <3>6. i \in 1 .. t.len /\ t.array = s.array
      BY <1>a, <1>2, <3>5
    <3> QED
      BY <1>a, <3>2, <3>5, <3>6
  <2>5. t.len = 0 => t.array = 0
    BY <1>a, <1>2
  <2>6. t.len > 0 => t.array \in 1 .. Len(B) /\ t.len <= Len(B[t.array])
    <3> SUFFICES ASSUME t.len > 0 PROVE t.array \in 1 .. Len(B) /\ t.len <= Len(B[t.array])
      OBVIOUS
    <3>1. t.array = s.array
      BY <1>a, <1>2
    <3>2. s.array \in 1 .. Len(A) /\ s.len <= Len(A[s.array])
      BY <1>a, <1>2 DEF SliceSound
    <3>3. Len(B[s.array]) = Len(A[s.array]) /\ s.len <= Len(B[s.array])
      BY <1>a, <3>2
    <3>4. t.len <= s.len
      BY <1>a, <1>2
    <3> QED
      BY <1>a, <1>2, <3>1, <3>2, <3>3, <3>4
  <2> QED
    BY <2>2, <2>3, <2>4, <2>5, <2>6 DEF SliceSound
<1>4. ASSUME NEW l \in Lists \ {list}
      PROVE  SliceSound(B, T[l], D, l) /\ (T[l].array > 0 => T[l].array # t.array)
  <2>1. PICK u : u = S[l] /\ u = T[l]
    BY <1>a
  <2>2. SliceSound(A, u, C, l) /\ u.array \in Nat /\ u.len \in Nat
    BY <1>1, <2>1
  <2>3. u.array > 0 => u.array # s.array
    BY <1>0, <1>a, <2>1 DEF HubSound, Lists
  <2>4. ASSUME NEW i \in 1 .. u.len PROVE B[u.array] = A[u.array]
    <3>1. u.array \in 1 .. Len(A) /\ u.array > 0
      BY <2>2 DEF SliceSound
    <3> QED
      BY <1>a, <2>3, <3>1
  <2>5. u.len > 0 => u.array \in 1 .. Len(B) /\ u.len <= Len(B[u.array])
    BY <1>a, <2>2 DEF SliceSound
  <2>6. ASSUME NEW i \in 1 .. u.len
        PROVE  /\ B[u.array][i] \in Subscribers
               /\ D[B[u.array][i]].state = "open" /\ D[B[u.array][i]].list = l
    <3>1. PICK d : d = A[u.array][i]
      OBVIOUS
    <3>2. d = B[u.array][i]
      BY <2>4, <3>1
    <3>3. d \in Subscribers /\ C[d].state = "open" /\ C[d].list = l
      BY <2>2, <3>1 DEF SliceSound
    <3>4. d # c /\ D[d].state = "open" /\ D[d].list = l
      BY <1>0, <1>b, <3>3
    <3> QED
      BY <3>2, <3>3, <3>4
  <2>7. \A i, j \in 1 .. u.len : B[u.array][i] = B[u.array][j] => i = j
    BY <2>2, <2>4 DEF SliceSound
  <2>8. ASSUME NEW d \in Subscribers, D[d].state = "open", D[d].list = l
        PROVE  \E i \in 1 .. u.len : B[u.array][i] = d
    <3>1. d # c /\ C[d].state = "open" /\ C[d].list = l
      BY <1>b, <2>8
    <3>2. PICK i \in 1 .. u.len : A[u.array][i] = d
      BY <2>2, <3>1 DEF SliceSound
    <3> QED
      BY <2>4, <3>2
  <2>9. u.len = 0 => u.array = 0
    BY <2>2 DEF SliceSound
  <2>10. SliceSound(B, u, D, l)
    BY <2>5, <2>6, <2>7, <2>8, <2>9 DEF SliceSound
  <2>11. u.array > 0 => u.array # t.array
    BY <1>a, <1>2, <2>2, <2>3
  <2> QED
    BY <2>1, <2>10, <2>11
<1>5. \A l \in Lists : SliceSound(B, T[l], D, l)
  BY <1>0, <1>3, <1>4
<1>6. \A d \in Subscribers : D[d].state = "open" => D[d].list \in Lists
  BY <1>b DEF HubSound
<1>7. T["project"].array > 0 => T["project"].array # T["all"].array
  <2>1. CASE list = "project"
    <3>1. T["all"].array > 0 => T["all"].array # t.array
      BY <1>4, <2>1 DEF Lists
    <3>2. T["all"].array \in Nat /\ T["project"] = t
      BY <1>0, <1>1, <2>1 DEF Lists
    <3> QED
      BY <3>1, <3>2
  <2>2. CASE list = "all"
    BY <1>0, <1>4, <2>2 DEF Lists
  <2> QED
    BY <1>a, <2>1, <2>2 DEF Lists
<1> QED
  BY <1>5, <1>6, <1>7 DEF HubSound

\* A subscriber that goes: it shifts the array, and so disturbs every walk.
LEMMA CancelKeeps ==
  ASSUME LogTypes, HubInv, NEW c \in Subscribers, Cancel(c)
  PROVE  LogTypes' /\ HubInv'
<1>1. PICK A, B, S, T, C, D : /\ A = lsArrays /\ B = lsArrays' /\ S = lsSlice /\ T = lsSlice'
                              /\ C = lsChan /\ D = lsChan'
  OBVIOUS
<1>2. A \in Seq(Seq(Slot)) /\ S \in [Lists -> SliceHeader] /\ C \in [Subscribers -> Channel]
  BY <1>1 DEF LogTypes
<1>3. HubSound(A, S, C) /\ C[c].state = "open"
  BY <1>1, Zenon DEF HubInv, Cancel
<1>4. PICK list \in Lists : list = C[c].list
  BY <1>3 DEF HubSound
<1>5. PICK s \in SliceHeader : s = S[list]
  BY <1>2
<1>6. SliceSound(A, s, C, list) /\ s.len \in Nat /\ s.array \in Nat
  BY <1>3, <1>5 DEF HubSound, SliceHeader
<1>7. PICK i0 \in 1 .. s.len : A[s.array][i0] = c
  BY <1>3, <1>4, <1>6 DEF SliceSound
<1>8. s.len > 0 /\ s.array \in 1 .. Len(A) /\ s.len <= Len(A[s.array])
  BY <1>6, <1>7 DEF SliceSound
<1>9. PICK a \in Seq(Slot) : a = A[s.array]
  BY <1>2, <1>8
<1>10. PICK at : at = Min({i \in 1 .. s.len : a[i] = c})
  OBVIOUS
<1>11. at \in 1 .. s.len /\ a[at] = c
  <2>1. PICK P : P = {i \in 1 .. s.len : a[i] = c}
    OBVIOUS
  <2>2. P \in SUBSET Nat /\ P # {}
    BY <1>7, <1>9, <2>1
  <2>3. \E n \in P : \A k \in P : n <= k
    BY <2>2, LeastOf
  <2>4. at \in P
    BY <1>10, <2>1, <2>3 DEF Min
  <2> QED
    BY <2>1, <2>4
<1>12. PICK b : b = [i \in DOMAIN a |-> IF i >= at /\ i < s.len THEN a[i + 1] ELSE a[i]]
  OBVIOUS
<1>13. PICK t : t = IF s.len = 1 THEN NoSlice ELSE [s EXCEPT !.len = s.len - 1]
  OBVIOUS
<1>14. /\ B = [A EXCEPT ![s.array] = b] /\ T = [S EXCEPT ![list] = t]
       /\ D = [C EXCEPT ![c] = [C[c] EXCEPT !.state = "closed", !.buffer = <<>>]]
  <2>1. B = [A EXCEPT ![s.array] = b]
    BY <1>1, <1>4, <1>5, <1>9, <1>10, <1>12, ZenonT(40) DEF Cancel
  <2>2. T = [S EXCEPT ![list] = t]
    BY <1>1, <1>4, <1>5, <1>13, Zenon DEF Cancel
  <2>3. D = [C EXCEPT ![c] = [C[c] EXCEPT !.state = "closed", !.buffer = <<>>]]
    BY <1>1, <1>2 DEF Cancel
  <2> QED
    BY <2>1, <2>2, <2>3
<1>15. b \in Seq(Slot) /\ Len(b) = Len(a) /\ \A i \in 1 .. s.len - 1 : b[i] = a[IF i >= at THEN i + 1 ELSE i]
  <2>1. Len(a) \in Nat /\ DOMAIN a = 1 .. Len(a) /\ s.len <= Len(a) /\ \A i \in 1 .. Len(a) : a[i] \in Slot
    BY <1>8, <1>9
  <2>2. \A i \in 1 .. Len(a) : b[i] \in Slot
    BY <1>6, <1>11, <1>12, <2>1
  <2>3. b \in [1 .. Len(a) -> Slot]
    BY <1>12, <2>1, <2>2
  <2>4. b \in Seq(Slot) /\ Len(b) = Len(a)
    BY <2>1, <2>3, SeqDef
  <2>5. \A i \in 1 .. s.len - 1 : b[i] = a[IF i >= at THEN i + 1 ELSE i]
    BY <1>6, <1>12, <2>1
  <2> QED
    BY <2>4, <2>5
<1>16. B \in Seq(Seq(Slot)) /\ Len(B) = Len(A) /\ B[s.array] = b /\ \A k \in 1 .. Len(A) : k # s.array => B[k] = A[k]
  BY <1>2, <1>8, <1>14, <1>15
<1>17. t \in SliceHeader /\ t.len = s.len - 1 /\ t.array = IF s.len = 1 THEN 0 ELSE s.array
  BY <1>6, <1>8, <1>13 DEF SliceHeader, NoSlice
<1>18. T \in [Lists -> SliceHeader] /\ T[list] = t /\ \A l \in Lists \ {list} : T[l] = S[l]
  BY <1>2, <1>14, <1>17
<1>19. /\ D \in [Subscribers -> Channel] /\ D[c].state = "closed" /\ D[c].list = list
       /\ \A d \in Subscribers \ {c} : C[d] = D[d]
  <2>1. PICK ch : ch = [C[c] EXCEPT !.state = "closed", !.buffer = <<>>]
    OBVIOUS
  <2>2. ch \in Channel /\ ch.state = "closed" /\ ch.list = list
    <3>1. PICK old \in Channel : old = C[c]
      BY <1>2
    <3>2. PICK none \in Seq(Nat) : none = <<>>
      BY EmptySeq
    <3>3. ch = [old EXCEPT !.state = "closed", !.buffer = none]
      BY <2>1, <3>1, <3>2
    <3>4. ch = [state |-> "closed", list |-> old.list, buffer |-> none]
      BY <3>3 DEF Channel
    <3>5. old.list \in Lists \cup {"none"} /\ old.list = list
      BY <1>4, <3>1 DEF Channel
    <3> QED
      BY <3>4, <3>5 DEF Channel
  <2> QED
    BY <1>2, <1>14, <2>1, <2>2
<1>20. \A k \in 1 .. Len(A) : Len(B[k]) = Len(A[k])
  BY <1>9, <1>15, <1>16
<1>21. Shrunk(A, B, S, T, C, D, c, at)
  <2>1. Len(A) \in Nat
    BY <1>2
  <2>2. \A i \in 1 .. s.len - 1 : B[s.array][i] = A[s.array][IF i >= at THEN i + 1 ELSE i]
    BY <1>9, <1>15, <1>16
  <2>3. A[s.array][at] = c
    BY <1>9, <1>11
  <2> QED
    <3>1. s.len > 0 /\ at \in 1 .. s.len
      BY <1>8, <1>11
    <3>2. \A k \in 1 .. Len(A) : k # s.array => B[k] = A[k]
      BY <1>16
    <3>3. T[list].len = s.len - 1 /\ T[list].array = IF s.len = 1 THEN 0 ELSE s.array
      BY <1>17, <1>18
    <3>4. \A l \in Lists \ {list} : T[l] = S[l]
      BY <1>18
    <3>5. D[c].state = "closed" /\ D[c].list = list /\ \A d \in Subscribers \ {c} : C[d].state = D[d].state /\ C[d].list = D[d].list
      BY <1>19
    <3>6. S \in [Lists -> SliceHeader] /\ T \in [Lists -> SliceHeader] /\ Len(B) = Len(A)
      BY <1>2, <1>16, <1>18
    <3> QED
      BY <1>3, <1>4, <1>5, <1>20, <2>1, <2>2, <2>3, <3>1, <3>2, <3>3, <3>4, <3>5, <3>6 DEF Shrunk
<1>22. HubSound(B, T, D)
  BY <1>3, <1>21, ShrunkHub
<1>23. lsNext' = lsNext /\ lsRows' = lsRows /\ lsPanics' = lsPanics
       /\ lsPub' = [p \in Publishers |-> [lsPub[p] EXCEPT !.disturbed = TRUE]]
  BY DEF Cancel, store
<1>24. ASSUME NEW p \in Publishers
       PROVE  /\ lsPub'[p] \in Publisher /\ lsPub'[p].disturbed /\ lsPub'[p].pc = lsPub[p].pc
              /\ PubSound(lsPub'[p], B, T, D, lsNext)
  <2>1. PICK pub, new, next : pub = lsPub[p] /\ new = [pub EXCEPT !.disturbed = TRUE] /\ next = lsNext
    OBVIOUS
  <2>2. pub \in Publisher /\ PubSound(pub, A, S, C, next)
    BY <1>1, <2>1 DEF LogTypes, HubInv
  <2>3. new \in Publisher /\ new.pc = pub.pc /\ new.todo = pub.todo /\ new.walk = pub.walk /\ new.disturbed
    BY <2>1, <2>2 DEF Publisher
  <2>4. ASSUME NEW k \in DOMAIN pub.walk, HeaderFits(A, pub.walk[k]) PROVE HeaderFits(B, pub.walk[k])
    BY <1>16, <1>20, <2>4 DEF HeaderFits
  <2>5. PubSound(new, B, T, D, next)
    BY <2>2, <2>3, <2>4 DEF PubSound
  <2> QED
    BY <1>23, <2>1, <2>3, <2>5
<1>25. LogTypes'
  <2>1. lsPub' \in [Publishers -> Publisher]
    BY <1>23, <1>24
  <2> QED
    BY <1>1, <1>16, <1>18, <1>19, <1>23, <2>1 DEF LogTypes
<1>26. HubInv'
  <2>1. \A p \in lsPanics' : p \in Publishers /\ lsPub'[p].pc = "panicked" /\ lsPub'[p].disturbed
    BY <1>23, <1>24 DEF HubInv
  <2> QED
    BY <1>1, <1>22, <1>23, <1>24, <2>1 DEF HubInv
<1> QED
  BY <1>25, <1>26

\* One publisher takes a step, and the hub stays but for what is buffered.
LEMMA PublisherMoves ==
  ASSUME LogTypes, HubInv, NEW p \in Publishers, NEW new \in Publisher, lsPub' = [lsPub EXCEPT ![p] = new],
         lsArrays' = lsArrays, lsSlice' = lsSlice, lsRows' \subseteq 1 .. lsNext' - 1, lsNext' \in Nat \ {0}, lsNext <= lsNext',
         lsChan' \in [Subscribers -> Channel],
         \A c \in Subscribers : lsChan'[c].state = lsChan[c].state /\ lsChan'[c].list = lsChan[c].list,
         PubSound(new, lsArrays, lsSlice, lsChan, lsNext'),
         lsPanics' \subseteq lsPanics \cup {p},
         p \in lsPanics' => new.pc = "panicked" /\ new.disturbed
  PROVE  LogTypes' /\ HubInv'
<1>1. PICK A, S, C, D, next, later : /\ A = lsArrays /\ S = lsSlice /\ C = lsChan /\ D = lsChan'
                                     /\ next = lsNext /\ later = lsNext'
  OBVIOUS
<1>2. LogTypes'
  BY DEF LogTypes
<1>3. HubSound(A, S, C) /\ \A c \in Subscribers : C[c].state = D[c].state /\ C[c].list = D[c].list
  BY <1>1 DEF HubInv
<1>4. HubSound(A, S, D)
  BY <1>3, HubStays
<1>5. \A list \in Lists : S[list] \in SliceHeader
  BY <1>1 DEF LogTypes
<1>6. next \in Nat /\ later \in Nat /\ next <= later
  BY <1>1 DEF LogTypes
<1>7. ASSUME NEW q \in Publishers PROVE PubSound(lsPub'[q], A, S, D, later)
  <2>1. PICK pub \in Publisher : pub = lsPub'[q] /\ (q = p => pub = new) /\ (q # p => pub = lsPub[q])
    BY DEF LogTypes
  <2>2. CASE q = p
    <3>1. PubSound(pub, A, S, C, later)
      BY <1>1, <2>1, <2>2
    <3> QED
      BY <1>3, <1>5, <1>6, <2>1, <3>1, PublisherStays
  <2>3. CASE q # p
    <3>1. PubSound(pub, A, S, C, next)
      BY <1>1, <2>1, <2>3 DEF HubInv
    <3> QED
      BY <1>3, <1>5, <1>6, <2>1, <3>1, PublisherStays
  <2> QED
    BY <2>2, <2>3
<1>8. ASSUME NEW q \in lsPanics' PROVE q \in Publishers /\ lsPub'[q].pc = "panicked" /\ lsPub'[q].disturbed
  <2>1. CASE q = p
    BY <1>8, <2>1 DEF LogTypes
  <2>2. CASE q # p
    BY <1>8, <2>2 DEF LogTypes, HubInv
  <2> QED
    BY <2>1, <2>2
<1> QED
  BY <1>1, <1>2, <1>4, <1>7, <1>8 DEF HubInv

\* The copies Publish walks: of each list that has channels, the project's before that of all.
HeaderOf(s) == [array |-> s.array, len |-> s.len, at |-> 1]

\* The copy of a slice that is not empty is one header.
LEMMA WalkIsHeader ==
  ASSUME NEW s \in SliceHeader
  PROVE  /\ s.len = 0 => Walk(s) = <<>>
         /\ s.len > 0 => Walk(s) = <<HeaderOf(s)>> /\ HeaderOf(s) \in WalkHeader
<1>1. s.len \in Nat /\ s.array \in Nat
  BY DEF SliceHeader
<1>2. HeaderOf(s) \in WalkHeader
  BY <1>1 DEF HeaderOf, WalkHeader
<1> QED
  BY <1>1, <1>2 DEF Walk, HeaderOf

\* The copied headers are those of the lists that are not empty, each once.
LEMMA HeadersAreLists ==
  ASSUME lsSlice \in [Lists -> SliceHeader]
  PROVE  /\ Headers \in Seq(WalkHeader)
         /\ \A k \in DOMAIN Headers : \E l \in Lists : lsSlice[l].len > 0 /\ Headers[k] = HeaderOf(lsSlice[l])
         /\ \A l \in Lists : lsSlice[l].len > 0 => \E k \in DOMAIN Headers : Headers[k] = HeaderOf(lsSlice[l])
         /\ \A j, k \in DOMAIN Headers : j # k =>
              \E l, m \in Lists : /\ l # m /\ lsSlice[l].len > 0 /\ lsSlice[m].len > 0
                                  /\ Headers[j] = HeaderOf(lsSlice[l]) /\ Headers[k] = HeaderOf(lsSlice[m])
<1>1. PICK a, b, x, y : a = lsSlice["project"] /\ b = lsSlice["all"] /\ x = HeaderOf(a) /\ y = HeaderOf(b)
  OBVIOUS
<1>2. a \in SliceHeader /\ b \in SliceHeader /\ a.len \in Nat /\ b.len \in Nat
  BY <1>1 DEF Lists, SliceHeader
<1>3. \A l \in Lists : l = "project" \/ l = "all"
  BY DEF Lists
<1>4. "project" \in Lists /\ "all" \in Lists /\ "project" # "all"
  BY DEF Lists
<1>5. PICK H : H = Headers
  OBVIOUS
<1>6. H = Walk(a) \o Walk(b)
  BY <1>1, <1>5 DEF Headers
<1>7. CASE a.len = 0 /\ b.len = 0
  <2>1. H = <<>>
    BY <1>2, <1>6, <1>7, WalkIsHeader
  <2>2. H \in Seq(WalkHeader) /\ DOMAIN H = {}
    BY <2>1
  <2> QED
    BY <1>1, <1>2, <1>3, <1>5, <1>7, <2>2
<1>8. CASE a.len > 0 /\ b.len = 0
  <2>1. x \in WalkHeader /\ H = <<x>> \o <<>>
    BY <1>1, <1>2, <1>6, <1>8, WalkIsHeader
  <2>2. H = <<x>> /\ H \in Seq(WalkHeader) /\ DOMAIN H = {1} /\ H[1] = x
    BY <2>1
  <2> QED
    BY <1>1, <1>2, <1>3, <1>4, <1>5, <1>8, <2>1, <2>2
<1>9. CASE a.len = 0 /\ b.len > 0
  <2>1. y \in WalkHeader /\ H = <<>> \o <<y>>
    BY <1>1, <1>2, <1>6, <1>9, WalkIsHeader
  <2>2. H = <<y>> /\ H \in Seq(WalkHeader) /\ DOMAIN H = {1} /\ H[1] = y
    BY <2>1
  <2> QED
    BY <1>1, <1>2, <1>3, <1>4, <1>5, <1>9, <2>1, <2>2
<1>10. CASE a.len > 0 /\ b.len > 0
  <2>1. x \in WalkHeader /\ y \in WalkHeader /\ H = <<x>> \o <<y>>
    BY <1>1, <1>2, <1>6, <1>10, WalkIsHeader
  <2>2. H \in Seq(WalkHeader) /\ DOMAIN H = {1, 2} /\ H[1] = x /\ H[2] = y
    BY <2>1
  <2> QED
    BY <1>1, <1>2, <1>3, <1>4, <1>5, <1>10, <2>1, <2>2
<1> QED
  BY <1>2, <1>7, <1>8, <1>9, <1>10

\* A publisher copies the lists.
LEMMA CopyKeeps ==
  ASSUME LogTypes, HubInv, NEW p \in Publishers, PublishCopy(p)
  PROVE  LogTypes' /\ HubInv'
<1>1. PICK A, S, C, pub, W, owed : /\ A = lsArrays /\ S = lsSlice /\ C = lsChan /\ pub = lsPub[p]
                                   /\ W = Headers /\ owed = UNION {Members(lsSlice[l]) : l \in Lists}
  OBVIOUS
<1>2. /\ A \in Seq(Seq(Slot)) /\ S \in [Lists -> SliceHeader] /\ C \in [Subscribers -> Channel]
      /\ pub \in Publisher /\ HubSound(A, S, C) /\ PubSound(pub, A, S, C, lsNext)
  BY <1>1 DEF LogTypes, HubInv
<1>3. PICK none \in Seq(Slot) : none = <<>>
  BY EmptySeq
<1>4. PICK new : new = [pub EXCEPT !.pc = "send", !.walk = W, !.disturbed = FALSE, !.owed = owed, !.offered = none]
  OBVIOUS
<1>5. lsPub' = [lsPub EXCEPT ![p] = new]
  BY <1>1, <1>3, <1>4, Zenon DEF PublishCopy
<1>6. /\ W \in Seq(WalkHeader)
      /\ \A k \in DOMAIN W : \E l \in Lists : S[l].len > 0 /\ W[k] = HeaderOf(S[l])
      /\ \A l \in Lists : S[l].len > 0 => \E k \in DOMAIN W : W[k] = HeaderOf(S[l])
      /\ \A j, k \in DOMAIN W : j # k =>
           \E l, m \in Lists : l # m /\ S[l].len > 0 /\ S[m].len > 0 /\ W[j] = HeaderOf(S[l]) /\ W[k] = HeaderOf(S[m])
  BY <1>1, <1>2, HeadersAreLists
<1>7. \A l \in Lists : SliceSound(A, S[l], C, l) /\ S[l].len \in Nat /\ S[l].array \in Nat
  BY <1>2 DEF HubSound, SliceHeader
<1>8. \A l \in Lists : Members(lsSlice[l]) = Ahead(A, HeaderOf(S[l])) /\ Members(lsSlice[l]) \subseteq Subscribers
  <2> TAKE l \in Lists
  <2>1. Members(lsSlice[l]) = Ahead(A, HeaderOf(S[l]))
    BY <1>1 DEF Members, Ahead, HeaderOf
  <2>2. \A i \in 1 .. S[l].len : A[S[l].array][i] \in Subscribers
    BY <1>7 DEF SliceSound
  <2> QED
    BY <1>1, <2>1, <2>2 DEF Members
<1>9. owed \in SUBSET Slot
  BY <1>1, <1>8 DEF Slot
<1>10. /\ new \in Publisher /\ new.pc = "send" /\ new.todo = pub.todo /\ new.walk = W /\ new.owed = owed /\ new.offered = none
       /\ ~new.disturbed
  BY <1>2, <1>3, <1>4, <1>6, <1>9 DEF Publisher
<1>11. ASSUME NEW k \in DOMAIN W PROVE HeaderFits(A, W[k]) /\ HeaderSound(A, S, C, W[k])
  <2>1. PICK l \in Lists : S[l].len > 0 /\ W[k] = HeaderOf(S[l])
    BY <1>6
  <2>2. PICK s : s = S[l]
    OBVIOUS
  <2>3. SliceSound(A, s, C, l) /\ s.len \in Nat /\ s.array \in Nat /\ s.len > 0
    BY <1>7, <2>1, <2>2
  <2>4. PICK h : h = W[k]
    OBVIOUS
  <2>5. h.array = s.array /\ h.len = s.len /\ h.at = 1
    BY <2>1, <2>2, <2>4 DEF HeaderOf
  <2>6. HeaderFits(A, h)
    BY <2>3, <2>5 DEF HeaderFits, SliceSound
  <2>7. \A m \in Lists : S[m].array = h.array => m = l
    BY <1>2, <2>2, <2>3, <2>5 DEF HubSound, Lists, SliceSound
  <2>8. HeaderSound(A, S, C, h)
    BY <2>2, <2>3, <2>5, <2>7 DEF HeaderSound, SliceSound
  <2> QED
    BY <2>4, <2>6, <2>8
<1>12. ASSUME NEW j \in DOMAIN W, NEW k \in DOMAIN W, j # k PROVE Ahead(A, W[j]) \cap Ahead(A, W[k]) = {}
  <2>1. PICK l \in Lists, m \in Lists :
          l # m /\ S[l].len > 0 /\ S[m].len > 0 /\ W[j] = HeaderOf(S[l]) /\ W[k] = HeaderOf(S[m])
    BY <1>6, <1>12
  <2>2. \A c \in Ahead(A, W[j]) : C[c].list = l
    BY <1>7, <2>1 DEF Ahead, HeaderOf, SliceSound
  <2>3. \A c \in Ahead(A, W[k]) : C[c].list = m
    BY <1>7, <2>1 DEF Ahead, HeaderOf, SliceSound
  <2> QED
    BY <2>1, <2>2, <2>3
<1>13. ASSUME NEW c \in owed PROVE \E k \in DOMAIN W : c \in Ahead(A, W[k])
  <2>1. PICK l \in Lists : c \in Members(lsSlice[l])
    BY <1>1
  <2>2. S[l].len > 0
    <3>1. PICK i \in 1 .. lsSlice[l].len : TRUE
      BY <2>1 DEF Members
    <3> QED
      BY <1>1, <1>7, <3>1
  <2> QED
    BY <1>6, <1>8, <2>1, <2>2
<1>14. WalkSound(A, S, C, new)
  <2>1. DOMAIN new.offered = {}
    BY <1>3, <1>10
  <2> QED
    BY <1>10, <1>11, <1>12, <1>13, <2>1 DEF WalkSound
<1>15. PubSound(new, A, S, C, lsNext)
  <2>1. pub.todo # {} /\ pub.todo \subseteq 1 .. lsNext - 1
    BY <1>1, <1>2, Zenon DEF PublishCopy, PubSound
  <2> QED
    BY <1>10, <1>11, <1>14, <2>1 DEF PubSound
<1>16. /\ lsArrays' = lsArrays /\ lsSlice' = lsSlice /\ lsChan' = lsChan /\ lsRows' = lsRows /\ lsNext' = lsNext
       /\ lsPanics' = lsPanics
  BY Zenon DEF PublishCopy, store, hub
<1>17. p \notin lsPanics
  BY Zenon DEF PublishCopy, HubInv
<1>18. lsRows' \subseteq 1 .. lsNext' - 1 /\ lsNext' \in Nat \ {0} /\ lsNext <= lsNext' /\ lsChan' \in [Subscribers -> Channel]
  BY <1>16 DEF LogTypes
<1>19. PubSound(new, lsArrays, lsSlice, lsChan, lsNext')
  BY <1>1, <1>15, <1>16
<1> QED
  BY <1>5, <1>10, <1>16, <1>17, <1>18, <1>19, PublisherMoves

\* What is left of a walk once the channel at its head has been served.
Rest(walk) == IF walk[1].at = walk[1].len THEN Tail(walk) ELSE [walk EXCEPT ![1] = [walk[1] EXCEPT !.at = walk[1].at + 1]]

\* Its headers are the old ones, the first from its next channel on.
Leads(f, rest, walk) ==
  /\ f \in [DOMAIN rest -> DOMAIN walk]
  /\ \A j, k \in DOMAIN rest : f[j] = f[k] => j = k
  /\ \A k \in DOMAIN rest :
       /\ rest[k].array = walk[f[k]].array /\ rest[k].len = walk[f[k]].len
       /\ rest[k].at = (IF f[k] = 1 THEN walk[1].at + 1 ELSE walk[f[k]].at)
       /\ rest[k].at <= rest[k].len
  /\ \A m \in DOMAIN walk : m # 1 \/ walk[1].at < walk[1].len => \E k \in DOMAIN rest : f[k] = m

\* The rest of a walk leads over the headers of the walk.
LEMMA RestOfWalk ==
  ASSUME NEW A, NEW walk \in Seq(WalkHeader), walk # <<>>, \A k \in DOMAIN walk : HeaderFits(A, walk[k])
  PROVE  Rest(walk) \in Seq(WalkHeader) /\ \E f : Leads(f, Rest(walk), walk)
<1>1. PICK n \in Nat \ {0} : n = Len(walk) /\ DOMAIN walk = 1 .. n
  BY EmptySeq
<1>2. PICK h \in WalkHeader : h = walk[1]
  BY <1>1
<1>3. h.at \in Nat /\ h.len \in Nat /\ h.array \in Nat /\ h.at >= 1 /\ h.at <= h.len
  BY <1>1, <1>2 DEF HeaderFits, WalkHeader
<1>4. \A k \in 1 .. n : walk[k] \in WalkHeader /\ walk[k].at <= walk[k].len
  <2> TAKE k \in 1 .. n
  <2>1. PICK g \in WalkHeader : g = walk[k]
    BY <1>1
  <2>2. g.at \in 1 .. g.len /\ g.len \in Nat
    BY <1>1, <2>1 DEF HeaderFits, WalkHeader
  <2> QED
    BY <2>1, <2>2
<1>5. CASE h.at = h.len
  <2>1. PICK R : R = Tail(walk) /\ R = Rest(walk)
    BY <1>2, <1>5 DEF Rest
  <2>2. R \in Seq(WalkHeader) /\ DOMAIN R = 1 .. n - 1 /\ \A k \in 1 .. n - 1 : R[k] = walk[k + 1]
    BY <1>1, <2>1, HeadTailProperties
  <2>3. PICK f : f = [k \in 1 .. n - 1 |-> k + 1]
    OBVIOUS
  <2>4. f \in [1 .. n - 1 -> 1 .. n] /\ \A k \in 1 .. n - 1 : f[k] = k + 1 /\ f[k] # 1
    BY <1>1, <2>3
  <2>5. \A j, k \in 1 .. n - 1 : f[j] = f[k] => j = k
    BY <2>4
  <2>6. ASSUME NEW k \in 1 .. n - 1
        PROVE  /\ R[k].array = walk[f[k]].array /\ R[k].len = walk[f[k]].len /\ R[k].at = walk[f[k]].at /\ f[k] # 1
               /\ R[k].at <= R[k].len
    <3>1. k + 1 \in 1 .. n
      BY <1>1
    <3> QED
      BY <1>4, <2>2, <2>4, <3>1
  <2>7. ASSUME NEW m \in 1 .. n, m # 1 PROVE \E k \in 1 .. n - 1 : f[k] = m
    <3>1. PICK k \in 1 .. n - 1 : k + 1 = m
      <4>1. m - 1 \in 1 .. n - 1 /\ (m - 1) + 1 = m
        BY <1>1, <2>7
      <4> QED
        BY <4>1
    <3> QED
      BY <2>4, <3>1
  <2>8. ~(walk[1].at < walk[1].len)
    BY <1>2, <1>3, <1>5
  <2>9. Leads(f, R, walk)
    BY <1>1, <2>2, <2>4, <2>5, <2>6, <2>7, <2>8 DEF Leads
  <2> QED
    BY <2>1, <2>2, <2>9
<1>6. CASE h.at # h.len
  <2>1. PICK g : g = [h EXCEPT !.at = h.at + 1]
    OBVIOUS
  <2>2. g \in WalkHeader /\ g.array = h.array /\ g.len = h.len /\ g.at = h.at + 1
    <3>1. PICK at \in Nat : at = h.at + 1
      BY <1>3
    <3>2. g = [h EXCEPT !.at = at]
      BY <2>1, <3>1
    <3> QED
      BY <3>1, <3>2 DEF WalkHeader
  <2>3. PICK R : R = [walk EXCEPT ![1] = g] /\ R = Rest(walk)
    BY <1>2, <1>6, <2>1 DEF Rest
  <2>4. R \in Seq(WalkHeader) /\ DOMAIN R = 1 .. n /\ R[1] = g /\ \A k \in 1 .. n : k # 1 => R[k] = walk[k]
    BY <1>1, <2>2, <2>3
  <2>5. PICK f : f = [k \in 1 .. n |-> k]
    OBVIOUS
  <2>6. f \in [1 .. n -> 1 .. n] /\ \A k \in 1 .. n : f[k] = k
    BY <2>5
  <2>7. ASSUME NEW k \in 1 .. n
        PROVE  /\ R[k].array = walk[f[k]].array /\ R[k].len = walk[f[k]].len
               /\ R[k].at = (IF f[k] = 1 THEN walk[1].at + 1 ELSE walk[f[k]].at)
               /\ R[k].at <= R[k].len
    <3>1. CASE k = 1
      <4>1. R[k] = g /\ f[k] = 1 /\ walk[f[k]] = h /\ walk[1] = h
        BY <1>2, <2>4, <2>6, <3>1
      <4>2. h.at + 1 <= h.len
        BY <1>3, <1>6
      <4> QED
        BY <2>2, <4>1, <4>2
    <3>2. CASE k # 1
      BY <1>4, <2>4, <2>6, <3>2
    <3> QED
      BY <3>1, <3>2
  <2>8. Leads(f, R, walk)
    BY <1>1, <2>4, <2>6, <2>7 DEF Leads
  <2> QED
    BY <2>3, <2>4, <2>8
<1> QED
  BY <1>5, <1>6

\* The rest of a walk fits, and once the channel has been served it is as sound as the walk was.
LEMMA AdvanceWalk ==
  ASSUME NEW A, NEW S, NEW C, NEW pub \in Publisher, NEW new \in Publisher, pub.walk # <<>>,
         \A k \in DOMAIN pub.walk : HeaderFits(A, pub.walk[k]),
         NEW c \in Slot, c = A[pub.walk[1].array][pub.walk[1].at],
         new.walk = Rest(pub.walk), new.offered = Append(pub.offered, c), new.owed = pub.owed
  PROVE  /\ \A k \in DOMAIN new.walk : HeaderFits(A, new.walk[k])
         /\ WalkSound(A, S, C, pub) => WalkSound(A, S, C, new)
<1>1. PICK walk \in Seq(WalkHeader), rest \in Seq(WalkHeader) : walk = pub.walk /\ rest = Rest(walk) /\ rest = new.walk
  BY DEF Publisher
<1>0. PICK f : Leads(f, rest, walk)
  BY <1>1, RestOfWalk
<1>2. /\ f \in [DOMAIN rest -> DOMAIN walk]
      /\ \A j, k \in DOMAIN rest : f[j] = f[k] => j = k
      /\ \A k \in DOMAIN rest : /\ rest[k].array = walk[f[k]].array /\ rest[k].len = walk[f[k]].len
                                /\ rest[k].at = (IF f[k] = 1 THEN walk[1].at + 1 ELSE walk[f[k]].at)
                                /\ rest[k].at <= rest[k].len
      /\ \A m \in DOMAIN walk : m # 1 \/ walk[1].at < walk[1].len => \E k \in DOMAIN rest : f[k] = m
  BY <1>0 DEF Leads
<1>3. 1 \in DOMAIN walk /\ \A k \in DOMAIN walk : walk[k] \in WalkHeader /\ HeaderFits(A, walk[k])
  BY <1>1, EmptySeq
<1>4. ASSUME NEW k \in DOMAIN rest
      PROVE  /\ HeaderFits(A, rest[k]) /\ f[k] \in DOMAIN walk
             /\ rest[k].at \in Nat /\ rest[k].len \in Nat /\ rest[k].at >= walk[f[k]].at
             /\ f[k] = 1 => rest[k].at = walk[1].at + 1 /\ walk[1].at < walk[1].len
             /\ rest[k].at .. rest[k].len \subseteq walk[f[k]].at .. walk[f[k]].len
  <2>1. PICK g, h : g = rest[k] /\ h = walk[f[k]]
    OBVIOUS
  <2>2. h \in WalkHeader /\ g \in WalkHeader /\ HeaderFits(A, h) /\ g.array = h.array /\ g.len = h.len
        /\ g.at = (IF f[k] = 1 THEN walk[1].at + 1 ELSE h.at) /\ g.at <= g.len /\ f[k] \in DOMAIN walk
    BY <1>2, <1>3, <2>1
  <2>3. h.at \in Nat /\ h.len \in Nat /\ g.at \in Nat /\ g.len \in Nat
    BY <2>2 DEF WalkHeader
  <2>4. f[k] = 1 => g.at = h.at + 1 /\ h = walk[1]
    BY <2>1, <2>2
  <2>5. g.at >= h.at
    BY <2>2, <2>3, <2>4
  <2>6. HeaderFits(A, g)
    BY <2>2, <2>3, <2>5 DEF HeaderFits
  <2>7. g.at .. g.len \subseteq h.at .. h.len
    BY <2>2, <2>3, <2>5
  <2>8. f[k] = 1 => walk[1].at < walk[1].len
    BY <2>2, <2>3, <2>4
  <2> QED
    BY <2>1, <2>2, <2>3, <2>4, <2>5, <2>6, <2>7, <2>8
<1>5. ASSUME WalkSound(A, S, C, pub) PROVE WalkSound(A, S, C, new)
  <2>1. /\ \A k \in DOMAIN walk : HeaderSound(A, S, C, walk[k])
        /\ \A j, k \in DOMAIN walk : j # k => Ahead(A, walk[j]) \cap Ahead(A, walk[k]) = {}
        /\ \A k \in DOMAIN walk, n \in DOMAIN pub.offered : pub.offered[n] \notin Ahead(A, walk[k])
        /\ \A m, n \in DOMAIN pub.offered : pub.offered[m] = pub.offered[n] => m = n
        /\ \A d \in pub.owed : \/ \E k \in DOMAIN walk : d \in Ahead(A, walk[k])
                               \/ \E n \in DOMAIN pub.offered : pub.offered[n] = d
    BY <1>1, <1>5 DEF WalkSound
  <2>2. c \in Ahead(A, walk[1])
    <3>1. walk[1].at \in walk[1].at .. walk[1].len
      BY <1>3 DEF HeaderFits, WalkHeader
    <3> QED
      BY <1>1, <3>1 DEF Ahead
  <2>3. ASSUME NEW k \in DOMAIN rest
        PROVE  /\ HeaderSound(A, S, C, rest[k]) /\ Ahead(A, rest[k]) \subseteq Ahead(A, walk[f[k]])
               /\ c \notin Ahead(A, rest[k])
    <3>1. PICK g, h : g = rest[k] /\ h = walk[f[k]]
      OBVIOUS
    <3>2. /\ HeaderSound(A, S, C, h) /\ g.array = h.array /\ g.len = h.len /\ g.at .. g.len \subseteq h.at .. h.len
          /\ f[k] \in DOMAIN walk
      BY <1>2, <1>4, <2>1, <3>1
    <3>3. HeaderSound(A, S, C, g)
      BY <3>2 DEF HeaderSound
    <3>4. Ahead(A, g) \subseteq Ahead(A, h)
      BY <3>2 DEF Ahead
    <3>5. c \notin Ahead(A, g)
      <4>1. CASE f[k] # 1
        BY <1>3, <2>1, <2>2, <3>1, <3>2, <3>4, <4>1
      <4>2. CASE f[k] = 1
        <5>1. h = walk[1] /\ g.at = h.at + 1 /\ h.at \in Nat /\ h.len \in Nat /\ h.at < h.len /\ c = A[h.array][h.at]
          BY <1>1, <1>3, <1>4, <3>1, <4>2 DEF WalkHeader
        <5>2. ASSUME NEW i \in g.at .. g.len, A[g.array][i] = c PROVE FALSE
          <6>1. i \in h.at .. h.len /\ h.at \in h.at .. h.len /\ i # h.at
            BY <3>2, <5>1
          <6>2. \A x, y \in h.at .. h.len : A[h.array][x] = A[h.array][y] => x = y
            BY <3>2 DEF HeaderSound
          <6>3. A[h.array][i] = A[h.array][h.at]
            BY <3>2, <5>1, <5>2
          <6> QED
            BY <6>1, <6>2, <6>3
        <5> QED
          BY <5>2 DEF Ahead
      <4> QED
        BY <4>1, <4>2
    <3> QED
      BY <3>1, <3>3, <3>4, <3>5
  <2>4. ASSUME NEW d, NEW m \in DOMAIN walk, d \in Ahead(A, walk[m]), d # c
        PROVE  \E k \in DOMAIN rest : d \in Ahead(A, rest[k])
    <3>1. PICK h : h = walk[m]
      OBVIOUS
    <3>2. PICK i \in h.at .. h.len : A[h.array][i] = d
      BY <2>4, <3>1 DEF Ahead
    <3>3. h \in WalkHeader /\ h.at \in Nat /\ h.len \in Nat
      BY <1>3, <3>1 DEF WalkHeader
    <3>4. m = 1 => i # h.at /\ h.at < h.len
      <4>1. m = 1 => c = A[h.array][h.at]
        BY <1>1, <3>1
      <4>2. m = 1 => i # h.at
        BY <2>4, <3>2, <4>1
      <4> QED
        BY <3>2, <3>3, <4>2
    <3>5. PICK k \in DOMAIN rest : f[k] = m
      BY <1>2, <3>1, <3>4
    <3>6. PICK g : g = rest[k]
      OBVIOUS
    <3>7. g.array = h.array /\ g.len = h.len /\ g.at = (IF m = 1 THEN h.at + 1 ELSE h.at)
      BY <1>2, <3>1, <3>5, <3>6
    <3>8. i \in g.at .. g.len
      BY <3>2, <3>3, <3>4, <3>7
    <3> QED
      BY <3>2, <3>6, <3>7, <3>8 DEF Ahead
  <2>5. PICK l \in Nat, offered \in Seq(Slot) : l = Len(offered) /\ offered = pub.offered
    BY DEF Publisher
  <2>6. /\ DOMAIN pub.offered = 1 .. l /\ DOMAIN new.offered = 1 .. l + 1 /\ new.offered[l + 1] = c
        /\ \A n \in 1 .. l : new.offered[n] = pub.offered[n]
    BY <2>5
  <2>7. \A n \in 1 .. l + 1 : n = l + 1 \/ n \in 1 .. l
    BY <2>5
  <2>8. \A n \in 1 .. l : pub.offered[n] # c
    <3> TAKE n \in 1 .. l
    <3>1. pub.offered[n] \notin Ahead(A, walk[1])
      BY <1>3, <2>1, <2>6
    <3> QED
      BY <2>2, <3>1
  <2>9. \A j, k \in DOMAIN rest : j # k => Ahead(A, rest[j]) \cap Ahead(A, rest[k]) = {}
    BY <1>2, <1>4, <2>1, <2>3
  <2>10. ASSUME NEW k \in DOMAIN rest, NEW n \in 1 .. l + 1 PROVE new.offered[n] \notin Ahead(A, rest[k])
    <3>1. CASE n = l + 1
      BY <2>3, <2>6, <3>1
    <3>2. CASE n \in 1 .. l
      <4>1. pub.offered[n] \notin Ahead(A, walk[f[k]])
        BY <1>4, <2>1, <2>6, <3>2
      <4> QED
        BY <2>3, <2>6, <3>2, <4>1
    <3> QED
      BY <2>7, <3>1, <3>2
  <2>11. \A m, n \in 1 .. l + 1 : new.offered[m] = new.offered[n] => m = n
    BY <2>1, <2>6, <2>7, <2>8, Zenon
  <2>12. ASSUME NEW d \in pub.owed
         PROVE  (\E k \in DOMAIN rest : d \in Ahead(A, rest[k])) \/ (\E n \in 1 .. l + 1 : new.offered[n] = d)
    <3>1. l + 1 \in 1 .. l + 1 /\ \A n \in 1 .. l : n \in 1 .. l + 1
      BY <2>5
    <3>2. CASE d = c
      BY <2>6, <3>1, <3>2, Zenon
    <3>3. CASE d # c /\ \E k \in DOMAIN walk : d \in Ahead(A, walk[k])
      BY <2>4, <3>3
    <3>4. CASE \E n \in 1 .. l : pub.offered[n] = d
      BY <2>6, <3>1, <3>4
    <3> QED
      BY <2>1, <2>6, <3>2, <3>3, <3>4, Zenon
  <2> QED
    BY <1>1, <2>3, <2>6, <2>9, <2>10, <2>11, <2>12, Zenon DEF WalkSound
<1> QED
  BY <1>1, <1>4, <1>5

\* A channel gets one more of the entries, or keeps what it has.
LEMMA OfferedChannel ==
  ASSUME LogTypes, NEW c, NEW m \in Nat,
         lsChan' = lsChan \/ lsChan' = [lsChan EXCEPT ![c].buffer = Append(lsChan[c].buffer, m)]
  PROVE  /\ lsChan' \in [Subscribers -> Channel]
         /\ \A d \in Subscribers : lsChan'[d].state = lsChan[d].state /\ lsChan'[d].list = lsChan[d].list
<1>1. PICK C, D : C = lsChan /\ D = lsChan'
  OBVIOUS
<1>2. C \in [Subscribers -> Channel]
  BY <1>1 DEF LogTypes
<1>3. CASE D = [C EXCEPT ![c].buffer = Append(C[c].buffer, m)] /\ c \in Subscribers
  <2>1. PICK ch \in Channel : ch = C[c]
    BY <1>2, <1>3
  <2>0. PICK old \in Seq(Nat) : old = ch.buffer
    BY <2>1 DEF Channel
  <2>2. PICK b \in Seq(Nat) : b = Append(ch.buffer, m)
    BY <2>0, AppendProperties
  <2>3. PICK new : new = [ch EXCEPT !.buffer = b]
    OBVIOUS
  <2>4. new \in Channel /\ new.state = ch.state /\ new.list = ch.list
    BY <2>1, <2>3 DEF Channel
  <2>5. D = [C EXCEPT ![c] = new]
    BY <1>2, <1>3, <2>1, <2>2, <2>3
  <2>6. D \in [Subscribers -> Channel] /\ D[c] = new /\ \A d \in Subscribers : d # c => D[d] = C[d]
    BY <1>2, <1>3, <2>4, <2>5
  <2> QED
    BY <1>1, <2>1, <2>4, <2>6
<1>4. CASE D = C \/ (D = [C EXCEPT ![c].buffer = Append(C[c].buffer, m)] /\ c \notin Subscribers)
  <2>1. D = C
    BY <1>2, <1>4
  <2> QED
    BY <1>1, <1>2, <2>1
<1> QED
  BY <1>1, <1>3, <1>4

\* The next channel of a walk: it is open as long as nothing disturbed the walk.
LEMMA SendKeeps ==
  ASSUME LogTypes, HubInv, NEW p \in Publishers, PublishSend(p)
  PROVE  LogTypes' /\ HubInv'
<1>1. PICK pub, A, S, C : pub = lsPub[p] /\ A = lsArrays /\ S = lsSlice /\ C = lsChan
  OBVIOUS
<1>2. pub \in Publisher /\ PubSound(pub, A, S, C, lsNext) /\ pub.pc = "send" /\ pub.walk # <<>>
  BY <1>1, Zenon DEF LogTypes, HubInv, PublishSend
<1>3. PICK walk \in Seq(WalkHeader) : walk = pub.walk
  BY <1>2 DEF Publisher
<1>4. 1 \in DOMAIN walk /\ walk[1] = Head(walk) /\ walk # <<>>
  BY <1>2, <1>3, EmptySeq
<1>5. PICK h \in WalkHeader : h = walk[1]
  BY <1>4
<1>6. PICK c : c = A[h.array][h.at]
  OBVIOUS
<1>7. c \in Slot /\ h.at \in Nat /\ h.len \in Nat /\ h.at \in h.at .. h.len
  <2>1. HeaderFits(A, h)
    BY <1>2, <1>3, <1>4, <1>5 DEF PubSound
  <2>2. A \in Seq(Seq(Slot))
    BY <1>1 DEF LogTypes
  <2>3. PICK a \in Seq(Slot) : a = A[h.array]
    BY <2>1, <2>2 DEF HeaderFits
  <2>4. h.at \in 1 .. Len(a)
    BY <2>1, <2>3 DEF HeaderFits, WalkHeader
  <2> QED
    BY <1>6, <2>1, <2>3, <2>4 DEF HeaderFits, WalkHeader
<1>8. pub.todo # {} /\ pub.todo \subseteq 1 .. lsNext - 1 /\ \A k \in DOMAIN walk : HeaderFits(A, walk[k])
  BY <1>2, <1>3 DEF PubSound
<1>9. PICK m \in Nat : m = Min(pub.todo)
  <2>1. pub.todo \in SUBSET Nat
    BY <1>2 DEF Publisher
  <2>2. \E x \in pub.todo : \A y \in pub.todo : x <= y
    BY <1>8, <2>1, LeastOf
  <2> QED
    BY <2>1, <2>2 DEF Min
<1>10. lsArrays' = lsArrays /\ lsSlice' = lsSlice /\ lsRows' = lsRows /\ lsNext' = lsNext
  BY Zenon DEF PublishSend, store
<1>11. lsRows' \subseteq 1 .. lsNext' - 1 /\ lsNext' \in Nat \ {0} /\ lsNext <= lsNext'
  BY <1>10 DEF LogTypes
<1>12. p \notin lsPanics
  BY <1>1, <1>2 DEF HubInv
<1>13. CASE C[c].state = "closed"
  <2>1. lsPanics' = lsPanics \cup {p} /\ lsPub' = [lsPub EXCEPT ![p].pc = "panicked"] /\ lsChan' = lsChan
    BY <1>1, <1>3, <1>4, <1>5, <1>6, <1>13 DEF PublishSend
  <2>2. PICK new : new = [pub EXCEPT !.pc = "panicked"]
    OBVIOUS
  <2>3. new \in Publisher /\ new.pc = "panicked" /\ new.disturbed = pub.disturbed
    BY <1>2, <2>2 DEF Publisher
  <2>4. lsPub' = [lsPub EXCEPT ![p] = new]
    BY <1>1, <2>1, <2>2 DEF LogTypes
  <2>5. pub.disturbed
    <3> SUFFICES ASSUME ~pub.disturbed PROVE FALSE
      OBVIOUS
    <3>1. WalkSound(A, S, C, pub)
      BY <1>2 DEF PubSound
    <3>2. HeaderSound(A, S, C, h)
      BY <1>3, <1>4, <1>5, <3>1 DEF WalkSound
    <3>3. C[c].state = "open"
      BY <1>6, <1>7, <3>2 DEF HeaderSound
    <3> QED
      BY <1>13, <3>3
  <2>6. PubSound(new, lsArrays, lsSlice, lsChan, lsNext')
    BY <2>3 DEF PubSound
  <2>7. lsChan' \in [Subscribers -> Channel]
    BY <2>1 DEF LogTypes
  <2> QED
    BY <1>10, <1>11, <2>1, <2>3, <2>4, <2>5, <2>6, <2>7, PublisherMoves
<1>14. CASE C[c].state # "closed"
  <2>1. /\ lsPanics' = lsPanics
        /\ lsChan' = lsChan \/ lsChan' = [lsChan EXCEPT ![c].buffer = Append(lsChan[c].buffer, m)]
    BY <1>1, <1>3, <1>4, <1>5, <1>6, <1>9, <1>14, Zenon DEF PublishSend
  <2>2. /\ lsChan' \in [Subscribers -> Channel]
        /\ \A d \in Subscribers : lsChan'[d].state = lsChan[d].state /\ lsChan'[d].list = lsChan[d].list
    BY <2>1, OfferedChannel
  <2>3. PICK rest \in Seq(WalkHeader) : rest = Rest(walk)
    BY <1>4, <1>8, RestOfWalk
  <2>4. rest = IF h.at = h.len THEN Tail(walk) ELSE [walk EXCEPT ![1].at = @ + 1]
    BY <1>4, <1>5, <2>3 DEF Rest
  <2>12. PICK before \in Seq(Slot) : before = pub.offered
    BY <1>2 DEF Publisher
  <2>5. PICK offered \in Seq(Slot) : offered = Append(pub.offered, c)
    BY <1>7, <2>12, AppendProperties
  <2>6. PICK new : new = [pub EXCEPT !.walk = rest, !.offered = offered]
    OBVIOUS
  <2>7. /\ new \in Publisher /\ new.pc = "send" /\ new.todo = pub.todo /\ new.walk = rest /\ new.offered = offered
        /\ new.owed = pub.owed /\ new.disturbed = pub.disturbed
    BY <1>2, <2>6 DEF Publisher
  <2>8. lsPub' = [lsPub EXCEPT ![p] = new]
    <3>1. lsPub' = [lsPub EXCEPT ![p].walk = rest, ![p].offered = offered]
      BY <1>1, <1>3, <1>4, <1>5, <1>6, <1>14, <2>4, <2>5, Zenon DEF PublishSend
    <3>2. lsPub \in [Publishers -> Publisher]
      BY DEF LogTypes
    <3> QED
      BY <1>1, <2>6, <3>1, <3>2, Zenon
  <2>9. /\ \A k \in DOMAIN new.walk : HeaderFits(A, new.walk[k])
        /\ WalkSound(A, S, C, pub) => WalkSound(A, S, C, new)
    BY <1>2, <1>3, <1>5, <1>6, <1>7, <1>8, <2>3, <2>5, <2>7, AdvanceWalk
  <2>10. PubSound(new, A, S, C, lsNext)
    BY <1>2, <1>8, <2>7, <2>9 DEF PubSound
  <2>11. PubSound(new, lsArrays, lsSlice, lsChan, lsNext')
    BY <1>1, <1>10, <2>10
  <2> QED
    BY <1>10, <1>11, <1>12, <2>1, <2>2, <2>7, <2>8, <2>11, PublisherMoves, Zenon
<1> QED
  BY <1>13, <1>14

\* The entry has been offered to all.
LEMMA DoneKeeps ==
  ASSUME LogTypes, HubInv, NEW p \in Publishers, PublishDone(p)
  PROVE  LogTypes' /\ HubInv'
<1>1. PICK pub : pub = lsPub[p]
  OBVIOUS
<1>2. pub \in Publisher /\ PubSound(pub, lsArrays, lsSlice, lsChan, lsNext) /\ pub.pc = "send"
  BY <1>1 DEF LogTypes, HubInv, PublishDone
<1>3. PICK pc \in {"answered", "publish"}, todo \in SUBSET pub.todo :
        lsPub' = [lsPub EXCEPT ![p].pc = pc, ![p].todo = todo]
  BY <1>1 DEF PublishDone
<1>4. PICK new : new = [pub EXCEPT !.pc = pc, !.todo = todo]
  OBVIOUS
<1>5. new \in Publisher /\ new.pc = pc /\ new.todo = todo
  BY <1>2, <1>4 DEF Publisher
<1>6. lsPub' = [lsPub EXCEPT ![p] = new]
  <2>1. lsPub \in [Publishers -> Publisher]
    BY DEF LogTypes
  <2> QED
    BY <1>1, <1>3, <1>4, <2>1
<1>7. /\ lsArrays' = lsArrays /\ lsSlice' = lsSlice /\ lsChan' = lsChan /\ lsRows' = lsRows /\ lsNext' = lsNext
      /\ lsPanics' = lsPanics
  BY DEF PublishDone, store, hub
<1>8. /\ lsRows' \subseteq 1 .. lsNext' - 1 /\ lsNext' \in Nat \ {0} /\ lsNext <= lsNext'
      /\ lsChan' \in [Subscribers -> Channel]
  BY <1>7 DEF LogTypes
<1>9. PubSound(new, lsArrays, lsSlice, lsChan, lsNext')
  BY <1>2, <1>5, <1>7 DEF PubSound
<1>10. p \notin lsPanics
  BY <1>1, <1>2 DEF HubInv
<1> QED
  BY <1>5, <1>6, <1>7, <1>8, <1>9, <1>10, PublisherMoves

\* A failed attempt.
LEMMA InsertFailsKeeps ==
  ASSUME LogTypes, HubInv, NEW p \in Publishers, NEW contended \in BOOLEAN, InsertFails(p, contended)
  PROVE  LogTypes' /\ HubInv'
<1>1. PICK pub : pub = lsPub[p]
  OBVIOUS
<1>2. pub \in Publisher /\ pub.pc = "insert" /\ pub.attempts \in Nat
  BY <1>1 DEF LogTypes, InsertFails, Publisher
<1>3. PICK pc \in {"insert", "failed"}, attempts \in Nat :
        lsPub' = [lsPub EXCEPT ![p].attempts = attempts, ![p].pc = pc]
  <2>1. lsPub[p].attempts + 1 \in Nat
    BY <1>1, <1>2
  <2>2. PICK pc : pc = IF contended /\ lsPub[p].attempts + 1 < InsertMaxAttempts THEN "insert" ELSE "failed"
    OBVIOUS
  <2> QED
    BY <2>1, <2>2 DEF InsertFails
<1>4. PICK new : new = [pub EXCEPT !.attempts = attempts, !.pc = pc]
  OBVIOUS
<1>5. new \in Publisher /\ new.pc = pc
  BY <1>2, <1>4 DEF Publisher
<1>6. lsPub' = [lsPub EXCEPT ![p] = new]
  <2>1. lsPub \in [Publishers -> Publisher]
    BY DEF LogTypes
  <2> QED
    BY <1>1, <1>3, <1>4, <2>1
<1>7. /\ lsArrays' = lsArrays /\ lsSlice' = lsSlice /\ lsChan' = lsChan /\ lsRows' = lsRows /\ lsNext' = lsNext
      /\ lsPanics' = lsPanics
  BY DEF InsertFails, store, hub
<1>8. /\ lsRows' \subseteq 1 .. lsNext' - 1 /\ lsNext' \in Nat \ {0} /\ lsNext <= lsNext'
      /\ lsChan' \in [Subscribers -> Channel]
  BY <1>7 DEF LogTypes
<1>9. PubSound(new, lsArrays, lsSlice, lsChan, lsNext')
  BY <1>5 DEF PubSound
<1>10. p \notin lsPanics
  BY <1>1, <1>2 DEF HubInv
<1> QED
  BY <1>5, <1>6, <1>7, <1>8, <1>9, <1>10, PublisherMoves

\* A publisher's next batch.
LEMMA NextBatchKeeps ==
  ASSUME LogTypes, HubInv, NEW p \in Publishers, NextBatch(p)
  PROVE  LogTypes' /\ HubInv'
<1>1. PICK new : new = NewPub
  OBVIOUS
<1>2. new \in Publisher /\ new.pc = "insert"
  <2>1. PICK walk \in Seq(WalkHeader) : walk = <<>>
    BY EmptySeq
  <2>2. PICK offered \in Seq(Slot) : offered = <<>>
    BY EmptySeq
  <2>3. new = [pc |-> "insert", attempts |-> 0, todo |-> {}, walk |-> walk, owed |-> {}, offered |-> offered,
               disturbed |-> FALSE]
    BY <1>1, <2>1, <2>2 DEF NewPub
  <2>4. {} \in SUBSET Nat /\ {} \in SUBSET Slot /\ 0 \in Nat
    OBVIOUS
  <2> QED
    BY <2>3, <2>4 DEF Publisher
<1>3. /\ lsArrays' = lsArrays /\ lsSlice' = lsSlice /\ lsChan' = lsChan /\ lsRows' = lsRows /\ lsNext' = lsNext
      /\ lsPanics' = lsPanics \ {p} /\ lsPub' = [lsPub EXCEPT ![p] = new]
  BY <1>1 DEF NextBatch, store, hub
<1>4. /\ lsRows' \subseteq 1 .. lsNext' - 1 /\ lsNext' \in Nat \ {0} /\ lsNext <= lsNext'
      /\ lsChan' \in [Subscribers -> Channel]
  BY <1>3 DEF LogTypes
<1>5. PubSound(new, lsArrays, lsSlice, lsChan, lsNext')
  BY <1>2 DEF PubSound
<1> QED
  BY <1>2, <1>3, <1>4, <1>5, PublisherMoves

\* A client has read one more entry.
LEMMA StreamEntryKeeps ==
  ASSUME LogTypes, HubInv, NEW c \in Subscribers, StreamEntry(c)
  PROVE  LogTypes' /\ HubInv'
<1>1. PICK C, D, A, S, next : C = lsChan /\ D = lsChan' /\ A = lsArrays /\ S = lsSlice /\ next = lsNext
  OBVIOUS
<1>2. PICK ch \in Channel : ch = C[c]
  BY <1>1 DEF LogTypes
<1>3. PICK buffer \in Seq(Nat) : buffer = ch.buffer /\ buffer # <<>>
  BY <1>1, <1>2 DEF StreamEntry, Channel
<1>4. PICK rest \in Seq(Nat) : rest = Tail(buffer)
  BY <1>3, HeadTailProperties
<1>5. PICK new : new = [ch EXCEPT !.buffer = rest]
  OBVIOUS
<1>6. new \in Channel /\ new.state = ch.state /\ new.list = ch.list
  BY <1>2, <1>5 DEF Channel
<1>7. D = [C EXCEPT ![c] = new]
  <2>1. D = [C EXCEPT ![c].buffer = rest] /\ C \in [Subscribers -> Channel]
    BY <1>1, <1>2, <1>3, <1>4 DEF StreamEntry, LogTypes
  <2> QED
    BY <1>2, <1>5, <2>1
<1>8. D \in [Subscribers -> Channel] /\ \A d \in Subscribers : C[d].state = D[d].state /\ C[d].list = D[d].list
  <2>1. C \in [Subscribers -> Channel]
    BY <1>1 DEF LogTypes
  <2> QED
    BY <1>2, <1>6, <1>7, <2>1
<1>9. /\ lsArrays' = lsArrays /\ lsSlice' = lsSlice /\ lsRows' = lsRows /\ lsNext' = lsNext /\ lsPub' = lsPub
      /\ lsPanics' = lsPanics
  BY DEF StreamEntry, store
<1>10. HubSound(A, S, D)
  <2>1. HubSound(A, S, C)
    BY <1>1 DEF HubInv
  <2> QED
    BY <1>8, <2>1, HubStays
<1>11. ASSUME NEW p \in Publishers PROVE PubSound(lsPub[p], A, S, D, next)
  <2>1. PICK pub \in Publisher : pub = lsPub[p]
    BY DEF LogTypes
  <2>2. PubSound(pub, A, S, C, next)
    BY <1>1, <2>1 DEF HubInv
  <2>3. next \in Nat /\ next <= next /\ \A list \in Lists : S[list] \in SliceHeader
    BY <1>1 DEF LogTypes
  <2>4. PubSound(pub, A, S, D, next)
    BY <1>8, <2>2, <2>3, PublisherStays
  <2> QED
    BY <2>1, <2>4
<1>12. LogTypes'
  BY <1>1, <1>8, <1>9 DEF LogTypes
<1>13. HubInv'
  BY <1>1, <1>9, <1>10, <1>11 DEF HubInv
<1> QED
  BY <1>12, <1>13

\* A batch is stored under the ids that come next, and what a trim takes is old.
LEMMA InsertKeeps ==
  ASSUME LsAssumption, LogTypes, HubInv, NEW p \in Publishers, NEW n \in BatchSizes, InsertLogEntries(p, n)
  PROVE  LogTypes' /\ HubInv'
<1>1. PICK pub : pub = lsPub[p]
  OBVIOUS
<1>2. pub \in Publisher /\ pub.pc = "insert"
  BY <1>1 DEF LogTypes, InsertLogEntries
<1>3. n \in Nat \ {0}
  BY DEF LsAssumption
<1>4. PICK ids : ids = lsNext .. lsNext + n - 1
  OBVIOUS
<1>5. lsNext \in Nat \ {0} /\ lsNext' = lsNext + n
  BY DEF LogTypes, InsertLogEntries
<1>6. ids \subseteq 1 .. lsNext' - 1 /\ ids \in SUBSET Nat
  BY <1>3, <1>4, <1>5
<1>7. lsRows' \subseteq lsRows \cup ids
  BY <1>4 DEF InsertLogEntries, TrimLogRetention
<1>8. lsRows' \subseteq 1 .. lsNext' - 1 /\ lsNext' \in Nat \ {0} /\ lsNext <= lsNext'
  <2>1. lsRows \subseteq 1 .. lsNext' - 1
    BY <1>3, <1>5 DEF LogTypes
  <2> QED
    BY <1>3, <1>5, <1>6, <1>7, <2>1
<1>9. PICK new : new = [pub EXCEPT !.pc = "publish", !.todo = ids]
  OBVIOUS
<1>10. new \in Publisher /\ new.pc = "publish" /\ new.todo = ids
  BY <1>2, <1>6, <1>9 DEF Publisher
<1>11. lsPub' = [lsPub EXCEPT ![p] = new]
  <2>1. lsPub \in [Publishers -> Publisher] /\ lsPub' = [lsPub EXCEPT ![p].pc = "publish", ![p].todo = ids]
    BY <1>4 DEF LogTypes, InsertLogEntries
  <2> QED
    BY <1>1, <1>9, <2>1
<1>12. lsArrays' = lsArrays /\ lsSlice' = lsSlice /\ lsChan' = lsChan /\ lsPanics' = lsPanics
  BY DEF InsertLogEntries, hub
<1>13. PubSound(new, lsArrays, lsSlice, lsChan, lsNext')
  BY <1>6, <1>10 DEF PubSound
<1>14. p \notin lsPanics
  BY <1>1, <1>2 DEF HubInv
<1>15. lsChan' \in [Subscribers -> Channel]
  BY <1>12 DEF LogTypes
<1> QED
  BY <1>8, <1>10, <1>11, <1>12, <1>13, <1>14, <1>15, PublisherMoves

\* A trim leaves the newest RetentionCap - 1 ids, when all of these are there.
LEMMA TrimLeaves ==
  ASSUME LsAssumption, NEW next \in Nat, NEW rows \in SUBSET (1 .. next - 1), NEW r \in rows, r >= next - (RetentionCap - 1)
  PROVE  r \in TrimLogRetention(rows)
<1>1. RetentionCap \in Nat \ {0}
  BY DEF LsAssumption
<1>2. rows \in SUBSET Nat /\ r \in Nat /\ r <= next - 1 /\ r >= 1 /\ \A q \in rows : q \in Nat /\ q <= next - 1
  OBVIOUS
<1>3. ASSUME Cardinality(rows) > RetentionCap PROVE r > Min(Newest(rows, RetentionCap))
  <2>1. PICK above : above = {q \in rows : q >= r}
    OBVIOUS
  <2>2. above \subseteq r .. next - 1
    <3> SUFFICES ASSUME NEW q \in above PROVE q \in r .. next - 1
      OBVIOUS
    <3>1. q \in rows /\ q >= r
      BY <2>1
    <3>2. q \in Int /\ q <= next - 1
      BY <1>2, <3>1
    <3> QED
      BY <3>1, <3>2
  <2>3. IsFiniteSet(r .. next - 1) /\ Cardinality(r .. next - 1) = next - r
    <3>1. r \in Int /\ next - 1 \in Int /\ (next - 1) - r + 1 = next - r /\ ~(r > next - 1)
      BY <1>2
    <3> QED
      BY <3>1, FS_Interval
  <2>4. IsFiniteSet(above) /\ Cardinality(above) \in Nat /\ Cardinality(above) <= next - r
    <3>1. IsFiniteSet(above) /\ Cardinality(above) <= Cardinality(r .. next - 1)
      BY <2>2, <2>3, FS_Subset
    <3> QED
      BY <2>3, <3>1, FS_CardinalityType
  <2>5. Cardinality(above) < RetentionCap
    BY <1>1, <1>2, <2>4
  <2>6. PICK below : below = {q \in rows : q < r}
    OBVIOUS
  <2>7. below # {}
    <3> SUFFICES ASSUME below = {} PROVE FALSE
      OBVIOUS
    <3>1. rows = above
      <4>1. \A q \in rows : q >= r
        BY <1>2, <2>6
      <4> QED
        BY <2>1, <4>1
    <3> QED
      BY <1>1, <1>3, <2>4, <2>5, <3>1
  <2>8. below \in SUBSET (0 .. next)
    <3> SUFFICES ASSUME NEW q \in below PROVE q \in 0 .. next
      OBVIOUS
    <3>1. q \in Nat /\ q <= next - 1
      BY <1>2, <2>6
    <3> QED
      BY <3>1
  <2>9. PICK g \in below : \A k \in below : k <= g
    BY <2>7, <2>8, GreatestOf
  <2>10. {q \in rows : q > g} = above
    <3>1. ASSUME NEW q \in rows, q > g PROVE q >= r
      <4>1. q \notin below /\ q \in Nat /\ g \in Nat
        BY <2>6, <2>9, <3>1
      <4> QED
        BY <1>2, <2>6, <4>1
    <3>2. ASSUME NEW q \in rows, q >= r PROVE q > g
      BY <2>6, <3>2
    <3> QED
      BY <2>1, <3>1, <3>2
  <2>11. g \in Newest(rows, RetentionCap)
    BY <2>5, <2>6, <2>10 DEF Newest
  <2>12. PICK N : N = Newest(rows, RetentionCap)
    OBVIOUS
  <2>13. N \in SUBSET Nat /\ g \in N
    BY <1>2, <2>11, <2>12 DEF Newest
  <2>14. \E x \in N : \A y \in N : x <= y
    BY <2>13, LeastOf
  <2>15. Min(N) \in N /\ \A y \in N : Min(N) <= y
    BY <2>12, <2>13, <2>14 DEF Min
  <2>16. Min(N) <= g /\ g < r /\ Min(N) \in Nat /\ g \in Nat /\ r \in Nat
    BY <1>2, <2>6, <2>13, <2>15
  <2> QED
    BY <2>12, <2>16
<1> QED
  BY <1>3 DEF TrimLogRetention

\* So the newest entries stay, whenever the trims fall.
LEMMA InsertKeepsNewest ==
  ASSUME LsAssumption, LogTypes, NewestKept, NEW p \in Publishers, NEW n \in BatchSizes, InsertLogEntries(p, n)
  PROVE  NewestKept'
<1>1. PICK next \in Nat \ {0} : next = lsNext
  BY DEF LogTypes
<1>0. PICK later : later = next + n /\ later = lsNext'
  BY <1>1 DEF InsertLogEntries
<1>2. n \in Nat \ {0} /\ RetentionCap \in Nat \ {0}
  BY DEF LsAssumption
<1>3. PICK rows : rows = lsRows \cup (next .. next + n - 1)
  OBVIOUS
<1>4. later \in Nat /\ rows \in SUBSET (1 .. later - 1)
  BY <1>0, <1>1, <1>2, <1>3 DEF LogTypes
<1>5. lsRows' = rows \/ lsRows' = TrimLogRetention(rows)
  BY <1>1, <1>3 DEF InsertLogEntries
<1>6. ASSUME NEW r \in 1 .. later - 1, r >= later - (RetentionCap - 1) PROVE r \in lsRows'
  <2>1. r \in rows
    <3>1. CASE r >= next
      BY <1>0, <1>1, <1>2, <1>3, <3>1
    <3>2. CASE r < next
      <4>1. r \in 1 .. next - 1 /\ r >= next - (RetentionCap - 1)
        BY <1>0, <1>1, <1>2, <1>6, <3>2
      <4> QED
        BY <1>1, <1>3, <4>1 DEF NewestKept
    <3> QED
      BY <1>0, <1>1, <3>1, <3>2
  <2>2. r \in TrimLogRetention(rows)
    BY <1>4, <1>6, <2>1, TrimLeaves
  <2> QED
    BY <1>5, <2>1, <2>2
<1> QED
  BY <1>0, <1>6 DEF NewestKept

\* A page is the upper end of what may be on it, and empty only when nothing is.
LEMMA PageIsNewest ==
  ASSUME LsAssumption, NEW next \in Nat, NEW rows \in SUBSET (1 .. next - 1), NEW page, page = Newest(rows, PageLimit)
  PROVE  /\ page \subseteq rows /\ (page = {} => rows = {})
         /\ \A r \in page, q \in rows : q > r => q \in page
<1>1. PageLimit \in Nat \ {0} /\ rows \in SUBSET Nat
  BY DEF LsAssumption
<1>2. IsFiniteSet(rows)
  <2>1. IsFiniteSet(1 .. next - 1)
    BY FS_Interval
  <2> QED
    BY <2>1, FS_Subset
<1>3. ASSUME NEW r \in page, NEW q \in rows, q > r PROVE q \in page
  <2>1. PICK lower, upper : lower = {x \in rows : x > r} /\ upper = {x \in rows : x > q}
    OBVIOUS
  <2>2. upper \subseteq lower
    <3> SUFFICES ASSUME NEW x \in rows, x > q PROVE x > r
      BY <2>1
    <3>1. r \in Nat /\ q \in Nat /\ x \in Nat
      BY <1>1, <1>3 DEF Newest
    <3> QED
      BY <1>3, <3>1
  <2>3. IsFiniteSet(lower) /\ IsFiniteSet(upper)
    BY <1>2, <2>1, FS_Subset
  <2>4. Cardinality(upper) <= Cardinality(lower) /\ Cardinality(upper) \in Nat /\ Cardinality(lower) \in Nat
    BY <2>2, <2>3, FS_Subset, FS_CardinalityType
  <2>5. Cardinality(lower) < PageLimit
    BY <2>1 DEF Newest
  <2>6. Cardinality(upper) < PageLimit
    BY <1>1, <2>4, <2>5
  <2> QED
    BY <2>1, <2>6 DEF Newest
<1>4. ASSUME rows # {} PROVE page # {}
  <2>1. rows \in SUBSET (0 .. next)
    OBVIOUS
  <2>2. PICK g \in rows : \A k \in rows : k <= g
    BY <1>4, <2>1, GreatestOf
  <2>3. {x \in rows : x > g} = {}
    <3> SUFFICES ASSUME NEW x \in rows, x > g PROVE FALSE
      OBVIOUS
    <3>1. x \in Nat /\ g \in Nat /\ x <= g
      BY <1>1, <2>2
    <3> QED
      BY <3>1
  <2>4. Cardinality({x \in rows : x > g}) = 0
    BY <2>3, FS_EmptySet
  <2> QED
    BY <1>1, <2>4 DEF Newest
<1> QED
  BY <1>3, <1>4 DEF Newest

\* A reader's next page.
LEMMA ServeKeeps ==
  ASSUME LsAssumption, LogTypes, HubInv, ReaderInv, NewestKept, ServeLogs
  PROVE  LogTypes' /\ HubInv' /\ ReaderInv' /\ NewestKept'
<1>1. /\ lsArrays' = lsArrays /\ lsSlice' = lsSlice /\ lsChan' = lsChan /\ lsRows' = lsRows /\ lsNext' = lsNext
      /\ lsPanics' = lsPanics /\ lsPub' = lsPub
  BY DEF ServeLogs, hub, store
<1>2. LogTypes' /\ NewestKept'
  BY <1>1 DEF LogTypes, NewestKept
<1>3. HubInv'
  BY <1>1 DEF HubInv
<1>4. PICK pg : pg = lsPage
  OBVIOUS
<1>5. /\ pg \in [before : Nat, seen : SUBSET Nat, again : SUBSET Nat, done : BOOLEAN, first : SUBSET Nat]
      /\ pg.again = {} /\ pg.first \subseteq 1 .. lsNext - 1 /\ ~pg.done
      /\ pg.before = 0 => pg.seen = {}
      /\ pg.before > 0 => /\ \A r \in pg.first \cap lsRows : r >= pg.before => r \in pg.seen
                          /\ \A r \in pg.seen : r >= pg.before
  BY <1>4 DEF ReaderInv, ServeLogs
<1>6. PICK rows, page : rows = {r \in lsRows : pg.before = 0 \/ r < pg.before} /\ page = Newest(rows, PageLimit)
  OBVIOUS
<1>7. lsNext \in Nat /\ lsRows \subseteq 1 .. lsNext - 1 /\ lsRows \subseteq Nat /\ rows \in SUBSET (1 .. lsNext - 1)
  <2>1. lsNext \in Nat /\ lsRows \subseteq 1 .. lsNext - 1
    BY DEF LogTypes
  <2>2. lsRows \subseteq Nat
    BY <2>1
  <2> QED
    BY <1>6, <2>1, <2>2
<1>8. /\ page \subseteq rows /\ (page = {} => rows = {})
      /\ \A r \in page, q \in rows : q > r => q \in page
  <2>1. PICK next \in Nat : next = lsNext
    BY <1>7
  <2>2. rows \in SUBSET (1 .. next - 1)
    BY <1>7, <2>1
  <2>3. page = Newest(rows, PageLimit)
    BY <1>6
  <2> QED
    BY <2>2, <2>3, LsAssumption, PageIsNewest
<1>9. PICK before, first : /\ before = (IF page = {} THEN 0 ELSE Min(page))
                           /\ first = (IF pg.before = 0 THEN lsRows ELSE pg.first)
  OBVIOUS
<1>10. lsPage' = [before |-> before, seen |-> pg.seen \cup page, again |-> pg.again \cup (pg.seen \cap page),
                  done |-> page = {}, first |-> first]
  BY <1>4, <1>6, <1>9 DEF ServeLogs, ListLogEntries
<1>11. page # {} => before \in page /\ \A r \in page : before <= r
  <2> SUFFICES ASSUME page # {} PROVE before \in page /\ \A r \in page : before <= r
    OBVIOUS
  <2>1. page \in SUBSET Nat
    BY <1>7, <1>8
  <2>2. \E x \in page : \A y \in page : x <= y
    BY <2>1, LeastOf
  <2>3. before = Min(page)
    BY <1>9
  <2> QED
    BY <2>2, <2>3 DEF Min
<1>12. before \in Nat /\ (page # {} => before > 0)
  <2>1. \A r \in page : r \in Nat /\ r > 0
    BY <1>7, <1>8
  <2>2. CASE page = {}
    BY <1>9, <2>2
  <2>3. CASE page # {}
    <3>1. before \in page
      BY <1>11, <2>3
    <3> QED
      BY <2>1, <3>1
  <2> QED
    BY <2>2, <2>3
<1>13. pg.seen \cap page = {}
  <2> SUFFICES ASSUME NEW r \in pg.seen, r \in page PROVE FALSE
    OBVIOUS
  <2>1. pg.before \in Nat /\ pg.before # 0 /\ r \in Nat
    BY <1>5
  <2>2. r >= pg.before
    BY <1>5, <2>1
  <2>3. r < pg.before
    BY <1>6, <1>8, <2>1
  <2> QED
    BY <2>1, <2>2, <2>3
<1>14. ASSUME NEW r \in first \cap lsRows PROVE r \in pg.seen \/ r \in rows
  <2>1. pg.before \in Nat /\ r \in Nat
    BY <1>5, <1>7
  <2>2. CASE pg.before = 0 \/ r < pg.before
    BY <1>6, <2>2
  <2>3. CASE pg.before > 0 /\ r >= pg.before
    BY <1>5, <1>9, <2>3
  <2> QED
    BY <2>1, <2>2, <2>3
<1>15. ASSUME NEW r \in first \cap lsRows, page = {} \/ r >= before PROVE r \in pg.seen \cup page
  <2>1. CASE page = {}
    BY <1>8, <1>14, <2>1
  <2>2. CASE page # {}
    <3>1. r \in Nat /\ before \in Nat
      BY <1>7, <1>12
    <3>2. r = before \/ r > before
      BY <1>15, <2>2, <3>1
    <3> QED
      BY <1>8, <1>11, <1>14, <2>2, <3>2
  <2> QED
    BY <2>1, <2>2
<1>16. ASSUME page # {}, NEW r \in pg.seen \cup page PROVE r >= before
  <2>1. before \in Nat /\ before \in rows /\ pg.before \in Nat
    BY <1>5, <1>8, <1>11, <1>12, <1>16
  <2>2. CASE r \in page
    <3>1. r \in Nat /\ before <= r
      BY <1>7, <1>8, <1>11, <2>2
    <3> QED
      BY <2>1, <3>1
  <2>3. CASE r \in pg.seen
    <3>1. pg.before # 0 /\ r \in Nat
      BY <1>5, <2>3
    <3>2. r >= pg.before
      BY <1>5, <2>1, <2>3, <3>1
    <3>3. before < pg.before
      BY <1>6, <2>1, <3>1
    <3> QED
      BY <2>1, <3>1, <3>2, <3>3
  <2> QED
    BY <1>16, <2>2, <2>3
<1>17. /\ pg.seen \cup page \in SUBSET Nat /\ pg.again \cup (pg.seen \cap page) = {} /\ first \in SUBSET Nat
       /\ first \subseteq 1 .. lsNext - 1
  <2>1. pg.seen \cup page \in SUBSET Nat
    BY <1>5, <1>6, <1>7, <1>8
  <2>2. pg.again \cup (pg.seen \cap page) = {}
    BY <1>5, <1>13
  <2>3. first \in SUBSET Nat /\ first \subseteq 1 .. lsNext - 1
    BY <1>5, <1>7, <1>9
  <2> QED
    BY <2>1, <2>2, <2>3
<1>18. ReaderInv'
  <2>1. PICK new, seen, done : /\ new = lsPage' /\ seen = pg.seen \cup page /\ done \in BOOLEAN /\ (done <=> page = {})
                               /\ new = [before |-> before, seen |-> seen, again |-> {}, done |-> done, first |-> first]
    <3>1. PICK done \in BOOLEAN : done = (page = {})
      OBVIOUS
    <3>2. lsPage' = [before |-> before, seen |-> pg.seen \cup page, again |-> {}, done |-> done, first |-> first]
      BY <1>10, <1>17, <3>1
    <3> QED
      BY <3>1, <3>2
  <2>2. /\ new \in [before : Nat, seen : SUBSET Nat, again : SUBSET Nat, done : BOOLEAN, first : SUBSET Nat]
        /\ new.again = {} /\ new.first = first /\ new.seen = seen /\ new.before = before /\ new.done = done
    <3>1. {} \in SUBSET Nat
      OBVIOUS
    <3> QED
      BY <1>12, <1>17, <2>1, <3>1
  <2>3. ~done => before > 0
    BY <1>12, <2>1
  <2>4. ASSUME ~done
        PROVE  (\A r \in first \cap lsRows : r >= before => r \in seen) /\ \A r \in seen : r >= before
    BY <1>15, <1>16, <2>1, <2>4
  <2>5. done => first \cap lsRows \subseteq seen
    BY <1>15, <2>1
  <2>6. before \in Nat /\ (~done => before # 0)
    BY <1>12, <2>3
  <2> QED
    BY <1>1, <1>17, <2>1, <2>2, <2>3, <2>4, <2>5, <2>6 DEF ReaderInv
<1> QED
  BY <1>2, <1>3, <1>18

\* A reader's promise is about the entries that were there when it began.
LEMMA ReaderStays ==
  ASSUME LogTypes, ReaderInv, lsPage' = lsPage, lsNext' \in Nat, lsNext <= lsNext',
         \A r \in lsRows' : r \in lsRows \/ r >= lsNext
  PROVE  ReaderInv'
<1>1. lsPage.first \cap lsRows' \subseteq lsPage.first \cap lsRows
  <2> SUFFICES ASSUME NEW r \in lsPage.first \cap lsRows' PROVE r \in lsRows
    OBVIOUS
  <2>1. r \in 1 .. lsNext - 1 /\ lsNext \in Nat
    BY DEF ReaderInv, LogTypes
  <2>2. ~(r >= lsNext)
    BY <2>1
  <2> QED
    BY <2>2
<1>2. lsPage.first \subseteq 1 .. lsNext' - 1
  BY DEF ReaderInv, LogTypes
<1> QED
  BY <1>1, <1>2 DEF ReaderInv

\* A step that stores nothing leaves the store as it was.
LEMMA StoreStays ==
  ASSUME LogTypes, ReaderInv, NewestKept, lsPage' = lsPage, lsRows' = lsRows, lsNext' = lsNext
  PROVE  ReaderInv' /\ NewestKept'
<1>1. NewestKept'
  BY DEF NewestKept
<1>2. lsNext' \in Nat /\ lsNext <= lsNext'
  BY DEF LogTypes
<1>3. \A r \in lsRows' : r \in lsRows \/ r >= lsNext
  OBVIOUS
<1>4. ReaderInv'
  BY <1>2, <1>3, ReaderStays
<1> QED
  BY <1>1, <1>4

\* It holds in the beginning.
LEMMA LogStarts ==
  ASSUME LsAssumption, LsInit
  PROVE  LogInv
<1>1. PICK A \in Seq(Seq(Slot)) : A = <<>> /\ A = lsArrays
  BY EmptySeq DEF LsInit
<1>2. PICK buffer \in Seq(Nat) : buffer = <<>>
  BY EmptySeq
<1>3. PICK walk \in Seq(WalkHeader), offered \in Seq(Slot) : walk = <<>> /\ offered = <<>>
  BY EmptySeq
<1>4. PICK ch : ch = NewChan
  OBVIOUS
<1>5. ch \in Channel /\ ch.state = "none"
  BY <1>2, <1>4 DEF Channel, NewChan
<1>6. PICK pub : pub = NewPub
  OBVIOUS
<1>7. pub \in Publisher /\ pub.pc = "insert"
  <2>1. pub = [pc |-> "insert", attempts |-> 0, todo |-> {}, walk |-> walk, owed |-> {}, offered |-> offered,
               disturbed |-> FALSE]
    BY <1>3, <1>6 DEF NewPub
  <2>2. {} \in SUBSET Nat /\ {} \in SUBSET Slot /\ 0 \in Nat
    OBVIOUS
  <2> QED
    BY <2>1, <2>2 DEF Publisher
<1>8. PICK none : none = NoSlice
  OBVIOUS
<1>20. none \in SliceHeader /\ none.array = 0 /\ none.len = 0
  BY <1>8 DEF SliceHeader, NoSlice
<1>9. PICK S, C : S = lsSlice /\ C = lsChan
  OBVIOUS
<1>21. S = [l \in Lists |-> none] /\ C = [c \in Subscribers |-> ch] /\ lsPub = [p \in Publishers |-> pub]
  BY <1>4, <1>6, <1>8, <1>9 DEF LsInit
<1>10. /\ lsRows = {} /\ lsNext = 1 /\ lsPanics = {}
       /\ lsPage = [before |-> 0, seen |-> {}, again |-> {}, done |-> FALSE, first |-> {}]
  BY DEF LsInit
<1>11. LogTypes
  <2>1. S \in [Lists -> SliceHeader] /\ C \in [Subscribers -> Channel] /\ lsPub \in [Publishers -> Publisher]
    BY <1>5, <1>7, <1>20, <1>21
  <2>2. lsNext \in Nat \ {0} /\ lsRows \subseteq 1 .. lsNext - 1
    BY <1>10
  <2> QED
    BY <1>1, <1>9, <2>1, <2>2 DEF LogTypes
<1>12. \A list \in Lists : S[list] = none
  BY <1>21
<1>13. \A c \in Subscribers : C[c].state # "open"
  BY <1>5, <1>21
<1>14. ASSUME NEW list \in Lists PROVE SliceSound(A, S[list], C, list)
  <2>1. SliceSound(A, none, C, list)
    BY <1>13, <1>20 DEF SliceSound
  <2> QED
    BY <1>12, <2>1
<1>15. HubSound(A, S, C)
  <2>1. ~(S["project"].array > 0)
    BY <1>12, <1>20 DEF Lists
  <2> QED
    BY <1>13, <1>14, <2>1 DEF HubSound
<1>16. \A p \in Publishers : PubSound(lsPub[p], lsArrays, lsSlice, lsChan, lsNext)
  BY <1>7, <1>21 DEF PubSound
<1>17. HubInv
  BY <1>1, <1>9, <1>10, <1>15, <1>16 DEF HubInv
<1>18. ReaderInv
  <2>1. {} \in SUBSET Nat /\ 0 \in Nat /\ FALSE \in BOOLEAN /\ ~(0 > 0)
    OBVIOUS
  <2>2. lsPage \in [before : Nat, seen : SUBSET Nat, again : SUBSET Nat, done : BOOLEAN, first : SUBSET Nat]
    BY <1>10, <2>1
  <2>3. lsPage.before = 0 /\ lsPage.seen = {} /\ lsPage.again = {} /\ ~lsPage.done /\ lsPage.first = {}
    BY <1>10
  <2> QED
    BY <2>1, <2>2, <2>3 DEF ReaderInv
<1>19. NewestKept
  BY <1>10 DEF NewestKept
<1> QED
  BY <1>11, <1>17, <1>18, <1>19 DEF LogInv

\* Every step keeps it.
LEMMA LogSteps ==
  ASSUME LsAssumption, LogInv, [LsNext]_lsVars
  PROVE  LogInv'
<1> USE DEF LogInv
<1>1. ASSUME NEW c \in Subscribers, Cancel(c) PROVE LogInv'
  <2>1. lsPage' = lsPage /\ lsRows' = lsRows /\ lsNext' = lsNext
    BY <1>1 DEF Cancel, store
  <2> QED
    BY <1>1, <2>1, CancelKeeps, StoreStays
<1>2. ASSUME NEW c \in Subscribers, StreamEntry(c) PROVE LogInv'
  <2>1. lsPage' = lsPage /\ lsRows' = lsRows /\ lsNext' = lsNext
    BY <1>2 DEF StreamEntry, store
  <2> QED
    BY <1>2, <2>1, StreamEntryKeeps, StoreStays
<1>3. ASSUME NEW c \in Subscribers, NEW list \in Lists, Subscribe(c, list) PROVE LogInv'
  <2>1. lsPage' = lsPage /\ lsRows' = lsRows /\ lsNext' = lsNext
    BY <1>3 DEF Subscribe, store
  <2> QED
    BY <1>3, <2>1, SubscribeKeeps, StoreStays
<1>4. ASSUME NEW p \in Publishers, PublishCopy(p) PROVE LogInv'
  <2>1. lsPage' = lsPage /\ lsRows' = lsRows /\ lsNext' = lsNext
    BY <1>4, Zenon DEF PublishCopy, store
  <2> QED
    BY <1>4, <2>1, CopyKeeps, StoreStays
<1>5. ASSUME NEW p \in Publishers, PublishSend(p) PROVE LogInv'
  <2>1. lsPage' = lsPage /\ lsRows' = lsRows /\ lsNext' = lsNext
    BY <1>5, Zenon DEF PublishSend, store
  <2> QED
    BY <1>5, <2>1, SendKeeps, StoreStays
<1>6. ASSUME NEW p \in Publishers, PublishDone(p) PROVE LogInv'
  <2>1. lsPage' = lsPage /\ lsRows' = lsRows /\ lsNext' = lsNext
    BY <1>6 DEF PublishDone, store
  <2> QED
    BY <1>6, <2>1, DoneKeeps, StoreStays
<1>7. ASSUME NEW p \in Publishers, NextBatch(p) PROVE LogInv'
  <2>1. lsPage' = lsPage /\ lsRows' = lsRows /\ lsNext' = lsNext
    BY <1>7 DEF NextBatch, store
  <2> QED
    BY <1>7, <2>1, NextBatchKeeps, StoreStays
<1>8. ASSUME NEW p \in Publishers, NEW n \in BatchSizes, InsertLogEntries(p, n) PROVE LogInv'
  <2>1. LogTypes' /\ HubInv'
    BY <1>8, InsertKeeps
  <2>2. NewestKept'
    BY <1>8, InsertKeepsNewest
  <2>3. lsPage' = lsPage /\ lsNext' = lsNext + n /\ lsRows' \subseteq lsRows \cup (lsNext .. lsNext + n - 1)
    BY <1>8 DEF InsertLogEntries, TrimLogRetention
  <2>4. n \in Nat /\ lsNext \in Nat
    BY DEF LsAssumption, LogTypes
  <2>5. lsNext' \in Nat /\ lsNext <= lsNext' /\ \A r \in lsRows' : r \in lsRows \/ r >= lsNext
    BY <2>3, <2>4
  <2>6. ReaderInv'
    BY <2>3, <2>5, ReaderStays
  <2> QED
    BY <2>1, <2>2, <2>6
<1>9. ASSUME NEW p \in Publishers, NEW contended \in BOOLEAN, InsertFails(p, contended) PROVE LogInv'
  <2>1. lsPage' = lsPage /\ lsRows' = lsRows /\ lsNext' = lsNext
    BY <1>9 DEF InsertFails, store
  <2> QED
    BY <1>9, <2>1, InsertFailsKeeps, StoreStays
<1>10. CASE ServeLogs
  BY <1>10, ServeKeeps
<1>11. CASE UNCHANGED lsVars
  <2>1. /\ lsArrays' = lsArrays /\ lsSlice' = lsSlice /\ lsChan' = lsChan /\ lsRows' = lsRows /\ lsNext' = lsNext
        /\ lsPanics' = lsPanics /\ lsPub' = lsPub /\ lsPage' = lsPage
    BY <1>11 DEF lsVars
  <2>2. LogTypes' /\ HubInv'
    BY <2>1 DEF LogTypes, HubInv
  <2> QED
    BY <2>1, <2>2, StoreStays
<1> QED
  BY <1>1, <1>2, <1>3, <1>4, <1>5, <1>6, <1>7, <1>8, <1>9, <1>10, <1>11 DEF LsNext

\* What it says of a walk that has ended, and of the pages.
LEMMA LogsServed ==
  ASSUME LogInv
  PROVE  LogsReachReaders
<1>1. ASSUME NEW p \in Publishers, Walked(p), ~lsPub[p].disturbed, NEW c \in lsPub[p].owed PROVE Offers(p, c) = 1
  <2>1. PICK pub : pub = lsPub[p]
    OBVIOUS
  <2>2. pub.pc = "send" /\ pub.walk = <<>> /\ PubSound(pub, lsArrays, lsSlice, lsChan, lsNext)
    BY <1>1, <2>1 DEF Walked, LogInv, HubInv
  <2>3. WalkSound(lsArrays, lsSlice, lsChan, pub) /\ DOMAIN pub.walk = {}
    <3>1. WalkSound(lsArrays, lsSlice, lsChan, pub)
      BY <1>1, <2>1, <2>2 DEF PubSound
    <3>2. DOMAIN <<>> = {}
      OBVIOUS
    <3> QED
      BY <2>2, <3>1, <3>2
  <2>4. PICK n \in DOMAIN pub.offered : pub.offered[n] = c
    BY <1>1, <2>1, <2>3 DEF WalkSound
  <2>5. \A m \in DOMAIN pub.offered : pub.offered[m] = c => m = n
    BY <2>3, <2>4 DEF WalkSound
  <2>6. {i \in DOMAIN lsPub[p].offered : lsPub[p].offered[i] = c} = {n}
    BY <2>1, <2>4, <2>5
  <2> QED
    BY <2>6, FS_Singleton DEF Offers
<1>2. PublishServesSubscribers
  <2>1. \A p \in lsPanics : lsPub[p].disturbed
    BY DEF LogInv, HubInv
  <2> QED
    BY <1>1, <2>1 DEF PublishServesSubscribers
<1>3. NewestLogsKeptAndPaged
  BY DEF LogInv, ReaderInv, NewestKept, NewestLogsKeptAndPaged
<1> QED
  BY <1>2, <1>3 DEF LogsReachReaders

\* Publish, trimLogRetention, ListLogEntries: a published entry is offered exactly once to every channel
\* that was listed at the copy, unless a cancel came during the walk, and only then may a send
\* panic; the trims leave the newest entries, and a reader who pages to the end has seen all that
\* was there when it began and still is, and nothing twice.
THEOREM LogsAreServed == LsSpec => []LogsReachReaders
<1>1. LsInit => LogInv
  BY LogStarts, LsAssumption
<1>2. LogInv /\ [LsNext]_lsVars => LogInv'
  BY LogSteps, LsAssumption
<1>3. LogInv => LogsReachReaders
  BY LogsServed
<1> QED
  BY <1>1, <1>2, <1>3, PTL DEF LsSpec

-----------------------------------------------------------------------------
(* The bytes of a segment: a line of its own is read, and only a torn      *)
(* write takes that from the record behind it.                             *)

Chunks == (Recs \X {1, 2}) \cup {NL}

\* The whole line of r starts at i, and nothing torn is before it.
FullLine(f, i, r) ==
  /\ i \in Nat \ {0} /\ i + 2 <= Len(f)
  /\ f[i] = <<r, 1>> /\ f[i + 1] = <<r, 2>> /\ f[i + 2] = NL
  /\ i > 1 => f[i - 1] = NL

\* A position a cursor may have: the start, the end of a line, or one past the torn
\* end of a write, where the next one has begun since, if there was any.
LineEnd(f, p) ==
  \/ p = 0
  \/ p \in 1 .. Len(f) /\ f[p] = NL
  \/ p \in 2 .. Len(f) + 1 /\ f[p - 1] # NL /\ (p <= Len(f) => f[p][2] = 1)

\* Writes that begin right behind a torn one, and whether the last one is torn.
Hits(f) == {i \in 2 .. Len(f) : f[i][2] = 1 /\ f[i - 1] # NL}
TornEnd(f) == IF f # <<>> /\ f[Len(f)] # NL THEN 1 ELSE 0

SegmentTypes ==
  /\ file \in Seq(Chunks) /\ offset \in Nat /\ entries \in Seq(Recs \X Nat)
  /\ given \in Nat /\ accepted \in SUBSET (1 .. given)
  /\ stored \in [Recs -> 0 .. Many] /\ tears \in Nat

\* An accepted record was written whole.
WrittenInv ==
  \A r \in accepted : \E i \in 1 .. Len(file) - 2 : file[i] = <<r, 1>> /\ file[i + 1] = <<r, 2>> /\ file[i + 2] = NL

PositionInv == LineEnd(file, offset) /\ \A k \in DOMAIN entries : LineEnd(file, entries[k][2])

\* Full lines before the cursor are stored, those before an entry stored or read.
HandledInv ==
  /\ \A i \in Nat, r \in Recs : FullLine(file, i, r) /\ i + 2 <= offset => stored[r] > 0
  /\ \A k \in DOMAIN entries : \A i \in Nat, r \in Recs :
       FullLine(file, i, r) /\ i + 2 <= entries[k][2] => stored[r] > 0 \/ \E j \in 1 .. k : entries[j][1] = r

TearsInv == IsFiniteSet(Hits(file)) /\ Cardinality(Hits(file)) + TornEnd(file) <= tears

SegmentInv == SegmentTypes /\ WrittenInv /\ PositionInv /\ HandledInv /\ TearsInv

\* A chunk is the first or the second of a record, or a newline.
LEMMA ChunkIs ==
  /\ \A c \in Chunks : c = NL \/ \E r \in Recs : c = <<r, 1>> \/ c = <<r, 2>>
  /\ \A r \in Recs : <<r, 1>> \in Chunks /\ <<r, 2>> \in Chunks /\ <<r, 1>> # NL /\ <<r, 2>> # NL
  /\ NL \in Chunks /\ NL[2] = 0
  /\ \A r : <<r, 1>>[1] = r /\ <<r, 1>>[2] = 1 /\ <<r, 2>>[2] = 2 /\ <<r, 1>> # NL /\ <<r, 2>> # NL
BY DEF Chunks, NL, Recs

\* The k-th of finitely many numbers: there is one of each rank.
LEMMA RankOf ==
  ASSUME NEW S \in SUBSET Nat, IsFiniteSet(S)
  PROVE  LET rank(e) == Cardinality({d \in S : d <= e})
         IN /\ Cardinality(S) \in Nat
            /\ \A e \in S : rank(e) \in 1 .. Cardinality(S)
            /\ \A e, d \in S : e < d => rank(e) < rank(d)
            /\ \A k \in 1 .. Cardinality(S) : \E e \in S : rank(e) = k
<1> DEFINE rank(e) == Cardinality({d \in S : d <= e})
           R == [e \in S |-> rank(e)]
<1>1. Cardinality(S) \in Nat
  BY FS_CardinalityType
<1>2. ASSUME NEW e \in S
      PROVE  IsFiniteSet({d \in S : d <= e}) /\ rank(e) \in 1 .. Cardinality(S)
  <2>1. PICK T : T = {d \in S : d <= e}
    OBVIOUS
  <2>2. T \subseteq S /\ e \in T
    BY <2>1
  <2>3. IsFiniteSet(T) /\ Cardinality(T) <= Cardinality(S) /\ Cardinality(T) \in Nat
    BY <2>2, FS_Subset, FS_CardinalityType
  <2>4. Cardinality(T) # 0
    BY <2>2, <2>3, FS_EmptySet
  <2> QED
    BY <1>1, <2>1, <2>3, <2>4
<1>3. ASSUME NEW e \in S, NEW d \in S, e < d PROVE rank(e) < rank(d)
  <2>1. PICK T, U : T = {x \in S : x <= e} /\ U = {x \in S : x <= d}
    OBVIOUS
  <2>2. T \subseteq U /\ d \in U /\ d \notin T
    <3>1. PICK m, n \in Nat : m = e /\ n = d /\ m < n
      BY <1>3
    <3>2. \A x \in Nat : x <= m => x <= n
      BY <3>1
    <3>3. ~ n <= m /\ n <= n
      BY <3>1
    <3> QED
      BY <2>1, <3>1, <3>2, <3>3
  <2>3. IsFiniteSet(U) /\ Cardinality(U) \in Nat /\ Cardinality(T) \in Nat
    BY <1>2, <2>1, FS_CardinalityType
  <2>4. Cardinality(T) <= Cardinality(U) /\ (Cardinality(T) = Cardinality(U) => T = U)
    BY <2>2, <2>3, FS_Subset
  <2>5. Cardinality(T) < Cardinality(U)
    BY <2>2, <2>3, <2>4
  <2> QED
    BY <2>1, <2>5
<1>4. ASSUME NEW k \in 1 .. Cardinality(S) PROVE \E e \in S : rank(e) = k
  <2>1. R \in [S -> 1 .. Cardinality(S)]
    BY <1>2
  <2>2. \A e, d \in S : R[e] = R[d] => e = d
    <3>1. ASSUME NEW e \in S, NEW d \in S, R[e] = R[d], e # d PROVE FALSE
      <4>1. rank(e) = rank(d) /\ rank(e) \in Nat /\ (e < d \/ d < e)
        BY <1>2, <3>1
      <4> HIDE DEF rank, R
      <4> QED
        BY <1>2, <1>3, <4>1
    <3> QED
      BY <3>1
  <2>3. IsFiniteSet(1 .. Cardinality(S)) /\ Cardinality(1 .. Cardinality(S)) = Cardinality(S)
    BY <1>1, FS_Interval
  <2> DEFINE I == {R[e] : e \in S}
  <2>4. I \subseteq 1 .. Cardinality(S)
    BY <2>1
  <2>5. ExistsBijection(S, I)
    <3>1. R \in [S -> I] /\ \A y \in I : \E e \in S : R[e] = y
      OBVIOUS
    <3> HIDE DEF R, I, rank
    <3>2. R \in Bijection(S, I)
      BY <2>2, <3>1 DEF Bijection, Injection, Surjection, IsInjective
    <3> QED
      BY <3>2 DEF ExistsBijection
  <2> HIDE DEF I
  <2>6. Cardinality(I) = Cardinality(S)
    BY <2>5, FS_Bijection
  <2>7. I = 1 .. Cardinality(S)
    BY <2>3, <2>4, <2>6, FS_Subset
  <2>8. k \in I
    BY <2>7
  <2> QED
    BY <2>8 DEF I
<1> QED
  BY <1>1, <1>2, <1>3, <1>4

\* The line that ends at e.
LineText(f, off, e) == SubSeq(f, LineStart(f, off, e), e - 1)

\* The lines that end in good are R, in order and each once.
InOrder(f, off, R, good) ==
  /\ Cardinality(good) \in Nat
  /\ DOMAIN R = 1 .. Cardinality(good) /\ R = [k \in 1 .. Cardinality(good) |-> R[k]]
  /\ \A k \in DOMAIN R : R[k][2] \in good /\ R[k] = <<LineText(f, off, R[k][2])[1][1], R[k][2]>>
  /\ \A e \in good : \E j \in DOMAIN R : R[j][2] = e
  /\ \A j, k \in DOMAIN R : R[j][2] <= R[k][2] => j <= k

\* What a scan returns: the lines that decode.
LEMMA LinesInOrder ==
  ASSUME NEW f \in Seq(Chunks), NEW off \in Nat
  PROVE  InOrder(f, off, ReadRecordsFrom(f, off), {e \in LineEnds(f, off) : Decodes(LineText(f, off, e))})
<1>0. PICK R, good : R = ReadRecordsFrom(f, off) /\ good = {e \in LineEnds(f, off) : Decodes(LineText(f, off, e))}
  OBVIOUS
<1> DEFINE
           ends == LineEnds(f, off)
           word(e) == LineText(f, off, e)
           text == [e \in ends |-> word(e)]
           rank(e) == Cardinality({d \in good : d <= e})
           nth(i) == CHOOSE e \in good : rank(e) = i
           N == Cardinality(good)
<1>1. Len(f) \in Nat /\ ends \subseteq 0 .. Len(f) + 1
  <2>1. Len(f) \in Nat
    OBVIOUS
  <2>2. Start(f, off) \in Nat
    BY DEF Start
  <2> QED
    BY <2>1, <2>2 DEF LineEnds
<1>2. good \in SUBSET Nat /\ good \subseteq ends
  BY <1>0, <1>1
<1>3. IsFiniteSet(good)
  <2>1. IsFiniteSet(0 .. Len(f) + 1)
    BY <1>1, FS_Interval
  <2> QED
    BY <1>1, <1>2, <2>1, FS_Subset
<1>4. /\ N \in Nat /\ \A e \in good : rank(e) \in 1 .. N
      /\ \A e, d \in good : e < d => rank(e) < rank(d)
      /\ \A k \in 1 .. N : \E e \in good : rank(e) = k
  BY <1>2, <1>3, RankOf
<1>5. R = [i \in 1 .. N |-> <<text[nth(i)][1][1], nth(i)>>]
  <2> DEFINE All == {e \in ends : Decodes(text[e])}
             Numbered(S) == LET ith(i) == CHOOSE e \in S : Cardinality({d \in S : d <= e}) = i
                            IN  [i \in 1 .. Cardinality(S) |-> <<text[ith(i)][1][1], ith(i)>>]
  <2>1. good = All
    BY <1>0
  <2>2. R = Numbered(All)
    BY <1>0 DEF ReadRecordsFrom, Lines, LineText
  <2>3. Numbered(good) = [i \in 1 .. N |-> <<text[nth(i)][1][1], nth(i)>>]
    OBVIOUS
  <2> HIDE DEF Numbered, All, N, nth, text
  <2> QED
    BY <2>1, <2>2, <2>3
<1>6. \A i \in 1 .. N : nth(i) \in good /\ rank(nth(i)) = i
  BY <1>4
<1>7. \A i \in 1 .. N : text[nth(i)] = word(nth(i))
  BY <1>2, <1>6
<1>8. DOMAIN R = 1 .. N /\ \A k \in 1 .. N : R[k] = <<word(nth(k))[1][1], nth(k)>> /\ R[k][2] = nth(k)
  <2> HIDE DEF text, nth, word, N
  <2> QED
    BY <1>5, <1>7
<1>9. ASSUME NEW e \in good PROVE \E j \in 1 .. N : nth(j) = e
  <2>1. PICK j \in 1 .. N : j = rank(e)
    BY <1>4
  <2>2. nth(j) \in good /\ rank(nth(j)) = rank(e)
    BY <1>6, <2>1
  <2>3. PICK x \in good : x = nth(j)
    BY <2>2
  <2>4. x = e
    <3>1. x \in Nat /\ e \in Nat
      BY <1>2
    <3>2. rank(x) = rank(e) /\ rank(x) \in 1 .. N
      BY <1>4, <2>2, <2>3
    <3> HIDE DEF rank, N
    <3>3. ~ x < e /\ ~ e < x
      BY <1>4, <3>2
    <3> QED
      BY <3>1, <3>3
  <2> QED
    BY <2>3, <2>4
<1>10. ASSUME NEW j \in 1 .. N, NEW k \in 1 .. N, nth(j) <= nth(k) PROVE j <= k
  <2>1. PICK x \in good, y \in good : x = nth(j) /\ y = nth(k) /\ rank(x) = j /\ rank(y) = k /\ x <= y
    <3> HIDE DEF rank, N, nth
    <3> QED
      BY <1>6, <1>10
  <2>2. x \in Nat /\ y \in Nat
    BY <1>2
  <2> HIDE DEF rank, N, nth
  <2>3. CASE x = y
    BY <2>1, <2>3, <1>4
  <2>4. CASE x < y
    BY <2>1, <2>4, <1>4
  <2> QED
    BY <2>1, <2>2, <2>3, <2>4
<1> HIDE DEF rank, nth, N, word
<1>11. \A k \in DOMAIN R : R[k][2] \in good /\ R[k] = <<word(R[k][2])[1][1], R[k][2]>>
  BY <1>6, <1>8
<1>12. \A e \in good : \E j \in DOMAIN R : R[j][2] = e
  BY <1>8, <1>9
<1>13. \A j, k \in DOMAIN R : R[j][2] <= R[k][2] => j <= k
  BY <1>8, <1>10
<1>14. R = [k \in 1 .. N |-> R[k]]
  BY <1>5
<1>15. InOrder(f, off, R, good)
  BY <1>4, <1>8, <1>11, <1>12, <1>13, <1>14 DEF InOrder, N, word
<1> QED
  BY <1>0, <1>15

\* Where a scan's lines end is where a cursor may be.
LEMMA ScanStopsAtLines ==
  ASSUME NEW f \in Seq(Chunks), NEW off \in Nat, NEW e \in LineEnds(f, off)
  PROVE  e \in Nat /\ LineEnd(f, e)
<1>1. PICK n, s \in Nat : n = Len(f) /\ s = Start(f, off)
  BY DEF Start
<1>2. CASE e \in s + 1 .. n /\ f[e] = NL
  BY <1>1, <1>2 DEF LineEnd
<1>3. CASE n > s /\ f[n] # NL /\ e = n + 1
  <2>1. e \in 2 .. n + 1 /\ e - 1 = n /\ ~ e <= n
    BY <1>1, <1>3
  <2> QED
    BY <1>1, <1>3, <2>1 DEF LineEnd
<1> QED
  BY <1>1, <1>2, <1>3 DEF LineEnds

\* What a tick reads: records, each with a position of a cursor.
LEMMA ReadsRecords ==
  ASSUME NEW f \in Seq(Chunks), NEW off \in Nat
  PROVE  LET R == ReadRecordsFrom(f, off)
         IN R \in Seq(Recs \X Nat) /\ \A k \in DOMAIN R : LineEnd(f, R[k][2])
<1> DEFINE word(e) == LineText(f, off, e)
<1>0. PICK R : R = ReadRecordsFrom(f, off)
  OBVIOUS
<1>1. PICK good : good = {e \in LineEnds(f, off) : Decodes(word(e))}
  OBVIOUS
<1>2. /\ Cardinality(good) \in Nat /\ DOMAIN R = 1 .. Cardinality(good)
      /\ R = [k \in 1 .. Cardinality(good) |-> R[k]]
      /\ \A k \in DOMAIN R : R[k][2] \in good /\ R[k] = <<word(R[k][2])[1][1], R[k][2]>>
  BY <1>0, <1>1, LinesInOrder DEF InOrder
<1>3. ASSUME NEW k \in DOMAIN R PROVE R[k] \in Recs \X Nat /\ LineEnd(f, R[k][2])
  <2>1. PICK e \in good : e = R[k][2]
    BY <1>2
  <2>2. R[k] = <<word(e)[1][1], e>>
    BY <1>2, <2>1
  <2>3. e \in Nat /\ LineEnd(f, e)
    BY <1>1, ScanStopsAtLines
  <2>4. Decodes(word(e))
    BY <1>1
  <2> HIDE DEF word
  <2>5. PICK r \in Recs : word(e) = << <<r, 1>>, <<r, 2>> >>
    BY <2>4 DEF Decodes
  <2>6. word(e)[1][1] = r
    BY <2>5
  <2>7. R[k] = <<r, e>>
    BY <2>2, <2>6
  <2> QED
    BY <2>1, <2>3, <2>7
<1>4. \A k \in 1 .. Cardinality(good) : R[k] \in Recs \X Nat
  BY <1>2, <1>3
<1>5. PICK n \in Nat : n = Cardinality(good)
  BY <1>2
<1>6. R \in [1 .. n -> Recs \X Nat]
  BY <1>2, <1>4, <1>5
<1>7. R \in Seq(Recs \X Nat)
  BY <1>6
<1> QED
  BY <1>0, <1>3, <1>7

\* A line that decodes is read, with the position after it.
LEMMA DecodedIsRead ==
  ASSUME NEW f \in Seq(Chunks), NEW off \in Nat, NEW e \in LineEnds(f, off), Decodes(LineText(f, off, e))
  PROVE  \E j \in DOMAIN ReadRecordsFrom(f, off) : ReadRecordsFrom(f, off)[j] = <<LineText(f, off, e)[1][1], e>>
<1>1. PICK R, good : R = ReadRecordsFrom(f, off) /\ good = {d \in LineEnds(f, off) : Decodes(LineText(f, off, d))}
  OBVIOUS
<1>2. InOrder(f, off, R, good)
  BY <1>1, LinesInOrder
<1>3. e \in good
  BY <1>1
<1>4. PICK j \in DOMAIN R : R[j][2] = e
  BY <1>2, <1>3 DEF InOrder
<1>5. R[j] = <<LineText(f, off, e)[1][1], e>>
  BY <1>2, <1>4, Zenon DEF InOrder
<1> QED
  BY <1>1, <1>4, <1>5

\* A whole line with nothing torn before it is behind the cursor or is read.
LEMMA FullLinesRead ==
  ASSUME NEW f \in Seq(Chunks), NEW off \in Nat, LineEnd(f, off),
         NEW r \in Recs, NEW i \in Nat, FullLine(f, i, r)
  PROVE  LET R == ReadRecordsFrom(f, off)
         IN i + 2 <= off \/ \E j \in DOMAIN R : R[j] = <<r, i + 2>>
<1> SUFFICES ASSUME ~ i + 2 <= off
             PROVE  \E j \in DOMAIN ReadRecordsFrom(f, off) : ReadRecordsFrom(f, off)[j] = <<r, i + 2>>
  OBVIOUS
<1> DEFINE word(e) == LineText(f, off, e)
<1>1. PICK n \in Nat : n = Len(f)
  OBVIOUS
<1>2. /\ i >= 1 /\ i + 2 <= n /\ f[i] = <<r, 1>> /\ f[i + 1] = <<r, 2>> /\ f[i + 2] = NL
      /\ i > 1 => f[i - 1] = NL
  BY <1>1 DEF FullLine
<1>3. f[i] # NL /\ f[i + 1] # NL /\ f[i + 1][2] # 1
  <2>1. <<r, 1>> # NL /\ <<r, 2>> # NL /\ <<r, 2>>[2] = 2
    BY ChunkIs
  <2> QED
    BY <1>2, <2>1
<1>4. off # i /\ off # i + 1
  <2>1. \/ off = 0
        \/ off \in 1 .. n /\ f[off] = NL
        \/ off \in 2 .. n + 1 /\ f[off - 1] # NL /\ (off <= n => f[off][2] = 1)
    BY <1>1, Zenon DEF LineEnd
  <2>2. \A p : off = p => \/ p = 0
                          \/ p \in 1 .. n /\ f[p] = NL
                          \/ p \in 2 .. n + 1 /\ f[p - 1] # NL /\ (p <= n => f[p][2] = 1)
    BY <2>1, Zenon
  <2>3. off = i => i \in 2 .. n + 1 /\ f[i - 1] # NL
    <3>1. i # 0
      BY <1>2
    <3> QED
      BY <1>3, <2>2, <3>1, Zenon
  <2>4. i + 1 # 0 /\ i + 1 <= n
    BY <1>2
  <2>5. off # i + 1
    BY <1>3, <2>2, <2>4, Zenon
  <2>6. off # i
    BY <1>2, <2>3
  <2> QED
    BY <2>5, <2>6
<1>5. off <= i - 1 /\ off <= n /\ i - 1 \in Nat
  BY <1>2, <1>4
<1>6. Start(f, off) = off
  BY <1>1, <1>5 DEF Start
<1> DEFINE ends == LineEnds(f, off)
<1>7. ends \subseteq Nat /\ i + 2 \in ends /\ i \notin ends /\ i + 1 \notin ends
  <2>1. \A e \in ends : (e \in off + 1 .. n /\ f[e] = NL) \/ e = n + 1
    BY <1>1, <1>6 DEF LineEnds
  <2>2. \A e \in off + 1 .. n : f[e] = NL => e \in ends
    BY <1>1, <1>6 DEF LineEnds
  <2>3. i + 2 \in off + 1 .. n
    BY <1>2, <1>5
  <2> HIDE DEF ends
  <2>4. ends \subseteq Nat
    BY <2>1
  <2>5. i \notin ends /\ i + 1 \notin ends
    <3>1. i # n + 1 /\ i + 1 # n + 1
      BY <1>2
    <3> QED
      BY <1>3, <2>1, <3>1
  <2> QED
    BY <1>2, <2>2, <2>3, <2>4, <2>5
<1>8. LineStart(f, off, i + 2) = i
  <2> DEFINE Before == {off} \cup {d \in ends : d < i + 2}
  <2>1. i - 1 \in Before
    <3>1. CASE off = i - 1
      BY <3>1
    <3>2. CASE off < i - 1
      <4>1. i - 1 \in off + 1 .. n /\ f[i - 1] = NL /\ i - 1 < i + 2
        BY <1>2, <1>5, <3>2
      <4>2. i - 1 \in ends
        BY <1>1, <1>6, <4>1 DEF LineEnds
      <4> QED
        BY <4>1, <4>2
    <3> QED
      BY <1>5, <3>1, <3>2
  <2>2. \A y \in Before : y \in Nat /\ y <= i - 1
    <3>1. ASSUME NEW y \in ends, y < i + 2 PROVE y \in Nat /\ y <= i - 1
      <4>1. y \in Nat /\ y # i /\ y # i + 1
        BY <1>7
      <4> HIDE DEF ends
      <4> QED
        BY <3>1, <4>1
    <3> QED
      BY <1>5, <3>1
  <2> DEFINE P(x) == x \in Before /\ \A y \in Before : x >= y
  <2> HIDE DEF Before
  <2>3. P(i - 1) /\ \A x : P(x) => x = i - 1
    <3>1. PICK p \in Nat : p = i - 1
      BY <1>5
    <3>2. P(p) 
      BY <2>1, <2>2, <3>1
    <3>3. \A x : P(x) => x = p
      BY <2>1, <2>2, <3>1
    <3> QED
      BY <3>1, <3>2, <3>3
  <2>4. Max(Before) = CHOOSE x : P(x)
    BY DEF Max
  <2>5. Max(Before) = i - 1
    BY <2>3, <2>4
  <2>6. LineStart(f, off, i + 2) = 1 + Max(Before)
    BY <1>6 DEF LineStart, Before
  <2> HIDE DEF P
  <2> QED
    BY <2>5, <2>6
<1>9. word(i + 2) = << <<r, 1>>, <<r, 2>> >>
  <2>1. word(i + 2) = SubSeq(f, i, i + 1)
    BY <1>8 DEF LineText
  <2>2. i \in 1 .. n /\ i + 1 \in 1 .. n
    BY <1>2
  <2>3. Len(SubSeq(f, i, i + 1)) = 2 /\ SubSeq(f, i, i + 1) \in Seq(Chunks)
    BY <1>1, <2>2
  <2>4. SubSeq(f, i, i + 1)[1] = f[i] /\ SubSeq(f, i, i + 1)[2] = f[i + 1]
    BY <1>1, <2>2
  <2>5. PICK w \in Seq(Chunks) : w = SubSeq(f, i, i + 1)
    BY <2>3
  <2>6. Len(w) = 2 /\ w[1] = <<r, 1>> /\ w[2] = <<r, 2>>
    BY <1>2, <2>3, <2>4, <2>5, Zenon
  <2>7. w = << <<r, 1>>, <<r, 2>> >>
    BY <2>6
  <2> QED
    BY <2>1, <2>5, <2>7
<1>11. Decodes(word(i + 2))
  BY <1>9 DEF Decodes
<1>10. word(i + 2)[1][1] = r
  BY <1>9
<1> HIDE DEF word
<1>12. \E j \in DOMAIN ReadRecordsFrom(f, off) : ReadRecordsFrom(f, off)[j] = <<word(i + 2)[1][1], i + 2>>
  BY <1>7, <1>11, DecodedIsRead DEF word
<1> QED
  BY <1>10, <1>12

\* The three chunks of each record of a payload.
LEMMA PayloadIs ==
  ASSUME NEW k \in Nat \ {0}, given \in Nat, given + k <= SfMaxRecords
  PROVE  /\ Payload(k) \in Seq(Chunks) /\ Len(Payload(k)) = 3 * k
         /\ \A q \in 0 .. (k - 1) : /\ Payload(k)[3 * q + 1] = <<given + 1 + q, 1>>
                                    /\ Payload(k)[3 * q + 2] = <<given + 1 + q, 2>>
                                    /\ Payload(k)[3 * q + 3] = NL
<1>1. PICK g \in Nat, M \in Nat : g = given /\ M = SfMaxRecords /\ g + k <= M
  BY SpoolFileAssumption
<1>2. ASSUME NEW q \in 0 .. (k - 1) PROVE g + 1 + q \in Recs
  BY <1>1 DEF Recs
<1> DEFINE P == [i \in 1 .. 3 * k |-> Line(g + 1 + ((i - 1) \div 3))[1 + ((i - 1) % 3)]]
<1>3. Payload(k) = P
  BY <1>1 DEF Payload
<1>4. ASSUME NEW q \in 0 .. (k - 1), NEW m \in 0 .. 2
      PROVE  P[3 * q + m + 1] = Line(g + 1 + q)[1 + m] /\ 3 * q + m + 1 \in 1 .. 3 * k
  <2>1. PICK i \in Nat : i = 3 * q + m + 1
    OBVIOUS
  <2>2. i \in 1 .. 3 * k /\ (i - 1) \div 3 = q /\ (i - 1) % 3 = m
    BY <2>1
  <2>3. P[i] = Line(g + 1 + ((i - 1) \div 3))[1 + ((i - 1) % 3)]
    BY <2>2
  <2>4. P[i] = Line(g + 1 + q)[1 + m]
    BY <2>2, <2>3
  <2> HIDE DEF P
  <2> QED
    BY <2>1, <2>2, <2>4
<1>5. ASSUME NEW i \in 1 .. 3 * k PROVE \E q \in 0 .. (k - 1), m \in 0 .. 2 : i = 3 * q + m + 1
  <2>1. PICK q \in Int, m \in Int : q = (i - 1) \div 3 /\ m = (i - 1) % 3
    OBVIOUS
  <2>2. q \in 0 .. (k - 1) /\ m \in 0 .. 2 /\ i = 3 * q + m + 1
    BY <2>1
  <2> QED
    BY <2>2
<1>6. \A r \in Recs, m \in 0 .. 2 : Line(r)[1 + m] \in Chunks
  <2>1. \A r : Line(r)[1] = <<r, 1>> /\ Line(r)[2] = <<r, 2>> /\ Line(r)[3] = NL
    BY DEF Line
  <2>2. ASSUME NEW r \in Recs, NEW m \in 0 .. 2 PROVE Line(r)[1 + m] \in Chunks
    <3>1. m = 0 \/ m = 1 \/ m = 2
      OBVIOUS
    <3>2. <<r, 1>> \in Chunks /\ <<r, 2>> \in Chunks /\ NL \in Chunks
      BY ChunkIs
    <3> QED
      BY <2>1, <3>1, <3>2
  <2> QED
    BY <2>2
<1>7. \A i \in 1 .. 3 * k : P[i] \in Chunks
  <2>1. ASSUME NEW i \in 1 .. 3 * k PROVE P[i] \in Chunks
    <3>1. PICK q \in 0 .. (k - 1), m \in 0 .. 2 : i = 3 * q + m + 1
      BY <1>5
    <3>2. P[i] = Line(g + 1 + q)[1 + m] /\ g + 1 + q \in Recs
      BY <1>2, <1>4, <3>1
    <3> HIDE DEF P
    <3> QED
      BY <1>6, <3>2
  <2> HIDE DEF P
  <2> QED
    BY <2>1
<1>8. P \in [1 .. 3 * k -> Chunks] /\ 3 * k \in Nat
  BY <1>7
<1>9. P \in Seq(Chunks) /\ Len(P) = 3 * k
  <2> HIDE DEF P
  <2> QED
    BY <1>8
<1>10. ASSUME NEW q \in 0 .. (k - 1)
       PROVE  /\ P[3 * q + 1] = <<g + 1 + q, 1>> /\ P[3 * q + 2] = <<g + 1 + q, 2>>
              /\ P[3 * q + 3] = NL
  <2>1. P[3 * q + 0 + 1] = Line(g + 1 + q)[1 + 0] /\ P[3 * q + 1 + 1] = Line(g + 1 + q)[1 + 1]
        /\ P[3 * q + 2 + 1] = Line(g + 1 + q)[1 + 2]
    <3>1. 0 \in 0 .. 2 /\ 1 \in 0 .. 2 /\ 2 \in 0 .. 2
      OBVIOUS
    <3> HIDE DEF P
    <3> QED
      BY <1>4, <3>1, Zenon
  <2>2. Line(g + 1 + q)[1] = <<g + 1 + q, 1>> /\ Line(g + 1 + q)[2] = <<g + 1 + q, 2>> /\ Line(g + 1 + q)[3] = NL
    BY DEF Line
  <2>3. 3 * q + 0 + 1 = 3 * q + 1 /\ 3 * q + 1 + 1 = 3 * q + 2 /\ 3 * q + 2 + 1 = 3 * q + 3
    OBVIOUS
  <2> HIDE DEF P
  <2> QED
    BY <2>1, <2>2, <2>3
<1> HIDE DEF P
<1> QED
  BY <1>1, <1>3, <1>9, <1>10

\* What a write leaves, whole or torn: it begins with a record, and so does every line.
WriteOf(Q) ==
  /\ Q \in Seq(Chunks) /\ Len(Q) > 0 /\ Q[1] # NL /\ Q[1][2] = 1
  /\ \A i \in 2 .. Len(Q) : Q[i][2] = 1 => Q[i - 1] = NL

\* Every start of a payload is such a write, and the whole of it ends with a newline.
LEMMA PayloadIsWrite ==
  ASSUME NEW k \in Nat \ {0}, given \in Nat, given + k <= SfMaxRecords
  PROVE  /\ WriteOf(Payload(k)) /\ Payload(k)[Len(Payload(k))] = NL
         /\ \A n \in 1 .. Len(Payload(k)) : WriteOf(SubSeq(Payload(k), 1, n))
<1>1. PICK P \in Seq(Chunks) : P = Payload(k)
  BY PayloadIs
<1>2. /\ Len(P) = 3 * k
      /\ \A q \in 0 .. (k - 1) : /\ P[3 * q + 1] = <<given + 1 + q, 1>>
                                 /\ P[3 * q + 2] = <<given + 1 + q, 2>> /\ P[3 * q + 3] = NL
  BY <1>1, PayloadIs
<1>3. P[1] # NL /\ P[1][2] = 1
  <2>1. P[3 * 0 + 1] = <<given + 1 + 0, 1>>
    BY <1>2
  <2>2. 3 * 0 + 1 = 1
    OBVIOUS
  <2>3. <<given + 1 + 0, 1>> # NL /\ <<given + 1 + 0, 1>>[2] = 1
    BY ChunkIs
  <2> QED
    BY <2>1, <2>2, <2>3
<1>4. ASSUME NEW i \in 2 .. 3 * k, P[i][2] = 1 PROVE P[i - 1] = NL
  <2>1. PICK q \in 0 .. (k - 1), m \in 0 .. 2 : i = 3 * q + m + 1
    <3>1. PICK q \in Int, m \in Int : q = (i - 1) \div 3 /\ m = (i - 1) % 3
      OBVIOUS
    <3>2. q \in 0 .. (k - 1) /\ m \in 0 .. 2 /\ i = 3 * q + m + 1
      BY <3>1
    <3> QED
      BY <3>2
  <2>2. ASSUME m = 1 PROVE FALSE
    <3>1. i = 3 * q + 2
      BY <2>1, <2>2
    <3>2. P[i] = <<given + 1 + q, 2>>
      BY <1>2, <3>1
    <3>3. <<given + 1 + q, 2>>[2] = 2
      OBVIOUS
    <3> QED
      BY <1>4, <3>2, <3>3
  <2>3. ASSUME m = 2 PROVE FALSE
    <3>1. i = 3 * q + 3
      BY <2>1, <2>3
    <3>2. P[i] = NL
      BY <1>2, <3>1
    <3>3. NL[2] = 0
      BY ChunkIs
    <3> QED
      BY <1>4, <3>2, <3>3
  <2>4. m = 0
    BY <2>2, <2>3
  <2>5. q - 1 \in 0 .. (k - 1) /\ i - 1 = 3 * (q - 1) + 3
    BY <2>1, <2>4
  <2>6. P[3 * (q - 1) + 3] = NL
    BY <1>2, <2>5
  <2> QED
    BY <2>5, <2>6
<1>5. P[3 * k] = NL
  <2>1. k - 1 \in 0 .. (k - 1) /\ 3 * (k - 1) + 3 = 3 * k
    OBVIOUS
  <2>2. P[3 * (k - 1) + 3] = NL
    BY <1>2, <2>1
  <2> QED
    BY <2>1, <2>2
<1>6. 3 * k \in Nat /\ 3 * k > 0
  OBVIOUS
<1>7. WriteOf(P)
  <2>1. Len(P) = 3 * k
    BY <1>2
  <2>2. \A i \in 2 .. Len(P) : P[i][2] = 1 => P[i - 1] = NL
    BY <1>4, <2>1
  <2>3. Len(P) > 0
    BY <1>6, <2>1
  <2> QED
    BY <1>3, <2>2, <2>3 DEF WriteOf
<1>8. ASSUME NEW n \in 1 .. Len(P) PROVE WriteOf(SubSeq(P, 1, n))
  <2>1. PICK Q \in Seq(Chunks) : Q = SubSeq(P, 1, n)
    <3>1. \A x \in 1 .. n : x \in 1 .. Len(P)
      OBVIOUS
    <3>2. SubSeq(P, 1, n) \in Seq(Chunks)
      BY <3>1
    <3> QED
      BY <3>2
  <2>2. Len(Q) = n /\ n \in 1 .. 3 * k
    BY <1>2, <1>6, <2>1
  <2>3. \A i \in 1 .. n : Q[i] = P[i]
    BY <1>2, <1>6, <2>1
  <2>4. Q[1] = P[1]
    BY <2>2, <2>3
  <2>5. ASSUME NEW i \in 2 .. n, Q[i][2] = 1 PROVE Q[i - 1] = NL
    <3>1. i \in 1 .. n /\ i - 1 \in 1 .. n /\ i \in 2 .. 3 * k
      BY <2>2
    <3>2. Q[i] = P[i] /\ Q[i - 1] = P[i - 1]
      BY <2>3, <3>1
    <3> QED
      BY <1>4, <2>5, <3>1, <3>2
  <2> QED
    BY <1>3, <2>1, <2>2, <2>4, <2>5 DEF WriteOf
<1> QED
  BY <1>1, <1>2, <1>5, <1>7, <1>8

\* Behind what is there, a write moves no cursor off its line and completes no line
\* before one; it begins behind something torn at most once, and then at its start.
Continues(f, Q, g) ==
  /\ g \in Seq(Chunks) /\ Len(g) = Len(f) + Len(Q)
  /\ \A i \in 1 .. Len(f) : g[i] = f[i]
  /\ \A i \in 1 .. Len(Q) : g[Len(f) + i] = Q[i]
  /\ \A p : LineEnd(f, p) => LineEnd(g, p)
  /\ \A p, i, r : LineEnd(f, p) /\ FullLine(g, i, r) /\ i + 2 <= p => FullLine(f, i, r)
  /\ Hits(g) \subseteq Hits(f) \cup {Len(f) + 1}
  /\ TornEnd(f) = 0 => Hits(g) \subseteq Hits(f)
  /\ TornEnd(g) = IF Q[Len(Q)] # NL THEN 1 ELSE 0

\* So it is with every write.
LEMMA WriteKeepsLines ==
  ASSUME NEW f \in Seq(Chunks), NEW Q, WriteOf(Q)
  PROVE  Continues(f, Q, f \o Q)
<1>0. PICK g : g = f \o Q
  OBVIOUS
<1>1. PICK n \in Nat, m \in Nat \ {0} : n = Len(f) /\ m = Len(Q)
  BY DEF WriteOf
<1>2. Q \in Seq(Chunks) /\ Q[1] # NL /\ Q[1][2] = 1 /\ \A i \in 2 .. m : Q[i][2] = 1 => Q[i - 1] = NL
  BY <1>1 DEF WriteOf
<1>3. g \in Seq(Chunks) /\ Len(g) = n + m
  BY <1>0, <1>1, <1>2
<1>4. \A i \in 1 .. n : g[i] = f[i]
  BY <1>0, <1>1, <1>2
<1>5. \A i \in 1 .. m : g[n + i] = Q[i]
  BY <1>0, <1>1, <1>2
<1>6. g[n + 1] # NL /\ g[n + 1][2] = 1
  <2>1. 1 \in 1 .. m
    OBVIOUS
  <2> QED
    BY <1>2, <1>5, <2>1
<1>7. ASSUME NEW p, LineEnd(f, p) PROVE LineEnd(g, p)
  <2>1. CASE p = 0
    BY <2>1 DEF LineEnd
  <2>2. CASE p \in 1 .. n /\ f[p] = NL
    <3>1. p \in 1 .. n + m
      BY <2>2
    <3>2. g[p] = NL
      BY <1>4, <2>2
    <3> QED
      BY <1>3, <3>1, <3>2, Zenon DEF LineEnd
  <2>3. CASE p \in 2 .. n + 1 /\ f[p - 1] # NL /\ (p <= n => f[p][2] = 1)
    <3>1. p - 1 \in 1 .. n /\ p \in 2 .. n + m + 1
      BY <2>3
    <3>2. g[p - 1] # NL
      BY <1>4, <2>3, <3>1
    <3>3. g[p][2] = 1
      <4>1. CASE p <= n
        <5>1. p \in 1 .. n
          BY <2>3, <4>1
        <5> QED
          BY <1>4, <2>3, <4>1, <5>1
      <4>2. CASE p = n + 1
        BY <1>6, <4>2
      <4>3. p <= n \/ p = n + 1
        BY <3>1, <2>3
      <4> QED
        BY <4>1, <4>2, <4>3
    <3> QED
      BY <1>3, <3>1, <3>2, <3>3, Zenon DEF LineEnd
  <2> QED
    BY <1>1, <1>7, <2>1, <2>2, <2>3, Zenon DEF LineEnd
<1>8. ASSUME NEW p, NEW i, NEW r, LineEnd(f, p), FullLine(g, i, r), i + 2 <= p PROVE FullLine(f, i, r)
  <2>1. i \in Nat \ {0} /\ i + 2 <= n + m /\ g[i] = <<r, 1>> /\ g[i + 1] = <<r, 2>> /\ g[i + 2] = NL
        /\ (i > 1 => g[i - 1] = NL)
    BY <1>3, <1>8 DEF FullLine
  <2>2. p \in 0 .. n + 1
    BY <1>1, <1>8 DEF LineEnd
  <2>3. i + 2 <= n
    <3>1. i + 2 # n + 1
      BY <1>6, <2>1
    <3> QED
      BY <1>8, <2>1, <2>2, <3>1
  <2>4. i \in 1 .. n /\ i + 1 \in 1 .. n /\ i + 2 \in 1 .. n /\ (i > 1 => i - 1 \in 1 .. n)
    BY <2>1, <2>3
  <2>5. f[i] = g[i] /\ f[i + 1] = g[i + 1] /\ f[i + 2] = g[i + 2] /\ (i > 1 => f[i - 1] = g[i - 1])
    BY <1>4, <2>4
  <2> QED
    BY <1>1, <2>1, <2>3, <2>5 DEF FullLine
<1>9. ASSUME NEW i \in Hits(g) PROVE i \in Hits(f) \/ (i = n + 1 /\ n > 0 /\ f[n] # NL)
  <2>1. i \in 2 .. n + m /\ g[i][2] = 1 /\ g[i - 1] # NL
    BY <1>3 DEF Hits
  <2>2. CASE i <= n
    <3>1. i \in 2 .. n /\ i \in 1 .. n /\ i - 1 \in 1 .. n
      BY <2>1, <2>2
    <3>2. f[i] = g[i] /\ f[i - 1] = g[i - 1]
      BY <1>4, <3>1
    <3>3. f[i][2] = 1 /\ f[i - 1] # NL
      BY <2>1, <3>2
    <3>4. i \in 2 .. Len(f)
      BY <1>1, <3>1
    <3>5. i \in Hits(f)
      BY <3>3, <3>4, Zenon DEF Hits
    <3> QED
      BY <3>5
  <2>3. CASE i = n + 1
    <3>1. n \in 1 .. n /\ i - 1 = n
      BY <2>1, <2>3
    <3>2. g[i - 1] = f[n]
      BY <1>4, <3>1
    <3> QED
      BY <2>1, <2>3, <3>1, <3>2
  <2>4. CASE i > n + 1
    <3>1. PICK j \in 2 .. m : i = n + j
      <4>1. i - n \in 2 .. m /\ i = n + (i - n)
        BY <2>1, <2>4
      <4> QED
        BY <4>1
    <3>2. j \in 1 .. m /\ j - 1 \in 1 .. m /\ i - 1 = n + (j - 1)
      BY <3>1
    <3>3. g[i] = Q[j] /\ g[i - 1] = Q[j - 1]
      BY <1>5, <3>1, <3>2
    <3> QED
      BY <1>2, <2>1, <3>3
  <2> QED
    BY <2>1, <2>2, <2>3, <2>4
<1>10. TornEnd(f) = 0 => ~ (n > 0 /\ f[n] # NL)
  <2>1. n > 0 => f # <<>>
    BY <1>1
  <2> QED
    BY <1>1, <2>1 DEF TornEnd
<1>11. TornEnd(g) = IF Q[Len(Q)] # NL THEN 1 ELSE 0
  <2>1. g[n + m] = Q[m]
    <3>1. m \in 1 .. m
      OBVIOUS
    <3> QED
      BY <1>5, <3>1
  <2>2. g # <<>>
    <3>1. n + m # 0
      OBVIOUS
    <3> QED
      BY <1>3, <3>1
  <2> QED
    BY <1>1, <1>3, <2>1, <2>2 DEF TornEnd
<1>12. Hits(g) \subseteq Hits(f) \cup {Len(f) + 1} /\ (TornEnd(f) = 0 => Hits(g) \subseteq Hits(f))
  BY <1>1, <1>9, <1>10
<1>13. Continues(f, Q, g)
  BY <1>1, <1>3, <1>4, <1>5, <1>7, <1>8, <1>11, <1>12 DEF Continues
<1> QED
  BY <1>0, <1>13

\* So a write costs at most the tear it comes behind.
LEMMA WriteCostsATear ==
  ASSUME NEW f \in Seq(Chunks), NEW Q, WriteOf(Q), NEW g, g = f \o Q,
         IsFiniteSet(Hits(f)), NEW t \in Nat, Cardinality(Hits(f)) + TornEnd(f) <= t
  PROVE  IsFiniteSet(Hits(g)) /\ Cardinality(Hits(g)) \in Nat /\ Cardinality(Hits(g)) <= t
<1>0. Continues(f, Q, g)
  BY WriteKeepsLines
<1>1. PICK a \in Nat : a = Cardinality(Hits(f))
  BY FS_CardinalityType
<1>2. TornEnd(f) = 0 \/ TornEnd(f) = 1
  BY DEF TornEnd
<1>3. CASE TornEnd(f) = 0
  <2>1. Hits(g) \subseteq Hits(f)
    BY <1>0, <1>3 DEF Continues
  <2>2. IsFiniteSet(Hits(g)) /\ Cardinality(Hits(g)) <= a /\ Cardinality(Hits(g)) \in Nat
    BY <1>1, <2>1, FS_Subset, FS_CardinalityType
  <2> QED
    BY <1>1, <1>3, <2>2
<1>4. CASE TornEnd(f) = 1
  <2>1. Hits(g) \subseteq Hits(f) \cup {Len(f) + 1}
    BY <1>0 DEF Continues
  <2>2. PICK S : S = Hits(f) \cup {Len(f) + 1}
    OBVIOUS
  <2>3. IsFiniteSet(S) /\ (Cardinality(S) = a \/ Cardinality(S) = a + 1)
    BY <1>1, <2>2, FS_AddElement
  <2>4. IsFiniteSet(Hits(g)) /\ Cardinality(Hits(g)) <= Cardinality(S) /\ Cardinality(Hits(g)) \in Nat
    BY <2>1, <2>2, <2>3, FS_Subset, FS_CardinalityType
  <2> QED
    BY <1>1, <1>4, <2>3, <2>4
<1> QED
  BY <1>2, <1>3, <1>4

\* A write keeps the parts of the invariant that are about positions and lines.
LEMMA WritesKeepLines ==
  ASSUME SegmentInv, NEW Q, WriteOf(Q), file' = file \o Q,
         UNCHANGED <<offset, entries, stored>>
  PROVE  PositionInv' /\ HandledInv'
<1>1. file \in Seq(Chunks) /\ PositionInv /\ HandledInv
  BY DEF SegmentInv, SegmentTypes
<1>2. /\ \A p : LineEnd(file, p) => LineEnd(file', p)
      /\ \A p, i, r : LineEnd(file, p) /\ FullLine(file', i, r) /\ i + 2 <= p => FullLine(file, i, r)
  BY <1>1, WriteKeepsLines DEF Continues
<1>3. PositionInv'
  BY <1>1, <1>2 DEF PositionInv
<1>4. ASSUME NEW i \in Nat, NEW r \in Recs, FullLine(file', i, r), i + 2 <= offset
      PROVE  stored[r] > 0
  <2>1. FullLine(file, i, r)
    BY <1>1, <1>2, <1>4 DEF PositionInv
  <2> QED
    BY <1>1, <1>4, <2>1 DEF HandledInv
<1>5. ASSUME NEW k \in DOMAIN entries, NEW i \in Nat, NEW r \in Recs, FullLine(file', i, r), i + 2 <= entries[k][2]
      PROVE  stored[r] > 0 \/ \E j \in 1 .. k : entries[j][1] = r
  <2>1. FullLine(file, i, r)
    BY <1>1, <1>2, <1>5 DEF PositionInv
  <2> QED
    BY <1>1, <1>5, <2>1 DEF HandledInv
<1>6. HandledInv'
  BY <1>4, <1>5 DEF HandledInv
<1> QED
  BY <1>3, <1>6

\* A batch written whole.
LEMMA AppendBatchKeeps ==
  ASSUME SegmentInv, NEW k \in 1 .. SfMaxBatch, AppendBatch(k) PROVE SegmentInv'
<1>1. PICK m \in Nat \ {0}, g \in Nat : m = k /\ g = given /\ g + m <= SfMaxRecords /\ k \in Nat \ {0}
  BY SpoolFileAssumption DEF AppendBatch, SegmentInv, SegmentTypes
<1>2. PICK Q : Q = Payload(k)
  OBVIOUS
<1>3. /\ WriteOf(Q) /\ Q[Len(Q)] = NL /\ Q \in Seq(Chunks) /\ Len(Q) = 3 * m
      /\ \A q \in 0 .. (m - 1) : /\ Q[3 * q + 1] = <<g + 1 + q, 1>>
                                 /\ Q[3 * q + 2] = <<g + 1 + q, 2>> /\ Q[3 * q + 3] = NL
  <2>1. given \in Nat /\ given + k <= SfMaxRecords
    BY <1>1
  <2> QED
    BY <1>1, <1>2, <2>1, PayloadIs, PayloadIsWrite
<1>4. /\ file' = file \o Q /\ given' = g + m /\ accepted' = accepted \cup (g + 1) .. (g + m)
      /\ UNCHANGED <<offset, entries, stored, tears>>
  BY <1>1, <1>2 DEF AppendBatch
<1>5. file \in Seq(Chunks) /\ accepted \in SUBSET (1 .. g) /\ TearsInv /\ WrittenInv /\ tears \in Nat
  BY <1>1 DEF SegmentInv, SegmentTypes
<1>6. PICK n \in Nat : n = Len(file)
  BY <1>5
<1>7. /\ file' \in Seq(Chunks) /\ Len(file') = n + 3 * m
      /\ \A i \in 1 .. n : file'[i] = file[i]
      /\ \A i \in 1 .. 3 * m : file'[n + i] = Q[i]
      /\ TornEnd(file') = 0
  <2>0. Continues(file, Q, file')
    BY <1>3, <1>4, <1>5, WriteKeepsLines
  <2>1. /\ file' \in Seq(Chunks) /\ Len(file') = Len(file) + Len(Q)
        /\ \A i \in 1 .. Len(file) : file'[i] = file[i]
        /\ \A i \in 1 .. Len(Q) : file'[Len(file) + i] = Q[i]
    BY <2>0 DEF Continues
  <2>2. TornEnd(file') = IF Q[Len(Q)] # NL THEN 1 ELSE 0
    BY <2>0 DEF Continues
  <2>3. TornEnd(file') = 0
    BY <1>3, <2>2
  <2> QED
    BY <1>3, <1>6, <2>1, <2>3
<1>8. SegmentTypes'
  <2>1. accepted' \in SUBSET (1 .. (g + m))
    BY <1>4, <1>5
  <2>2. g + m \in Nat
    OBVIOUS
  <2> QED
    BY <1>4, <1>7, <2>1, <2>2 DEF SegmentInv, SegmentTypes
<1>9. WrittenInv'
  <2>1. ASSUME NEW r \in accepted
        PROVE  \E i \in 1 .. n + 3 * m - 2 : file'[i] = <<r, 1>> /\ file'[i + 1] = <<r, 2>> /\ file'[i + 2] = NL
    <3>1. PICK i \in 1 .. n - 2 : file[i] = <<r, 1>> /\ file[i + 1] = <<r, 2>> /\ file[i + 2] = NL
      BY <1>5, <1>6 DEF WrittenInv
    <3>2. i \in 1 .. n /\ i + 1 \in 1 .. n /\ i + 2 \in 1 .. n /\ i \in 1 .. n + 3 * m - 2
      OBVIOUS
    <3>3. file'[i] = file[i] /\ file'[i + 1] = file[i + 1] /\ file'[i + 2] = file[i + 2]
      BY <1>7, <3>2
    <3> QED
      BY <3>1, <3>2, <3>3
  <2>2. ASSUME NEW r \in (g + 1) .. (g + m)
        PROVE  \E i \in 1 .. n + 3 * m - 2 : file'[i] = <<r, 1>> /\ file'[i + 1] = <<r, 2>> /\ file'[i + 2] = NL
    <3>1. PICK q \in 0 .. (m - 1) : r = g + 1 + q
      <4>1. r - g - 1 \in 0 .. (m - 1) /\ r = g + 1 + (r - g - 1)
        OBVIOUS
      <4> QED
        BY <4>1
    <3>2. PICK i \in Nat : i = n + (3 * q + 1)
      OBVIOUS
    <3>3. /\ i \in 1 .. n + 3 * m - 2
          /\ 3 * q + 1 \in 1 .. 3 * m /\ 3 * q + 2 \in 1 .. 3 * m /\ 3 * q + 3 \in 1 .. 3 * m
          /\ i + 1 = n + (3 * q + 2) /\ i + 2 = n + (3 * q + 3)
      BY <3>2
    <3>4. file'[i] = Q[3 * q + 1] /\ file'[i + 1] = Q[3 * q + 2] /\ file'[i + 2] = Q[3 * q + 3]
      BY <1>7, <3>2, <3>3
    <3>5. Q[3 * q + 1] = <<r, 1>> /\ Q[3 * q + 2] = <<r, 2>> /\ Q[3 * q + 3] = NL
      BY <1>3, <3>1
    <3> QED
      BY <3>3, <3>4, <3>5
  <2>3. Len(file') - 2 = n + 3 * m - 2
    BY <1>7
  <2> QED
    BY <1>4, <2>1, <2>2, <2>3 DEF WrittenInv
<1>10. TearsInv'
  <2>1. IsFiniteSet(Hits(file')) /\ Cardinality(Hits(file')) \in Nat /\ Cardinality(Hits(file')) <= tears
    BY <1>3, <1>4, <1>5, WriteCostsATear DEF TearsInv
  <2>2. Cardinality(Hits(file')) + TornEnd(file') <= tears'
    BY <1>4, <1>5, <1>7, <2>1
  <2> QED
    BY <2>1, <2>2 DEF TearsInv
<1>11. PositionInv' /\ HandledInv'
  BY <1>3, <1>4, WritesKeepLines
<1> QED
  BY <1>8, <1>9, <1>10, <1>11 DEF SegmentInv

\* A batch of which a part was written.
LEMMA TornAppendKeeps ==
  ASSUME SegmentInv, NEW k \in 1 .. SfMaxBatch, TornAppend(k) PROVE SegmentInv'
<1>1. PICK m \in Nat \ {0}, g \in Nat : m = k /\ g = given /\ g + m <= SfMaxRecords /\ k \in Nat \ {0}
  BY SpoolFileAssumption DEF TornAppend, SegmentInv, SegmentTypes
<1>2. PICK x \in 1 .. (Len(Payload(k)) - 1) : file' = file \o SubSeq(Payload(k), 1, x)
  BY DEF TornAppend
<1>3. WriteOf(SubSeq(Payload(k), 1, x))
  <2>1. given \in Nat /\ given + k <= SfMaxRecords
    BY <1>1
  <2>2. Len(Payload(k)) \in Nat
    BY <1>1, <2>1, PayloadIs
  <2>3. x \in 1 .. Len(Payload(k))
    BY <2>2
  <2> QED
    BY <1>1, <2>1, <2>3, PayloadIsWrite
<1>4. PICK Q : Q = SubSeq(Payload(k), 1, x) /\ WriteOf(Q) /\ file' = file \o Q
  BY <1>2, <1>3
<1>5. given' = g + m /\ tears' = tears + 1 /\ UNCHANGED <<offset, entries, accepted, stored>>
  BY <1>1 DEF TornAppend
<1>6. file \in Seq(Chunks) /\ accepted \in SUBSET (1 .. g) /\ TearsInv /\ WrittenInv /\ tears \in Nat
  BY <1>1 DEF SegmentInv, SegmentTypes
<1>7. PICK n \in Nat, e \in Nat : n = Len(file) /\ e = Len(Q)
  <2>1. Len(file) \in Nat
    BY <1>6
  <2>2. Q \in Seq(Chunks)
    BY <1>4 DEF WriteOf
  <2>3. Len(Q) \in Nat
    BY <2>2
  <2> QED
    BY <2>1, <2>3
<1>8. file' \in Seq(Chunks) /\ Len(file') = n + e /\ \A i \in 1 .. n : file'[i] = file[i]
  <2>0. Continues(file, Q, file')
    BY <1>4, <1>6, WriteKeepsLines
  <2>1. /\ file' \in Seq(Chunks) /\ Len(file') = Len(file) + Len(Q)
        /\ \A i \in 1 .. Len(file) : file'[i] = file[i]
    BY <2>0 DEF Continues
  <2> QED
    BY <1>7, <2>1
<1>9. SegmentTypes'
  <2>1. accepted' \in SUBSET (1 .. (g + m))
    BY <1>5, <1>6
  <2>2. g + m \in Nat /\ tears + 1 \in Nat
    BY <1>6
  <2> QED
    BY <1>5, <1>8, <2>1, <2>2 DEF SegmentInv, SegmentTypes
<1>10. WrittenInv'
  <2>1. ASSUME NEW r \in accepted
        PROVE  \E i \in 1 .. n + e - 2 : file'[i] = <<r, 1>> /\ file'[i + 1] = <<r, 2>> /\ file'[i + 2] = NL
    <3>1. PICK i \in 1 .. n - 2 : file[i] = <<r, 1>> /\ file[i + 1] = <<r, 2>> /\ file[i + 2] = NL
      BY <1>6, <1>7 DEF WrittenInv
    <3>2. i \in 1 .. n /\ i + 1 \in 1 .. n /\ i + 2 \in 1 .. n /\ i \in 1 .. n + e - 2
      OBVIOUS
    <3>3. file'[i] = file[i] /\ file'[i + 1] = file[i + 1] /\ file'[i + 2] = file[i + 2]
      BY <1>8, <3>2
    <3> QED
      BY <3>1, <3>2, <3>3
  <2>2. Len(file') - 2 = n + e - 2
    BY <1>8
  <2> QED
    BY <1>5, <2>1, <2>2 DEF WrittenInv
<1>11. TearsInv'
  <2>1. IsFiniteSet(Hits(file')) /\ Cardinality(Hits(file')) \in Nat /\ Cardinality(Hits(file')) <= tears
    BY <1>4, <1>6, WriteCostsATear DEF TearsInv
  <2>2. TornEnd(file') = 0 \/ TornEnd(file') = 1
    BY DEF TornEnd
  <2>3. Cardinality(Hits(file')) + TornEnd(file') <= tears'
    BY <1>5, <1>6, <2>1, <2>2
  <2> QED
    BY <2>1, <2>3 DEF TearsInv
<1>12. PositionInv' /\ HandledInv'
  BY <1>4, <1>5, WritesKeepLines
<1> QED
  BY <1>9, <1>10, <1>11, <1>12 DEF SegmentInv

\* A tick reads every full line behind the cursor.
LEMMA SfTickKeeps == ASSUME SegmentInv, SfTick PROVE SegmentInv'
<1>1. file \in Seq(Chunks) /\ offset \in Nat /\ LineEnd(file, offset) /\ HandledInv
  BY DEF SegmentInv, SegmentTypes, PositionInv
<1>2. PICK R : R = ReadRecordsFrom(file, offset)
  OBVIOUS
<1>3. entries' = R /\ UNCHANGED <<file, offset, given, accepted, stored, tears>>
  BY <1>2 DEF SfTick
<1>4. R \in Seq(Recs \X Nat) /\ \A k \in DOMAIN R : LineEnd(file, R[k][2])
  BY <1>1, <1>2, ReadsRecords
<1>5. SegmentTypes' /\ WrittenInv' /\ TearsInv'
  BY <1>3, <1>4 DEF SegmentInv, SegmentTypes, WrittenInv, TearsInv
<1>6. PositionInv'
  BY <1>1, <1>3, <1>4 DEF PositionInv
<1>7. ASSUME NEW k \in DOMAIN R, NEW i \in Nat, NEW r \in Recs, FullLine(file, i, r), i + 2 <= R[k][2]
      PROVE  stored[r] > 0 \/ \E j \in 1 .. k : R[j][1] = r
  <2>1. CASE i + 2 <= offset
    BY <1>1, <1>7, <2>1 DEF HandledInv
  <2>2. CASE \E j \in DOMAIN R : R[j] = <<r, i + 2>>
    <3>1. PICK j \in DOMAIN R : R[j] = <<r, i + 2>>
      BY <2>2
    <3>2. R[j][1] = r /\ R[j][2] = i + 2
      BY <3>1
    <3>3. \E good : InOrder(file, offset, R, good)
      BY <1>1, <1>2, LinesInOrder
    <3>4. \A x, y \in DOMAIN R : R[x][2] <= R[y][2] => x <= y
      BY <3>3 DEF InOrder
    <3>5. R[j][2] <= R[k][2]
      BY <1>7, <3>2
    <3>6. j <= k
      BY <3>4, <3>5
    <3>7. j \in 1 .. k
      BY <1>4, <3>6
    <3> QED
      BY <3>2, <3>7
  <2> QED
    BY <1>1, <1>2, <1>7, <2>1, <2>2, FullLinesRead
<1>8. HandledInv'
  <2>1. \A i \in Nat, r \in Recs : FullLine(file', i, r) /\ i + 2 <= offset' => stored'[r] > 0
    BY <1>1, <1>3 DEF HandledInv
  <2>2. \A k \in DOMAIN entries' : \A i \in Nat, r \in Recs :
          FullLine(file', i, r) /\ i + 2 <= entries'[k][2]
            => stored'[r] > 0 \/ \E j \in 1 .. k : entries'[j][1] = r
    BY <1>3, <1>7
  <2> QED
    BY <2>1, <2>2 DEF HandledInv
<1> QED
  BY <1>5, <1>6, <1>8 DEF SegmentInv

\* Storing the first entry lets the cursor pass its line.
LEMMA HandleKeeps == ASSUME SegmentInv, Handle PROVE SegmentInv'
<1>1. /\ file \in Seq(Chunks) /\ entries \in Seq(Recs \X Nat) /\ entries # <<>>
      /\ stored \in [Recs -> 0 .. Many] /\ PositionInv /\ HandledInv
  BY DEF SegmentInv, SegmentTypes, Handle
<1>2. PICK n \in Nat \ {0}, T \in Seq(Recs \X Nat) : /\ n = Len(entries) /\ T = Tail(entries) /\ Len(T) = n - 1
                                                    /\ \A j \in 1 .. n - 1 : T[j] = entries[j + 1]
  <2>1. Tail(entries) \in Seq(Recs \X Nat) /\ Len(Tail(entries)) = Len(entries) - 1
        /\ \A j \in 1 .. Len(entries) - 1 : Tail(entries)[j] = entries[j + 1]
    BY <1>1
  <2>2. Len(entries) \in Nat \ {0}
    BY <1>1
  <2> QED
    BY <2>1, <2>2
<1>3. PICK s \in Recs, p \in Nat : entries[1] = <<s, p>> /\ Head(entries) = <<s, p>>
  <2>1. 1 \in 1 .. n
    OBVIOUS
  <2>2. entries[1] \in Recs \X Nat /\ Head(entries) = entries[1]
    BY <1>1, <1>2, <2>1
  <2> QED
    BY <2>2
<1>4. /\ stored' = [stored EXCEPT ![s] = IF @ < Many THEN @ + 1 ELSE @]
      /\ offset' = p /\ entries' = T
      /\ UNCHANGED <<file, given, accepted, tears>>
  <2>1. Head(entries)[1] = s /\ Head(entries)[2] = p
    BY <1>3
  <2>2. stored' = [stored EXCEPT ![s] = IF @ < Many THEN @ + 1 ELSE @]
    BY <2>1, Zenon DEF Handle
  <2>3. offset' = p /\ entries' = T /\ UNCHANGED <<file, given, accepted, tears>>
    BY <1>2, <2>1 DEF Handle
  <2> QED
    BY <2>2, <2>3
<1>5. /\ stored' \in [Recs -> 0 .. Many] /\ stored'[s] > 0
      /\ \A r \in Recs : stored[r] > 0 => stored'[r] > 0
  BY <1>1, <1>4 DEF Many
<1>6. SegmentTypes' /\ WrittenInv' /\ TearsInv'
  BY <1>4, <1>5 DEF SegmentInv, SegmentTypes, WrittenInv, TearsInv
<1>7. DOMAIN entries = 1 .. n /\ DOMAIN T = 1 .. n - 1 /\ 1 \in 1 .. n
  BY <1>1, <1>2
<1>8. PositionInv'
  <2>1. LineEnd(file, p)
    <3>1. entries[1][2] = p
      BY <1>3
    <3> QED
      BY <1>1, <1>7, <3>1 DEF PositionInv
  <2>2. ASSUME NEW k \in 1 .. n - 1 PROVE LineEnd(file, T[k][2])
    <3>1. T[k] = entries[k + 1] /\ k + 1 \in 1 .. n
      BY <1>2
    <3> QED
      BY <1>1, <1>7, <3>1 DEF PositionInv
  <2> QED
    BY <1>4, <1>7, <2>1, <2>2 DEF PositionInv
<1>9. ASSUME NEW k \in 1 .. n, NEW i \in Nat, NEW r \in Recs, FullLine(file, i, r), i + 2 <= entries[k][2]
      PROVE  stored'[r] > 0 \/ \E j \in 2 .. k : entries[j][1] = r
  <2>1. stored[r] > 0 \/ \E j \in 1 .. k : entries[j][1] = r
    BY <1>1, <1>7, <1>9 DEF HandledInv
  <2>2. CASE stored[r] > 0
    BY <1>5, <2>2
  <2>3. ASSUME NEW j \in 1 .. k, entries[j][1] = r
        PROVE  stored'[r] > 0 \/ \E m \in 2 .. k : entries[m][1] = r
    <3>1. CASE j = 1
      BY <1>3, <1>5, <2>3, <3>1
    <3>2. CASE j # 1
      <4>1. j \in 2 .. k
        BY <3>2
      <4> QED
        BY <2>3, <4>1
    <3> QED
      BY <3>1, <3>2
  <2> QED
    BY <2>1, <2>2, <2>3
<1>10. ASSUME NEW i \in Nat, NEW r \in Recs, FullLine(file, i, r), i + 2 <= p PROVE stored'[r] > 0
  <2>1. i + 2 <= entries[1][2]
    BY <1>3, <1>10
  <2>2. ~ \E j \in 2 .. 1 : entries[j][1] = r
    OBVIOUS
  <2> QED
    BY <1>7, <1>9, <1>10, <2>1, <2>2
<1>11. ASSUME NEW k \in 1 .. n - 1, NEW i \in Nat, NEW r \in Recs, FullLine(file, i, r), i + 2 <= T[k][2]
       PROVE  stored'[r] > 0 \/ \E j \in 1 .. k : T[j][1] = r
  <2>1. T[k] = entries[k + 1] /\ k + 1 \in 1 .. n
    BY <1>2
  <2>2. i + 2 <= entries[k + 1][2]
    BY <1>11, <2>1
  <2>3. stored'[r] > 0 \/ \E j \in 2 .. k + 1 : entries[j][1] = r
    BY <1>9, <1>11, <2>1, <2>2
  <2>4. ASSUME NEW j \in 2 .. k + 1, entries[j][1] = r PROVE \E m \in 1 .. k : T[m][1] = r
    <3>1. j - 1 \in 1 .. k /\ j - 1 \in 1 .. n - 1 /\ (j - 1) + 1 = j
      OBVIOUS
    <3>2. T[j - 1] = entries[j]
      BY <1>2, <3>1
    <3> QED
      BY <2>4, <3>1, <3>2
  <2> QED
    BY <2>3, <2>4
<1>12. HandledInv'
  <2>1. \A i \in Nat, r \in Recs : FullLine(file', i, r) /\ i + 2 <= offset' => stored'[r] > 0
    BY <1>4, <1>10
  <2>2. \A k \in DOMAIN entries' : \A i \in Nat, r \in Recs :
          FullLine(file', i, r) /\ i + 2 <= entries'[k][2]
            => stored'[r] > 0 \/ \E j \in 1 .. k : entries'[j][1] = r
    BY <1>4, <1>7, <1>11
  <2> QED
    BY <2>1, <2>2 DEF HandledInv
<1> QED
  BY <1>6, <1>8, <1>12 DEF SegmentInv

\* A restart forgets what was read and keeps the cursor.
LEMMA SfCrashKeeps == ASSUME SegmentInv, SfCrash PROVE SegmentInv'
<1>1. entries' = <<>> /\ DOMAIN entries' = {} /\ entries' \in Seq(Recs \X Nat)
      /\ UNCHANGED <<file, offset, given, accepted, stored, tears>>
  BY DEF SfCrash
<1>2. SegmentTypes' /\ WrittenInv' /\ TearsInv'
  BY <1>1 DEF SegmentInv, SegmentTypes, WrittenInv, TearsInv
<1>3. PositionInv' /\ HandledInv'
  BY <1>1 DEF SegmentInv, PositionInv, HandledInv
<1> QED
  BY <1>2, <1>3 DEF SegmentInv

\* An accepted record that cannot be read and is not stored lies behind a tear.
LEMMA TearsPay == ASSUME SegmentInv PROVE DamageBounded
<1>1. /\ file \in Seq(Chunks) /\ offset \in Nat /\ LineEnd(file, offset) /\ accepted \subseteq Recs
      /\ given \in Nat /\ tears \in Nat /\ stored \in [Recs -> 0 .. Many]
  <2>1. accepted \subseteq Recs
    <3>1. ASSUME NEW r \in accepted PROVE r \in Recs
      <4>1. PICK i \in 1 .. Len(file) - 2 : file[i] = <<r, 1>>
        BY DEF SegmentInv, WrittenInv
      <4>2. file[i] \in Chunks
        <5>1. file \in Seq(Chunks)
          BY DEF SegmentInv, SegmentTypes
        <5>2. Len(file) \in Nat /\ i \in 1 .. Len(file)
          BY <5>1
        <5> QED
          BY <5>1, <5>2
      <4>3. <<r, 1>> \in Chunks /\ <<r, 1>> # NL
        BY <4>1, <4>2, ChunkIs
      <4>4. \A x : <<r, 1>> = <<x, 1>> \/ <<r, 1>> = <<x, 2>> => x = r
        OBVIOUS
      <4> QED
        BY <4>3, <4>4, ChunkIs
    <3> QED
      BY <3>1
  <2> QED
    BY <2>1 DEF SegmentInv, SegmentTypes, PositionInv
<1>2. ASSUME NEW r \in Gone PROVE \E i \in Hits(file) : file[i][1] = r
  <2>1. r \in accepted /\ r \in Recs /\ stored[r] = 0 /\ r \notin Readable
    BY <1>1 DEF Gone
  <2>2. PICK i \in 1 .. Len(file) - 2 : file[i] = <<r, 1>> /\ file[i + 1] = <<r, 2>> /\ file[i + 2] = NL
    BY <2>1 DEF SegmentInv, WrittenInv
  <2>3. Len(file) \in Nat /\ i \in Nat \ {0} /\ i + 2 <= Len(file)
    <3>1. Len(file) \in Nat
      BY <1>1
    <3> QED
      BY <3>1
  <2>4. ~ FullLine(file, i, r)
    <3> SUFFICES ASSUME FullLine(file, i, r) PROVE FALSE
      OBVIOUS
    <3>1. CASE i + 2 <= offset
      <4>1. stored[r] > 0
        BY <2>1, <2>3, <3>1 DEF SegmentInv, HandledInv
      <4> QED
        BY <2>1, <4>1
    <3>2. CASE \E j \in DOMAIN ReadRecordsFrom(file, offset) : ReadRecordsFrom(file, offset)[j] = <<r, i + 2>>
      <4>1. PICK R : R = ReadRecordsFrom(file, offset)
        OBVIOUS
      <4>2. PICK j \in DOMAIN R : R[j] = <<r, i + 2>>
        BY <3>2, <4>1
      <4>3. R[j] \in Range(R) /\ R[j][1] = r
        BY <4>2 DEF Range
      <4>4. r \in {x[1] : x \in Range(R)}
        BY <4>3
      <4> QED
        BY <2>1, <4>1, <4>4 DEF Readable
    <3> QED
      BY <1>1, <2>1, <2>3, <3>1, <3>2, FullLinesRead
  <2>5. i > 1 /\ file[i - 1] # NL
    BY <2>2, <2>3, <2>4 DEF FullLine
  <2>6. i \in 2 .. Len(file) /\ file[i][2] = 1 /\ file[i][1] = r
    BY <2>2, <2>3, <2>5
  <2>7. i \in Hits(file)
    BY <2>5, <2>6, Zenon DEF Hits
  <2> QED
    BY <2>6, <2>7
<1> DEFINE at(r) == CHOOSE i \in Hits(file) : file[i][1] = r
           F == [r \in Gone |-> at(r)]
<1>3. \A r \in Gone : F[r] \in Hits(file) /\ file[F[r]][1] = r
  BY <1>2
<1>4. F \in Injection(Gone, Hits(file))
  <2>1. F \in [Gone -> Hits(file)] /\ DOMAIN F = Gone
    BY <1>3
  <2> HIDE DEF F
  <2>2. \A a, b \in Gone : F[a] = F[b] => a = b
    BY <1>3
  <2> QED
    BY <2>1, <2>2 DEF Injection, IsInjective
<1> HIDE DEF F
<1>5. IsFiniteSet(Hits(file)) /\ Cardinality(Hits(file)) + TornEnd(file) <= tears
  BY DEF SegmentInv, TearsInv
<1>6. IsFiniteSet(Gone) /\ Cardinality(Gone) <= Cardinality(Hits(file))
  BY <1>4, <1>5, FS_Injection
<1>7. Cardinality(Hits(file)) \in Nat /\ Cardinality(Gone) \in Nat
  BY <1>5, <1>6, FS_CardinalityType
<1>8. TornEnd(file) = 0 \/ TornEnd(file) = 1
  BY DEF TornEnd
<1> QED
  BY <1>1, <1>5, <1>6, <1>7, <1>8 DEF DamageBounded

\* Every accepted record that the worker has not stored and can no longer read is paid
\* for by a torn write (ReadRecordsFrom skips a line that does not decode).
THEOREM TearsPayForDamage == SfSpec => []DamageBounded
<1>1. SfInit => SegmentInv
  <2> SUFFICES ASSUME SfInit PROVE SegmentInv
    OBVIOUS
  <2>1. /\ file = <<>> /\ offset = 0 /\ entries = <<>> /\ given = 0 /\ accepted = {} /\ tears = 0
        /\ stored = [r \in Recs |-> 0]
    BY DEF SfInit
  <2>2. Len(file) = 0 /\ file \in Seq(Chunks) /\ entries \in Seq(Recs \X Nat) /\ DOMAIN entries = {}
    BY <2>1
  <2>3. SegmentTypes
    BY <2>1, <2>2 DEF SegmentTypes, Many
  <2>4. WrittenInv /\ PositionInv
    BY <2>1, <2>2 DEF WrittenInv, PositionInv, LineEnd
  <2>5. HandledInv
    BY <2>1, <2>2 DEF HandledInv, FullLine
  <2>6. Hits(file) = {} /\ TornEnd(file) = 0
    BY <2>1, <2>2 DEF Hits, TornEnd
  <2>7. TearsInv
    BY <2>1, <2>6, FS_EmptySet DEF TearsInv
  <2> QED
    BY <2>3, <2>4, <2>5, <2>7 DEF SegmentInv
<1>2. SegmentInv /\ [SfNext]_sfVars => SegmentInv'
  <2> SUFFICES ASSUME SegmentInv, [SfNext]_sfVars PROVE SegmentInv'
    OBVIOUS
  <2>1. CASE UNCHANGED sfVars
    <3>1. UNCHANGED <<file, offset, entries, given, accepted, stored, tears>>
      BY <2>1 DEF sfVars
    <3>2. SegmentTypes' /\ WrittenInv' /\ TearsInv'
      BY <3>1 DEF SegmentInv, SegmentTypes, WrittenInv, TearsInv
    <3>3. PositionInv' /\ HandledInv'
      BY <3>1 DEF SegmentInv, PositionInv, HandledInv
    <3> QED
      BY <3>2, <3>3 DEF SegmentInv
  <2> QED
    BY <2>1, AppendBatchKeeps, TornAppendKeeps, SfTickKeeps, HandleKeeps, SfCrashKeeps DEF SfNext
<1>3. SegmentInv => DamageBounded
  BY TearsPay
<1> QED
  BY <1>1, <1>2, <1>3, PTL DEF SfSpec
=============================================================================
