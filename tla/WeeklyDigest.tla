---------------------------- MODULE WeeklyDigest ----------------------------
(***************************************************************************)
(* The weekly digest (internal/digest).  A scheduler looks at the clock    *)
(* every minute and, in the configured hour, gathers every project's       *)
(* numbers under a budget and hands the report to each notifier: a webhook *)
(* with one attempt, mail with three.  What was sent is remembered in      *)
(* memory only.  An administrator's request runs the same gathering and    *)
(* delivery beside it.                                                     *)
(***************************************************************************)
EXTENDS Integers, FiniteSets

CONSTANTS
  DgProjects,      \* 1..n, in the order ListProjects returns them
  DgActive,        \* those with anything to report
  DgNotifiers,     \* subset of {"webhook", "email"}: BuildNotifiers
  DgWeek,          \* minutes in a week
  DgHour,          \* minutes in the configured hour, the first of a week
  DgRefire,        \* minutes within which it does not fire again (23 hours)
  DgMailAttempts,  \* attempts of one mail (3)
  DgMaxRun,        \* minutes the gather and delivery budgets allow
  DgMaxTime,       \* bound: minutes
  DgMaxRequests,   \* bound: requested digests
  DgMaxFaults      \* bound: failures, restarts

ASSUME WeeklyDigestAssumption ==
  /\ IsFiniteSet(DgProjects) /\ DgProjects = 1 .. Cardinality(DgProjects) /\ DgActive \subseteq DgProjects
  /\ DgNotifiers \subseteq {"webhook", "email"} /\ DgNotifiers # {}
  /\ {DgWeek, DgHour, DgRefire, DgMailAttempts, DgMaxRun} \subseteq Nat \ {0}
  /\ DgMaxRun < DgHour /\ DgHour <= DgRefire /\ DgRefire + DgHour <= DgWeek
  /\ {DgMaxTime, DgMaxRequests, DgMaxFaults} \subseteq Nat

VARIABLES
  dgNow,
  dgUp,        \* whether the process runs
  dgChan,      \* the tick in the ticker's channel; NoTick for none
  dgLast,      \* lastFired; NoTick for never
  dgRuns,      \* [DigestSenders -> a call of Send]
  dgRequests, dgFaults,
  dgFired,     \* history: weeks in which the scheduler called Send
  dgSent,      \* history: [DgNotifiers -> [Weeks -> deliveries of the scheduler's digest that were accepted]]
  dgDown,      \* history: weeks in whose hour the process was not up all the time
  dgDoubt,     \* history: weeks with a mail that was accepted and reported as failed
  \* history of what the scheduler's digests lost:
  dgCut,       \* weeks whose digest the process's end cut off
  dgUnlisted,  \* weeks whose digest ended when the projects could not be listed
  dgUngathered,\* [Weeks -> the active projects whose numbers the digest did not get]
  dgUndelivered\* [DgNotifiers -> the weeks whose digest it gave up]

dgLosses == <<dgCut, dgUnlisted, dgUngathered, dgUndelivered>>
dgVars == <<dgNow, dgUp, dgChan, dgLast, dgRuns, dgRequests, dgFaults, dgFired, dgSent, dgDown, dgDoubt, dgLosses>>

DigestSenders == {"scheduler", "request"}
NoTick == -1
Weeks == 0 .. DgMaxTime \div DgWeek
WeekOf(t) == t \div DgWeek
InHour(t) == t % DgWeek < DgHour
NotSending == [pc |-> "idle", next |-> 0, report |-> {}, errs |-> FALSE, left |-> {}, try |-> 0, at |-> 0]

----------------------------------------------------------------------------
\* The scheduler

\* A tick is dropped while the channel holds one.
DgTick ==
  /\ dgNow < DgMaxTime
  /\ ~(dgUp /\ dgChan # NoTick /\ dgRuns["scheduler"].pc = "idle")     \* a free scheduler takes its tick within the minute
  /\ \A s \in DigestSenders : dgRuns[s].pc # "idle" => dgNow - dgRuns[s].at < DgMaxRun
  /\ dgNow' = dgNow + 1
  /\ dgChan' = IF dgUp /\ dgChan = NoTick THEN dgNow' ELSE dgChan
  /\ dgDown' = IF ~dgUp /\ InHour(dgNow') THEN dgDown \cup {WeekOf(dgNow')} ELSE dgDown
  /\ UNCHANGED <<dgUp, dgLast, dgRuns, dgRequests, dgFaults, dgFired, dgSent, dgDoubt, dgLosses>>

DigestStarts(s) == dgRuns' = [dgRuns EXCEPT ![s] = [NotSending EXCEPT !.pc = "list", !.at = dgNow]]

\* run's conditions
DigestDue(t) == InHour(t) /\ ~(dgLast # NoTick /\ t - dgLast < DgRefire)

\* run: a tick in the configured hour, unless the digest just fired.
SchedulerTick ==
  /\ dgUp /\ dgRuns["scheduler"].pc = "idle" /\ dgChan # NoTick
  /\ dgChan' = NoTick
  /\ IF DigestDue(dgChan)
     THEN /\ dgLast' = dgChan /\ dgFired' = dgFired \cup {WeekOf(dgChan)} /\ DigestStarts("scheduler")
     ELSE UNCHANGED <<dgLast, dgFired, dgRuns>>
  /\ UNCHANGED <<dgNow, dgUp, dgRequests, dgFaults, dgSent, dgDown, dgDoubt, dgLosses>>

\* serveDigestTrigger
TriggerDigest ==
  /\ dgUp /\ dgRuns["request"].pc = "idle" /\ dgRequests < DgMaxRequests
  /\ dgRequests' = dgRequests + 1
  /\ DigestStarts("request")
  /\ UNCHANGED <<dgNow, dgUp, dgChan, dgLast, dgFaults, dgFired, dgSent, dgDown, dgDoubt, dgLosses>>

----------------------------------------------------------------------------
\* Send

DigestGoes(s, run) == dgRuns' = [dgRuns EXCEPT ![s] = run]
DigestStill == UNCHANGED <<dgNow, dgUp, dgChan, dgLast, dgRequests, dgFired, dgDown>>
DigestFails == dgFaults < DgMaxFaults /\ dgFaults' = dgFaults + 1

\* Only the scheduler's digest is its week's.
DigestLosesProjects(s, ps) ==
  dgUngathered' = IF s = "scheduler" THEN [dgUngathered EXCEPT ![WeekOf(dgNow)] = @ \cup (ps \cap DgActive)]
                  ELSE dgUngathered

\* Mutant: a report with errors is not delivered.
OnlyWhole(run) == IF run.report = {} \/ run.errs THEN NotSending ELSE [run EXCEPT !.pc = "deliver", !.left = DgNotifiers]

\* A report without sections is not sent; any other is, errors or not.
AfterGather(run) == IF run.report = {} THEN NotSending ELSE [run EXCEPT !.pc = "deliver", !.left = DgNotifiers]

\* Send lists the projects, or ends with an error ...
ListsProjects(s, ok) ==
  /\ dgRuns[s].pc = "list"
  /\ IF ok THEN DigestGoes(s, [dgRuns[s] EXCEPT !.pc = "gather", !.next = 1]) /\ UNCHANGED dgFaults
     ELSE DigestGoes(s, NotSending) /\ DigestFails
  /\ dgUnlisted' = IF ~ok /\ s = "scheduler" THEN dgUnlisted \cup {WeekOf(dgNow)} ELSE dgUnlisted
  /\ DigestStill /\ UNCHANGED <<dgSent, dgDoubt, dgCut, dgUngathered, dgUndelivered>>

\* ... gathers one project after another, an inactive one without a section and a
\* failing one with an error ...
Gather(s, ok) ==
  /\ dgRuns[s].pc = "gather" /\ dgRuns[s].next \in DgProjects
  /\ IF ok THEN UNCHANGED dgFaults ELSE DigestFails
  /\ LET p == dgRuns[s].next
     IN DigestGoes(s, [dgRuns[s] EXCEPT !.next = p + 1, !.errs = @ \/ ~ok,
                                     !.report = IF ok /\ p \in DgActive THEN @ \cup {p} ELSE @])
  /\ DigestLosesProjects(s, IF ok THEN {} ELSE {dgRuns[s].next})
  /\ DigestStill /\ UNCHANGED <<dgSent, dgDoubt, dgCut, dgUnlisted, dgUndelivered>>

\* ... until all are done, or the budget is spent ...
GatherEnds(s, spent) ==
  /\ dgRuns[s].pc = "gather"
  /\ IF spent THEN dgRuns[s].next \in DgProjects /\ DigestFails ELSE dgRuns[s].next \notin DgProjects /\ UNCHANGED dgFaults
  /\ DigestGoes(s, AfterGather([dgRuns[s] EXCEPT !.errs = @ \/ spent]))
  /\ DigestLosesProjects(s, {p \in DgProjects : spent /\ p >= dgRuns[s].next})
  /\ DigestStill /\ UNCHANGED <<dgSent, dgDoubt, dgCut, dgUnlisted, dgUndelivered>>

\* The next notifier, or the end of Send.
DigestSettled(run, n) ==
  IF run.left = {n} THEN NotSending ELSE [run EXCEPT !.left = @ \ {n}, !.try = 0]

DigestAccepted(s, n) ==
  dgSent' = IF s = "scheduler" THEN [dgSent EXCEPT ![n][WeekOf(dgNow)] = @ + 1] ELSE dgSent

\* The order BuildNotifiers gives them.
NextNotifier(run, n) == run.pc = "deliver" /\ n \in run.left /\ ~(n = "email" /\ "webhook" \in run.left)

\* ... and hands the report to each notifier.  The other side accepts it ...
DeliveredTo(s, n) ==
  /\ NextNotifier(dgRuns[s], n)
  /\ DigestAccepted(s, n)
  /\ DigestGoes(s, DigestSettled(dgRuns[s], n))
  /\ DigestStill /\ UNCHANGED <<dgFaults, dgDoubt, dgLosses>>

\* Mutant: a webhook is tried again as well.
TriesAnyAgain(n, try, transient) == transient /\ try + 1 < DgMailAttempts

\* attemptDelivery tries a mail again after a network error; a webhook has one attempt.
TriesAgain(n, try, transient) == n = "email" /\ transient /\ try + 1 < DgMailAttempts

\* ... or the attempt fails, with or without having been accepted: a timeout or a
\* broken connection after the body, in QUIT too, counts as a failure.
AttemptFails(s, n, transient, accepted) ==
  /\ NextNotifier(dgRuns[s], n) /\ DigestFails /\ (accepted => transient)
  /\ IF accepted THEN DigestAccepted(s, n) ELSE UNCHANGED dgSent
  /\ dgDoubt' = IF accepted /\ s = "scheduler" THEN dgDoubt \cup {WeekOf(dgNow)} ELSE dgDoubt
  /\ DigestGoes(s, IF TriesAgain(n, dgRuns[s].try, transient) THEN [dgRuns[s] EXCEPT !.try = @ + 1]
                ELSE DigestSettled([dgRuns[s] EXCEPT !.errs = TRUE], n))
  /\ dgUndelivered' = IF s = "scheduler" /\ ~TriesAgain(n, dgRuns[s].try, transient)
                      THEN [dgUndelivered EXCEPT ![n] = @ \cup {WeekOf(dgNow)}] ELSE dgUndelivered
  /\ DigestStill /\ UNCHANGED <<dgCut, dgUnlisted, dgUngathered>>

----------------------------------------------------------------------------
\* The process stops, with lastFired and what was being sent, and starts again.
DgStop ==
  /\ dgUp /\ DigestFails /\ dgUp' = FALSE
  /\ dgChan' = NoTick /\ dgLast' = NoTick /\ dgRuns' = [s \in DigestSenders |-> NotSending]
  /\ dgDown' = IF InHour(dgNow) THEN dgDown \cup {WeekOf(dgNow)} ELSE dgDown
  /\ dgCut' = IF dgRuns["scheduler"].pc # "idle" THEN dgCut \cup {WeekOf(dgNow)} ELSE dgCut
  /\ UNCHANGED <<dgNow, dgRequests, dgFired, dgSent, dgDoubt, dgUnlisted, dgUngathered, dgUndelivered>>

DgStart ==
  /\ ~dgUp /\ dgUp' = TRUE
  /\ UNCHANGED <<dgNow, dgChan, dgLast, dgRuns, dgRequests, dgFaults, dgFired, dgSent, dgDown, dgDoubt, dgLosses>>

DgInit ==
  /\ dgNow = 0 /\ dgUp = TRUE /\ dgChan = NoTick /\ dgLast = NoTick
  /\ dgRuns = [s \in DigestSenders |-> NotSending] /\ dgRequests = 0 /\ dgFaults = 0
  /\ dgFired = {} /\ dgSent = [n \in DgNotifiers |-> [w \in Weeks |-> 0]] /\ dgDown = {} /\ dgDoubt = {}
  /\ dgCut = {} /\ dgUnlisted = {} /\ dgUngathered = [w \in Weeks |-> {}] /\ dgUndelivered = [n \in DgNotifiers |-> {}]

DgNext ==
  \/ DgTick \/ SchedulerTick \/ TriggerDigest \/ DgStop \/ DgStart
  \/ \E s \in DigestSenders, ok \in BOOLEAN : ListsProjects(s, ok) \/ Gather(s, ok) \/ GatherEnds(s, ok)
  \/ \E s \in DigestSenders, n \in DgNotifiers :
       DeliveredTo(s, n) \/ \E transient, accepted \in BOOLEAN : AttemptFails(s, n, transient, accepted)

DgSpec == DgInit /\ [][DgNext]_dgVars

----------------------------------------------------------------------------
\* Correctness

\* "One email per week": a channel gets a week's scheduled digest a second time only
\* when the process stopped in the hour, which forgets lastFired, or when a mail
\* that was accepted was reported as failed and tried again.
SecondDigestHasACause ==
  \A n \in DgNotifiers, w \in Weeks : dgSent[n][w] > 1 => w \in dgDown \/ (n = "email" /\ w \in dgDoubt)

\* The scheduler still sends the digest of week w.
DigestUnderWay(w) == dgRuns["scheduler"].pc # "idle" /\ WeekOf(dgRuns["scheduler"].at) = w

\* What may keep the digest of week w from channel n: the process was down in its
\* hour or ended while it was sent, the projects could not be listed, not one active
\* project's numbers were got (or none was active), or n itself gave the delivery up.
WhyUnsent(n, w) ==
  \/ w \in dgDown \/ w \in dgCut \/ w \in dgUnlisted
  \/ DgActive \subseteq dgUngathered[w]
  \/ w \in dgUndelivered[n]

\* Once a week's hour is over and its digest not under way, each channel has accepted
\* it, or there is a cause that is the channel's own or lost the whole report: the
\* failure of one project or of another channel is none (digest.go:111-118).
\* Requested digests do not count as the week's.
MissedWeekHasACause ==
  \A n \in DgNotifiers, w \in Weeks :
    dgNow >= w * DgWeek + DgHour /\ ~DigestUnderWay(w) => dgSent[n][w] > 0 \/ WhyUnsent(n, w)

\* Without a failure or a restart the causes are none: each channel accepted the digest
\* of every such week exactly once.
UndisturbedWeekIsSent ==
  dgFaults = 0 /\ DgActive # {} =>
    \A n \in DgNotifiers, w \in Weeks :
      dgNow >= w * DgWeek + DgHour /\ ~DigestUnderWay(w) => dgSent[n][w] = 1

\* A week has one digest on each channel, or there is a reason why it has two or none.
OneDigestPerWeek == SecondDigestHasACause /\ MissedWeekHasACause /\ UndisturbedWeekIsSent
=============================================================================
