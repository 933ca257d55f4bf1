------------------------------ MODULE Alerting ------------------------------
(***************************************************************************)
(* Alerting (internal/alert): what the writer does with the events of the  *)
(* domain event bus.  Project rules are looked up and checked against      *)
(* their cooldown while the event is handled; the delivery itself, and the *)
(* record of it that the next cooldown check reads, happen in a goroutine  *)
(* per alert.  New-issue mails are capped per project and window; what the *)
(* cap holds back is reported in one summary, by the timer that ends the   *)
(* window or by the first new issue after it.  Mails share a bounded       *)
(* number of send slots with a bounded queue before them.                  *)
(***************************************************************************)
EXTENDS Integers, FiniteSets, FiniteSetsExt, Bags

CONSTANTS
  AlertIds,         \* ids of the alerts table
  AlertRules,       \* the rules a user may save
  AlertIssues,      \* issues of one project
  NamedIssues,      \* those whose title contains a message_contains rule's text
  EventCounts,      \* lifetime counts an event may bring an issue to
  Threshold,
  NewIssueMailMax, NewIssueMailWindow,
  MailSlots, MailQueue,
  AdminMail,        \* an admin address is configured and SMTP is set up
  AlertMaxTime,     \* bound: ticks
  AlertMaxEvents,   \* bound: domain events
  AlertMaxEdits,    \* bound: rules created, updated and deleted
  AlertMaxFaults    \* bound: failing sends and failing statements

\* A rule: an email address or a webhook, and a cooldown in ticks.
AlertRule ==
  [condition : {"new_issue", "regression", "event_count_exceeds", "message_contains"},
   email : BOOLEAN, enabled : BOOLEAN, cooldown : Nat]

ASSUME AlertAssumption ==
  /\ NewIssueMailMax \in Nat /\ NewIssueMailWindow \in Nat \ {0}
  /\ MailSlots \in Nat \ {0} /\ MailQueue \in Nat /\ AdminMail \in BOOLEAN
  /\ NamedIssues \subseteq AlertIssues /\ AlertIds \subseteq Nat \ {0}
  /\ AlertRules \subseteq AlertRule

VARIABLES
  alertNow,
  alertRules,     \* the alerts table
  alertFirings,   \* the alert_firings table: when a rule fired for an issue
  alertJobs,      \* the deliveries in progress, one goroutine each: a bag
  alertWindow,    \* newIssueLimiter's window of the project, or NoWindow
  alertTimers,    \* window starts an expiry timer is armed for
  alertSeen,      \* new issues counted, mailed themselves, reported in summaries
  alertEvents, alertEdits, alertFaults

alertVars == <<alertNow, alertRules, alertFirings, alertJobs, alertWindow, alertTimers,
               alertSeen, alertEvents, alertEdits, alertFaults>>

NoRule == [condition |-> "none", email |-> FALSE, enabled |-> FALSE, cooldown |-> 0]
AdminRule(what) == [condition |-> what, email |-> TRUE, enabled |-> TRUE, cooldown |-> 0]
Summary == "summary"
Admin == 0   \* in place of an alert's id: the rules notifyAdmin makes up
NoWindow == [start |-> 0, sent |-> 0, suppressed |-> 0]

----------------------------------------------------------------------------
\* newIssueLimiter

\* admit: a window that ran out is rolled over and its count handed out; past
\* the cap the issue is counted, and the first one arms the timer.
AdmitRolls == alertWindow # NoWindow /\ alertNow - alertWindow.start >= NewIssueMailWindow
\* Mutant: the next new issue ends the window without a summary.
AdmitForgets == 0

AdmitSummarize == IF AdmitRolls THEN alertWindow.suppressed ELSE 0
AdmitWindow ==
  IF AdmitRolls \/ alertWindow = NoWindow
  THEN [start |-> alertNow, sent |-> 0, suppressed |-> 0] ELSE alertWindow
AdmitSend == AdmitWindow.sent < NewIssueMailMax

AdmitNewIssue ==
  LET w == AdmitWindow
  IN /\ alertWindow' = IF AdmitSend THEN [w EXCEPT !.sent = @ + 1] ELSE [w EXCEPT !.suppressed = @ + 1]
     /\ alertTimers' = IF ~AdmitSend /\ w.suppressed = 0 THEN alertTimers \cup {w.start} ELSE alertTimers
     /\ alertSeen' = [alertSeen EXCEPT !.created = @ + 1, !.mailed = @ + (IF AdmitSend THEN 1 ELSE 0),
                                       !.summarized = @ + AdmitSummarize]

----------------------------------------------------------------------------
\* The evaluator

\* isSpikeMilestone: a power of ten from a hundred on.
IsSpikeMilestone(n) == \E k \in 2..9 : n = 10^k

RuleMatches(rule, i, condition, n, capped) ==
  /\ rule.enabled /\ rule.condition = condition
  /\ ~(capped /\ rule.email)
  /\ condition = "event_count_exceeds" => n > Threshold
  /\ condition = "message_contains" => i \in NamedIssues

\* Mutant: the earliest one.
FirstFiring(a, i) == LET ts == {f.at : f \in {x \in alertFirings : x.alert = a /\ x.issue = i}}
                     IN IF ts = {} THEN 0 ELSE Min(ts)

\* LastFiring: the latest one; cooldownPassed compares it with the clock.
LastFiring(a, i) == LET ts == {f.at : f \in {x \in alertFirings : x.alert = a /\ x.issue = i}}
                    IN IF ts = {} THEN 0 ELSE Max(ts)

CooldownPassed(a, i) ==
  \/ alertRules[a].cooldown = 0 \/ LastFiring(a, i) = 0
  \/ alertNow - LastFiring(a, i) >= alertRules[a].cooldown

\* evaluateRules: the alerts of the project whose delivery starts.
Fires(i, condition, n, capped) ==
  {a \in AlertIds : /\ alertRules[a] # NoRule /\ RuleMatches(alertRules[a], i, condition, n, capped)
                    /\ CooldownPassed(a, i)}

Job(a, rule, i) == [alert |-> a, rule |-> rule, issue |-> i, tries |-> 0,
                    pc |-> IF rule.email THEN "slot" ELSE "post"]
RuleJobs(as, i) == {Job(a, alertRules[a], i) : a \in as}
AdminJobs(what, i) == IF AdminMail THEN {Job(Admin, AdminRule(what), i)} ELSE {}

\* Each delivery is a goroutine of its own.
Spawn(jobs) == alertJobs' = alertJobs (+) SetToBag(jobs)

\* HandleEvent on IssueCreated
IssueCreated(i) ==
  /\ alertEvents < AlertMaxEvents
  /\ alertEvents' = alertEvents + 1
  /\ AdmitNewIssue
  /\ Spawn(RuleJobs(Fires(i, "new_issue", 1, ~AdmitSend) \cup Fires(i, "message_contains", 1, FALSE), i)
           \cup (IF AdmitSend THEN AdminJobs("new_issue", i) ELSE {})
           \cup (IF AdmitSummarize > 0 THEN AdminJobs("new_issue_flood", Summary) ELSE {}))
  /\ UNCHANGED <<alertNow, alertRules, alertFirings, alertEdits, alertFaults>>

\* The timer: expire ends the window it was armed for, if that is current, and
\* what it held back is mailed as a summary.
ExpireWindow(start) ==
  LET current == alertWindow # NoWindow /\ alertWindow.start = start
  IN /\ start \in alertTimers /\ alertNow >= start + NewIssueMailWindow
     /\ alertTimers' = alertTimers \ {start}
     /\ alertWindow' = IF current THEN NoWindow ELSE alertWindow
     /\ alertSeen' = IF current THEN [alertSeen EXCEPT !.summarized = @ + alertWindow.suppressed]
                     ELSE alertSeen
     /\ Spawn(IF current THEN AdminJobs("new_issue_flood", Summary) ELSE {})
     /\ UNCHANGED <<alertNow, alertRules, alertFirings, alertEvents, alertEdits, alertFaults>>

\* ... on IssueRegressed
IssueRegressed(i) ==
  /\ alertEvents < AlertMaxEvents
  /\ alertEvents' = alertEvents + 1
  /\ Spawn(RuleJobs(Fires(i, "regression", 1, FALSE) \cup Fires(i, "message_contains", 1, FALSE), i)
           \cup AdminJobs("regression", i))
  /\ UNCHANGED <<alertNow, alertRules, alertFirings, alertWindow, alertTimers, alertSeen, alertEdits, alertFaults>>

\* ... on IssueEventRecorded
IssueEventRecorded(i, n) ==
  /\ alertEvents < AlertMaxEvents
  /\ alertEvents' = alertEvents + 1
  /\ Spawn(RuleJobs(Fires(i, "event_count_exceeds", n, FALSE), i)
           \cup (IF IsSpikeMilestone(n) THEN AdminJobs("event_spike", i) ELSE {}))
  /\ UNCHANGED <<alertNow, alertRules, alertFirings, alertWindow, alertTimers, alertSeen, alertEdits, alertFaults>>

----------------------------------------------------------------------------
\* A delivery

Jobs == BagToSet(alertJobs)
AtPc(pc) == BagCardinality([j \in {x \in Jobs : x.pc = pc} |-> alertJobs[j]])
Become(j, k) == alertJobs' = (alertJobs (-) SetToBag({j})) (+) SetToBag({k})
Ends(j) == alertJobs' = alertJobs (-) SetToBag({j})
AlertStill == UNCHANGED <<alertNow, alertRules, alertWindow, alertTimers, alertSeen, alertEvents, alertEdits>>

\* acquireMailSlot: a free slot, or a place in the queue, or the mail is dropped.
AcquireMailSlot(j) ==
  /\ j.pc = "slot"
  /\ \/ AtPc("send") < MailSlots /\ Become(j, [j EXCEPT !.pc = "send"])
     \/ AtPc("send") >= MailSlots /\ AtPc("queue") < MailQueue /\ Become(j, [j EXCEPT !.pc = "queue"])
     \/ AtPc("send") >= MailSlots /\ AtPc("queue") >= MailQueue /\ Ends(j)
  /\ UNCHANGED <<alertFirings, alertFaults>> /\ AlertStill

\* A waiting mail gets the slot another one released, or its 30 seconds end.
MailSlotFreed(j) ==
  /\ j.pc = "queue" /\ AtPc("send") < MailSlots
  /\ Become(j, [j EXCEPT !.pc = "send"])
  /\ UNCHANGED <<alertFirings, alertFaults>> /\ AlertStill

MailWaitAborted(j) ==
  /\ j.pc = "queue" /\ alertFaults < AlertMaxFaults
  /\ alertFaults' = alertFaults + 1
  /\ Ends(j)
  /\ UNCHANGED alertFirings /\ AlertStill

\* sendEmail, or one webhook attempt, succeeds; an admin alert records nothing.
Delivered(j) ==
  /\ j.pc \in {"send", "post"}
  /\ IF j.alert = Admin THEN Ends(j) ELSE Become(j, [j EXCEPT !.pc = "record"])
  /\ UNCHANGED <<alertFirings, alertFaults>> /\ AlertStill

\* A mail is not tried again, a webhook twice more.
DeliveryFails(j) ==
  /\ j.pc \in {"send", "post"} /\ alertFaults < AlertMaxFaults
  /\ alertFaults' = alertFaults + 1
  /\ IF j.pc = "send" \/ j.tries = 2 THEN Ends(j) ELSE Become(j, [j EXCEPT !.tries = @ + 1])
  /\ UNCHANGED alertFirings /\ AlertStill

\* RecordFiring; then last_fired_at, for display only.
RecordFiring(j) ==
  /\ j.pc = "record"
  /\ alertFirings' = alertFirings \cup {[alert |-> j.alert, issue |-> j.issue, at |-> alertNow]}
  /\ Ends(j)
  /\ UNCHANGED alertFaults /\ AlertStill

\* Its failure is logged: the alert was sent and nothing remembers it.
RecordFiringFails(j) ==
  /\ j.pc = "record" /\ alertFaults < AlertMaxFaults
  /\ alertFaults' = alertFaults + 1
  /\ Ends(j)
  /\ UNCHANGED alertFirings /\ AlertStill

----------------------------------------------------------------------------
\* Rules, time

CreateAlert(a, rule) ==
  /\ alertRules[a] = NoRule /\ alertEdits < AlertMaxEdits
  /\ \A j \in Jobs : j.alert # a              \* AUTOINCREMENT: no id comes back
  /\ \A f \in alertFirings : f.alert # a
  /\ alertEdits' = alertEdits + 1
  /\ alertRules' = [alertRules EXCEPT ![a] = rule]
  /\ UNCHANGED <<alertNow, alertFirings, alertJobs, alertWindow, alertTimers, alertSeen, alertEvents, alertFaults>>

UpdateAlert(a, rule) ==
  /\ alertRules[a] \notin {NoRule, rule} /\ alertEdits < AlertMaxEdits
  /\ alertEdits' = alertEdits + 1
  /\ alertRules' = [alertRules EXCEPT ![a] = rule]
  /\ UNCHANGED <<alertNow, alertFirings, alertJobs, alertWindow, alertTimers, alertSeen, alertEvents, alertFaults>>

\* DeleteAlert leaves the firings and the deliveries in progress.
DeleteAlert(a) ==
  /\ alertRules[a] # NoRule /\ alertEdits < AlertMaxEdits
  /\ alertEdits' = alertEdits + 1
  /\ alertRules' = [alertRules EXCEPT ![a] = NoRule]
  /\ UNCHANGED <<alertNow, alertFirings, alertJobs, alertWindow, alertTimers, alertSeen, alertEvents, alertFaults>>

AlertTick ==
  /\ alertNow < AlertMaxTime
  /\ alertNow' = alertNow + 1
  /\ UNCHANGED <<alertRules, alertFirings, alertJobs, alertWindow, alertTimers, alertSeen,
                 alertEvents, alertEdits, alertFaults>>

AlertInit ==
  /\ alertNow = 1 /\ alertEvents = 0 /\ alertEdits = 0 /\ alertFaults = 0
  /\ alertRules = [a \in AlertIds |-> NoRule] /\ alertFirings = {}
  /\ alertJobs = EmptyBag
  /\ alertWindow = NoWindow /\ alertTimers = {}
  /\ alertSeen = [created |-> 0, mailed |-> 0, summarized |-> 0]

AlertNext ==
  \/ \E i \in AlertIssues : \/ IssueCreated(i) \/ IssueRegressed(i)
                            \/ \E n \in EventCounts : IssueEventRecorded(i, n)
  \/ \E start \in alertTimers : ExpireWindow(start)
  \/ \E j \in Jobs : \/ AcquireMailSlot(j) \/ MailSlotFreed(j) \/ Delivered(j) \/ RecordFiring(j)
                      \/ MailWaitAborted(j) \/ DeliveryFails(j) \/ RecordFiringFails(j)
  \/ \E a \in AlertIds, rule \in AlertRules : CreateAlert(a, rule) \/ UpdateAlert(a, rule)
  \/ \E a \in AlertIds : DeleteAlert(a)
  \/ AlertTick

AlertSpec == AlertInit /\ [][AlertNext]_alertVars

----------------------------------------------------------------------------
\* Correctness

\* No new issue goes unreported because of the cap: each one was mailed itself,
\* was counted in a summary, or is counted in the current window, and then the
\* timer that will report it is armed, whichever of the timer and the next new
\* issue ends the window.
EveryNewIssueAccounted ==
  /\ alertSeen.created = alertSeen.mailed + alertSeen.summarized + alertWindow.suppressed
  /\ alertWindow.suppressed > 0 => alertWindow.start \in alertTimers

\* A rule is delivered again for the same issue within its cooldown only when
\* the earlier delivery was not recorded yet, failed or was never recorded:
\* from the latest record on the cooldown holds, whatever happened to the rule.
CooldownHolds ==
  [][\A j \in BagToSet(alertJobs') :
       (j.alert # Admin /\ ~BagIn(j, alertJobs) /\ j.tries = 0 /\ j.pc \in {"slot", "post"}
          /\ j.rule.cooldown > 0)
       => \A f \in alertFirings : (f.alert = j.alert /\ f.issue = j.issue)
                                     => alertNow - f.at >= j.rule.cooldown]_alertVars

\* Alerts neither vanish in the cap nor repeat within a recorded cooldown.
AlertsSound == []EveryNewIssueAccounted /\ CooldownHolds
=============================================================================
