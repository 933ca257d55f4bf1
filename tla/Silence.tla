------------------------------- MODULE Silence -------------------------------
(***************************************************************************)
(* The silence monitor (internal/silence): mails the admin when a project  *)
(* whose issues used to be seen has reported nothing for SilentFor.  Which *)
(* projects were alerted is kept in memory only.  One tick is one Interval *)
(* of its loop.                                                            *)
(***************************************************************************)
EXTENDS Integers, FiniteSets

CONSTANTS
  QuietProjects, QuietIssues,    \* projects, and the issues of each
  SilentFor, SilenceLookback, MinEarlier,
  SilenceMaxTime,     \* bound: checks
  SilenceMaxFaults    \* bound: failed reads, failed mails and restarts

\* Fewer checks fail in a row than there are within SilentFor (7 days, hourly).
ASSUME SilenceAssumption ==
  /\ {SilentFor, SilenceLookback, MinEarlier} \subseteq Nat \ {0}
  /\ SilenceMaxFaults \in Nat /\ SilenceMaxFaults < SilentFor /\ IsFiniteSet(QuietProjects)

VARIABLES
  silenceNow,
  lastSeen,        \* issues.last_seen; 0 for an issue that does not exist yet
  silenceAlerted,  \* Monitor.alert
  silenceSent,     \* mails sent since the project's last report or the last restart
  silenceChecked,  \* this tick's check: "due", "done" or "failed"
  silenceFaults

silenceVars == <<silenceNow, lastSeen, silenceAlerted, silenceSent, silenceChecked, silenceFaults>>

\* ProjectActivity; a project with no issue in the window is not listed.
Recent(p) == {i \in QuietIssues : lastSeen[p][i] > 0 /\ lastSeen[p][i] >= silenceNow - SilentFor}
Earlier(p) == {i \in QuietIssues : /\ lastSeen[p][i] > 0 /\ lastSeen[p][i] < silenceNow - SilentFor
                                   /\ lastSeen[p][i] >= silenceNow - SilentFor - SilenceLookback}
WentQuiet(p) == Recent(p) = {} /\ Cardinality(Earlier(p)) >= MinEarlier

\* An event of the project is stored.
Report(p, i) ==
  /\ lastSeen[p][i] # silenceNow
  /\ lastSeen' = [lastSeen EXCEPT ![p][i] = silenceNow]
  /\ silenceSent' = [silenceSent EXCEPT ![p] = 0]
  /\ silenceChecked' = IF silenceChecked = "done" THEN "stale" ELSE silenceChecked
  /\ UNCHANGED <<silenceNow, silenceAlerted, silenceFaults>>

\* Mutant: every check starts from nothing.
NothingAlerted == {}

StillAlerted == silenceAlerted \ {p \in QuietProjects : Recent(p) # {}}

\* Check, with the mails of failing not delivered.
SilenceCheck(failing) ==
  LET due == {p \in QuietProjects : WentQuiet(p) /\ p \notin silenceAlerted}
      sent == due \ failing
  IN /\ silenceChecked = "due" /\ failing \subseteq due
     /\ silenceFaults + Cardinality(failing) <= SilenceMaxFaults
     /\ silenceFaults' = silenceFaults + Cardinality(failing)
     /\ silenceAlerted' = StillAlerted \cup sent
     /\ silenceSent' = [p \in QuietProjects |-> silenceSent[p] + (IF p \in sent THEN 1 ELSE 0)]
     /\ silenceChecked' = IF failing = {} THEN "done" ELSE "failed"
     /\ UNCHANGED <<silenceNow, lastSeen>>

\* Its read fails and nothing is decided.
SilenceCheckFails ==
  /\ silenceChecked = "due" /\ silenceFaults < SilenceMaxFaults
  /\ silenceFaults' = silenceFaults + 1
  /\ silenceChecked' = "failed"
  /\ UNCHANGED <<silenceNow, lastSeen, silenceAlerted, silenceSent>>

SilenceRestart ==
  /\ silenceFaults < SilenceMaxFaults
  /\ silenceFaults' = silenceFaults + 1
  /\ silenceAlerted' = {} /\ silenceSent' = [p \in QuietProjects |-> 0]
  /\ silenceChecked' = "failed"      \* the ticker first fires an interval later
  /\ UNCHANGED <<silenceNow, lastSeen>>

SilenceTick ==
  /\ silenceChecked # "due" /\ silenceNow < SilenceMaxTime
  /\ silenceNow' = silenceNow + 1 /\ silenceChecked' = "due"
  /\ UNCHANGED <<lastSeen, silenceAlerted, silenceSent, silenceFaults>>

SilenceInit ==
  /\ silenceNow = 1 /\ silenceChecked = "due" /\ silenceFaults = 0 /\ silenceAlerted = {}
  /\ lastSeen = [p \in QuietProjects |-> [i \in QuietIssues |-> 0]]
  /\ silenceSent = [p \in QuietProjects |-> 0]

SilenceNext ==
  \/ \E p \in QuietProjects, i \in QuietIssues : Report(p, i)
  \/ \E failing \in SUBSET QuietProjects : SilenceCheck(failing)
  \/ SilenceCheckFails \/ SilenceRestart \/ SilenceTick

SilenceSpec == SilenceInit /\ [][SilenceNext]_silenceVars

----------------------------------------------------------------------------
\* Correctness

\* One alert per silent episode and life of the process, and no episode without
\* one: a project that was alerted, reported and went quiet again is alerted
\* again, whatever single read, mail or process failed in between.
OneAlertPerEpisode ==
  /\ \A p \in QuietProjects : silenceSent[p] <= 1
  /\ silenceChecked = "done" => \A p \in QuietProjects : WentQuiet(p) => silenceSent[p] = 1
=============================================================================
