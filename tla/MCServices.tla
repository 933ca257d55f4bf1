-------------------------- MODULE MCServices --------------------------------
(***************************************************************************)
(* The services around the core and the client's transport, model-checked  *)
(* in one run: what watches, announces and measures, and the Go SDK.  They *)
(* share no variable, so a behaviour exercises one of them and leaves the  *)
(* others in their initial states.                                         *)
(***************************************************************************)
EXTENDS Monitors, CronExpr, Alerting, IngestHealth, Silence, WeeklyDigest,
          DetectWindow, DetectionRules, HostWatch, TelemetryDB, CfPoller,
          SdkClient

\* The rules a user may save: a mail for every new issue, a webhook on a count.
SavedRules ==
  {[condition |-> "new_issue", email |-> TRUE, enabled |-> TRUE, cooldown |-> 1],
   [condition |-> "event_count_exceeds", email |-> FALSE, enabled |-> TRUE, cooldown |-> 2]}

\* A heartbeat rule that is due soon and one that waits.
HeartbeatWindows == [r \in HeartbeatRules |-> IF r = "short" THEN 1 ELSE 3]

VARIABLE servicesPart  \* the component this behaviour exercises

ServicesParts == {"monitors", "cron", "alerts", "health", "silence", "digest",
          "windows", "rules", "hosts", "telemetry", "cloudflare", "sdk"}

servicesVars == <<servicesPart, monVars, cronVars, alertVars, healthVars, silenceVars,
          dgVars, detVars, ruleVars, hwVars, tdVars, cfVars, sdkVars>>

ServicesInit ==
  /\ servicesPart \in ServicesParts
  /\ MonInit /\ CronInit /\ AlertInit /\ HealthInit /\ SilenceInit
  /\ DgInit /\ DetInit /\ RuleInit /\ HwInit /\ TdInit /\ CfInit
  /\ SdkInit

ServicesNext ==
  \/ /\ servicesPart = "monitors" /\ MonNext
     /\ UNCHANGED <<servicesPart, cronVars, alertVars, healthVars, silenceVars,
          dgVars, detVars, ruleVars, hwVars, tdVars, cfVars, sdkVars>>
  \/ /\ servicesPart = "cron" /\ CronStep
     /\ UNCHANGED <<servicesPart, monVars, alertVars, healthVars, silenceVars,
          dgVars, detVars, ruleVars, hwVars, tdVars, cfVars, sdkVars>>
  \/ /\ servicesPart = "alerts" /\ AlertNext
     /\ UNCHANGED <<servicesPart, monVars, cronVars, healthVars, silenceVars,
          dgVars, detVars, ruleVars, hwVars, tdVars, cfVars, sdkVars>>
  \/ /\ servicesPart = "health" /\ HealthNext
     /\ UNCHANGED <<servicesPart, monVars, cronVars, alertVars, silenceVars, dgVars,
          detVars, ruleVars, hwVars, tdVars, cfVars, sdkVars>>
  \/ /\ servicesPart = "silence" /\ SilenceNext
     /\ UNCHANGED <<servicesPart, monVars, cronVars, alertVars, healthVars, dgVars,
          detVars, ruleVars, hwVars, tdVars, cfVars, sdkVars>>
  \/ /\ servicesPart = "digest" /\ DgNext
     /\ UNCHANGED <<servicesPart, monVars, cronVars, alertVars, healthVars,
          silenceVars, detVars, ruleVars, hwVars, tdVars, cfVars, sdkVars>>
  \/ /\ servicesPart = "windows" /\ DetNext
     /\ UNCHANGED <<servicesPart, monVars, cronVars, alertVars, healthVars,
          silenceVars, dgVars, ruleVars, hwVars, tdVars, cfVars, sdkVars>>
  \/ /\ servicesPart = "rules" /\ RuleNext
     /\ UNCHANGED <<servicesPart, monVars, cronVars, alertVars, healthVars,
          silenceVars, dgVars, detVars, hwVars, tdVars, cfVars, sdkVars>>
  \/ /\ servicesPart = "hosts" /\ HwNext
     /\ UNCHANGED <<servicesPart, monVars, cronVars, alertVars, healthVars,
          silenceVars, dgVars, detVars, ruleVars, tdVars, cfVars, sdkVars>>
  \/ /\ servicesPart = "telemetry" /\ TdNext
     /\ UNCHANGED <<servicesPart, monVars, cronVars, alertVars, healthVars,
          silenceVars, dgVars, detVars, ruleVars, hwVars, cfVars, sdkVars>>
  \/ /\ servicesPart = "cloudflare" /\ CfNext
     /\ UNCHANGED <<servicesPart, monVars, cronVars, alertVars, healthVars,
          silenceVars, dgVars, detVars, ruleVars, hwVars, tdVars, sdkVars>>
  \/ /\ servicesPart = "sdk" /\ SdkNext
     /\ UNCHANGED <<servicesPart, monVars, cronVars, alertVars, healthVars,
          silenceVars, dgVars, detVars, ruleVars, hwVars, tdVars, cfVars>>

ServicesSpec == ServicesInit /\ [][ServicesNext]_servicesVars
=============================================================================
