------------------------------ MODULE CronExpr ------------------------------
(***************************************************************************)
(* The next run of a 5-field cron expression (internal/cronexpr) on a      *)
(* scaled-down calendar: a day has CronHours hours of CronMinutes minutes, *)
(* a month CronMonthDays days, and a week CronWeek days.  A field is the   *)
(* set of the values it allows, which is what the code's bit masks are.    *)
(*                                                                         *)
(* Instants and wall-clock times are minutes from the first midnight.  In  *)
(* a zone with a gap the clock skips the hour that starts at CronShift; in *)
(* one with a fold that hour comes twice, and time.Date means the first.   *)
(***************************************************************************)
EXTENDS Integers, FiniteSets, FiniteSetsExt

CONSTANTS CronHours, CronMinutes, CronMonthDays, CronWeek,
          CronShift,      \* wall-clock minute at which an hour is skipped or repeated
          CronSearchDays, \* maxSearchDays
          CronLast        \* bound: the last instant asked about

ASSUME CronAssumption ==
  /\ CronHours \in Nat \ {0} /\ CronMinutes \in Nat \ {0, 1}
  /\ CronMonthDays \in Nat \ {0} /\ CronWeek \in Nat \ {0}
  /\ CronShift \in Nat /\ CronShift % CronMinutes = 0   \* a whole hour is skipped or repeated
  /\ CronSearchDays \in Nat /\ CronLast \in Nat /\ CronShift < CronLast

VARIABLES cronSchedule, cronZone, cronAt, cronNext

cronVars == <<cronSchedule, cronZone, cronAt, cronNext>>

Months == 1..2
DayLength == CronHours * CronMinutes

\* parsePart: a star, a value or a range, each with an optional step; a value
\* with a step runs to the end of the field.
CronPart == [kind : {"star", "value", "range"}, lo : Nat, hi : Nat, step : Nat]
PartValues(p, min, max) ==
  LET lo == IF p.kind = "star" THEN min ELSE p.lo
      hi == CASE p.kind = "star" -> max
              [] p.kind = "range" -> p.hi
              [] OTHER -> IF p.step > 0 THEN max ELSE p.lo
      step == IF p.step = 0 THEN 1 ELSE p.step
  IN {v \in lo..hi : (v - lo) % step = 0}

CronStar == [kind |-> "star", lo |-> 0, hi |-> 0, step |-> 0]
CronValue(v, n) == [kind |-> "value", lo |-> v, hi |-> v, step |-> n]
CronSpan(a, b) == [kind |-> "range", lo |-> a, hi |-> b, step |-> 0]

\* Parse: the day of the week may be written as 7 for Sunday (here CronWeek for
\* 0), and a day field that starts with a star is unrestricted.
CronSchedule(mi, ho, dom, mo, dow) ==
  LET week == PartValues(dow, 0, CronWeek)
  IN [minutes |-> PartValues(mi, 0, CronMinutes - 1),
      hours |-> PartValues(ho, 0, CronHours - 1),
      dom |-> PartValues(dom, 1, CronMonthDays), domAny |-> dom.kind = "star",
      months |-> PartValues(mo, 1, 2),
      dow |-> (week \ {CronWeek}) \cup (IF CronWeek \in week THEN {0} ELSE {}),
      dowAny |-> dow.kind = "star"]

\* matchesDay: with both day fields restricted, either one is enough.
MatchesDay(s, day) ==
  LET domOK == (day % CronMonthDays) + 1 \in s.dom
      dowOK == day % CronWeek \in s.dow
  IN /\ ((day \div CronMonthDays) % 2) + 1 \in s.months
     /\ CASE s.domAny /\ s.dowAny -> TRUE
          [] s.domAny /\ ~s.dowAny -> dowOK
          [] ~s.domAny /\ s.dowAny -> domOK
          [] OTHER -> domOK \/ dowOK

\* time.Date in the zone: a wall-clock time that does not exist keeps the
\* offset from before the gap.
CronInstant(zone, wall) ==
  CASE zone = "gap" /\ wall >= CronShift + CronMinutes -> wall - CronMinutes
    [] zone = "fold" /\ wall >= CronShift + CronMinutes -> wall + CronMinutes
    [] OTHER -> wall

\* Time.In(loc)
CronWall(zone, instant) ==
  CASE zone = "gap" /\ instant >= CronShift -> instant + CronMinutes
    [] zone = "fold" /\ instant >= CronShift + CronMinutes -> instant - CronMinutes
    [] OTHER -> instant

\* Mutant: the instant asked about is an answer.
RunsFrom(s, zone, day, after) ==
  {w \in {day * DayLength + h * CronMinutes + m : h \in s.hours, m \in s.minutes} :
     CronInstant(zone, w) >= after}

\* firstRunOn: the first hour and minute, in the order of the clock, whose
\* instant lies after the given one.
RunsOn(s, zone, day, after) ==
  {w \in {day * DayLength + h * CronMinutes + m : h \in s.hours, m \in s.minutes} :
     CronInstant(zone, w) > after}

CronNever == -1   \* no run is left

\* Mutant: the search begins today and leaves out the day before.
SearchesFromToday(s, zone, after) ==
  LET today == CronWall(zone, after) \div DayLength
      days == {d \in today..(today - 2 + CronSearchDays) :
                 d >= 0 /\ MatchesDay(s, d) /\ RunsOn(s, zone, d, after) # {}}
  IN IF days = {} THEN CronNever
     ELSE CronInstant(zone, Min(RunsOn(s, zone, Min(days), after)))

\* Next looks through the days from the one before.
CronNextRun(s, zone, after) ==
  LET today == CronWall(zone, after) \div DayLength
      days == {d \in (today - 1)..(today - 2 + CronSearchDays) :
                 d >= 0 /\ MatchesDay(s, d) /\ RunsOn(s, zone, d, after) # {}}
  IN IF days = {} THEN CronNever
     ELSE CronInstant(zone, Min(RunsOn(s, zone, Min(days), after)))

\* Some ways to write each field.
CronSchedules ==
  {CronSchedule(mi, ho, dom, mo, dow) :
     mi \in {CronStar, CronValue(0, 0), CronValue(1, 0)},
     ho \in {CronStar, CronValue(0, 2), CronValue(CronHours - 1, 0)},
     dom \in {CronStar, CronValue(2, 0), CronSpan(1, 2)}, mo \in {CronStar, CronValue(2, 0)},
     dow \in {CronStar, CronValue(CronWeek, 0), CronValue(1, 0)}}

\* Nothing was asked yet.
CronInit ==
  /\ cronSchedule = CronSchedule(CronStar, CronStar, CronStar, CronStar, CronStar)
  /\ cronZone = "utc" /\ cronAt = CronNever /\ cronNext = CronNever

\* A monitor asks for the run after its last check-in, and again after the run
\* it was told.
CronAsk(s, zone, at) ==
  /\ cronSchedule' = s /\ cronZone' = zone /\ cronAt' = at
  /\ cronNext' = CronNextRun(s, zone, at)

CronStarts == {0, CronShift - 1, CronShift, CronShift + 1}

CronStep ==
  \/ /\ cronAt = CronNever
     /\ \E s \in CronSchedules, z \in {"utc", "gap", "fold"}, t \in CronStarts : CronAsk(s, z, t)
  \/ /\ cronAt # CronNever /\ cronNext # CronNever /\ cronNext <= CronLast
     /\ CronAsk(cronSchedule, cronZone, cronNext)

CronSpec == CronInit /\ [][CronStep]_cronVars

\* The answer is the earliest scheduled instant after the one asked about, also
\* around the skipped and the repeated hour: no run is passed over and none is
\* told twice.
NextIsEarliest ==
  LET walls == 0..(CronLast + (CronSearchDays + 1) * DayLength)
      matching == {w \in walls :
                     /\ MatchesDay(cronSchedule, w \div DayLength)
                     /\ (w % DayLength) \div CronMinutes \in cronSchedule.hours
                     /\ w % CronMinutes \in cronSchedule.minutes}
      runs == {t \in {CronInstant(cronZone, w) : w \in matching} : t > cronAt}
      horizon == {t \in runs : CronWall(cronZone, t) \div DayLength
                                 <= (CronWall(cronZone, cronAt) \div DayLength) + CronSearchDays - 3}
  IN cronAt # CronNever =>
       /\ cronNext # CronNever => cronNext = Min(runs)
       /\ horizon # {} => cronNext # CronNever
=============================================================================
