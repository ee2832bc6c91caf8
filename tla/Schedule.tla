------------------------------- MODULE Schedule -------------------------------
(***************************************************************************)
(* The schedules of internal/backup/schedule.go, which turns a shorthand   *)
(* such as @daily or @every 6h into a cron expression, and what corg says  *)
(* of cron expressions: cadenceOf, by which `corg parity' compares two of  *)
(* them, and shorthandSchedule, by which `corg migrate' replaces one.      *)
(*                                                                         *)
(* A cron field is "lo-hi/step"; "*" is the whole range and a number n is  *)
(* n-n.  Times are minutes since some midnight, durations are seconds.     *)
(***************************************************************************)
EXTENDS Integers, FiniteSets

Hour == 3600
Day  == 24 * Hour

Rejected == [error |-> TRUE]

-------------------------------------------------------------------------------
(* Cron expressions *)

\* lo-hi/step of fieldMatcher.
Stepped(lo, hi, step) == [lo |-> lo, hi |-> hi, step |-> step]
Only(n) == Stepped(n, n, 1)

AnyMinute == Stepped(0, 59, 1)
AnyHour   == Stepped(0, 23, 1)
AnyDom    == Stepped(1, 31, 1)
AnyMonth  == Stepped(1, 12, 1)
AnyDow    == Stepped(0, 6, 1)

\* The numbers fieldMatcher accepts for a field whose values go from min to max.
Accepts(field, min, max) ==
  /\ field.hi \in min .. max /\ field.lo \in min .. field.hi
  /\ field.step \in Nat \ {0}

Allows(field, n) == n \in field.lo .. field.hi /\ (n - field.lo) % field.step = 0

Cron(minute, hour, dom, month, dow) ==
  [minute |-> minute, hour |-> hour, dom |-> dom, month |-> month, dow |-> dow]

IsCron(cron) == cron = Cron(cron.minute, cron.hour, cron.dom, cron.month, cron.dow)

\* Every day at the minutes and hours given.
EveryDay(minute, hour) == Cron(minute, hour, AnyDom, AnyMonth, AnyDow)

\* A cron expression whose days are all "*" fires in minute t.
FiresAt(cron, t) == Allows(cron.minute, t % 60) /\ Allows(cron.hour, (t \div 60) % 24)

-------------------------------------------------------------------------------
(* ResolveSchedule *)

\* The jitter is the 24-bit hash of namespace/name. Its minute and hour place a
\* backup in the day, what is left of it in the week, the month and the year.
Jitters == 0 .. 2^24 - 1
MinuteOf(jitter) == jitter % 60
HourOf(jitter)   == (jitter \div 60) % 24
DowOf(jitter)    == (jitter \div 1440) % 7
\* Every month has 28 days; the variant counts those of the longest.
DomOfLongest(jitter) == ((jitter \div 1440) % 31) + 1
DomOf(jitter) == ((jitter \div 1440) % 28) + 1
MonthOf(jitter)  == ((jitter \div 40320) % 12) + 1

Shorthands == {"@hourly", "@daily", "@weekly", "@monthly", "@yearly"}

\* @midnight and @annually are other names of @daily and @yearly.
Shorthand(name, jitter) ==
  LET minute == Only(MinuteOf(jitter))  hour == Only(HourOf(jitter))
      dom    == Only(DomOf(jitter))
  IN  CASE name = "@hourly"  -> EveryDay(minute, AnyHour)
        [] name = "@daily"   -> EveryDay(minute, hour)
        [] name = "@weekly"  -> Cron(minute, hour, AnyDom, AnyMonth, Only(DowOf(jitter)))
        [] name = "@monthly" -> Cron(minute, hour, dom, AnyMonth, AnyDow)
        [] name = "@yearly"  -> Cron(minute, hour, dom, Only(MonthOf(jitter)), AnyDow)

\* n parts of a period of 60 minutes or 24 hours; the variant asks nothing.
DividesAnything(n, period) == TRUE
Divides(n, period) == period % n = 0

\* resolveEvery: whole minutes that divide an hour or whole hours that divide a
\* day, shifted by the jitter to start at any of the first n minutes or hours.
ResolveEvery(seconds, minute, hour) ==
  LET mins == seconds \div 60  hours == seconds \div Hour IN
  CASE /\ 0 < seconds /\ seconds < Hour
       /\ seconds % 60 = 0 /\ Divides(mins, 60)
         -> EveryDay(Stepped(minute % mins, 59, mins), AnyHour)
    [] seconds = Hour -> EveryDay(Only(minute), AnyHour)
    [] /\ Hour < seconds /\ seconds < Day
       /\ seconds % Hour = 0 /\ Divides(hours, 24)
         -> EveryDay(Only(minute), Stepped(hour % hours, 23, hours))
    [] seconds = Day -> EveryDay(Only(minute), Only(hour))
    [] OTHER -> Rejected

\* A schedule is [form |-> "cron", cron |-> ...], [form |-> "shorthand",
\* name |-> ...] or [form |-> "every", seconds |-> ...].
ResolveSchedule(schedule, jitter) ==
  CASE schedule.form = "cron"      -> schedule.cron
    [] schedule.form = "shorthand" -> Shorthand(schedule.name, jitter)
    [] schedule.form = "every"     ->
         ResolveEvery(schedule.seconds, MinuteOf(jitter), HourOf(jitter))

-------------------------------------------------------------------------------
(* corg migrate and corg parity *)

\* "*/n" of the hours; the variant takes a step of some hours only for one.
StepsAnyHours(hour) == TRUE
StepsWholeDay(hour) == hour.lo = 0 /\ hour.hi = 23

\* shorthandSchedule hands an expression that pins a minute, every day, back to
\* the operator; "*/n" of the hours becomes "@every nh" for any n.
ShorthandSchedule(cron) ==
  LET pinned(field) == field = Only(field.lo) IN
  IF ~pinned(cron.minute) \/ cron # EveryDay(cron.minute, cron.hour)
    THEN [form |-> "cron", cron |-> cron]
    ELSE CASE cron.hour = AnyHour  -> [form |-> "shorthand", name |-> "@hourly"]
           [] pinned(cron.hour)    -> [form |-> "shorthand", name |-> "@daily"]
           [] StepsWholeDay(cron.hour) /\ cron.hour.step > 1
                -> [form |-> "every", seconds |-> cron.hour.step * Hour]
           [] OTHER -> [form |-> "cron", cron |-> cron]

\* Every day, at one minute of every nth hour from midnight, where n divides no day:
\* the last run of a day and the first of the next are closer than the others.
UnevenHours(cron) ==
  /\ cron = EveryDay(Only(cron.minute.lo), cron.hour)
  /\ cron.hour.lo = 0 /\ cron.hour.hi = 23 /\ 24 % cron.hour.step # 0

\* cadenceOf for expressions that fire every day: how often they fire in 28 days
\* and how often each gap occurs. The gap over midnight occurs between days only.
Cadence(cron) ==
  LET fires  == {t \in 0 .. 1439 : FiresAt(cron, t)}
      first  == CHOOSE t \in fires : \A u \in fires : t <= u
      last   == CHOOSE t \in fires : \A u \in fires : u <= t
      next(t) == CHOOSE u \in fires : u > t /\ \A v \in fires : v > t => u <= v
      within == [t \in fires \ {last} |-> next(t) - t]
      over   == first + 1440 - last
      count(gap) == 28 * Cardinality({t \in DOMAIN within : within[t] = gap})
                    + IF gap = over THEN 27 ELSE 0
  IN  [fires |-> 28 * Cardinality(fires),
       gaps  |-> [gap \in {within[t] : t \in DOMAIN within} \cup {over} |-> count(gap)]]
===============================================================================
