---------------------------- MODULE ScheduleProofs ----------------------------
(***************************************************************************)
(* The @every schedules of resolveEvery fire evenly: for every duration it *)
(* accepts and every jitter, at all times; and what corg migrate puts in   *)
(* the place of a cron expression fires as often and at the same distances *)
(* as the expression did.                                                  *)
(***************************************************************************)
EXTENDS Schedule, TLAPS, FiniteSetTheorems

\* The whole minutes and hours that divide an hour and a day.
HourDivisors == {1, 2, 3, 4, 5, 6, 10, 12, 15, 20, 30}
DayDivisors  == {2, 3, 4, 6, 8, 12}

\* The durations below an hour that Divides lets through.
LEMMA DivisorsOfHour ==
  ASSUME NEW n \in 1..59, n # 0, Divides(n, 60)
  PROVE  n \in HourDivisors
<1>1. n \in {1, 2, 3, 4, 5, 6, 7, 8, 9, 10, 11, 12, 13, 14, 15, 16, 17, 18, 19, 20, 21, 22, 23,
             24, 25, 26, 27, 28, 29, 30, 31, 32, 33, 34, 35, 36, 37, 38, 39, 40, 41, 42, 43, 44,
             45, 46, 47, 48, 49, 50, 51, 52, 53, 54, 55, 56, 57, 58, 59}
  OBVIOUS
<1> QED BY <1>1 DEF Divides, HourDivisors

LEMMA DivisorsOfDay ==
  ASSUME NEW n \in 2..23, Divides(n, 24)
  PROVE  n \in DayDivisors
<1>1. n \in {2, 3, 4, 5, 6, 7, 8, 9, 10, 11, 12, 13, 14, 15, 16, 17, 18, 19, 20, 21, 22, 23}
  OBVIOUS
<1> QED BY <1>1 DEF Divides, DayDivisors

\* A step of n minutes that starts at minute % n, in every hour.
LEMMA StepInHour ==
  ASSUME NEW n \in HourDivisors, NEW minute \in 0..59, NEW t \in Nat
  PROVE  FiresAt(EveryDay(Stepped(minute % n, 59, n), AnyHour), t) <=> t % n = minute % n
<1>1. CASE n = 1
  BY <1>1 DEF FiresAt, EveryDay, Cron, Stepped, AnyHour, Allows
<1>2. CASE n = 2
  BY <1>2 DEF FiresAt, EveryDay, Cron, Stepped, AnyHour, Allows
<1>3. CASE n = 3
  BY <1>3 DEF FiresAt, EveryDay, Cron, Stepped, AnyHour, Allows
<1>4. CASE n = 4
  BY <1>4 DEF FiresAt, EveryDay, Cron, Stepped, AnyHour, Allows
<1>5. CASE n = 5
  BY <1>5 DEF FiresAt, EveryDay, Cron, Stepped, AnyHour, Allows
<1>6. CASE n = 6
  BY <1>6 DEF FiresAt, EveryDay, Cron, Stepped, AnyHour, Allows
<1>7. CASE n = 10
  BY <1>7 DEF FiresAt, EveryDay, Cron, Stepped, AnyHour, Allows
<1>8. CASE n = 12
  BY <1>8 DEF FiresAt, EveryDay, Cron, Stepped, AnyHour, Allows
<1>9. CASE n = 15
  BY <1>9 DEF FiresAt, EveryDay, Cron, Stepped, AnyHour, Allows
<1>10. CASE n = 20
  BY <1>10 DEF FiresAt, EveryDay, Cron, Stepped, AnyHour, Allows
<1>11. CASE n = 30
  BY <1>11 DEF FiresAt, EveryDay, Cron, Stepped, AnyHour, Allows
<1> QED
  BY <1>1, <1>2, <1>3, <1>4, <1>5, <1>6, <1>7, <1>8, <1>9, <1>10, <1>11 DEF HourDivisors

\* A step of n hours that starts at hour % n.
LEMMA HoursOfStep ==
  ASSUME NEW n \in DayDivisors, NEW hour \in 0..23, NEW h \in Nat
  PROVE  Allows(Stepped(hour % n, 23, n), h % 24) <=> h % n = hour % n
<1>1. CASE n = 2
  BY <1>1 DEF Stepped, Allows
<1>2. CASE n = 3
  BY <1>2 DEF Stepped, Allows
<1>3. CASE n = 4
  BY <1>3 DEF Stepped, Allows
<1>4. CASE n = 6
  BY <1>4 DEF Stepped, Allows
<1>5. CASE n = 8
  BY <1>5 DEF Stepped, Allows
<1>6. CASE n = 12
  BY <1>6 DEF Stepped, Allows
<1> QED
  BY <1>1, <1>2, <1>3, <1>4, <1>5, <1>6 DEF DayDivisors

\* A time by its minute and its hour, within a period of n hours.
LEMMA MinuteAndHour ==
  ASSUME NEW n \in DayDivisors \cup {24}, NEW t \in Nat
  PROVE  t % (60 * n) = (t % 60) + 60 * ((t \div 60) % n)
<1>1. CASE n = 2
  BY <1>1
<1>2. CASE n = 3
  BY <1>2
<1>3. CASE n = 4
  BY <1>3
<1>4. CASE n = 6
  BY <1>4
<1>5. CASE n = 8
  BY <1>5
<1>6. CASE n = 12
  BY <1>6
<1>7. CASE n = 24
  BY <1>7
<1> QED
  BY <1>1, <1>2, <1>3, <1>4, <1>5, <1>6, <1>7 DEF DayDivisors

LEMMA SameMinuteAndHour ==
  ASSUME NEW m \in 0..59, NEW k \in 0..59, NEW a \in Int, NEW b \in Int
  PROVE  m + 60 * a = k + 60 * b <=> m = k /\ a = b
OBVIOUS

\* One minute, at a step of n hours.
LEMMA StepInDay ==
  ASSUME NEW n \in DayDivisors, NEW minute \in 0..59, NEW hour \in 0..23, NEW t \in Nat
  PROVE  FiresAt(EveryDay(Only(minute), Stepped(hour % n, 23, n)), t)
           <=> t % (60 * n) = minute + 60 * (hour % n)
<1> DEFINE h == t \div 60
<1>1. n \in 2..12 /\ h \in Nat /\ t % 60 \in 0..59 /\ h % n \in Int /\ hour % n \in Int
  BY DEF DayDivisors
<1>2. Allows(Only(minute), t % 60) <=> t % 60 = minute
  BY <1>1 DEF Allows, Only, Stepped
<1>3. Allows(Stepped(hour % n, 23, n), h % 24) <=> h % n = hour % n
  BY <1>1, HoursOfStep
<1>4. t % (60 * n) = minute + 60 * (hour % n) <=> t % 60 = minute /\ h % n = hour % n
  <2>1. t % (60 * n) = (t % 60) + 60 * (h % n)
    BY MinuteAndHour
  <2>2. (t % 60) + 60 * (h % n) = minute + 60 * (hour % n) <=> t % 60 = minute /\ h % n = hour % n
    BY <1>1, SameMinuteAndHour
  <2> QED BY <2>1, <2>2
<1> QED BY <1>2, <1>3, <1>4 DEF FiresAt, EveryDay, Cron

\* Once an hour, and once a day.
LEMMA OnceInHour ==
  ASSUME NEW minute \in 0..59, NEW t \in Nat
  PROVE  FiresAt(EveryDay(Only(minute), AnyHour), t) <=> t % 60 = minute
BY DEF FiresAt, EveryDay, Cron, Only, Stepped, AnyHour, Allows

LEMMA OnceInDay ==
  ASSUME NEW minute \in 0..59, NEW hour \in 0..23, NEW t \in Nat
  PROVE  FiresAt(EveryDay(Only(minute), Only(hour)), t) <=> t % (60 * 24) = minute + 60 * hour
<1> DEFINE h == t \div 60
<1>1. t % 60 \in 0..59 /\ h % 24 \in 0..23
  OBVIOUS
<1>2. Allows(Only(minute), t % 60) <=> t % 60 = minute
  BY <1>1 DEF Allows, Only, Stepped
<1>3. Allows(Only(hour), h % 24) <=> h % 24 = hour
  BY <1>1 DEF Allows, Only, Stepped
<1>4. t % (60 * 24) = (t % 60) + 60 * (h % 24)
  BY MinuteAndHour
<1>5. t % (60 * 24) = minute + 60 * hour <=> t % 60 = minute /\ h % 24 = hour
  BY <1>1, <1>4, SameMinuteAndHour
<1> QED BY <1>2, <1>3, <1>5 DEF FiresAt, EveryDay, Cron

-------------------------------------------------------------------------------

\* The times at which a cron expression fires are one residue class of a period of
\* d minutes: from each firing to the next it is d minutes, over hours and days.
FiresEvery(cron, d) ==
  \E phase \in 0 .. d - 1 : \A t \in Nat : FiresAt(cron, t) <=> t % d = phase

LEMMA MinutesFireEvery ==
  ASSUME NEW n \in HourDivisors, NEW minute \in 0..59
  PROVE  FiresEvery(EveryDay(Stepped(minute % n, 59, n), AnyHour), n)
<1>1. minute % n \in 0 .. n - 1
  BY DEF HourDivisors
<1>2. \A t \in Nat : FiresAt(EveryDay(Stepped(minute % n, 59, n), AnyHour), t) <=> t % n = minute % n
  BY StepInHour
<1> QED BY <1>1, <1>2 DEF FiresEvery

LEMMA HoursFireEvery ==
  ASSUME NEW n \in DayDivisors, NEW minute \in 0..59, NEW hour \in 0..23
  PROVE  FiresEvery(EveryDay(Only(minute), Stepped(hour % n, 23, n)), 60 * n)
<1>1. n \in 2..12 /\ hour % n \in 0 .. n - 1
  BY DEF DayDivisors
<1>2. minute + 60 * (hour % n) \in 0 .. 60 * n - 1
  BY <1>1
<1>3. \A t \in Nat : FiresAt(EveryDay(Only(minute), Stepped(hour % n, 23, n)), t)
                       <=> t % (60 * n) = minute + 60 * (hour % n)
  BY StepInDay
<1> QED BY <1>2, <1>3 DEF FiresEvery

LEMMA HourFiresEvery ==
  ASSUME NEW minute \in 0..59
  PROVE  FiresEvery(EveryDay(Only(minute), AnyHour), 60)
<1>1. \A t \in Nat : FiresAt(EveryDay(Only(minute), AnyHour), t) <=> t % 60 = minute
  BY OnceInHour
<1> QED BY <1>1 DEF FiresEvery

LEMMA DayFiresEvery ==
  ASSUME NEW minute \in 0..59, NEW hour \in 0..23
  PROVE  FiresEvery(EveryDay(Only(minute), Only(hour)), 60 * 24)
<1>1. ASSUME NEW t \in Nat
      PROVE  FiresAt(EveryDay(Only(minute), Only(hour)), t) <=> t % (60 * 24) = minute + 60 * hour
  BY OnceInDay
<1>2. \E phase \in 0 .. 60 * 24 - 1 : phase = minute + 60 * hour
  OBVIOUS
<1>3. PICK phase \in 0 .. 60 * 24 - 1 : phase = minute + 60 * hour
  BY <1>2
<1>4. \A t \in Nat : FiresAt(EveryDay(Only(minute), Only(hour)), t) <=> t % (60 * 24) = phase
  BY <1>1, <1>3
<1> QED BY <1>4 DEF FiresEvery

\* "Only durations dividing evenly into an hour or a day are accepted"
\* (internal/backup/schedule.go:50-52): resolveEvery, for each duration it does not
\* reject, gives an expression that fires every so many minutes, whatever minute
\* and hour the jitter asks for.
THEOREM EveryFiresEvenly ==
  ASSUME NEW seconds \in Nat, NEW minute \in 0..59, NEW hour \in 0..23,
         ResolveEvery(seconds, minute, hour) # Rejected
  PROVE  FiresEvery(ResolveEvery(seconds, minute, hour), seconds \div 60)
<1> DEFINE mins == seconds \div 60
           hours == seconds \div Hour
<1>1. CASE 0 < seconds /\ seconds < Hour /\ seconds % 60 = 0 /\ Divides(mins, 60)
  <2>1. mins \in HourDivisors
    BY <1>1, DivisorsOfHour DEF Hour
  <2>2. ResolveEvery(seconds, minute, hour) = EveryDay(Stepped(minute % mins, 59, mins), AnyHour)
    BY <1>1, SMTT(30) DEF ResolveEvery, Hour, Day
  <2> QED BY <2>1, <2>2, MinutesFireEvery
<1>2. CASE seconds = Hour
  <2>1. ResolveEvery(seconds, minute, hour) = EveryDay(Only(minute), AnyHour)
    BY <1>2 DEF ResolveEvery, Hour, Day
  <2>2. mins = 60
    BY <1>2 DEF Hour
  <2> QED BY <2>1, <2>2, HourFiresEvery
<1>3. CASE Hour < seconds /\ seconds < Day /\ seconds % Hour = 0 /\ Divides(hours, 24)
  <2>1. hours \in 2..23 /\ mins = 60 * hours
    BY <1>3 DEF Hour, Day
  <2>2. hours \in DayDivisors
    BY <1>3, <2>1, DivisorsOfDay
  <2>3. ResolveEvery(seconds, minute, hour)
          = EveryDay(Only(minute), Stepped(hour % hours, 23, hours))
    BY <1>3, SMTT(30) DEF ResolveEvery, Hour, Day
  <2> QED BY <2>1, <2>2, <2>3, HoursFireEvery
<1>4. CASE seconds = Day
  <2>1. ResolveEvery(seconds, minute, hour) = EveryDay(Only(minute), Only(hour))
    BY <1>4 DEF ResolveEvery, Hour, Day
  <2>2. mins = 60 * 24
    BY <1>4 DEF Hour, Day
  <2> QED BY <2>1, <2>2, DayFiresEvery
<1> QED BY <1>1, <1>2, <1>3, <1>4 DEF ResolveEvery
-------------------------------------------------------------------------------
(* corg migrate *)

\* The distances at which the replacements of corg migrate fire: an hour, a day, and the
\* numbers of hours between that divide a day.
Distances == {60, 120, 180, 240, 360, 480, 720, 1440}

MinutesOfDay == 0..1439

\* How often a day they fire, and the last time of a day when the first is a.
Times(d) == 1440 \div d
LastOf(d, a) == 1440 - d + a

LEMMA Quotients ==
  ASSUME NEW d \in Distances, NEW a \in 0 .. d - 1, NEW t \in MinutesOfDay
  PROVE  t % d = a <=> \E q \in 0 .. Times(d) - 1 : t = d * q + a
<1>1. CASE d = 60
  <2>1. t % d = a => t \div d \in 0 .. Times(d) - 1 /\ t = d * (t \div d) + a
    BY <1>1 DEF Times, MinutesOfDay
  <2>2. \A q \in 0 .. Times(d) - 1 : (d * q + a) % d = a
    BY <1>1 DEF Times, MinutesOfDay
  <2> QED  BY <2>1, <2>2
<1>2. CASE d = 120
  <2>1. t % d = a => t \div d \in 0 .. Times(d) - 1 /\ t = d * (t \div d) + a
    BY <1>2 DEF Times, MinutesOfDay
  <2>2. \A q \in 0 .. Times(d) - 1 : (d * q + a) % d = a
    BY <1>2 DEF Times, MinutesOfDay
  <2> QED  BY <2>1, <2>2
<1>3. CASE d = 180
  <2>1. t % d = a => t \div d \in 0 .. Times(d) - 1 /\ t = d * (t \div d) + a
    BY <1>3 DEF Times, MinutesOfDay
  <2>2. \A q \in 0 .. Times(d) - 1 : (d * q + a) % d = a
    BY <1>3 DEF Times, MinutesOfDay
  <2> QED  BY <2>1, <2>2
<1>4. CASE d = 240
  <2>1. t % d = a => t \div d \in 0 .. Times(d) - 1 /\ t = d * (t \div d) + a
    BY <1>4 DEF Times, MinutesOfDay
  <2>2. \A q \in 0 .. Times(d) - 1 : (d * q + a) % d = a
    BY <1>4 DEF Times, MinutesOfDay
  <2> QED  BY <2>1, <2>2
<1>5. CASE d = 360
  <2>1. t % d = a => t \div d \in 0 .. Times(d) - 1 /\ t = d * (t \div d) + a
    BY <1>5 DEF Times, MinutesOfDay
  <2>2. \A q \in 0 .. Times(d) - 1 : (d * q + a) % d = a
    BY <1>5 DEF Times, MinutesOfDay
  <2> QED  BY <2>1, <2>2
<1>6. CASE d = 480
  <2>1. t % d = a => t \div d \in 0 .. Times(d) - 1 /\ t = d * (t \div d) + a
    BY <1>6 DEF Times, MinutesOfDay
  <2>2. \A q \in 0 .. Times(d) - 1 : (d * q + a) % d = a
    BY <1>6 DEF Times, MinutesOfDay
  <2> QED  BY <2>1, <2>2
<1>7. CASE d = 720
  <2>1. t % d = a => t \div d \in 0 .. Times(d) - 1 /\ t = d * (t \div d) + a
    BY <1>7 DEF Times, MinutesOfDay
  <2>2. \A q \in 0 .. Times(d) - 1 : (d * q + a) % d = a
    BY <1>7 DEF Times, MinutesOfDay
  <2> QED  BY <2>1, <2>2
<1>8. CASE d = 1440
  <2>1. t % d = a => t \div d \in 0 .. Times(d) - 1 /\ t = d * (t \div d) + a
    BY <1>8 DEF Times, MinutesOfDay
  <2>2. \A q \in 0 .. Times(d) - 1 : (d * q + a) % d = a
    BY <1>8 DEF Times, MinutesOfDay
  <2> QED  BY <2>1, <2>2
<1> QED  BY <1>1, <1>2, <1>3, <1>4, <1>5, <1>6, <1>7, <1>8 DEF Distances

LEMMA TimesTyped ==
  ASSUME NEW d \in Distances
  PROVE  d \in 60..1440 /\ Times(d) \in 1..24 /\ d * Times(d) = 1440
<1>1. CASE d = 60
  BY <1>1 DEF Times
<1>2. CASE d = 120
  BY <1>2 DEF Times
<1>3. CASE d = 180
  BY <1>3 DEF Times
<1>4. CASE d = 240
  BY <1>4 DEF Times
<1>5. CASE d = 360
  BY <1>5 DEF Times
<1>6. CASE d = 480
  BY <1>6 DEF Times
<1>7. CASE d = 720
  BY <1>7 DEF Times
<1>8. CASE d = 1440
  BY <1>8 DEF Times
<1> QED  BY <1>1, <1>2, <1>3, <1>4, <1>5, <1>6, <1>7, <1>8 DEF Distances

\* The minutes of a day that lie some distance from each other, and one of them at a.
Residues(d, a) == {t \in MinutesOfDay : t % d = a}

LEMMA InResidues ==
  ASSUME NEW d \in Distances, NEW a \in 0 .. d - 1, NEW t
  PROVE  t \in Residues(d, a) <=> t \in MinutesOfDay /\ \E q \in 0 .. Times(d) - 1 : t = d * q + a
<1>1. t \in Residues(d, a) <=> t \in MinutesOfDay /\ t % d = a
  BY Zenon DEF Residues
<1> QED  BY <1>1, Quotients, Zenon

LEMMA ResiduesTyped ==
  ASSUME NEW d, NEW a
  PROVE  Residues(d, a) \subseteq Int /\ IsFiniteSet(Residues(d, a))
<1>1. Residues(d, a) \in SUBSET MinutesOfDay
  BY Zenon DEF Residues
<1>2. MinutesOfDay \subseteq Int
  BY DEF MinutesOfDay
<1>3. \A n \in Int : IsFiniteSet(0..n)
  BY FS_Interval
<1>4. \E n \in Int : MinutesOfDay = 0..n
  <2>1. \E n \in Int : n = 1439
    OBVIOUS
  <2>2. PICK n \in Int : n = 1439
    BY <2>1
  <2>3. MinutesOfDay = 0..n
    BY <2>2 DEF MinutesOfDay
  <2> QED  BY <2>3
<1>5. IsFiniteSet(MinutesOfDay)
  BY <1>3, <1>4, Zenon
<1> QED  BY <1>1, <1>2, <1>5, FS_Subset

\* From one minute of the class to the class of another; the first and the last minute of a
\* class; and the one that comes next.
LEMMA ResidueFacts ==
  ASSUME NEW d \in Distances, NEW a \in 0 .. d - 1, NEW b \in 0 .. d - 1,
         NEW t \in Residues(d, a), NEW v \in Residues(d, a)
  PROVE  /\ t + (b - a) \in Residues(d, b)
         /\ a <= t /\ t <= LastOf(d, a)
         /\ t # LastOf(d, a) => t + d \in Residues(d, a)
         /\ v > t => t + d <= v
<1> DEFINE n == Times(d)
<1>1. d \in 60..1440 /\ n \in 1..24 /\ d * n = 1440
  BY TimesTyped
<1>2. PICK q \in 0 .. n - 1 : t = d * q + a
  BY InResidues
<1>3. PICK r \in 0 .. n - 1 : v = d * r + a
  BY InResidues
<1> HIDE DEF n
<1>4. \A k \in 0 .. n - 1, c \in 0 .. d - 1 : d * k + c \in Residues(d, c)
  <2> SUFFICES ASSUME NEW k \in 0 .. n - 1, NEW c \in 0 .. d - 1
               PROVE  d * k + c \in Residues(d, c)
    OBVIOUS
  <2>1. d * k <= d * (n - 1) /\ 0 <= d * k /\ d * k \in Int
    BY <1>1
  <2>2. d * (n - 1) = 1440 - d
    BY <1>1
  <2>3. d * k + c \in MinutesOfDay
    BY <1>1, <2>1, <2>2 DEF MinutesOfDay
  <2> QED  BY <2>3, InResidues, Zenon DEF n
<1>5. t + (b - a) \in Residues(d, b)
  <2>1. t + (b - a) = d * q + b
    BY <1>1, <1>2
  <2> QED  BY <1>4, <2>1
<1>6. a <= t /\ t <= LastOf(d, a)
  <2>1. d * q <= d * (n - 1) /\ 0 <= d * q /\ d * q \in Int /\ d * (n - 1) = 1440 - d
    BY <1>1
  <2> QED  BY <1>1, <1>2, <2>1 DEF LastOf
<1>7. ASSUME t # LastOf(d, a) PROVE t + d \in Residues(d, a)
  <2>1. q # n - 1
    <3>1. d * (n - 1) = 1440 - d
      BY <1>1
    <3> QED  BY <1>1, <1>2, <1>7, <3>1 DEF LastOf
  <2>2. t + d = d * (q + 1) + a
    BY <1>1, <1>2
  <2>3. q + 1 \in 0 .. n - 1
    BY <1>1, <2>1
  <2> QED  BY <1>4, <2>2, <2>3
<1>8. ASSUME v > t PROVE t + d <= v
  <2>1. r >= q + 1
    <3>1. r <= q => d * r <= d * q
      BY <1>1
    <3> QED  BY <1>1, <1>2, <1>3, <1>8, <3>1
  <2>2. d * r >= d * (q + 1) /\ d * (q + 1) = d * q + d
    BY <1>1, <2>1
  <2> QED  BY <1>1, <1>2, <1>3, <2>2
<1> QED  BY <1>5, <1>6, <1>7, <1>8

LEMMA ResidueEnds ==
  ASSUME NEW d \in Distances, NEW a \in 0 .. d - 1
  PROVE  a \in Residues(d, a) /\ LastOf(d, a) \in Residues(d, a)
<1> DEFINE m == Times(d) - 1
<1>1. d \in 60..1440 /\ Times(d) \in 1..24 /\ d * Times(d) = 1440
  BY TimesTyped
<1>2. a \in MinutesOfDay /\ LastOf(d, a) \in MinutesOfDay
  BY <1>1 DEF LastOf, MinutesOfDay
<1>3. a = d * 0 + a /\ LastOf(d, a) = d * m + a
  BY <1>1 DEF LastOf
<1>4. 0 \in 0..m /\ m \in 0..m
  BY <1>1
<1>5. \A t \in MinutesOfDay : (\E q \in 0..m : t = d * q + a) => t \in Residues(d, a)
  BY InResidues, Zenon
<1> HIDE DEF m
<1> QED  BY <1>2, <1>3, <1>4, <1>5, Zenon

\* The classes of one distance are equally large.
LEMMA ResidueCount ==
  ASSUME NEW d \in Distances, NEW a \in 0 .. d - 1, NEW b \in 0 .. d - 1
  PROVE  /\ IsFiniteSet(Residues(d, a))
         /\ Cardinality(Residues(d, a)) = Cardinality(Residues(d, b))
<1> DEFINE f == [t \in Residues(d, a) |-> t + (b - a)]
<1>1. d \in 60..1440
  BY TimesTyped
<1>2. IsFiniteSet(Residues(d, a))
  BY ResiduesTyped
<1>3. \A t \in Residues(d, a) : t + (b - a) \in Residues(d, b)
  BY ResidueFacts
<1>4. \A u \in Residues(d, b) : u + (a - b) \in Residues(d, a)
  BY ResidueFacts
<1>5. \A t \in Residues(d, a) \cup Residues(d, b) : t \in Int
  BY ResiduesTyped, Zenon
<1>6. f \in Injection(Residues(d, a), Residues(d, b))
  BY <1>1, <1>3, <1>5 DEF Injection, IsInjective
<1>7. f \in Surjection(Residues(d, a), Residues(d, b))
  <2>1. ASSUME NEW u \in Residues(d, b) PROVE \E t \in Residues(d, a) : f[t] = u
    <3>1. u + (a - b) \in Residues(d, a) /\ u \in Int
      BY <1>4, <1>5
    <3>2. f[u + (a - b)] = u
      BY <1>1, <3>1
    <3> QED  BY <3>1, <3>2
  <2> QED  BY <1>3, <2>1 DEF Surjection
<1>8. ExistsBijection(Residues(d, a), Residues(d, b))
  BY <1>6, <1>7 DEF ExistsBijection, Bijection
<1> QED  BY <1>2, <1>8, FS_Bijection

\* The first, the last and the next of some numbers.
LEMMA FirstIs ==
  ASSUME NEW S, S \subseteq Int, NEW a \in S, \A u \in S : a <= u
  PROVE  (CHOOSE t \in S : \A u \in S : t <= u) = a
<1>1. \A t \in S : (\A u \in S : t <= u) => t = a
  BY SMT
<1> QED  BY <1>1, Zenon

LEMMA LastIs ==
  ASSUME NEW S, S \subseteq Int, NEW b \in S, \A u \in S : u <= b
  PROVE  (CHOOSE t \in S : \A u \in S : u <= t) = b
<1>1. \A t \in S : (\A u \in S : u <= t) => t = b
  BY SMT
<1> QED  BY <1>1, Zenon

LEMMA NextIs ==
  ASSUME NEW S, S \subseteq Int, NEW t \in S, NEW w \in S, w > t,
         \A v \in S : v > t => w <= v
  PROVE  (CHOOSE u \in S : u > t /\ \A v \in S : v > t => u <= v) = w
<1>1. \A u \in S : u > t /\ (\A v \in S : v > t => u <= v) => u = w
  BY SMT
<1> QED  BY <1>1, Zenon

\* What cadenceOf says of an expression depends on the distance alone.
CadenceEvery(d, n) == [fires |-> 28 * n, gaps |-> [gap \in {d} |-> 28 * (n - 1) + 27]]

LEMMA CadenceOfResidues ==
  ASSUME NEW cron, NEW d \in Distances, NEW a \in 0 .. d - 1,
         {t \in MinutesOfDay : FiresAt(cron, t)} = Residues(d, a)
  PROVE  Cadence(cron) = CadenceEvery(d, Cardinality(Residues(d, a)))
<1> DEFINE fires  == {t \in MinutesOfDay : FiresAt(cron, t)}
           first  == CHOOSE t \in fires : \A u \in fires : t <= u
           last   == CHOOSE t \in fires : \A u \in fires : u <= t
           next(t) == CHOOSE u \in fires : u > t /\ \A v \in fires : v > t => u <= v
           within == [t \in fires \ {last} |-> next(t) - t]
           over   == first + 1440 - last
           count(gap) == 28 * Cardinality({t \in DOMAIN within : within[t] = gap})
                         + IF gap = over THEN 27 ELSE 0
           gaps == [gap \in {within[t] : t \in DOMAIN within} \cup {over} |-> count(gap)]
           end == LastOf(d, a)
           n == Cardinality(Residues(d, a))
<1>1. Cadence(cron) = [fires |-> 28 * Cardinality(fires), gaps |-> gaps]
  BY Zenon DEF Cadence, MinutesOfDay
<1>2. fires = Residues(d, a)
  OBVIOUS
<1> HIDE DEF fires
<1>3. d \in Int /\ d > 0 /\ a \in fires /\ end \in fires /\ fires \subseteq Int /\ end \in Int
  <2>1. d \in Int /\ d > 0
    BY TimesTyped
  <2> QED  BY <1>2, <2>1, ResidueEnds, ResiduesTyped, Zenon
<1>4. \A t \in fires : a <= t /\ t <= end
  BY <1>2, ResidueFacts, Zenon
<1>5. \A t \in fires \ {end} : t + d \in fires
  BY <1>2, ResidueFacts, Zenon
<1>6. \A t, v \in fires : v > t => t + d <= v
  BY <1>2, ResidueFacts, Zenon
<1> HIDE DEF end
<1>7. first = a
  BY <1>3, <1>4, FirstIs, Zenon
<1>8. last = end
  BY <1>3, <1>4, LastIs, Zenon
<1> HIDE DEF first, last
<1>9. over = d
  BY <1>3, <1>7, <1>8 DEF end, LastOf
<1> HIDE DEF over
<1>10. ASSUME NEW t \in fires \ {end} PROVE next(t) = t + d
  <2>1. PICK w \in fires : w = t + d
    BY <1>5, Zenon
  <2>2. t \in fires /\ w > t /\ \A v \in fires : v > t => w <= v
    BY <1>3, <1>6, <2>1
  <2>3. next(t) = w
    BY <1>3, <2>2, NextIs, Zenon
  <2> QED  BY <2>1, <2>3
<1> HIDE DEF next
<1>11. DOMAIN within = fires \ {end} /\ \A t \in fires \ {end} : within[t] = d
  <2>1. DOMAIN within = fires \ {end} /\ \A t \in fires \ {end} : within[t] = next(t) - t
    BY <1>8
  <2>2. \A t \in fires \ {end} : next(t) - t = d
    BY <1>3, <1>10
  <2> QED  BY <2>1, <2>2
<1> HIDE DEF within
<1>12. {within[t] : t \in DOMAIN within} \cup {over} = {d}
  BY <1>9, <1>11
<1>13. count(d) = 28 * (n - 1) + 27
  <2>1. {t \in DOMAIN within : within[t] = d} = fires \ {end}
    BY <1>11
  <2>2. Cardinality(fires \ {end}) = n - 1
    <3>1. IsFiniteSet(fires)
      BY <1>2, ResiduesTyped
    <3> QED  BY <1>2, <1>3, <3>1, FS_RemoveElement
  <2>3. count(d) = 28 * Cardinality({t \in DOMAIN within : within[t] = d}) + 27
    BY <1>9
  <2> QED  BY <2>1, <2>2, <2>3
<1> HIDE DEF count, n
<1>14. gaps = [gap \in {d} |-> 28 * (n - 1) + 27]
  BY <1>12, <1>13
<1> HIDE DEF gaps
<1>15. Cadence(cron) = [fires |-> 28 * n, gaps |-> gaps]
  BY <1>1, <1>2 DEF n
<1> QED  BY <1>14, <1>15 DEF CadenceEvery, n

\* Two expressions that fire at one distance have one cadence, whenever they begin.
LEMMA SameCadence ==
  ASSUME NEW c, NEW e, NEW d \in Distances, FiresEvery(c, d), FiresEvery(e, d)
  PROVE  Cadence(c) = Cadence(e)
<1>1. \A t \in MinutesOfDay : t \in Nat
  BY DEF MinutesOfDay
<1>2. PICK a \in 0 .. d - 1 : \A t \in Nat : FiresAt(c, t) <=> t % d = a
  BY DEF FiresEvery
<1>3. PICK b \in 0 .. d - 1 : \A t \in Nat : FiresAt(e, t) <=> t % d = b
  BY DEF FiresEvery
<1>4. {t \in MinutesOfDay : FiresAt(c, t)} = Residues(d, a)
  BY <1>1, <1>2, Zenon DEF Residues
<1>5. {t \in MinutesOfDay : FiresAt(e, t)} = Residues(d, b)
  BY <1>1, <1>3, Zenon DEF Residues
<1>6. Cadence(c) = CadenceEvery(d, Cardinality(Residues(d, a)))
  BY <1>4, CadenceOfResidues, Zenon
<1>7. Cadence(e) = CadenceEvery(d, Cardinality(Residues(d, b)))
  BY <1>5, CadenceOfResidues, Zenon
<1> QED  BY <1>6, <1>7, ResidueCount, Zenon

\* Every n hours, from midnight.
LEMMA WholeDayFiresEvery ==
  ASSUME NEW minute \in 0..59, NEW n \in DayDivisors \cup {24}, NEW hour,
         hour.lo = 0, hour.hi = 23, hour.step = n
  PROVE  FiresEvery(EveryDay(Only(minute), hour), 60 * n)
<1>1. \A t : FiresAt(EveryDay(Only(minute), hour), t)
               <=> FiresAt(EveryDay(Only(minute), Stepped(0, 23, n)), t)
  BY DEF FiresAt, EveryDay, Cron, Stepped, Allows
<1>2. CASE n \in DayDivisors
  <2>1. 0 % n = 0
    BY <1>2 DEF DayDivisors
  <2>2. FiresEvery(EveryDay(Only(minute), Stepped(0 % n, 23, n)), 60 * n)
    BY <1>2, HoursFireEvery
  <2> QED  BY <1>1, <2>1, <2>2, Zenon DEF FiresEvery
<1>3. CASE n = 24
  <2>1. ASSUME NEW t \in Nat
        PROVE  FiresAt(EveryDay(Only(minute), Stepped(0, 23, 24)), t)
                 <=> FiresAt(EveryDay(Only(minute), Only(0)), t)
    <3>1. (t \div 60) % 24 \in 0..23
      OBVIOUS
    <3> DEFINE h == (t \div 60) % 24
    <3> HIDE DEF h
    <3>2. Allows(Stepped(0, 23, 24), h) <=> Allows(Only(0), h)
      BY <3>1 DEF Allows, Only, Stepped, h
    <3> QED  BY <3>2, Zenon DEF FiresAt, EveryDay, Cron, h
  <2>2. FiresEvery(EveryDay(Only(minute), Only(0)), 60 * n)
    <3>1. 0 \in 0..23 /\ 60 * n = 60 * 24
      BY <1>3
    <3>2. FiresEvery(EveryDay(Only(minute), Only(0)), 60 * 24)
      BY <3>1, DayFiresEvery
    <3> QED  BY <3>1, <3>2
  <2> QED  BY <1>1, <1>3, <2>1, <2>2, Zenon DEF FiresEvery
<1> QED  BY <1>2, <1>3

\* An expression is not the error.
LEMMA CronIsNoError ==
  ASSUME NEW minute, NEW hour, NEW dom, NEW month, NEW dow
  PROVE  Cron(minute, hour, dom, month, dow) # Rejected
<1>1. "error" \in DOMAIN Rejected /\ "error" \notin DOMAIN Cron(minute, hour, dom, month, dow)
  BY DEF Rejected, Cron
<1> QED  BY <1>1

\* What shorthandSchedule puts in the place of an expression is accepted and has its
\* cadence, for any minute and hour of the jitter, unless its hours do not divide a day:
\* then it is refused.
LEMMA MigrationKeeps ==
  ASSUME NEW cron, IsCron(cron), Accepts(cron.minute, 0, 59), Accepts(cron.hour, 0, 23),
         NEW jitter, MinuteOf(jitter) \in 0..59, HourOf(jitter) \in 0..23
  PROVE  LET moved == ResolveSchedule(ShorthandSchedule(cron), jitter) IN
         IF UnevenHours(cron) THEN moved = Rejected
         ELSE moved # Rejected /\ Cadence(moved) = Cadence(cron)
<1> DEFINE pinned(field) == field = Only(field.lo)
           m == cron.minute.lo
           h == cron.hour.lo
           k == cron.hour.step
           new == ShorthandSchedule(cron)
           moved == ResolveSchedule(new, jitter)
           Same == moved # Rejected /\ Cadence(moved) = Cadence(cron)
<1>1. m \in 0..59 /\ h \in 0..23 /\ k \in Nat \ {0}
  BY DEF Accepts
<1>2. \/ new = [form |-> "cron", cron |-> cron] /\ ~UnevenHours(cron)
      \/ /\ cron = EveryDay(Only(m), cron.hour)
         /\ \/ cron.hour = AnyHour /\ new = [form |-> "shorthand", name |-> "@hourly"]
            \/ cron.hour = Only(h) /\ new = [form |-> "shorthand", name |-> "@daily"]
            \/ StepsWholeDay(cron.hour) /\ k > 1 /\ new = [form |-> "every", seconds |-> k * Hour]
  <2>1. CASE ~pinned(cron.minute) \/ cron # EveryDay(cron.minute, cron.hour)
    <3>1. new = [form |-> "cron", cron |-> cron]
      BY <2>1, Zenon DEF ShorthandSchedule
    <3>2. ASSUME UnevenHours(cron)
          PROVE  FALSE
      <4>1. cron = EveryDay(Only(m), cron.hour)
        BY <3>2 DEF UnevenHours
      <4>2. cron.minute = Only(m)
        BY <4>1 DEF EveryDay, Cron
      <4>3. cron = EveryDay(cron.minute, cron.hour)
        BY <4>1, <4>2
      <4>4. cron.minute.lo = m
        OBVIOUS
      <4> QED  BY <2>1, <4>2, <4>3, <4>4
    <3> QED  BY <3>1, <3>2
  <2>2. CASE pinned(cron.minute) /\ cron = EveryDay(cron.minute, cron.hour)
    <3>1. cron = EveryDay(Only(m), cron.hour)
      BY <2>2, Zenon
    <3>2. CASE cron.hour = AnyHour
      <4>1. new = [form |-> "shorthand", name |-> "@hourly"]
        BY <2>2, <3>2, SMT DEF ShorthandSchedule, AnyHour, Only, Stepped
      <4> QED  BY <3>1, <3>2, <4>1
    <3>3. CASE cron.hour # AnyHour /\ pinned(cron.hour)
      <4>1. new = [form |-> "shorthand", name |-> "@daily"]
        BY <2>2, <3>3, SMT DEF ShorthandSchedule, StepsWholeDay, Only, Stepped
      <4> QED  BY <3>1, <3>3, <4>1
    <3>4. CASE cron.hour # AnyHour /\ ~pinned(cron.hour) /\ StepsWholeDay(cron.hour) /\ k > 1
      <4>1. new = [form |-> "every", seconds |-> k * Hour]
        BY <2>2, <3>4, SMT DEF ShorthandSchedule
      <4> QED  BY <3>1, <3>4, <4>1
    <3>5. CASE cron.hour # AnyHour /\ ~pinned(cron.hour) /\ ~(StepsWholeDay(cron.hour) /\ k > 1)
      <4>1. new = [form |-> "cron", cron |-> cron]
        BY <2>2, <3>5, SMT DEF ShorthandSchedule
      <4>2. 24 % 1 = 0
        OBVIOUS
      <4>3. ASSUME UnevenHours(cron)
            PROVE  FALSE
        BY <1>1, <3>5, <4>2, <4>3 DEF UnevenHours, StepsWholeDay
      <4> QED  BY <4>1, <4>3
    <3> QED  BY <3>2, <3>3, <3>4, <3>5
  <2> QED  BY <2>1, <2>2
<1>3. ASSUME new = [form |-> "cron", cron |-> cron], ~UnevenHours(cron)
      PROVE  Same
  <2>1. moved = cron
    BY <1>3 DEF ResolveSchedule
  <2>2. cron # Rejected
    BY CronIsNoError DEF IsCron
  <2> QED  BY <2>1, <2>2
<1>4. ASSUME cron = EveryDay(Only(m), cron.hour), cron.hour = AnyHour,
             new = [form |-> "shorthand", name |-> "@hourly"]
      PROVE  Same /\ ~UnevenHours(cron)
  <2>1. moved = EveryDay(Only(MinuteOf(jitter)), AnyHour)
    BY <1>4 DEF ResolveSchedule, Shorthand
  <2>2. FiresEvery(moved, 60) /\ FiresEvery(cron, 60)
    BY <1>1, <1>4, <2>1, HourFiresEvery
  <2>3. 60 \in Distances
    BY DEF Distances
  <2>4. cron.hour.step = 1 /\ 24 % 1 = 0
    BY <1>4 DEF AnyHour, Stepped
  <2>5. ~UnevenHours(cron)
    BY <2>4 DEF UnevenHours
  <2>6. moved # Rejected
    BY <2>1, CronIsNoError DEF EveryDay
  <2>7. Cadence(moved) = Cadence(cron)
    BY <2>2, <2>3, SameCadence
  <2> QED  BY <2>5, <2>6, <2>7
<1>5. ASSUME cron = EveryDay(Only(m), cron.hour), cron.hour = Only(h),
             new = [form |-> "shorthand", name |-> "@daily"]
      PROVE  Same /\ ~UnevenHours(cron)
  <2>1. moved = EveryDay(Only(MinuteOf(jitter)), Only(HourOf(jitter)))
    BY <1>5 DEF ResolveSchedule, Shorthand
  <2>2. FiresEvery(moved, 60 * 24) /\ FiresEvery(cron, 60 * 24)
    BY <1>1, <1>5, <2>1, DayFiresEvery
  <2>3. 60 * 24 \in Distances
    BY DEF Distances
  <2>4. cron.hour.hi = cron.hour.lo
    BY <1>5 DEF Only, Stepped
  <2>5. ~UnevenHours(cron)
    BY <2>4 DEF UnevenHours
  <2>6. moved # Rejected
    BY <2>1, CronIsNoError DEF EveryDay
  <2>7. Cadence(moved) = Cadence(cron)
    BY <2>2, <2>3, SameCadence
  <2> QED  BY <2>5, <2>6, <2>7
<1>6. ASSUME cron = EveryDay(Only(m), cron.hour), StepsWholeDay(cron.hour), k > 1,
             new = [form |-> "every", seconds |-> k * Hour]
      PROVE  IF UnevenHours(cron) THEN moved = Rejected ELSE Same
  <2>1. moved = ResolveEvery(k * Hour, MinuteOf(jitter), HourOf(jitter))
    BY <1>6 DEF ResolveSchedule
  <2>2. /\ k * Hour \in Nat /\ (k * Hour) \div 60 = 60 * k /\ (k * Hour) \div Hour = k
        /\ (k * Hour) % Hour = 0 /\ k * Hour > Hour
        /\ (k * Hour < Day <=> k < 24) /\ (k * Hour = Day <=> k = 24)
    BY <1>1, <1>6 DEF Hour, Day
  <2>3. UnevenHours(cron) <=> 24 % k # 0
    BY <1>6 DEF UnevenHours, StepsWholeDay
  <2>4. CASE 24 % k # 0
    <3>1. k # 24
      BY <2>4
    <3>2. moved = Rejected
      BY <2>1, <2>2, <2>4, <3>1 DEF ResolveEvery, Divides, Hour, Day
    <3> QED  BY <2>3, <2>4, <3>2
  <2>5. CASE 24 % k = 0
    <3>1. k \in DayDivisors \cup {24}
      <4>1. k <= 24
        BY <1>1, <2>5
      <4>2. k \in 2..23 \/ k = 24
        BY <1>1, <1>6, <4>1
      <4>3. ASSUME k \in 2..23
            PROVE  k \in DayDivisors
        BY <2>5, <4>3, DivisorsOfDay DEF Divides
      <4> QED  BY <4>2, <4>3
    <3>2. moved # Rejected
      <4>1. CASE k < 24
        <5>1. moved = EveryDay(Only(MinuteOf(jitter)), Stepped(HourOf(jitter) % k, 23, k))
          BY <2>1, <2>2, <2>5, <4>1 DEF ResolveEvery, Divides, Hour, Day
        <5> QED  BY <5>1, CronIsNoError DEF EveryDay
      <4>2. CASE k = 24
        <5>1. moved = EveryDay(Only(MinuteOf(jitter)), Only(HourOf(jitter)))
          BY <2>1, <2>2, <4>2 DEF ResolveEvery, Hour, Day
        <5> QED  BY <5>1, CronIsNoError DEF EveryDay
      <4> QED  BY <1>1, <3>1, <4>1, <4>2 DEF DayDivisors
    <3>3. FiresEvery(moved, 60 * k)
      BY <2>1, <2>2, <3>2, EveryFiresEvenly
    <3>4. FiresEvery(cron, 60 * k)
      BY <1>1, <1>6, <3>1, WholeDayFiresEvery DEF StepsWholeDay
    <3>5. 60 * k \in Distances
      BY <3>1 DEF DayDivisors, Distances
    <3>6. Cadence(moved) = Cadence(cron)
      BY <3>3, <3>4, <3>5, SameCadence
    <3> QED  BY <2>3, <2>5, <3>2, <3>6
  <2> QED  BY <2>4, <2>5
<1> QED  BY <1>2, <1>3, <1>4, <1>5, <1>6
===============================================================================
