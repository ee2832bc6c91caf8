---------------------------- MODULE BackupPodProofs ----------------------------
(***************************************************************************)
(* Theorems about BackupPod, for all backups, any number of runs and any   *)
(* number of faults: their schedules, and what their runs promise, from an *)
(* invariant (PodInv) that every step of every run keeps.                  *)
(***************************************************************************)
EXTENDS BackupPod, ScheduleProofs, SequenceTheorems, FiniteSetTheorems

-------------------------------------------------------------------------------
(* Schedules *)

\* The minute and the hour of a jitter.
LEMMA JitterTyped ==
  ASSUME NEW jitter \in Jitters
  PROVE  MinuteOf(jitter) \in 0..59 /\ HourOf(jitter) \in 0..23
<1>1. jitter \in Nat
  BY DEF Jitters
<1>2. \A n \in Nat : n % 24 \in 0..23 /\ n % 60 \in 0..59
  OBVIOUS
<1>3. jitter \div 60 \in Nat
  BY <1>1, SMTT(30)
<1> HIDE DEF Jitters
<1> QED  BY <1>1, <1>2, <1>3 DEF MinuteOf, HourOf

\* What EveryIsEven says of an expression and a distance.
IsEven(cron, d) ==
  \E phase \in {t \in 0 .. d - 1 : FiresAt(cron, t)} :
    \A t \in 0 .. 2 * 1440 - 1 : FiresAt(cron, t) <=> t % d = phase

\* An expression that fires every d minutes for ever does so for two days.
LEMMA TwoDays ==
  ASSUME NEW cron, NEW d \in Nat, FiresEvery(cron, d)
  PROVE  IsEven(cron, d)
<1> DEFINE Phases == {t \in 0 .. d - 1 : FiresAt(cron, t)}
           Even(p) == \A t \in 0 .. 2 * 1440 - 1 : FiresAt(cron, t) <=> t % d = p
<1>1. PICK phase \in 0 .. d - 1 : \A t \in Nat : FiresAt(cron, t) <=> t % d = phase
  BY DEF FiresEvery
<1>2. d > 0 /\ phase \in Nat /\ phase % d = phase
  OBVIOUS
<1>3. FiresAt(cron, phase)
  BY <1>1, <1>2
<1>4. \A t \in 0 .. 2 * 1440 - 1 : t \in Nat
  OBVIOUS
<1>5. phase \in Phases
  BY <1>3
<1>6. Even(phase)
  BY <1>1, <1>4
<1> HIDE DEF Phases, Even
<1>7. \E p \in Phases : Even(p)
  BY <1>5, <1>6
<1> QED  BY <1>7, Zenon DEF Phases, Even, IsEven

\* A backup has the schedule of one of Inputs, which no run changes.
Given == input \in Inputs
\* No step changes the backup.
LEMMA InputStays == Spec => []Given
<1>1. Init => Given
  BY DEF Init, Given
<1>2. Given /\ [Next]_vars => Given'
  BY ZenonT(40)
  DEF Given, Next, vars, Start, BeginCommand, GiveUpAtOnce, GiveUpWaiting, EndBackup, EndForget,
     ForgetDenied, EndUnlocked, CommandFails, Kill
<1> QED  BY <1>1, <1>2, PTL DEF Spec

\* resolveEvery accepts a duration only if the CronJob then fires at that distance
\* for ever, over the hours and over midnight, for any durations and any names of
\* backups (internal/backup/schedule.go:50-52).
THEOREM SchedulesAreEven == Spec => []EveryIsEven
<1>1. Given => EveryIsEven
  <2> SUFFICES ASSUME Given, spec.schedule.form = "every", Resolved # Rejected
               PROVE  IsEven(Resolved, spec.schedule.seconds \div 60)
    BY DEF EveryIsEven, IsEven
  <2> DEFINE seconds == spec.schedule.seconds
             jitter == spec.jitter
  <2>1. seconds \in Int /\ jitter \in Jitters
    BY InputAssumption DEF Given, spec
  <2>2. MinuteOf(jitter) \in 0..59 /\ HourOf(jitter) \in 0..23
    BY <2>1, JitterTyped
  <2>3. Resolved = ResolveEvery(seconds, MinuteOf(jitter), HourOf(jitter))
    <3>1. Resolved = ResolveSchedule(spec.schedule, spec.jitter)
      BY DEF Resolved, CronJob, BuildCronJob
    <3> QED  BY <3>1 DEF ResolveSchedule
  <2>4. seconds \in Nat
    BY <2>1, <2>3 DEF ResolveEvery, Hour, Day
  <2>5. ResolveEvery(seconds, MinuteOf(jitter), HourOf(jitter)) # Rejected
    BY <2>3
  <2> HIDE DEF seconds, jitter
  <2>6. FiresEvery(Resolved, seconds \div 60)
    BY <2>2, <2>3, <2>4, <2>5, EveryFiresEvenly
  <2>7. seconds \div 60 \in Nat
    BY <2>4
  <2>8. IsEven(Resolved, seconds \div 60)
    BY <2>6, <2>7, TwoDays
  <2> QED  BY <2>8 DEF seconds
<1> QED  BY <1>1, InputStays, PTL

-------------------------------------------------------------------------------
(* Shorthands *)

\* A field that pins a number allows it once.
LEMMA PinnedOnce ==
  ASSUME NEW n \in Int, NEW values, n \in values, values \subseteq Int
  PROVE  Count(Only(n), values) = 1
<1>1. ASSUME NEW m \in Int PROVE Allows(Only(n), m) <=> m = n
  BY <1>1 DEF Allows, Only, Stepped
<1>2. {m \in values : Allows(Only(n), m)} = {n}
  BY <1>1
<1> QED  BY <1>2, FS_Singleton DEF Count

\* A field that is "*" allows whatever is in its range.
LEMMA StarAlways ==
  ASSUME NEW lo \in Int, NEW hi \in Int, NEW values,
         \A n \in values : n \in lo..hi
  PROVE  Count(Stepped(lo, hi, 1), values) = Cardinality(values)
<1>1. ASSUME NEW m \in lo..hi PROVE Allows(Stepped(lo, hi, 1), m)
  <2>1. (m - lo) % 1 = 0
    OBVIOUS
  <2> QED  BY <2>1 DEF Allows, Stepped
<1>2. {m \in values : Allows(Stepped(lo, hi, 1), m)} = values
  BY <1>1
<1> QED  BY <1>2 DEF Count

\* The place of a backup in the week, the month and the year.
LEMMA JitterPlaced ==
  ASSUME NEW jitter \in Jitters
  PROVE  /\ DowOf(jitter) \in 0..6
         /\ DomOf(jitter) \in 1..28
         /\ MonthOf(jitter) \in 1..12
<1>1. jitter \in Nat
  BY DEF Jitters
<1>2. \A n \in Nat : n % 7 \in 0..6 /\ n % 28 \in 0..27 /\ n % 12 \in 0..11
  OBVIOUS
<1>3. jitter \div 1440 \in Nat /\ jitter \div 40320 \in Nat
  BY <1>1
<1> HIDE DEF Jitters
<1>4. DowOf(jitter) \in 0..6
  BY <1>2, <1>3 DEF DowOf
<1>5. DomOf(jitter) \in 1..28
  BY <1>2, <1>3 DEF DomOf
<1>6. MonthOf(jitter) \in 1..12
  BY <1>2, <1>3 DEF MonthOf
<1> QED  BY <1>4, <1>5, <1>6

\* What Shorthand resolves a name to.
LEMMA ShorthandFields ==
  ASSUME NEW name \in Shorthands, NEW jitter
  PROVE  LET cron == Shorthand(name, jitter) IN
         /\ cron.minute = Only(MinuteOf(jitter))
         /\ cron.hour = IF name = "@hourly" THEN AnyHour ELSE Only(HourOf(jitter))
         /\ cron.dom = IF name \in {"@monthly", "@yearly"} THEN Only(DomOf(jitter)) ELSE AnyDom
         /\ cron.month = IF name = "@yearly" THEN Only(MonthOf(jitter)) ELSE AnyMonth
         /\ cron.dow = IF name = "@weekly" THEN Only(DowOf(jitter)) ELSE AnyDow
<1>1. CASE name = "@hourly"
  BY <1>1 DEF Shorthand, EveryDay, Cron
<1>2. CASE name = "@daily"
  BY <1>2 DEF Shorthand, EveryDay, Cron
<1>3. CASE name = "@weekly"
  BY <1>3 DEF Shorthand, EveryDay, Cron
<1>4. CASE name = "@monthly"
  BY <1>4 DEF Shorthand, EveryDay, Cron
<1>5. CASE name = "@yearly"
  BY <1>5 DEF Shorthand, EveryDay, Cron
<1> QED  BY <1>1, <1>2, <1>3, <1>4, <1>5 DEF Shorthands

\* A shorthand runs a backup once in each of its periods, for every name of a backup, also in
\* the month that has 28 days only (the moduli of ResolveSchedule).
THEOREM ShorthandsRunOnce == Spec => []OncePerPeriod
<1>1. Given => OncePerPeriod
  <2> SUFFICES ASSUME Given, spec.schedule.form = "shorthand", Resolved # Rejected
               PROVE  OncePerPeriod
    BY DEF OncePerPeriod
  <2> DEFINE name == spec.schedule.name
             jitter == spec.jitter
             months == {m \in 1..12 : Allows(Resolved.month, m)}
  <2>1. name \in Shorthands /\ jitter \in Jitters
    BY InputAssumption DEF Given, spec
  <2>2. Resolved = Shorthand(name, jitter)
    <3>1. Resolved = ResolveSchedule(spec.schedule, spec.jitter)
      BY DEF Resolved, CronJob, BuildCronJob
    <3> QED  BY <3>1 DEF ResolveSchedule
  <2> HIDE DEF name, jitter
  <2>3. /\ MinuteOf(jitter) \in 0..59 /\ HourOf(jitter) \in 0..23
        /\ DowOf(jitter) \in 0..6 /\ DomOf(jitter) \in 1..28 /\ MonthOf(jitter) \in 1..12
    BY <2>1, JitterTyped, JitterPlaced
  <2>4. /\ Resolved.minute = Only(MinuteOf(jitter))
        /\ Resolved.hour = IF name = "@hourly" THEN AnyHour ELSE Only(HourOf(jitter))
        /\ Resolved.dom = IF name \in {"@monthly", "@yearly"} THEN Only(DomOf(jitter))
                          ELSE AnyDom
        /\ Resolved.month = IF name = "@yearly" THEN Only(MonthOf(jitter)) ELSE AnyMonth
        /\ Resolved.dow = IF name = "@weekly" THEN Only(DowOf(jitter)) ELSE AnyDow
    BY <2>1, <2>2, ShorthandFields
  <2> DEFINE size(a, b) == Cardinality(a..b)
  <2>5. /\ Cardinality(0..23) = 24 /\ Cardinality(1..12) = 12 /\ Cardinality(0..6) = 7
        /\ \A n \in Nat \ {0} : Cardinality(1..n) = n
    <3>1. \A a, b \in Int : a <= b => size(a, b) = b - a + 1
      BY FS_Interval
    <3> HIDE DEF size
    <3>2. size(0, 23) = 24 /\ size(1, 12) = 12 /\ size(0, 6) = 7
      BY <3>1
    <3>3. ASSUME NEW n \in Nat \ {0} PROVE size(1, n) = n
      BY <3>1
    <3> QED  BY <3>2, <3>3 DEF size
  <2>6. Count(Resolved.minute, 0..59) = 1
    BY <2>3, <2>4, PinnedOnce
  <2>7. Count(Resolved.hour, 0..23) = IF name = "@hourly" THEN 24 ELSE 1
    <3>1. Count(Only(HourOf(jitter)), 0..23) = 1
      BY <2>3, PinnedOnce
    <3>2. Count(AnyHour, 0..23) = 24
      BY <2>5, StarAlways, SMTT(30) DEF AnyHour
    <3> QED  BY <2>4, <3>1, <3>2
  <2>8. Cardinality(months) = IF name = "@yearly" THEN 1 ELSE 12
    <3>1. Count(Only(MonthOf(jitter)), 1..12) = 1
      BY <2>3, PinnedOnce
    <3>2. Count(AnyMonth, 1..12) = 12
      BY <2>5, StarAlways DEF AnyMonth
    <3>3. Cardinality(months) = Count(Resolved.month, 1..12)
      BY DEF Count
    <3> QED  BY <2>4, <3>1, <3>2, <3>3
  <2>9. ASSUME NEW m \in months
        PROVE  Count(Resolved.dom, 1..DaysIn[m]) =
                 IF name \in {"@monthly", "@yearly"} THEN 1 ELSE DaysIn[m]
    <3>1. DaysIn[m] \in 28..31
      <4>1. m \in 1..12
        OBVIOUS
      <4> QED  BY <4>1 DEF DaysIn
    <3> DEFINE days == DaysIn[m]
    <3> HIDE DEF days
    <3>2. Count(Only(DomOf(jitter)), 1..days) = 1
      BY <2>3, <3>1, PinnedOnce, SMTT(30) DEF days
    <3>3. Count(AnyDom, 1..days) = days
      <4>1. days \in 28..31
        BY <3>1 DEF days
      <4>2. 1..days \subseteq 1..31
        BY <4>1
      <4>3. Cardinality(1..days) = days
        BY <2>5, <4>1
      <4>4. Count(Stepped(1, 31, 1), 1..days) = Cardinality(1..days)
        <5> DEFINE values == 1..days
        <5>1. \A n \in values : n \in 1..31
          BY <4>2
        <5> HIDE DEF values
        <5>2. Count(Stepped(1, 31, 1), values) = Cardinality(values)
          BY <5>1, StarAlways
        <5> QED  BY <5>2 DEF values
      <4> QED  BY <4>3, <4>4 DEF AnyDom
    <3> QED  BY <2>4, <3>2, <3>3 DEF days
  <2>10. Count(Resolved.dow, 0..6) = IF name = "@weekly" THEN 1 ELSE 7
    <3>1. Count(Only(DowOf(jitter)), 0..6) = 1
      BY <2>3, PinnedOnce
    <3>2. Count(AnyDow, 0..6) = 7
      BY <2>5, StarAlways DEF AnyDow
    <3> QED  BY <2>4, <3>1, <3>2
  <2> QED  BY <2>6, <2>7, <2>8, <2>9, <2>10 DEF OncePerPeriod, name
<1> QED  BY <1>1, InputStays, PTL


\* `corg migrate' replaces a cron expression by a shorthand with which the CronJob of the
\* operator runs as often and at the same distances, by the measure of `corg parity', or
\* which the operator refuses, and that exactly where the hours are a step that divides no
\* day: for any expression that cadenceOf reads and the name of any backup
\* (internal/cli/migrate.go:321-345).
THEOREM MigrationsKeepCadence == Spec => []MigrationKeepsCadence
<1>1. Given => MigrationKeepsCadence
  <2> SUFFICES ASSUME Given, spec.schedule.form = "cron"
               PROVE  LET cron == spec.schedule.cron
                          moved == ResolveSchedule(ShorthandSchedule(cron), spec.jitter) IN
                      IF UnevenHours(cron) THEN moved = Rejected
                      ELSE moved # Rejected /\ Cadence(moved) = Cadence(cron)
    BY Zenon DEF MigrationKeepsCadence
  <2>1. spec.jitter \in Jitters
    BY InputAssumption DEF Given, spec
  <2>2. /\ IsCron(spec.schedule.cron)
        /\ Accepts(spec.schedule.cron.minute, 0, 59) /\ Accepts(spec.schedule.cron.hour, 0, 23)
    BY InputAssumption DEF Given, spec
  <2> QED  BY <2>1, <2>2, JitterTyped, MigrationKeeps, Zenon
<1> QED  BY <1>1, InputStays, PTL

-------------------------------------------------------------------------------
(* The lines of a script *)

\* Render puts every source before the retention and nothing but the cache after it.
LEMMA RenderShape ==
  ASSUME NEW s, s.sources \in Seq(Source), s.keep \in Nat, ~s.script
  PROVE  LET n == Len(s.sources)  script == Render(s) IN
         /\ n \in Nat /\ DOMAIN s.sources = 1..n
         /\ Len(script) = IF s.keep = 0 THEN n + 1 ELSE n + 2
         /\ \A i \in 1..n : script[i] = Backup(s.sources[i], s.retryLock)
         /\ s.keep # 0 => script[n + 1] = Forget(s.keep, s.retryLock)
         /\ script[Len(script)] = Line("cache")
<1> DEFINE n == Len(s.sources)
           backups == [i \in DOMAIN s.sources |-> Backup(s.sources[i], s.retryLock)]
           forget == IF s.keep = 0 THEN <<>> ELSE <<Forget(s.keep, s.retryLock)>>
           T == {Backup(s.sources[i], s.retryLock) : i \in DOMAIN s.sources}
                  \cup {Forget(s.keep, s.retryLock), Line("cache")}
<1>1. n \in Nat /\ DOMAIN s.sources = 1..n
  BY LenProperties
<1>2. backups \in Seq(T) /\ Len(backups) = n
  <2>1. backups \in [1..n -> T]
    BY <1>1
  <2> HIDE DEF backups, T, n
  <2> QED  BY <1>1, <2>1
<1>3. \A i \in 1..n : backups[i] = Backup(s.sources[i], s.retryLock)
  BY <1>1
<1>4. /\ forget \in Seq(T) /\ Len(forget) = IF s.keep = 0 THEN 0 ELSE 1
      /\ s.keep # 0 => forget[1] = Forget(s.keep, s.retryLock)
  <2>1. Forget(s.keep, s.retryLock) \in T
    OBVIOUS
  <2> HIDE DEF T
  <2> QED  BY <2>1
<1>5. <<Line("cache")>> \in Seq(T) /\ Len(<<Line("cache")>>) = 1
  <2>1. Line("cache") \in T
    OBVIOUS
  <2> HIDE DEF T
  <2> QED  BY <2>1
<1>6. Render(s) = (backups \o forget) \o <<Line("cache")>>
  BY DEF Render
<1> HIDE DEF backups, forget, T, n
<1>7. /\ backups \o forget \in Seq(T)
      /\ Len(backups \o forget) = n + Len(forget)
      /\ \A i \in 1..n + Len(forget) :
           (backups \o forget)[i] = IF i <= n THEN backups[i] ELSE forget[i - n]
  BY <1>2, <1>4, ConcatProperties
<1>8. /\ Len(Render(s)) = n + Len(forget) + 1
      /\ \A i \in 1..n + Len(forget) + 1 :
           Render(s)[i] = IF i <= n + Len(forget) THEN (backups \o forget)[i]
                          ELSE <<Line("cache")>>[i - (n + Len(forget))]
  BY <1>1, <1>4, <1>5, <1>6, <1>7, ConcatProperties
<1>9. n + Len(forget) + 1 = IF s.keep = 0 THEN n + 1 ELSE n + 2
  BY <1>1, <1>4
<1>10. \A i \in 1..n : Render(s)[i] = Backup(s.sources[i], s.retryLock)
  BY <1>1, <1>3, <1>4, <1>7, <1>8, SMTT(30)
<1>11. s.keep # 0 => Render(s)[n + 1] = Forget(s.keep, s.retryLock)
  <2> SUFFICES ASSUME s.keep # 0
               PROVE  Render(s)[n + 1] = Forget(s.keep, s.retryLock)
    OBVIOUS
  <2>1. Len(forget) = 1 /\ forget[1] = Forget(s.keep, s.retryLock)
    BY <1>4
  <2>2. n + 1 \in 1..n + Len(forget) /\ n + 1 \in 1..n + Len(forget) + 1 /\ ~(n + 1 <= n)
        /\ n + 1 <= n + Len(forget) /\ (n + 1) - n = 1
    BY <1>1, <2>1
  <2>3. Render(s)[n + 1] = (backups \o forget)[n + 1]
    BY <1>8, <2>2
  <2>4. (backups \o forget)[n + 1] = forget[(n + 1) - n]
    BY <1>7, <2>2
  <2> QED  BY <2>1, <2>2, <2>3, <2>4
<1>12. Render(s)[n + Len(forget) + 1] = <<Line("cache")>>[1]
  BY <1>1, <1>4, <1>8
<1> QED  BY <1>1, <1>8, <1>9, <1>10, <1>11, <1>12 DEF n

-------------------------------------------------------------------------------
(* The invariant of the runs *)

Scripts == {<<>>} \cup {ScriptOf(k) : k \in {kind \in Kinds : ~Refused(kind)}}
States == {"waiting", "running", "succeeded", "failed", "killed"}
Snapshot == [path : {SourcePath(s) : s \in Source}, tag : {SourceTag(s) : s \in Source}, at : Nat]
PodRun == [kind : Kinds \cup {"none"}, script : Scripts, line : Nat, busy : BOOLEAN,
           stored : SUBSET Snapshot, state : States]
Lock == [run : Runs, exclusive : BOOLEAN, stale : BOOLEAN]

\* Every variable holds the kind of value its comment says.
Typed ==
  /\ Given
  /\ run \in [Runs -> PodRun]
  /\ snapshots \subseteq Snapshot /\ clock \in Nat
  /\ locks \subseteq Lock
  /\ check \in {"new", "up", "down"} /\ faults \in 0..MaxFaults

\* A pod has the script of its kind, and works at one of its lines.
Placed(r) ==
  /\ run[r].state = "waiting" => /\ run[r].kind = "none" /\ run[r].line = 1
                                 /\ ~run[r].busy /\ run[r].stored = {}
  /\ run[r].state # "waiting" => /\ run[r].kind \in Kinds /\ ~Refused(run[r].kind)
                                 /\ run[r].script = ScriptOf(run[r].kind)
  /\ Working(r) => run[r].line \in 1..Len(run[r].script)
  /\ run[r].state = "succeeded" => run[r].line = Len(run[r].script) + 1

\* What a command locks it holds for as long as it works.
Holds(r) ==
  /\ run[r].busy <=> \E l \in locks : l.run = r /\ ~l.stale
  /\ run[r].busy => Working(r) /\ Locks(Current(r))
  /\ \A l \in locks : l.run = r /\ ~l.stale => l.exclusive = Exclusive(Current(r))
\* Who has the repository to itself is alone with it.
Alone == \A l, m \in locks : l.exclusive => l = m

\* The lines before the current one are done: what they back up is stored.
Done(r) ==
  \A i \in 1..run[r].line - 1 :
    /\ run[r].script[i].command # "script"
    /\ run[r].script[i].command = "backup" =>
         \E s \in run[r].stored : /\ s.path = run[r].script[i].path
                                  /\ s.tag = run[r].script[i].tag
\* Of the path of a snapshot a run has taken there is still one, as new or newer.
Preserved(r) == \A s \in run[r].stored : \E t \in snapshots : t.path = s.path /\ t.at >= s.at
\* Each path has a newest snapshot.
Newest ==
  /\ \A s \in snapshots : s.at < clock
  /\ \A s \in snapshots : \E t \in snapshots :
       t.path = s.path /\ \A u \in snapshots : u.path = s.path => u.at <= t.at

Up == check = "up" => \E r \in Runs : run[r].kind = "backup" /\ run[r].state = "succeeded"
Faultless ==
  faults = 0 =>
    /\ \A l \in locks : ~l.stale
    /\ spec.retryLock /\ ~(input.appendOnly /\ spec.keep > 0) =>
         \A r \in Runs : run[r].kind = "backup" => run[r].state # "failed"

PodInv ==
  /\ Typed
  /\ \A r \in Runs : Placed(r) /\ Holds(r) /\ Done(r) /\ Preserved(r)
  /\ Alone /\ Newest /\ Up /\ Faultless

-------------------------------------------------------------------------------
(* Scripts *)

\* What BuildJobTemplate fills in, unless it refuses the spec.
ReporterOf(s, config) == Reporter(s.healthchecks, config.healthchecks, s.namespace)
Fields == {"command", "image", "env", "envFrom", "volumes", "mounts", "workingDir", "affinity",
           "labels", "idle", "ttl"}

\* The fields of a template that is not refused.
LEMMA JobFields ==
  ASSUME NEW s, NEW config, JobTemplate(s, config) # Rejected
  PROVE  LET job == JobTemplate(s, config) IN
         /\ DOMAIN job = Fields
         /\ job.command = Wrap(ReporterOf(s, config), Render(s))
         /\ job.env = Env(s, ReporterOf(s, config)) /\ ~EnvFails(ReporterOf(s, config))
         /\ job.envFrom = {Secret("repository")}
         /\ job.volumes = Volumes(s) /\ job.mounts = Mounts(s)
         /\ job.affinity = Or(s.affinity, DefaultAffinity(s))
<1> DEFINE
  reporter == Reporter(s.healthchecks, config.healthchecks, s.namespace)
  fails == \/ s.image \cup config.image = {} \/ DatabaseFails(s) \/ EnvFails(reporter)
  job == [command |-> Wrap(reporter, Render(s)), image |-> Or(s.image, Or(config.image, "")),
          env |-> Env(s, reporter), envFrom |-> {Secret("repository")},
          volumes |-> Volumes(s), mounts |-> Mounts(s),
          workingDir |-> {MountPath(v) : v \in s.volume},
          affinity |-> Or(s.affinity, DefaultAffinity(s)),
          labels |-> (IF MariaDB(s) THEN {"mariadb-client"} ELSE {}) \cup s.podLabels,
          idle |-> FALSE, ttl |-> 3600]
<1>1. JobTemplate(s, config) = IF fails THEN Rejected ELSE job
  BY DEF JobTemplate
<1>2. /\ DOMAIN job = Fields
      /\ job.command = Wrap(reporter, Render(s)) /\ job.env = Env(s, reporter)
      /\ job.envFrom = {Secret("repository")}
      /\ job.volumes = Volumes(s) /\ job.mounts = Mounts(s)
      /\ job.affinity = Or(s.affinity, DefaultAffinity(s))
  BY DEF Fields
<1>3. ~fails => ~EnvFails(reporter)
  OBVIOUS
<1>4. ReporterOf(s, config) = reporter
  BY DEF ReporterOf
<1> HIDE DEF fails, job, reporter
<1> QED  BY <1>1, <1>2, <1>3, <1>4

\* The template of the CronJob is that of the spec.
LEMMA TemplateIs ==
  ASSUME Template # Rejected
  PROVE  Template = JobTemplate(spec, input.config)
<1> DEFINE template == JobTemplate(spec, input.config)
<1>1. CronJob # Rejected /\ Template = CronJob.template
  BY DEF Template
<1>2. CronJob = BuildCronJob(spec, input.config)
  BY DEF CronJob
<1> HIDE DEF template
<1> QED  BY <1>1, <1>2 DEF BuildCronJob, template

\* The pod of a backup runs the script that Render builds.
LEMMA TemplateScript ==
  ASSUME Template # Rejected
  PROVE  Template.command.script = Render(spec)
<1>1. Template.command = Wrap(ReporterOf(spec, input.config), Render(spec))
  BY TemplateIs, JobFields
<1>2. \A reporter, script : Wrap(reporter, script).script = script
  BY DEF Wrap
<1> QED  BY <1>1, <1>2

\* What Render builds is a sequence.
LEMMA RenderDomain ==
  ASSUME NEW s, s.sources \in Seq(Source)
  PROVE  DOMAIN Render(s) = 1..Len(Render(s))
<1> DEFINE
  backups == [i \in DOMAIN s.sources |-> Backup(s.sources[i], s.retryLock)]
  forget == IF s.keep = 0 THEN <<>> ELSE <<Forget(s.keep, s.retryLock)>>
  commands == IF s.script THEN <<Line("script")>> ELSE backups \o forget
  T == {Backup(s.sources[i], s.retryLock) : i \in DOMAIN s.sources}
         \cup {Forget(s.keep, s.retryLock), Line("cache"), Line("script")}
<1>1. backups \in Seq(T)
  <2>1. Len(s.sources) \in Nat /\ DOMAIN s.sources = 1..Len(s.sources)
    BY LenProperties
  <2>2. backups \in [1..Len(s.sources) -> T]
    BY <2>1
  <2> HIDE DEF backups, T
  <2> QED  BY <2>1, <2>2
<1>2. /\ Forget(s.keep, s.retryLock) \in T /\ Line("cache") \in T /\ Line("script") \in T
  OBVIOUS
<1>3. Render(s) = commands \o <<Line("cache")>>
  BY DEF Render
<1> HIDE DEF backups, T
<1>4. forget \in Seq(T) /\ <<Line("cache")>> \in Seq(T) /\ <<Line("script")>> \in Seq(T)
  BY <1>2
<1>5. commands \in Seq(T)
  <2> HIDE DEF forget
  <2> QED  BY <1>1, <1>4, ConcatProperties
<1> HIDE DEF commands
<1>6. Render(s) \in Seq(T)
  BY <1>3, <1>4, <1>5, ConcatProperties
<1> QED  BY <1>6, LenProperties

\* The line of a script backs up a source of the spec.
Stores(line, source) ==
  line.command = "backup" /\ line.path = SourcePath(source) /\ line.tag = SourceTag(source)

LineSound(kind, script, i) ==
  LET line == script[i] IN
  /\ line.command \in {"backup", "forget", "cache", "unlock", "script"}
  /\ line.command = "backup" => \E source \in Source : Stores(line, source)
  /\ line.command = "forget" =>
       /\ line.keep \in Nat \ {0} /\ spec.keep > 0
       /\ kind = "backup" =>
            \A source \in Sources : \E j \in 1 .. i - 1 : Stores(script[j], source)
  /\ kind = "backup" /\ Locks(line) => line.retry = spec.retryLock

ScriptSound(kind, script) ==
  /\ Len(script) \in Nat \ {0}
  /\ \A i \in 1..Len(script) : LineSound(kind, script, i)
  /\ kind = "backup" =>
       \/ script[1].command = "script"
       \/ \A source \in Sources : \E j \in 1..Len(script) : Stores(script[j], source)

\* The script of a backup is sound, whatever its sources and its retention.
LEMMA BackupScript ==
  ASSUME Given, Template # Rejected
  PROVE  ScriptSound("backup", Render(spec))
<1> DEFINE script == Render(spec)
           n == Len(spec.sources)
<1>1. spec.sources \in Seq(Source) /\ spec.keep \in Nat
  BY InputAssumption DEF Given, spec
<1>2. CASE spec.script
  <2>1. script = <<Line("script")>> \o <<Line("cache")>>
    BY <1>2 DEF Render
  <2>2. Len(script) = 2 /\ script[1] = Line("script") /\ script[2] = Line("cache")
    <3> DEFINE T == {Line("script"), Line("cache")}
               a == <<Line("script")>>
               b == <<Line("cache")>>
    <3>1. a \in Seq(T) /\ b \in Seq(T) /\ Len(a) = 1 /\ Len(b) = 1
      OBVIOUS
    <3>2. Len(a \o b) = 2 /\ (a \o b)[1] = a[1] /\ (a \o b)[2] = b[1]
      <4> HIDE DEF a, b, T
      <4> QED  BY <3>1, ConcatProperties
    <3> QED  BY <2>1, <3>2
  <2> HIDE DEF script
  <2>3. \A i \in 1..2 : LineSound("backup", script, i)
    BY <2>2 DEF LineSound, Line, Locks
  <2>4. ScriptSound("backup", script)
    BY <2>2, <2>3 DEF ScriptSound, Line
  <2> QED  BY <2>4 DEF script
<1>3. CASE ~spec.script
  <2>1. /\ n \in Nat /\ DOMAIN spec.sources = 1..n
        /\ Len(script) = IF spec.keep = 0 THEN n + 1 ELSE n + 2
        /\ \A i \in 1..n : script[i] = Backup(spec.sources[i], spec.retryLock)
        /\ spec.keep # 0 => script[n + 1] = Forget(spec.keep, spec.retryLock)
        /\ script[Len(script)] = Line("cache")
    BY <1>1, <1>3, RenderShape
  <2>2. \A i \in 1..n : spec.sources[i] \in Source
    BY <1>1, <2>1
  <2> HIDE DEF script, n
  <2>3. \A i \in 1..n : Stores(script[i], spec.sources[i]) /\ script[i].retry = spec.retryLock
    <3> TAKE i \in 1..n
    <3>1. script[i] = Backup(spec.sources[i], spec.retryLock)
      BY <2>1
    <3> QED  BY <3>1 DEF Backup, Stores
  <2>4. \A source \in Sources : \E j \in 1..n : Stores(script[j], source)
    BY <2>1, <2>3 DEF Sources
  <2>5. \A i \in 1..n : LineSound("backup", script, i)
    BY <2>2, <2>3 DEF LineSound, Stores
  <2>6. LineSound("backup", script, Len(script))
    BY <2>1 DEF LineSound, Line, Locks
  <2>7. ASSUME spec.keep # 0
        PROVE  LineSound("backup", script, n + 1)
    <3>1. script[n + 1].command = "forget" /\ script[n + 1].keep = spec.keep
          /\ script[n + 1].retry = spec.retryLock
      BY <2>1, <2>7 DEF Forget
    <3>2. (n + 1) - 1 = n
      BY <2>1
    <3> QED  BY <1>1, <2>4, <2>7, <3>1, <3>2 DEF LineSound
  <2>8. Len(script) \in Nat \ {0}
    BY <2>1
  <2>9. \A i \in 1..Len(script) : i \in 1..n \/ i = Len(script) \/ (spec.keep # 0 /\ i = n + 1)
    BY <2>1
  <2>10. \A i \in 1..Len(script) : LineSound("backup", script, i)
    BY <2>5, <2>6, <2>7, <2>9
  <2>11. 1..n \subseteq 1..Len(script)
    BY <2>1
  <2>12. ScriptSound("backup", script)
    BY <2>4, <2>8, <2>10, <2>11 DEF ScriptSound
  <2> QED  BY <2>12 DEF script
<1> QED  BY <1>2, <1>3

\* So is a script of one line of corg prune or corg unlock.
LEMMA OneLine ==
  ASSUME NEW kind, kind # "backup", NEW line,
         line.command \in {"unlock", "forget"},
         line.command = "forget" => line.keep \in Nat \ {0} /\ spec.keep > 0
  PROVE  ScriptSound(kind, <<line>>)
<1> DEFINE script == <<line>>
<1>1. Len(script) = 1 /\ script[1] = line
  OBVIOUS
<1> HIDE DEF script
<1>2. \A i \in 1..1 : LineSound(kind, script, i)
  BY <1>1 DEF LineSound
<1>3. ScriptSound(kind, script)
  BY <1>1, <1>2 DEF ScriptSound
<1> QED  BY <1>3 DEF script

\* The script of a run that corg or the operator starts is sound.
LEMMA EveryScript ==
  ASSUME Given, NEW kind \in Kinds, ~Refused(kind)
  PROVE  ScriptSound(kind, ScriptOf(kind))
<1>1. Template # Rejected /\ spec.keep \in Nat
  BY InputAssumption DEF Refused, Given, spec
<1>2. CASE kind = "backup"
  BY <1>1, <1>2, BackupScript, TemplateScript DEF ScriptOf
<1>3. CASE kind = "prune"
  <2>1. PruneCommand(spec, input.appendOnly) # Rejected
    BY <1>3 DEF Refused
  <2>2. /\ PruneCommand(spec, input.appendOnly) = Forget(spec.keep, FALSE)
        /\ spec.keep # 0
    BY <2>1 DEF PruneCommand
  <2>3. ScriptOf(kind) = <<Forget(spec.keep, FALSE)>>
    BY <1>3, <2>2 DEF ScriptOf
  <2> QED  BY <1>1, <1>3, <2>2, <2>3, OneLine DEF Forget
<1>4. CASE kind = "unlock"
  <2>1. ScriptOf(kind) = <<UnlockCommand(FALSE)>>
    BY <1>4 DEF ScriptOf
  <2> QED  BY <1>4, <2>1, OneLine DEF UnlockCommand
<1> QED  BY <1>2, <1>3, <1>4 DEF Kinds

\* A script is a sequence.
LEMMA ScriptDomain ==
  ASSUME Given, NEW kind \in Kinds, ~Refused(kind)
  PROVE  DOMAIN ScriptOf(kind) = 1..Len(ScriptOf(kind))
<1>1. Template # Rejected /\ spec.sources \in Seq(Source) /\ spec.keep \in Nat
  BY InputAssumption DEF Refused, Given, spec
<1>2. CASE kind = "backup"
  BY <1>1, <1>2, TemplateScript, RenderDomain DEF ScriptOf
<1>3. CASE kind = "prune"
  <2> DEFINE line == PruneCommand(spec, input.appendOnly)
  <2>1. ScriptOf(kind) = <<line>>
    BY <1>3 DEF ScriptOf
  <2> HIDE DEF line
  <2> QED  BY <2>1
<1>4. CASE kind = "unlock"
  <2> DEFINE line == UnlockCommand(FALSE)
  <2>1. ScriptOf(kind) = <<line>>
    BY <1>4 DEF ScriptOf
  <2> HIDE DEF line
  <2> QED  BY <2>1
<1> QED  BY <1>2, <1>3, <1>4 DEF Kinds

-------------------------------------------------------------------------------
(* What the steps do to a run *)

\* The runs beside r, and what never changes once a run has started.
Others(r) == \A o \in Runs \ {r} : run'[o] = run[o]
Same(r) == run'[r].kind = run[r].kind /\ run'[r].script = run[r].script

\* A backup stays as it is, and with it the scripts of its runs.
LEMMA InputFixed ==
  ASSUME input' = input
  PROVE  /\ Scripts' = Scripts /\ PodRun' = PodRun /\ (Given <=> Given') /\ Sources' = Sources
         /\ spec' = spec
         /\ \A kind : ScriptOf(kind)' = ScriptOf(kind) /\ (Refused(kind)' <=> Refused(kind))
<1>1. spec' = spec /\ Template' = Template
  BY DEF spec, Template, CronJob
<1>2. \A kind : ScriptOf(kind)' = ScriptOf(kind) /\ (Refused(kind)' <=> Refused(kind))
  BY <1>1 DEF ScriptOf, Refused
<1>3. Scripts' = Scripts
  BY <1>2 DEF Scripts
<1> QED  BY <1>1, <1>2, <1>3 DEF PodRun, Given, Sources

\* A script that fails stops at its line.
LEMMA FailEffect ==
  ASSUME run \in [Runs -> PodRun], NEW r \in Runs, FailScript(r)
  PROVE  /\ run' \in [Runs -> PodRun] /\ Others(r) /\ Same(r)
         /\ run'[r].line = run[r].line /\ run'[r].stored = run[r].stored
         /\ ~run'[r].busy /\ run'[r].state = "failed"
         /\ check' \in {check, "down"}
<1> DEFINE next == [run[r] EXCEPT !.busy = FALSE, !.state = "failed"]
<1>1. /\ next \in PodRun
      /\ next.kind = run[r].kind /\ next.script = run[r].script
      /\ next.line = run[r].line /\ next.stored = run[r].stored
      /\ ~next.busy /\ next.state = "failed"
  BY DEF PodRun, States
<1>2. run' = [run EXCEPT ![r] = next]
  BY DEF FailScript
<1> HIDE DEF next
<1>3. run'[r] = next /\ run' \in [Runs -> PodRun] /\ Others(r)
  BY <1>1, <1>2 DEF Others
<1>4. check' \in {check, "down"}
  BY DEF FailScript, Ping
<1> QED  BY <1>1, <1>3, <1>4 DEF Same

\* A line that is done leads to the next one, or ends the run.
LEMMA AdvanceEffect ==
  ASSUME run \in [Runs -> PodRun], NEW r \in Runs, NEW stored \in SUBSET Snapshot,
         Working(r), Advance(r, stored)
  PROVE  /\ run' \in [Runs -> PodRun] /\ Others(r) /\ Same(r)
         /\ run'[r].line = run[r].line + 1 /\ run'[r].stored = stored
         /\ ~run'[r].busy
         /\ run'[r].state = IF run[r].line = Len(run[r].script) THEN "succeeded" ELSE "running"
         /\ \/ check' = check
            \/ check' = "up" /\ run'[r].kind = "backup" /\ run'[r].state = "succeeded"
<1> DEFINE last == run[r].line = Len(run[r].script)
           state == IF last THEN "succeeded" ELSE run[r].state
           next == [run[r] EXCEPT !.busy = FALSE, !.line = @ + 1, !.stored = stored,
                                  !.state = state]
<1>1. run[r].state = "running" /\ state \in States
  BY DEF Working, States
<1>2. run' = [run EXCEPT ![r] = next]
  BY DEF Advance
<1>3. (last /\ Ping(r, "succeeded")) \/ check' = check
  BY DEF Advance
<1>4. last => state = "succeeded"
  OBVIOUS
<1>5. state = IF last THEN "succeeded" ELSE "running"
  BY <1>1
<1> HIDE DEF last, state
<1>6. /\ next \in PodRun
      /\ next.kind = run[r].kind /\ next.script = run[r].script
      /\ next.line = run[r].line + 1 /\ next.stored = stored
      /\ ~next.busy /\ next.state = state
  <2>1. run[r] \in PodRun
    OBVIOUS
  <2>2. run[r].line + 1 \in Nat
    BY <2>1 DEF PodRun
  <2> DEFINE line == run[r].line + 1
  <2>3. next = [run[r] EXCEPT !.busy = FALSE, !.line = line, !.stored = stored, !.state = state]
    OBVIOUS
  <2> HIDE DEF line, next
  <2> QED  BY <1>1, <2>1, <2>2, <2>3 DEF PodRun, line
<1> HIDE DEF next
<1>7. run'[r] = next /\ run' \in [Runs -> PodRun] /\ Others(r)
  BY <1>2, <1>6 DEF Others
<1>8. \/ check' = check
      \/ check' = "up" /\ run'[r].kind = "backup" /\ run'[r].state = "succeeded"
  BY <1>3, <1>4, <1>6, <1>7 DEF Ping
<1> QED  BY <1>5, <1>6, <1>7, <1>8 DEF Same, last

\* A command that begins makes the run busy.
LEMMA BeginEffect ==
  ASSUME run \in [Runs -> PodRun], NEW r \in Runs, run' = [run EXCEPT ![r].busy = TRUE]
  PROVE  /\ run' \in [Runs -> PodRun] /\ Others(r) /\ Same(r)
         /\ run'[r].line = run[r].line /\ run'[r].stored = run[r].stored
         /\ run'[r].busy /\ run'[r].state = run[r].state
<1> DEFINE next == [run[r] EXCEPT !.busy = TRUE]
<1>1. /\ next \in PodRun
      /\ next.kind = run[r].kind /\ next.script = run[r].script
      /\ next.line = run[r].line /\ next.stored = run[r].stored
      /\ next.busy /\ next.state = run[r].state
  BY DEF PodRun
<1>2. run' = [run EXCEPT ![r] = next]
  OBVIOUS
<1> HIDE DEF next
<1>3. run'[r] = next /\ run' \in [Runs -> PodRun] /\ Others(r)
  BY <1>1, <1>2 DEF Others
<1> QED  BY <1>1, <1>3 DEF Same

\* A killed run stops at its line and reports nothing.
LEMMA KillEffect ==
  ASSUME run \in [Runs -> PodRun], NEW r \in Runs, Kill(r)
  PROVE  /\ run' \in [Runs -> PodRun] /\ Others(r) /\ Same(r)
         /\ run'[r].line = run[r].line /\ run'[r].stored = run[r].stored
         /\ ~run'[r].busy /\ run'[r].state = "killed"
<1> DEFINE next == [run[r] EXCEPT !.busy = FALSE, !.state = "killed"]
<1>1. /\ next \in PodRun
      /\ next.kind = run[r].kind /\ next.script = run[r].script
      /\ next.line = run[r].line /\ next.stored = run[r].stored
      /\ ~next.busy /\ next.state = "killed"
  BY DEF PodRun, States
<1>2. run' = [run EXCEPT ![r] = next]
  BY DEF Kill
<1> HIDE DEF next
<1>3. run'[r] = next /\ run' \in [Runs -> PodRun] /\ Others(r)
  BY <1>1, <1>2 DEF Others
<1> QED  BY <1>1, <1>3 DEF Same

\* A run starts at the first line of its script.
LEMMA StartEffect ==
  ASSUME run \in [Runs -> PodRun], NEW r \in Runs, NEW kind \in Kinds, Start(r, kind)
  PROVE  /\ run' \in [Runs -> PodRun] /\ Others(r)
         /\ run'[r].kind = kind /\ run'[r].script = ScriptOf(kind)
         /\ run'[r].line = 1 /\ run'[r].stored = {}
         /\ ~run'[r].busy /\ run'[r].state = "running"
<1> DEFINE next == [NoRun EXCEPT !.kind = kind, !.script = ScriptOf(kind), !.state = "running"]
<1>1. ScriptOf(kind) \in Scripts
  BY DEF Start, Scripts
<1>2. /\ next \in PodRun
      /\ next.kind = kind /\ next.script = ScriptOf(kind)
      /\ next.line = 1 /\ next.stored = {}
      /\ ~next.busy /\ next.state = "running"
  BY <1>1 DEF PodRun, States, NoRun
<1>3. run' = [run EXCEPT ![r] = next]
  BY DEF Start
<1> HIDE DEF next
<1>4. run'[r] = next /\ run' \in [Runs -> PodRun] /\ Others(r)
  BY <1>2, <1>3 DEF Others
<1> QED  BY <1>2, <1>4

\* The line a working run is at.
LEMMA CurrentSound ==
  ASSUME Typed, NEW r \in Runs, Placed(r), Working(r)
  PROVE  /\ run[r].kind \in Kinds /\ run[r].line \in 1..Len(run[r].script)
         /\ run[r].script = ScriptOf(run[r].kind) /\ ~Refused(run[r].kind)
         /\ ScriptSound(run[r].kind, run[r].script)
         /\ LineSound(run[r].kind, run[r].script, run[r].line)
<1>1. run[r].kind \in Kinds /\ ~Refused(run[r].kind) /\ run[r].script = ScriptOf(run[r].kind)
      /\ run[r].line \in 1..Len(run[r].script)
  BY DEF Placed, Working
<1>2. ScriptSound(run[r].kind, run[r].script)
  BY <1>1, EveryScript DEF Typed
<1> QED  BY <1>1, <1>2 DEF ScriptSound

\* A snapshot has the path and the tag of a source.
LEMMA TakenTyped ==
  ASSUME Typed, NEW r \in Runs, Placed(r), Working(r), Current(r).command = "backup"
  PROVE  Taken(Current(r)) \in Snapshot /\ Taken(Current(r)).at = clock
         /\ Taken(Current(r)).path = Current(r).path /\ Taken(Current(r)).tag = Current(r).tag
<1>1. \E source \in Source : Stores(Current(r), source)
  BY CurrentSound DEF LineSound, Current
<1> QED  BY <1>1 DEF Taken, Stores, Snapshot, Typed

\* What a step of r does to its run, once it has started.
RunStep(r) ==
  /\ Same(r) /\ Working(r)
  /\ \/ /\ run'[r].state \in {"failed", "killed"} /\ ~run'[r].busy
        /\ run'[r].line = run[r].line /\ run'[r].stored = run[r].stored
     \/ /\ run'[r].state = "running" /\ run'[r].busy
        /\ run'[r].line = run[r].line /\ run'[r].stored = run[r].stored
     \/ /\ run'[r].line = run[r].line + 1 /\ ~run'[r].busy
        /\ run'[r].state = IF run[r].line = Len(run[r].script) THEN "succeeded" ELSE "running"
        /\ Current(r).command # "script"
        /\ run[r].stored \subseteq run'[r].stored
        /\ Current(r).command = "backup" => Taken(Current(r)) \in run'[r].stored

\* What it does to the snapshots. Nothing is stored but what is taken.
SnapshotStep(r) ==
  \/ snapshots' = snapshots /\ clock' = clock /\ run'[r].stored \subseteq run[r].stored
  \/ \E s \in Snapshot :
       /\ s.at = clock /\ snapshots' = snapshots \cup {s} /\ clock' = clock + 1
       /\ run'[r].stored \subseteq run[r].stored \cup {s}
  \/ \E n \in Nat \ {0} :
       snapshots' = Kept(n) /\ clock' = clock /\ run'[r].stored \subseteq run[r].stored

\* What it does to the locks: it takes one that nothing is in the way of, or has
\* none any longer, a stale one at most.
LockStep(r) ==
  \/ BeginCommand(r)
  \/ /\ ~run'[r].busy
     /\ \A l \in Lock : l.run # r /\ ~l.stale => (l \in locks' <=> l \in locks)
     /\ \A l \in locks' : l.run = r => l.stale

\* What it does to the check.
CheckStep(r) ==
  \/ check' = check \/ check' = "down"
  \/ check' = "up" /\ run'[r].kind = "backup" /\ run'[r].state = "succeeded"

StepShape(r) ==
  /\ input' = input /\ run' \in [Runs -> PodRun] /\ Others(r)
  /\ faults' \in {faults, faults + 1} /\ faults' \in 0..MaxFaults
  /\ locks' \subseteq Lock
  /\ RunStep(r) \/ \E kind \in Kinds : Start(r, kind)
  /\ SnapshotStep(r) /\ LockStep(r) /\ CheckStep(r)

\* A fault is counted.
LEMMA FaultTyped ==
  ASSUME Typed, Fault
  PROVE  faults' = faults + 1 /\ faults' \in 0..MaxFaults /\ faults' # 0
BY InputAssumption DEF Typed, Fault

\* Locks that go, and those of a killed run, leave an exclusive one alone.
LEMMA StaysAlone ==
  ASSUME Alone, locks' \subseteq locks
  PROVE  Alone'
BY DEF Alone

\* Releasing its lock, or having none, does nothing to those of others.
LEMMA Released ==
  ASSUME Typed, NEW r \in Runs, Holds(r), ~run'[r].busy,
         Release(r) \/ (~run[r].busy /\ locks' \in {locks, {l \in locks : ~l.stale}})
  PROVE  LockStep(r)
<1>1. CASE Release(r)
  BY <1>1 DEF LockStep, Release
<1>2. CASE ~run[r].busy /\ locks' \in {locks, {l \in locks : ~l.stale}}
  BY <1>2 DEF LockStep, Holds
<1> QED  BY <1>1, <1>2

\* Start, in the terms of StepShape.
LEMMA StartShape ==
  ASSUME PodInv, NEW r \in Runs, NEW kind \in Kinds, Start(r, kind)
  PROVE  StepShape(r) /\ Alone' /\ Faultless'
<1>1. /\ run' \in [Runs -> PodRun] /\ Others(r) /\ run'[r].stored = {} /\ ~run'[r].busy
      /\ run'[r].state = "running"
  BY StartEffect DEF PodInv, Typed
<1>2. ~run[r].busy
  BY DEF Start, PodInv, Placed
<1>3. \A l \in locks : l.run = r => l.stale
  BY <1>2 DEF PodInv, Holds
<1>4. SnapshotStep(r)
  BY <1>1 DEF SnapshotStep, Start
<1>5. LockStep(r)
  BY <1>1, <1>3 DEF LockStep, Start
<1>6. StepShape(r)
  BY <1>1, <1>4, <1>5 DEF StepShape, CheckStep, Start, PodInv, Typed
<1>7. Alone'
  BY StaysAlone DEF Start, PodInv
<1>8. Faultless'
  <2>1. spec' = spec /\ input' = input /\ faults' = faults /\ locks' = locks
    BY InputFixed DEF Start
  <2>2. \A o \in Runs : run'[o].state = "failed" => run'[o] = run[o]
    BY <1>1 DEF Others
  <2> QED  BY <2>1, <2>2 DEF Faultless, PodInv
<1> QED  BY <1>6, <1>7, <1>8

\* BeginCommand: nothing is in the way of the lock it takes.
LEMMA BeginShape ==
  ASSUME PodInv, NEW r \in Runs, BeginCommand(r)
  PROVE  StepShape(r) /\ Alone' /\ Faultless'
<1>1. /\ run' \in [Runs -> PodRun] /\ Others(r) /\ Same(r)
      /\ run'[r].line = run[r].line /\ run'[r].stored = run[r].stored
      /\ run'[r].busy /\ run'[r].state = "running"
  BY BeginEffect DEF PodInv, Typed, BeginCommand, Working
<1> DEFINE new == [run |-> r, exclusive |-> Exclusive(Current(r)), stale |-> FALSE]
<1>2. /\ new \in Lock /\ locks' = locks \cup {new} /\ ~new.stale
      /\ new.exclusive <=> Exclusive(Current(r))
  BY DEF BeginCommand, Lock, Exclusive
<1> HIDE DEF new
<1>3. StepShape(r)
  BY <1>1, <1>2
  DEF StepShape, RunStep, SnapshotStep, LockStep, CheckStep, BeginCommand, PodInv, Typed
<1>4. Alone'
  <2>1. \A l \in locks : ~l.exclusive /\ ~new.exclusive
    BY <1>2 DEF BeginCommand, Blockers
  <2> QED  BY <1>2, <2>1 DEF Alone
<1>5. Faultless'
  <2>1. spec' = spec /\ input' = input /\ faults' = faults
    BY InputFixed DEF BeginCommand
  <2>2. \A o \in Runs : run'[o].state = "failed" => run'[o] = run[o]
    BY <1>1 DEF Others
  <2> QED  BY <1>2, <2>1, <2>2 DEF Faultless, PodInv
<1> QED  BY <1>3, <1>4, <1>5

\* A run that fails without a fault has a reason that a retryLock rules out, or
\* is refused by an append-only repository.
LEMMA StaysFaultless ==
  ASSUME PodInv, NEW r \in Runs, Others(r), input' = input, faults' \in {faults, faults + 1},
         faults' = 0 =>
           /\ \A l \in locks' : ~l.stale
           /\ ~(/\ run'[r].state = "failed" /\ run'[r].kind = "backup"
                /\ spec.retryLock /\ ~(input.appendOnly /\ spec.keep > 0))
  PROVE  Faultless'
<1>1. spec' = spec
  BY InputFixed
<1>2. faults' = 0 => faults = 0
  BY DEF PodInv, Typed
<1> QED  BY <1>1, <1>2 DEF Faultless, Others, PodInv

\* What the failures of a script have in common.
LEMMA FailShape ==
  ASSUME PodInv, NEW r \in Runs, Working(r), FailScript(r), UNCHANGED input,
         faults' \in {faults, faults + 1} /\ faults' \in 0..MaxFaults,
         Release(r) \/ (~run[r].busy /\ UNCHANGED locks),
         \/ UNCHANGED <<snapshots, clock>>
         \/ \E s \in Snapshot :
              s.at = clock /\ snapshots' = snapshots \cup {s} /\ clock' = clock + 1,
         faults' = 0 => ~(/\ run[r].kind = "backup"
                          /\ spec.retryLock /\ ~(input.appendOnly /\ spec.keep > 0))
  PROVE  StepShape(r) /\ Alone' /\ Faultless'
<1>1. /\ run' \in [Runs -> PodRun] /\ Others(r) /\ Same(r)
      /\ run'[r].line = run[r].line /\ run'[r].stored = run[r].stored
      /\ ~run'[r].busy /\ run'[r].state = "failed"
      /\ check' \in {check, "down"}
  BY FailEffect DEF PodInv, Typed
<1>2. locks' \subseteq locks
  BY DEF Release
<1>3. LockStep(r)
  BY <1>1, Released DEF PodInv
<1>4. SnapshotStep(r)
  BY <1>1 DEF SnapshotStep
<1>5. StepShape(r)
  BY <1>1, <1>2, <1>3, <1>4 DEF StepShape, RunStep, CheckStep, PodInv, Typed
<1>6. Alone'
  BY <1>2, StaysAlone DEF PodInv
<1>7. faults' = 0 => \A l \in locks' : ~l.stale
  BY <1>2 DEF PodInv, Faultless, Typed
<1>8. Faultless'
  BY <1>1, <1>7, StaysFaultless DEF Same
<1> QED  BY <1>5, <1>6, <1>8

\* GiveUpAtOnce: a backup with a retryLock never does.
LEMMA GiveUpAtOnceShape ==
  ASSUME PodInv, NEW r \in Runs, GiveUpAtOnce(r)
  PROVE  StepShape(r) /\ Alone' /\ Faultless'
<1>1. Working(r) /\ FailScript(r) /\ UNCHANGED <<input, snapshots, locks, clock, faults>>
      /\ ~run[r].busy /\ Locks(Current(r)) /\ ~Current(r).retry
  BY DEF GiveUpAtOnce
<1>2. run[r].kind = "backup" => ~spec.retryLock
  BY <1>1, CurrentSound DEF PodInv, LineSound, Current
<1> QED  BY <1>1, <1>2, FailShape DEF PodInv, Typed

\* GiveUpWaiting: a stale lock, or one held for long, takes a fault.
LEMMA GiveUpWaitingShape ==
  ASSUME PodInv, NEW r \in Runs, GiveUpWaiting(r)
  PROVE  StepShape(r) /\ Alone' /\ Faultless'
<1>1. Working(r) /\ FailScript(r) /\ UNCHANGED <<input, snapshots, locks, clock>> /\ ~run[r].busy
  BY DEF GiveUpWaiting
<1>2. faults' \in {faults, faults + 1} /\ faults' \in 0..MaxFaults /\ faults' # 0
  <2>1. CASE Fault
    BY <2>1, FaultTyped DEF PodInv
  <2>2. CASE (\E l \in Blockers(r) : l.stale) /\ UNCHANGED faults
    <3>1. faults # 0
      BY <2>2 DEF Blockers, PodInv, Faultless
    <3> QED  BY <2>2, <3>1 DEF PodInv, Typed
  <2> QED  BY <2>1, <2>2 DEF GiveUpWaiting
<1> QED  BY <1>1, <1>2, FailShape

\* ForgetDenied: the repository is append-only and the spec has a retention.
LEMMA ForgetDeniedShape ==
  ASSUME PodInv, NEW r \in Runs, ForgetDenied(r)
  PROVE  StepShape(r) /\ Alone' /\ Faultless'
<1>1. Working(r) /\ FailScript(r) /\ Release(r) /\ UNCHANGED <<input, snapshots, clock, faults>>
      /\ Current(r).command = "forget" /\ input.appendOnly
  BY DEF ForgetDenied
<1>2. input.appendOnly /\ spec.keep > 0
  BY <1>1, CurrentSound DEF PodInv, LineSound, Current
<1> QED  BY <1>1, <1>2, FailShape DEF PodInv, Typed

\* CommandFails: a fault, with a snapshot or without.
LEMMA CommandFailsShape ==
  ASSUME PodInv, NEW r \in Runs, NEW partial \in BOOLEAN, CommandFails(r, partial)
  PROVE  StepShape(r) /\ Alone' /\ Faultless'
<1>1. Working(r) /\ FailScript(r) /\ Release(r) /\ UNCHANGED input
  BY DEF CommandFails
<1>2. faults' = faults + 1 /\ faults' \in 0..MaxFaults /\ faults' # 0
  BY FaultTyped DEF CommandFails, PodInv
<1>3. \/ UNCHANGED <<snapshots, clock>>
      \/ \E s \in Snapshot :
           s.at = clock /\ snapshots' = snapshots \cup {s} /\ clock' = clock + 1
  <2>1. CASE ~partial
    BY <2>1 DEF CommandFails
  <2>2. CASE partial
    <3>1. /\ Current(r).command = "backup" /\ clock' = clock + 1
          /\ snapshots' = snapshots \cup {Taken(Current(r))}
      BY <2>2 DEF CommandFails
    <3>2. Taken(Current(r)) \in Snapshot /\ Taken(Current(r)).at = clock
      BY <1>1, <3>1, TakenTyped DEF PodInv
    <3> QED  BY <3>1, <3>2
  <2> QED  BY <2>1, <2>2
<1> QED  BY <1>1, <1>2, <1>3, FailShape

\* A line that is done leads to the next one.
LEMMA AdvanceShape ==
  ASSUME PodInv, NEW r \in Runs, Working(r), NEW stored \in SUBSET Snapshot, Advance(r, stored),
         UNCHANGED <<input, faults>>, run[r].stored \subseteq stored,
         Current(r).command # "script",
         Current(r).command = "backup" => Taken(Current(r)) \in stored,
         Release(r) \/ (~run[r].busy /\ locks' \in {locks, {l \in locks : ~l.stale}}),
         \/ UNCHANGED <<snapshots, clock>> /\ stored = run[r].stored
         \/ \E s \in Snapshot :
              /\ s.at = clock /\ snapshots' = snapshots \cup {s} /\ clock' = clock + 1
              /\ stored = run[r].stored \cup {s}
         \/ \E n \in Nat \ {0} :
              snapshots' = Kept(n) /\ clock' = clock /\ stored = run[r].stored
  PROVE  StepShape(r) /\ Alone' /\ Faultless'
<1>1. /\ run' \in [Runs -> PodRun] /\ Others(r) /\ Same(r)
      /\ run'[r].line = run[r].line + 1 /\ run'[r].stored = stored /\ ~run'[r].busy
      /\ run'[r].state = IF run[r].line = Len(run[r].script) THEN "succeeded" ELSE "running"
      /\ \/ check' = check
         \/ check' = "up" /\ run'[r].kind = "backup" /\ run'[r].state = "succeeded"
  BY AdvanceEffect DEF PodInv, Typed
<1>2. locks' \subseteq locks
  BY DEF Release
<1>3. LockStep(r)
  BY <1>1, Released DEF PodInv
<1>4. SnapshotStep(r)
  BY <1>1 DEF SnapshotStep
<1>5. RunStep(r)
  BY <1>1 DEF RunStep
<1>6. StepShape(r)
  BY <1>1, <1>2, <1>3, <1>4, <1>5 DEF StepShape, CheckStep, PodInv, Typed
<1>7. Alone'
  BY <1>2, StaysAlone DEF PodInv
<1>8. faults' = 0 => \A l \in locks' : ~l.stale
  BY <1>2 DEF PodInv, Faultless
<1>9. run'[r].state # "failed" /\ faults' \in {faults, faults + 1}
  BY <1>1
<1>10. Faultless'
  BY <1>1, <1>8, <1>9, StaysFaultless
<1> QED  BY <1>6, <1>7, <1>10

\* EndBackup: the snapshot is in the repository and among those of the run.
LEMMA EndBackupShape ==
  ASSUME PodInv, NEW r \in Runs, EndBackup(r)
  PROVE  StepShape(r) /\ Alone' /\ Faultless'
<1> DEFINE taken == Taken(Current(r))
           stored == run[r].stored \cup {taken}
<1>1. /\ Working(r) /\ Current(r).command = "backup"
      /\ snapshots' = snapshots \cup {taken} /\ clock' = clock + 1
      /\ Release(r) /\ Advance(r, stored) /\ UNCHANGED <<input, faults>>
  BY DEF EndBackup
<1>2. taken \in Snapshot /\ taken.at = clock
  BY <1>1, TakenTyped DEF PodInv
<1>3. run[r].stored \subseteq Snapshot
  BY DEF PodInv, Typed, PodRun
<1> HIDE DEF taken
<1>4. stored \in SUBSET Snapshot /\ run[r].stored \subseteq stored /\ taken \in stored
  BY <1>2, <1>3
<1> HIDE DEF stored
<1>5. \E s \in Snapshot :
        /\ s.at = clock /\ snapshots' = snapshots \cup {s} /\ clock' = clock + 1
        /\ stored = run[r].stored \cup {s}
  BY <1>1, <1>2 DEF stored
<1> QED  BY <1>1, <1>4, <1>5, AdvanceShape DEF taken

\* EndForget: it keeps one snapshot at least.
LEMMA EndForgetShape ==
  ASSUME PodInv, NEW r \in Runs, EndForget(r)
  PROVE  StepShape(r) /\ Alone' /\ Faultless'
<1>1. /\ Working(r) /\ Current(r).command = "forget"
      /\ snapshots' = Kept(Current(r).keep) /\ UNCHANGED <<input, clock, faults>>
      /\ Release(r) /\ Advance(r, run[r].stored)
  BY SMTT(30) DEF EndForget
<1>2. Current(r).keep \in Nat \ {0}
  BY <1>1, CurrentSound DEF PodInv, LineSound, Current
<1>3. run[r].stored \in SUBSET Snapshot
  BY DEF PodInv, Typed, PodRun
<1> QED  BY <1>1, <1>2, <1>3, AdvanceShape

\* EndUnlocked: only stale locks go.
LEMMA EndUnlockedShape ==
  ASSUME PodInv, NEW r \in Runs, EndUnlocked(r)
  PROVE  StepShape(r) /\ Alone' /\ Faultless'
<1>1. /\ Working(r) /\ Current(r).command \in {"cache", "unlock"}
      /\ locks' \in {locks, {l \in locks : ~l.stale}}
      /\ Advance(r, run[r].stored) /\ UNCHANGED <<input, snapshots, clock, faults>>
  BY DEF EndUnlocked
<1>2. ~run[r].busy
  BY <1>1 DEF PodInv, Holds, Locks
<1>3. run[r].stored \in SUBSET Snapshot
  BY DEF PodInv, Typed, PodRun
<1> QED  BY <1>1, <1>2, <1>3, AdvanceShape

\* Kill: the lock of the run stays, and is stale.
LEMMA KillShape ==
  ASSUME PodInv, NEW r \in Runs, Kill(r)
  PROVE  StepShape(r) /\ Alone' /\ Faultless'
<1> DEFINE left(l) == IF l.run = r THEN [l EXCEPT !.stale = TRUE] ELSE l
<1>1. /\ run' \in [Runs -> PodRun] /\ Others(r) /\ Same(r)
      /\ run'[r].line = run[r].line /\ run'[r].stored = run[r].stored
      /\ ~run'[r].busy /\ run'[r].state = "killed"
  BY KillEffect DEF PodInv, Typed
<1>2. /\ Working(r) /\ locks' = {left(l) : l \in locks}
      /\ UNCHANGED <<input, snapshots, check, clock>>
  BY DEF Kill
<1>3. faults' = faults + 1 /\ faults' \in 0..MaxFaults /\ faults' # 0
  BY FaultTyped DEF Kill, PodInv
<1>4. \A l \in Lock : /\ left(l) \in Lock /\ left(l).run = l.run
                      /\ left(l).exclusive = l.exclusive
                      /\ l.run = r => left(l).stale
                      /\ l.run # r => left(l) = l
  BY DEF Lock
<1> HIDE DEF left
<1>5. locks \subseteq Lock
  BY DEF PodInv, Typed
<1>6. locks' \subseteq Lock
  BY <1>2, <1>4, <1>5
<1>7. LockStep(r)
  BY <1>1, <1>2, <1>4, <1>5 DEF LockStep
<1>8. StepShape(r)
  BY <1>1, <1>2, <1>3, <1>6, <1>7
  DEF StepShape, RunStep, SnapshotStep, CheckStep, PodInv, Typed
<1>9. Alone'
  <2> SUFFICES ASSUME NEW l \in locks, NEW m \in locks, left(l).exclusive
               PROVE  left(l) = left(m)
    BY <1>2 DEF Alone
  <2>1. l.exclusive
    BY <1>4, <1>5
  <2> QED  BY <2>1 DEF PodInv, Alone
<1>10. Faultless'
  BY <1>3 DEF Faultless
<1> QED  BY <1>8, <1>9, <1>10

\* Every step is a step of one run.
LEMMA EveryShape ==
  ASSUME PodInv, Next
  PROVE  Alone' /\ Faultless' /\ \E r \in Runs : StepShape(r)
<1>1. PICK r \in Runs :
        \/ \E kind \in Kinds : Start(r, kind)
        \/ BeginCommand(r) \/ GiveUpAtOnce(r) \/ GiveUpWaiting(r)
        \/ EndBackup(r) \/ EndForget(r) \/ ForgetDenied(r) \/ EndUnlocked(r)
        \/ \E partial \in BOOLEAN : CommandFails(r, partial)
        \/ Kill(r)
  BY DEF Next
<1> QED  BY <1>1, StartShape, BeginShape, GiveUpAtOnceShape, GiveUpWaitingShape, EndBackupShape,
         EndForgetShape, ForgetDeniedShape, EndUnlockedShape, CommandFailsShape, KillShape

-------------------------------------------------------------------------------
(* What every step keeps *)

\* A snapshot that none of its path is newer than is kept.
LEMMA NothingNewer ==
  ASSUME NEW n \in Nat \ {0}, NEW t \in snapshots, snapshots \subseteq Snapshot,
         \A u \in snapshots : u.path = t.path => u.at <= t.at
  PROVE  t \in Kept(n)
<1> DEFINE newer == {u \in snapshots : u.path = t.path /\ u.at > t.at}
<1>1. newer = {}
  BY DEF Snapshot
<1>2. Cardinality(newer) = 0
  BY <1>1, FS_EmptySet
<1>3. Cardinality(newer) < n
  BY <1>2
<1> QED  BY <1>3 DEF Kept

\* A retention pass that keeps one snapshot at least keeps the newest of each path.
LEMMA KeptNewest ==
  ASSUME Typed, Newest, NEW n \in Nat \ {0}, NEW s \in snapshots
  PROVE  \E t \in Kept(n) : t.path = s.path /\ \A u \in snapshots : u.path = s.path => u.at <= t.at
<1>1. PICK t \in snapshots : t.path = s.path /\ \A u \in snapshots : u.path = s.path => u.at <= t.at
  BY DEF Newest
<1>2. t \in Kept(n)
  BY <1>1, NothingNewer DEF Typed
<1> QED  BY <1>1, <1>2

\* Each path keeps a snapshot as new as any it had.
LEMMA NewestStays ==
  ASSUME PodInv, NEW r \in Runs, StepShape(r)
  PROVE  /\ snapshots' \subseteq Snapshot /\ clock' \in Nat
         /\ Newest'
         /\ \A s \in snapshots : \E t \in snapshots' : t.path = s.path /\ t.at >= s.at
<1>1. snapshots \subseteq Snapshot /\ clock \in Nat /\ \A s \in Snapshot : s.at \in Nat
  BY DEF PodInv, Typed, Snapshot
<1>2. CASE snapshots' = snapshots /\ clock' = clock
  BY <1>1, <1>2 DEF PodInv, Newest
<1>3. ASSUME NEW s \in Snapshot, s.at = clock, snapshots' = snapshots \cup {s}, clock' = clock + 1
      PROVE  /\ snapshots' \subseteq Snapshot /\ clock' \in Nat /\ Newest'
             /\ \A o \in snapshots : \E t \in snapshots' : t.path = o.path /\ t.at >= o.at
  <2>1. snapshots' \subseteq Snapshot /\ clock' \in Nat
    BY <1>1, <1>3
  <2>2. \A o \in snapshots' : o.at < clock' /\ o.at <= s.at
    BY <1>1, <1>3 DEF PodInv, Newest
  <2>3. ASSUME NEW o \in snapshots'
        PROVE  \E t \in snapshots' :
                 t.path = o.path /\ \A u \in snapshots' : u.path = o.path => u.at <= t.at
    <3>1. CASE o.path = s.path
      BY <1>3, <2>2, <3>1
    <3>2. CASE o.path # s.path
      <4>1. o \in snapshots
        BY <1>3, <3>2
      <4>2. PICK t \in snapshots :
              t.path = o.path /\ \A u \in snapshots : u.path = o.path => u.at <= t.at
        BY <4>1 DEF PodInv, Newest
      <4> QED  BY <1>3, <3>2, <4>2
    <3> QED  BY <3>1, <3>2
  <2>4. \A o \in snapshots : \E t \in snapshots' : t.path = o.path /\ t.at >= o.at
    BY <1>1, <1>3
  <2> QED  BY <2>1, <2>2, <2>3, <2>4 DEF Newest
<1>4. ASSUME NEW n \in Nat \ {0}, snapshots' = Kept(n), clock' = clock
      PROVE  /\ snapshots' \subseteq Snapshot /\ clock' \in Nat /\ Newest'
             /\ \A s \in snapshots : \E t \in snapshots' : t.path = s.path /\ t.at >= s.at
  <2>1. snapshots' \subseteq snapshots
    BY <1>4 DEF Kept
  <2>2. \A s \in snapshots : \E t \in snapshots' :
          t.path = s.path /\ \A u \in snapshots : u.path = s.path => u.at <= t.at
    BY <1>4, KeptNewest DEF PodInv
  <2>3. Newest'
    BY <1>4, <2>1, <2>2 DEF PodInv, Newest
  <2>4. \A s \in snapshots : \E t \in snapshots' : t.path = s.path /\ t.at >= s.at
    BY <1>1, <2>1, <2>2
  <2> QED  BY <1>1, <1>4, <2>1, <2>3, <2>4
<1> QED  BY <1>2, <1>3, <1>4 DEF StepShape, SnapshotStep

\* What a run has stored stays, or is replaced by newer snapshots.
LEMMA PreservedStays ==
  ASSUME PodInv, NEW r \in Runs, StepShape(r), NEW o \in Runs
  PROVE  Preserved(o)'
<1>1. \A s \in snapshots : \E t \in snapshots' : t.path = s.path /\ t.at >= s.at
  BY NewestStays
<1>2. run[o].stored \subseteq Snapshot /\ \A s \in Snapshot : s.at \in Nat
  BY DEF PodInv, Typed, PodRun, Snapshot
<1>3. snapshots \subseteq Snapshot /\ snapshots' \subseteq Snapshot
  BY NewestStays DEF PodInv, Typed
<1>4. \A s \in run[o].stored : \E t \in snapshots' : t.path = s.path /\ t.at >= s.at
  <2> TAKE s \in run[o].stored
  <2>1. PICK t \in snapshots : t.path = s.path /\ t.at >= s.at
    BY DEF PodInv, Preserved
  <2>2. PICK u \in snapshots' : u.path = t.path /\ u.at >= t.at
    BY <1>1
  <2> QED  BY <1>2, <1>3, <2>1, <2>2
<1>5. \A s \in run'[o].stored : s \in run[o].stored \/ (s \in snapshots' /\ s.at \in Nat)
  <2>1. CASE o # r
    BY <2>1 DEF StepShape, Others
  <2>2. CASE o = r
    BY <1>2, <2>2 DEF StepShape, SnapshotStep
  <2> QED  BY <2>1, <2>2
<1> QED  BY <1>4, <1>5 DEF Preserved

\* A run keeps to its script.
LEMMA PlacedStays ==
  ASSUME PodInv, NEW r \in Runs, StepShape(r), NEW o \in Runs
  PROVE  Placed(o)'
<1>1. Placed(o) /\ input' = input
  BY DEF PodInv, StepShape
<1>2. \A kind : ScriptOf(kind)' = ScriptOf(kind) /\ (Refused(kind)' <=> Refused(kind))
  BY <1>1, InputFixed
<1>3. CASE o # r
  <2>1. run'[o] = run[o]
    BY <1>3 DEF StepShape, Others
  <2> QED  BY <1>1, <1>2, <2>1 DEF Placed, Working
<1>4. ASSUME NEW kind \in Kinds, Start(r, kind), o = r
      PROVE  Placed(o)'
  <2>1. /\ run'[r].kind = kind /\ run'[r].script = ScriptOf(kind)
        /\ run'[r].line = 1 /\ run'[r].state = "running" /\ ~Refused(kind)
    BY <1>4, StartEffect DEF PodInv, Typed, Start
  <2>2. Len(ScriptOf(kind)) \in Nat \ {0}
    BY <2>1, EveryScript DEF PodInv, Typed, ScriptSound
  <2>3. 1 \in 1..Len(ScriptOf(kind))
    BY <2>2
  <2> QED  BY <1>2, <1>4, <2>1, <2>3 DEF Placed, Working
<1>5. CASE RunStep(r) /\ o = r
  <2>1. /\ run'[r].kind = run[r].kind /\ run'[r].script = run[r].script
        /\ run[r].state = "running"
    BY <1>5 DEF RunStep, Same, Working
  <2>2. /\ run[r].kind \in Kinds /\ run[r].line \in 1..Len(run[r].script)
        /\ run[r].script = ScriptOf(run[r].kind) /\ ~Refused(run[r].kind)
        /\ Len(run[r].script) \in Nat
    BY <2>1, CurrentSound DEF PodInv, ScriptSound, Working
  <2>3. CASE run'[r].state \in {"failed", "killed"} /\ run'[r].line = run[r].line
    BY <1>2, <1>5, <2>1, <2>2, <2>3 DEF Placed, Working
  <2>4. CASE run'[r].state = "running" /\ run'[r].line = run[r].line
    BY <1>2, <1>5, <2>1, <2>2, <2>4 DEF Placed, Working
  <2>5. CASE /\ run'[r].line = run[r].line + 1
             /\ run'[r].state = IF run[r].line = Len(run[r].script) THEN "succeeded" ELSE "running"
    BY <1>2, <1>5, <2>1, <2>2, <2>5 DEF Placed, Working
  <2> QED  BY <1>5, <2>3, <2>4, <2>5 DEF RunStep
<1> QED  BY <1>3, <1>4, <1>5 DEF StepShape

\* A working command keeps its lock, whatever the others do.
LEMMA HoldsStays ==
  ASSUME PodInv, NEW r \in Runs, StepShape(r), NEW o \in Runs
  PROVE  Holds(o)'
<1>1. /\ run \in [Runs -> PodRun] /\ run' \in [Runs -> PodRun]
      /\ locks \subseteq Lock /\ locks' \subseteq Lock
  BY DEF PodInv, Typed, StepShape
<1>2. CASE BeginCommand(r)
  <2> DEFINE new == [run |-> r, exclusive |-> Exclusive(Current(r)), stale |-> FALSE]
  <2>1. /\ run'[r].busy /\ run'[r].state = run[r].state
        /\ run'[r].line = run[r].line /\ run'[r].script = run[r].script /\ Others(r)
    BY <1>1, <1>2, BeginEffect DEF BeginCommand, Same
  <2>2. /\ locks' = locks \cup {new} /\ new.run = r /\ ~new.stale
        /\ new.exclusive = Exclusive(Current(r))
        /\ ~run[r].busy /\ Working(r) /\ Locks(Current(r))
    BY <1>2 DEF BeginCommand
  <2> HIDE DEF new
  <2>3. CASE o # r
    <3>1. run'[o] = run[o]
      BY <2>1, <2>3 DEF Others
    <3> QED  BY <2>2, <2>3, <3>1 DEF PodInv, Holds, Working, Current
  <2>4. CASE o = r
    <3>1. \A l \in locks : l.run = r => l.stale
      BY <2>2 DEF PodInv, Holds
    <3>2. Current(r)' = Current(r) /\ Working(r)'
      BY <2>1, <2>2 DEF Current, Working
    <3> QED  BY <2>1, <2>2, <2>4, <3>1, <3>2 DEF Holds
  <2> QED  BY <2>3, <2>4
<1>3. CASE /\ ~run'[r].busy
           /\ \A l \in Lock : l.run # r /\ ~l.stale => (l \in locks' <=> l \in locks)
           /\ \A l \in locks' : l.run = r => l.stale
  <2>1. CASE o # r
    <3>1. run'[o] = run[o]
      BY <2>1 DEF StepShape, Others
    <3> QED  BY <1>1, <1>3, <2>1, <3>1 DEF PodInv, Holds, Working, Current
  <2>2. CASE o = r
    BY <1>3, <2>2 DEF Holds
  <2> QED  BY <2>1, <2>2
<1> QED  BY <1>2, <1>3 DEF StepShape, LockStep

\* What is behind a run stays done.
LEMMA DoneStays ==
  ASSUME PodInv, NEW r \in Runs, StepShape(r), NEW o \in Runs
  PROVE  Done(o)'
<1>1. Done(o) /\ run[r].line \in Nat /\ run' \in [Runs -> PodRun]
  BY DEF PodInv, Typed, PodRun, StepShape
<1>2. CASE o # r
  <2>1. run'[o] = run[o]
    BY <1>2 DEF StepShape, Others
  <2> QED  BY <1>1, <2>1 DEF Done
<1>3. ASSUME NEW kind \in Kinds, Start(r, kind), o = r
      PROVE  Done(o)'
  <2>1. run'[r].line = 1
    BY <1>3, StartEffect DEF PodInv, Typed
  <2> QED  BY <1>3, <2>1 DEF Done
<1>4. CASE RunStep(r) /\ o = r
  <2>1. run'[r].script = run[r].script
    BY <1>4 DEF RunStep, Same
  <2>2. CASE run'[r].line = run[r].line /\ run'[r].stored = run[r].stored
    BY <1>1, <1>4, <2>1, <2>2, SMTT(30) DEF Done
  <2>3. CASE /\ run'[r].line = run[r].line + 1
             /\ Current(r).command # "script"
             /\ run[r].stored \subseteq run'[r].stored
             /\ Current(r).command = "backup" => Taken(Current(r)) \in run'[r].stored
    <3>1. \A i \in 1 .. run'[r].line - 1 : i \in 1 .. run[r].line - 1 \/ i = run[r].line
      BY <1>1, <2>3
    <3>2. Taken(Current(r)).path = Current(r).path /\ Taken(Current(r)).tag = Current(r).tag
      BY DEF Taken
    <3> QED  BY <1>1, <1>4, <2>1, <2>3, <3>1, <3>2 DEF Done, Current
  <2> QED  BY <1>4, <2>2, <2>3 DEF RunStep
<1> QED  BY <1>2, <1>3, <1>4 DEF StepShape

\* A check that is up was set by a run that succeeded.
LEMMA UpStays ==
  ASSUME PodInv, NEW r \in Runs, StepShape(r)
  PROVE  Up'
<1>1. CASE check' = check \/ check' = "down"
  <2>1. \A o \in Runs : run[o].state = "succeeded" => run'[o] = run[o]
    <3>1. run[r].state # "succeeded"
      BY DEF StepShape, RunStep, Working, Start
    <3> QED  BY <3>1 DEF StepShape, Others
  <2> QED  BY <1>1, <2>1 DEF Up, PodInv
<1>2. CASE check' = "up" /\ run'[r].kind = "backup" /\ run'[r].state = "succeeded"
  BY <1>2 DEF Up
<1> QED  BY <1>1, <1>2 DEF StepShape, CheckStep

-------------------------------------------------------------------------------
(* The invariant of the runs holds *)

\* The invariant holds at the start,
LEMMA PodInvStart == Init => PodInv
<1> SUFFICES ASSUME Init PROVE PodInv
  OBVIOUS
<1>1. /\ input \in Inputs /\ snapshots = {} /\ locks = {} /\ check = "new" /\ clock = 0
      /\ faults = 0 /\ \A r \in Runs : run[r] = NoRun
  BY DEF Init
<1>2. /\ NoRun.kind = "none" /\ NoRun.line = 1 /\ ~NoRun.busy /\ NoRun.stored = {}
      /\ NoRun.state = "waiting"
  BY DEF NoRun
<1>3. NoRun \in PodRun
  BY DEF NoRun, PodRun, Scripts, States
<1>4. Typed
  BY <1>1, <1>3, InputAssumption DEF Typed, Given, Init
<1>5. \A r \in Runs : Placed(r) /\ Holds(r) /\ Preserved(r)
  BY <1>1, <1>2 DEF Placed, Holds, Preserved, Working
<1>6. \A r \in Runs : Done(r)
  BY <1>1, <1>2 DEF Done
<1>7. Alone /\ Newest /\ Up
  BY <1>1 DEF Alone, Newest, Up
<1>8. Faultless
  BY <1>1, <1>2 DEF Faultless
<1> QED  BY <1>4, <1>5, <1>6, <1>7, <1>8 DEF PodInv

\* when nothing happens,
LEMMA PodInvStutters == PodInv /\ UNCHANGED vars => PodInv'
<1> SUFFICES ASSUME PodInv, UNCHANGED vars PROVE PodInv'
  OBVIOUS
<1>1. /\ input' = input /\ run' = run /\ snapshots' = snapshots /\ locks' = locks
      /\ check' = check /\ clock' = clock /\ faults' = faults
  BY DEF vars
<1>2. /\ PodRun' = PodRun /\ (Given <=> Given') /\ spec' = spec
      /\ \A kind : ScriptOf(kind)' = ScriptOf(kind) /\ (Refused(kind)' <=> Refused(kind))
  BY <1>1, InputFixed
<1>3. Typed'
  BY <1>1, <1>2 DEF PodInv, Typed
<1>4. \A r \in Runs : Placed(r)' /\ Holds(r)' /\ Done(r)' /\ Preserved(r)'
  BY <1>1, <1>2 DEF PodInv, Placed, Holds, Done, Preserved, Working, Current
<1>5. Alone' /\ Newest' /\ Up' /\ Faultless'
  BY <1>1, <1>2 DEF PodInv, Alone, Newest, Up, Faultless
<1> QED  BY <1>3, <1>4, <1>5 DEF PodInv

\* and after every step.
LEMMA PodInvKept == PodInv /\ [Next]_vars => PodInv'
<1>1. ASSUME PodInv, Next
      PROVE  PodInv'
  <2>1. PICK r \in Runs : StepShape(r)
    BY <1>1, EveryShape
  <2>2. Alone' /\ Faultless'
    BY <1>1, EveryShape
  <2>3. snapshots' \subseteq Snapshot /\ clock' \in Nat /\ Newest'
    BY <1>1, <2>1, NewestStays
  <2>4. Typed'
    <3>1. PodRun' = PodRun /\ (Given <=> Given')
      BY <2>1, InputFixed DEF StepShape
    <3>2. check' \in {"new", "up", "down"}
      BY <1>1, <2>1 DEF StepShape, CheckStep, PodInv, Typed
    <3> QED  BY <1>1, <2>1, <2>3, <3>1, <3>2 DEF StepShape, PodInv, Typed
  <2>5. \A o \in Runs : Placed(o)' /\ Holds(o)' /\ Done(o)' /\ Preserved(o)'
    BY <1>1, <2>1, PlacedStays, HoldsStays, DoneStays, PreservedStays
  <2>6. Up'
    BY <1>1, <2>1, UpStays
  <2> QED  BY <2>2, <2>3, <2>4, <2>5, <2>6 DEF PodInv
<1> QED  BY <1>1, PodInvStutters

\* So it always holds.
LEMMA PodInvariance == Spec => []PodInv
BY PodInvStart, PodInvKept, PTL DEF Spec

-------------------------------------------------------------------------------
(* Theorems of the runs *)

\* Every run is at a line of its script, only a working one holds a live lock, and
\* the clock is ahead of every snapshot (the script of Render, the locks of restic).
THEOREM PodTypeCorrect == Spec => []TypeOK
<1>1. PodInv => TypeOK
  <2> SUFFICES ASSUME PodInv PROVE TypeOK
    OBVIOUS
  <2>1. \A r \in Runs : run[r].state \in States
    BY DEF PodInv, Typed, PodRun
  <2>2. \A r \in Runs : Working(r) => run[r].line \in DOMAIN run[r].script
    <3> SUFFICES ASSUME NEW r \in Runs, Working(r)
                 PROVE  run[r].line \in DOMAIN run[r].script
      OBVIOUS
    <3>1. /\ run[r].line \in 1..Len(run[r].script) /\ run[r].kind \in Kinds
          /\ run[r].script = ScriptOf(run[r].kind) /\ ~Refused(run[r].kind)
      BY CurrentSound DEF PodInv
    <3> QED  BY <3>1, ScriptDomain DEF PodInv, Typed
  <2>3. \A r \in Runs : run[r].busy <=> \E l \in locks : l.run = r /\ ~l.stale
    BY DEF PodInv, Holds
  <2>4. \A s \in snapshots : s.at < clock
    BY DEF PodInv, Newest
  <2> QED  BY <2>1, <2>2, <2>3, <2>4 DEF TypeOK, States, PodInv, Typed
<1> QED  BY <1>1, PodInvariance, PTL

\* A run past the last line of its script has stored every source.
LEMMA DoneStoresAll ==
  ASSUME PodInv, NEW r \in Runs, run[r].kind = "backup", run[r].state # "waiting",
         NEW n \in Nat, n <= run[r].line - 1, n <= Len(run[r].script),
         \A source \in Sources : \E j \in 1..n : Stores(run[r].script[j], source)
  PROVE  StoredAll(r)
<1> SUFFICES ASSUME NEW source \in Sources
             PROVE  \E s \in run[r].stored :
                      s.path = SourcePath(source) /\ s.tag = SourceTag(source)
  BY DEF StoredAll
<1>1. PICK j \in 1..n : Stores(run[r].script[j], source)
  OBVIOUS
<1>2. run[r].line \in Nat
  BY DEF PodInv, Typed, PodRun
<1>3. j \in 1 .. run[r].line - 1
  BY <1>2
<1> QED  BY <1>1, <1>3 DEF PodInv, Done, Stores

\* A run that succeeded has stored every source.
LEMMA SucceededStoredAll ==
  ASSUME PodInv, NEW r \in Runs, run[r].kind = "backup", run[r].state = "succeeded"
  PROVE  StoredAll(r)
<1>1. /\ run[r].line = Len(run[r].script) + 1 /\ ~Refused("backup")
      /\ run[r].script = ScriptOf("backup")
  BY DEF PodInv, Placed
<1>2. ScriptSound("backup", run[r].script)
  BY <1>1, EveryScript DEF PodInv, Typed, Kinds
<1>3. Len(run[r].script) \in Nat \ {0} /\ run[r].line - 1 = Len(run[r].script)
  BY <1>1, <1>2 DEF ScriptSound
<1>4. run[r].script[1].command # "script"
  <2>1. 1 \in 1 .. run[r].line - 1
    BY <1>3
  <2> QED  BY <2>1 DEF PodInv, Done
<1>5. \A source \in Sources : \E j \in 1..Len(run[r].script) : Stores(run[r].script[j], source)
  BY <1>2, <1>4 DEF ScriptSound
<1> QED  BY <1>3, <1>5, DoneStoresAll

\* The exit code of a script (set -eu in internal/backup/script.go) can be trusted:
\* whatever the sources, the retention and the runs beside it, one that succeeds
\* has stored every source, of each of which there is still a snapshot as new, and
\* a check that is up was set by such a run.
THEOREM SuccessAlwaysStored == Spec => []SuccessMeansStored
<1>1. PodInv => SuccessMeansStored
  BY SucceededStoredAll DEF SuccessMeansStored, PodInv, Preserved, Up
<1> QED  BY <1>1, PodInvariance, PTL

\* With a retryLock, and neither a fault nor a repository that refuses the pass of
\* the retention, no backup fails because of the runs beside it.
THEOREM OverlapNeverFails == Spec => []OverlapIsNoFailure
<1>1. PodInv => OverlapIsNoFailure
  BY DEF PodInv, Faultless, OverlapIsNoFailure
<1> QED  BY <1>1, PodInvariance, PTL

\* What NothingLostToFailure says of a step.
NothingLost ==
  ~(snapshots \subseteq snapshots') =>
    /\ \E r \in Runs :
         /\ Working(r) /\ (run[r].kind = "prune" \/ StoredAll(r))
         /\ \A other \in Runs : run[other].busy => other = r
    /\ \A s \in snapshots : \E t \in snapshots' : t.path = s.path /\ t.at >= s.at

\* Who forgets works alone, and has stored what it is about to prune, unless it is
\* corg prune.
LEMMA ForgetsAlone ==
  ASSUME PodInv, NEW r \in Runs, EndForget(r)
  PROVE  /\ Working(r) /\ (run[r].kind = "prune" \/ StoredAll(r))
         /\ \A other \in Runs : run[other].busy => other = r
<1>1. Working(r) /\ run[r].busy /\ Current(r).command = "forget" /\ run[r].state = "running"
  BY DEF EndForget, Working
<1>2. /\ run[r].kind \in Kinds /\ run[r].line \in 1..Len(run[r].script)
      /\ LineSound(run[r].kind, run[r].script, run[r].line)
      /\ run[r].script = ScriptOf(run[r].kind) /\ ~Refused(run[r].kind)
      /\ Len(run[r].script) \in Nat
  BY <1>1, CurrentSound DEF PodInv, ScriptSound
<1>3. run[r].kind # "unlock"
  <2> SUFFICES ASSUME run[r].kind = "unlock" PROVE FALSE
    OBVIOUS
  <2> DEFINE line == UnlockCommand(FALSE)
  <2>1. run[r].script = <<line>>
    BY <1>2 DEF ScriptOf
  <2>2. line.command = "unlock"
    BY DEF UnlockCommand
  <2> HIDE DEF line
  <2>3. \A i \in 1..Len(<<line>>) : <<line>>[i] = line
    OBVIOUS
  <2>4. run[r].line \in 1..Len(<<line>>)
    BY <1>2, <2>1, Zenon
  <2> QED  BY <1>1, <2>1, <2>2, <2>3, <2>4, Zenon DEF Current
<1>4. run[r].kind = "backup" => StoredAll(r)
  <2> SUFFICES ASSUME run[r].kind = "backup" PROVE StoredAll(r)
    OBVIOUS
  <2> DEFINE n == run[r].line - 1
  <2>1. \A source \in Sources : \E j \in 1..n : Stores(run[r].script[j], source)
    BY <1>1, <1>2 DEF LineSound, Current
  <2>2. n \in Nat /\ n <= run[r].line - 1 /\ n <= Len(run[r].script)
    BY <1>2
  <2> HIDE DEF n
  <2> QED  BY <1>1, <2>1, <2>2, DoneStoresAll
<1>5. ASSUME NEW other \in Runs, run[other].busy
      PROVE  other = r
  <2>1. PICK l \in locks : l.run = r /\ ~l.stale
    BY <1>1 DEF PodInv, Holds
  <2>2. PICK m \in locks : m.run = other /\ ~m.stale
    BY <1>5 DEF PodInv, Holds
  <2>3. l.exclusive
    BY <1>1, <2>1 DEF PodInv, Holds, Exclusive
  <2> QED  BY <2>1, <2>2, <2>3 DEF PodInv, Alone
<1> QED  BY <1>1, <1>2, <1>3, <1>4, <1>5 DEF Kinds

\* Snapshots go only with a retention pass (the order of the lines of Render): one of
\* corg prune, or of a run that has stored every source before. It works alone and
\* leaves the newest of each path.
THEOREM NothingEverLost == Spec => NothingLostToFailure
<1>1. PodInv /\ [Next]_vars => [NothingLost]_vars
  <2> SUFFICES ASSUME PodInv, Next PROVE NothingLost
    OBVIOUS
  <2>1. PICK r \in Runs : StepShape(r)
    BY EveryShape
  <2>2. \A s \in snapshots : \E t \in snapshots' : t.path = s.path /\ t.at >= s.at
    BY <2>1, NewestStays, SMTT(30)
  <2>3. ~(snapshots \subseteq snapshots') => \E o \in Runs : EndForget(o)
    BY DEF Next, Start, BeginCommand, GiveUpAtOnce, GiveUpWaiting, EndBackup, ForgetDenied,
       EndUnlocked, CommandFails, Kill
  <2> QED  BY <2>2, <2>3, ForgetsAlone DEF NothingLost
<1> QED  BY <1>1, PodInvariance, PTL DEF Spec, NothingLostToFailure, NothingLost

-------------------------------------------------------------------------------
(* What the builder makes *)

\* The affinity of a pod names what it requires.
LEMMA AffinityTyped ==
  ASSUME Given
  PROVE  "required" \in DOMAIN Or(spec.affinity, DefaultAffinity(spec))
<1>1. "required" \in DOMAIN DefaultAffinity(spec)
  BY DEF DefaultAffinity, NoAffinity
<1>2. \A a \in spec.affinity : "required" \in DOMAIN a
  BY InputAssumption DEF Given, spec, Affinity
<1>3. spec.affinity # {} => (CHOOSE v \in spec.affinity : TRUE) \in spec.affinity
  OBVIOUS
<1> QED  BY <1>1, <1>2, <1>3 DEF Or

\* What the runner makes of a template: the volumes and mounts of a one-off Job.
RunnerVolumes(volumes, o) ==
  {v \in IF o.mountCache THEN volumes
         ELSE {IF v.name = "cache" THEN Volume("cache", EmptyDir) ELSE v : v \in volumes} :
     (v.name = "data" => o.mountData) /\ (v.name = "db-credentials" => o.mountDatabase)}
RunnerMounts(mounts, o) ==
  {m \in IF o.mountData
           THEN {IF m.name = "data" THEN [m EXCEPT !.readOnly = FALSE] ELSE m : m \in mounts}
           ELSE {m \in mounts : m.name # "data"} :
     m.name = "db-credentials" => o.mountDatabase}
LEMMA RunnerFields ==
  ASSUME NEW t, DOMAIN t = Fields, "required" \in DOMAIN t.affinity, NEW o
  PROVE  LET job == RunnerJob(t, o) IN
         /\ job.command.runitor = FALSE
         /\ job.labels = {"corg"} \cup (t.labels \cap {"mariadb-client"})
         /\ job.envFrom = t.envFrom
         /\ job.affinity.required = IF o.mountData THEN t.affinity.required ELSE {}
         /\ job.volumes = RunnerVolumes(t.volumes, o)
                            \cup {Volume(x.name, x.source) : x \in o.extra}
         /\ job.mounts = RunnerMounts(t.mounts, o)
                            \cup {Mount(x.name, x.path, x.readOnly) : x \in o.extra}
<1> DEFINE
  base  == [t EXCEPT !.ttl = 600, !.idle = o.tty, !.image = Or(o.image, @),
              !.command = [runitor |-> FALSE, create |-> FALSE, script |-> o.command],
              !.labels = {"corg"} \cup (@ \cap {"mariadb-client"})]
  cache == IF o.mountCache THEN base ELSE EphemeralCache(base)
  data  == IF o.mountData THEN WritableData(cache) ELSE DropData(cache)
  db    == IF o.mountDatabase THEN data ELSE Without(data, {"db-credentials"})
  same(j) == /\ DOMAIN j = Fields /\ j.command.runitor = FALSE /\ j.envFrom = t.envFrom
             /\ j.labels = {"corg"} \cup (t.labels \cap {"mariadb-client"})
<1>1. /\ same(base) /\ base.volumes = t.volumes /\ base.mounts = t.mounts
      /\ base.affinity = t.affinity
  BY DEF Fields
<1> HIDE DEF base
<1> DEFINE ephemeral(V) == {IF v.name = "cache" THEN Volume("cache", EmptyDir) ELSE v : v \in V}
           writable(M) == {IF m.name = "data" THEN [m EXCEPT !.readOnly = FALSE] ELSE m : m \in M}
<1>2. /\ same(cache) /\ cache.mounts = t.mounts /\ cache.affinity = t.affinity
      /\ cache.volumes = IF o.mountCache THEN t.volumes ELSE ephemeral(t.volumes)
  BY <1>1 DEF EphemeralCache, Fields
<1> HIDE DEF cache
<1>3. /\ same(data)
      /\ data.affinity.required = IF o.mountData THEN t.affinity.required ELSE {}
      /\ data.volumes = {v \in cache.volumes : v.name = "data" => o.mountData}
      /\ data.mounts = IF o.mountData THEN writable(t.mounts)
                       ELSE {m \in t.mounts : m.name # "data"}
  <2>1. CASE o.mountData
    BY <1>2, <2>1 DEF WritableData, Fields
  <2>2. CASE ~o.mountData
    BY <1>2, <2>2 DEF DropData, Without, Fields
  <2> QED  BY <2>1, <2>2
<1> HIDE DEF data
<1>4. /\ same(db) /\ db.affinity = data.affinity
      /\ db.volumes = {v \in data.volumes : v.name = "db-credentials" => o.mountDatabase}
      /\ db.mounts = {m \in data.mounts : m.name = "db-credentials" => o.mountDatabase}
  <2>1. CASE o.mountDatabase
    BY <1>3, <2>1
  <2>2. CASE ~o.mountDatabase
    BY <1>3, <2>2 DEF Without, Fields
  <2> QED  BY <2>1, <2>2
<1>5. RunnerJob(t, o) =
        [db EXCEPT !.volumes = @ \cup {Volume(x.name, x.source) : x \in o.extra},
                   !.mounts  = @ \cup {Mount(x.name, x.path, x.readOnly) : x \in o.extra}]
  BY DEF RunnerJob, db, data, cache, base
<1> HIDE DEF db
<1> DEFINE volumes == {Volume(x.name, x.source) : x \in o.extra}
           mounts == {Mount(x.name, x.path, x.readOnly) : x \in o.extra}
<1> HIDE DEF volumes, mounts
<1>6. LET job == [db EXCEPT !.volumes = @ \cup volumes, !.mounts = @ \cup mounts] IN
      /\ same(job) /\ job.affinity = db.affinity
      /\ job.volumes = db.volumes \cup volumes /\ job.mounts = db.mounts \cup mounts
  BY <1>4 DEF Fields
<1>7. db.volumes = RunnerVolumes(t.volumes, o)
  BY <1>2, <1>3, <1>4 DEF RunnerVolumes
<1>8. db.mounts = RunnerMounts(t.mounts, o)
  BY <1>3, <1>4 DEF RunnerMounts
<1> QED  BY <1>3, <1>4, <1>5, <1>6, <1>7, <1>8 DEF volumes, mounts

\* The claim of the app, its mount path and the Secret of the database are none of those
\* that the operator and corg make.
NamesApart ==
  \A i \in Inputs :
    /\ \A v \in i.spec.volume : /\ v.existingClaim \notin {OwnCache, "new claim"}
                                /\ MountPath(v) \notin {CachePath, SecretPath, "/restore",
                                                        "/newkey"}
    /\ \A db \in i.spec.database : DatabaseSecret(db) # "new key"

\* The volumes of a pod, and those of a one-off Job.
LEMMA VolumesAre ==
  ASSUME NEW v \in Volumes(spec)
  PROVE  \/ v.name = "cache" /\ v.source = Claim(OwnCache) /\ CacheEnabled(spec)
         \/ v.name = "db-credentials" /\ \E db \in spec.database :
              v.source = Secret(DatabaseSecret(db))
         \/ v.name = "data" /\ \E a \in spec.volume : v.source = Claim(a.existingClaim)
  BY DEF Volumes, Volume
\* Of its volumes a one-off Job has those it was asked for.
LEMMA RunnerVolumesAre ==
  ASSUME NEW o \in RunnerOptions,
         NEW v \in RunnerVolumes(Volumes(spec), o) \cup {Volume(x.name, x.source) : x \in o.extra}
  PROVE  \/ v.name = "cache" /\ v.source = IF o.mountCache THEN Claim(OwnCache) ELSE EmptyDir
         \/ /\ v.name = "db-credentials" /\ o.mountDatabase
            /\ \E db \in spec.database : v.source = Secret(DatabaseSecret(db))
         \/ /\ v.name = "data" /\ o.mountData
            /\ \E a \in spec.volume : v.source = Claim(a.existingClaim)
         \/ \E x \in o.extra : v.name = x.name /\ v.source = x.source
<1>1. CASE v \in {Volume(x.name, x.source) : x \in o.extra}
  BY <1>1 DEF Volume
<1>2. CASE v \in RunnerVolumes(Volumes(spec), o)
  <2>1. /\ v.name = "data" => o.mountData
        /\ v.name = "db-credentials" => o.mountDatabase
    BY <1>2 DEF RunnerVolumes
  <2>2. CASE o.mountCache
    <3>1. v \in Volumes(spec)
      BY <1>2, <2>2 DEF RunnerVolumes
    <3> QED  BY <2>1, <2>2, <3>1, VolumesAre
  <2>3. CASE ~o.mountCache
    <3>1. PICK u \in Volumes(spec) :
            v = IF u.name = "cache" THEN Volume("cache", EmptyDir) ELSE u
      BY <1>2, <2>3 DEF RunnerVolumes
    <3>2. CASE u.name = "cache"
      BY <2>3, <3>1, <3>2 DEF Volume
    <3>3. CASE u.name # "cache"
      BY <2>1, <2>3, <3>1, <3>3, VolumesAre
    <3> QED  BY <3>2, <3>3
  <2> QED  BY <2>2, <2>3
<1> QED  BY <1>1, <1>2

\* What corg adds to a one-off Job.
LEMMA ExtrasAre ==
  ASSUME NEW o \in RunnerOptions
  PROVE  /\ \A x \in o.extra :
              \/ x.name = "restore-target" /\ x.source = Claim("new claim") /\ x.path = "/restore"
              \/ x.name = "newkey" /\ x.source = Secret("new key") /\ x.path = "/newkey"
         /\ \A x, y \in o.extra : x = y
<1> DEFINE restore == [name |-> "restore-target", source |-> Claim("new claim"),
                       path |-> "/restore", readOnly |-> FALSE]
           newkey == [name |-> "newkey", source |-> Secret("new key"), path |-> "/newkey",
                      readOnly |-> TRUE]
<1>1. o.extra \in Extras
  BY DEF RunnerOptions
<1>2. Extras = {{}, {restore}, {newkey}}
  BY DEF Extras
<1>3. /\ restore.name = "restore-target" /\ restore.source = Claim("new claim")
      /\ restore.path = "/restore"
      /\ newkey.name = "newkey" /\ newkey.source = Secret("new key")
      /\ newkey.path = "/newkey"
  OBVIOUS
<1> HIDE DEF restore, newkey
<1> QED  BY <1>1, <1>2, <1>3

\* A one-off Job of corg leaves the backup alone, for every backup and every combination of
\* options: what it was not asked to mount it cannot touch, it may run anywhere then, and it
\* reports to no check (internal/cli/shell.go:34-37).
THEOREM OneOffsLeaveAlone ==
  ASSUME NamesApart
  PROVE  Spec => []OneOffLeavesBackupAlone
<1>1. Given => OneOffLeavesBackupAlone
  <2> SUFFICES ASSUME Given, Template # Rejected, NEW o \in RunnerOptions
               PROVE  LET job == RunnerJob(Template, o)
                          sources == {v.source : v \in job.volumes} IN
        /\ ~job.command.runitor
        /\ ~o.mountCache => Claim(OwnCache) \notin sources
        /\ ~o.mountData => /\ \A v \in spec.volume : Claim(v.existingClaim) \notin sources
                           /\ job.affinity.required = {}
        /\ ~o.mountDatabase =>
             \A db \in spec.database : Secret(DatabaseSecret(db)) \notin sources
        /\ job.labels \subseteq {"corg", "mariadb-client"}
    BY DEF OneOffLeavesBackupAlone
  <2> DEFINE job == RunnerJob(Template, o)
  <2>1. /\ DOMAIN Template = Fields /\ Template.volumes = Volumes(spec)
        /\ "required" \in DOMAIN Template.affinity
    BY TemplateIs, JobFields, AffinityTyped
  <2>2. /\ job.command.runitor = FALSE
        /\ job.labels = {"corg"} \cup (Template.labels \cap {"mariadb-client"})
        /\ ~o.mountData => job.affinity.required = {}
        /\ job.volumes = RunnerVolumes(Volumes(spec), o)
                           \cup {Volume(x.name, x.source) : x \in o.extra}
    BY <2>1, RunnerFields
  <2> HIDE DEF job
  <2>3. /\ \A v \in spec.volume : v.existingClaim \notin {OwnCache, "new claim"}
        /\ \A db \in spec.database : DatabaseSecret(db) # "new key"
    BY NamesApart DEF NamesApart, Given, spec
  <2>4. /\ \A a, b : Claim(a) = Claim(b) => a = b
        /\ \A a, b : Secret(a) = Secret(b) => a = b
        /\ \A a, b : Claim(a) # Secret(b) /\ Claim(a) # EmptyDir /\ Secret(a) # EmptyDir
    BY DEF Claim, Secret, EmptyDir
  <2>5. OwnCache # "new claim"
    BY DEF OwnCache
  <2>6. ASSUME NEW v \in job.volumes
        PROVE  /\ ~o.mountCache => v.source # Claim(OwnCache)
               /\ ~o.mountData => \A a \in spec.volume : v.source # Claim(a.existingClaim)
               /\ ~o.mountDatabase =>
                    \A db \in spec.database : v.source # Secret(DatabaseSecret(db))
    <3>1. \/ v.source = IF o.mountCache THEN Claim(OwnCache) ELSE EmptyDir
          \/ o.mountDatabase /\ \E db \in spec.database : v.source = Secret(DatabaseSecret(db))
          \/ o.mountData /\ \E a \in spec.volume : v.source = Claim(a.existingClaim)
          \/ \E x \in o.extra : v.source = x.source
      BY <2>2, RunnerVolumesAre
    <3>2. CASE v.source = IF o.mountCache THEN Claim(OwnCache) ELSE EmptyDir
      BY <2>3, <2>4, <3>2
    <3>3. CASE o.mountDatabase /\ \E db \in spec.database : v.source = Secret(DatabaseSecret(db))
      BY <2>4, <3>3
    <3>4. CASE o.mountData /\ \E a \in spec.volume : v.source = Claim(a.existingClaim)
      BY <2>3, <2>4, <3>4
    <3>5. CASE \E x \in o.extra : v.source = x.source
      <4>1. v.source = Claim("new claim") \/ v.source = Secret("new key")
        BY <3>5, ExtrasAre
      <4> QED  BY <2>3, <2>4, <2>5, <4>1
    <3> QED  BY <3>1, <3>2, <3>3, <3>4, <3>5
  <2> QED  BY <2>2, <2>6 DEF job
<1> QED  BY <1>1, InputStays, PTL

\* The mounts of a pod.
CacheMount == Mount("cache", CachePath, FALSE)
DatabaseMount == Mount("db-credentials", SecretPath, TRUE)
DataMount(a) == Mount("data", MountPath(a), a.readOnly)
Writable(m) == [m EXCEPT !.readOnly = FALSE]
\* The names and the paths of mounts.
LEMMA MountParts ==
  /\ CacheMount.name = "cache" /\ CacheMount.path = CachePath
  /\ DatabaseMount.name = "db-credentials" /\ DatabaseMount.path = SecretPath
  /\ \A a : /\ DataMount(a).name = "data" /\ DataMount(a).path = MountPath(a)
            /\ Writable(DataMount(a)).name = "data"
            /\ Writable(DataMount(a)).path = MountPath(a)
  /\ \A x : LET m == Mount(x.name, x.path, x.readOnly) IN m.name = x.name /\ m.path = x.path
  BY DEF CacheMount, DatabaseMount, DataMount, Writable, Mount
\* A pod mounts the cache, the credentials and the data, if the spec has them.
LEMMA MountsAre ==
  ASSUME NEW m
  PROVE  m \in Mounts(spec) <=> \/ m = CacheMount /\ CacheEnabled(spec)
                                \/ m = DatabaseMount /\ spec.database # {}
                                \/ \E a \in spec.volume : m = DataMount(a)
  BY DEF Mounts, CacheMount, DatabaseMount, DataMount
\* A one-off Job mounts of them what it was asked for, and may write to the data.
LEMMA RunnerMountsAre ==
  ASSUME NEW o, NEW m \in RunnerMounts(Mounts(spec), o)
  PROVE  \/ m = CacheMount /\ CacheEnabled(spec)
         \/ m = DatabaseMount /\ o.mountDatabase
         \/ o.mountData /\ \E a \in spec.volume : m = Writable(DataMount(a))
<1>1. m.name = "db-credentials" => o.mountDatabase
  BY DEF RunnerMounts
<1>2. CASE ~o.mountData
  <2>1. m \in Mounts(spec) /\ m.name # "data"
    BY <1>2 DEF RunnerMounts
  <2> QED  BY <1>1, <2>1, MountsAre, MountParts
<1>3. CASE o.mountData
  <2>1. PICK n \in Mounts(spec) : m = IF n.name = "data" THEN Writable(n) ELSE n
    BY <1>3 DEF RunnerMounts, Writable
  <2> QED  BY <1>1, <1>3, <2>1, MountsAre, MountParts
<1> QED  BY <1>2, <1>3

\* The names of volumes and mounts are the same.
NamesIn(things) == {t.name : t \in things}
LEMMA SameNames ==
  /\ NamesIn(Mounts(spec)) = NamesIn(Volumes(spec))
  /\ \A o : NamesIn(RunnerMounts(Mounts(spec), o)) = NamesIn(RunnerVolumes(Volumes(spec), o))
<1>1. ASSUME NEW name
      PROVE  name \in NamesIn(Volumes(spec)) <=> name \in NamesIn(Mounts(spec))
  <2> DEFINE there == \/ name = "cache" /\ CacheEnabled(spec)
                      \/ name = "db-credentials" /\ spec.database # {}
                      \/ name = "data" /\ spec.volume # {}
  <2>1. \A n, source : Volume(n, source).name = n
    BY DEF Volume
  <2>2. name \in NamesIn(Volumes(spec)) <=> there
    BY <2>1 DEF NamesIn, Volumes
  <2>3. name \in NamesIn(Mounts(spec)) <=> there
    <3> DEFINE M == Mounts(spec)
    <3>1. \A m : m \in M <=> \/ m = CacheMount /\ CacheEnabled(spec)
                             \/ m = DatabaseMount /\ spec.database # {}
                             \/ \E a \in spec.volume : m = DataMount(a)
      BY MountsAre
    <3> HIDE DEF M
    <3>2. name \in NamesIn(M) <=> \E m \in M : m.name = name
      BY DEF NamesIn
    <3>3. (\E m \in M : m.name = name) => there
      BY <3>1, MountParts
    <3>4. there => \E m \in M : m.name = name
      <4>1. CASE name = "cache" /\ CacheEnabled(spec)
        BY <3>1, <4>1, MountParts
      <4>2. CASE name = "db-credentials" /\ spec.database # {}
        BY <3>1, <4>2, MountParts
      <4>3. CASE name = "data" /\ spec.volume # {}
        <5>1. PICK a \in spec.volume : TRUE
          BY <4>3
        <5> QED  BY <3>1, <4>3, <5>1, MountParts
      <4> QED  BY <4>1, <4>2, <4>3
    <3> HIDE DEF there
    <3> QED  BY <3>2, <3>3, <3>4 DEF M
  <2> QED  BY <2>2, <2>3
<1>2. ASSUME NEW o, NEW name
      PROVE  name \in NamesIn(RunnerVolumes(Volumes(spec), o)) <=>
               /\ name \in NamesIn(Volumes(spec))
               /\ (name = "data" => o.mountData) /\ (name = "db-credentials" => o.mountDatabase)
  <2> DEFINE V == Volumes(spec)
  <2> HIDE DEF V
  <2>1. CASE o.mountCache
    BY <2>1 DEF RunnerVolumes, NamesIn
  <2>2. CASE ~o.mountCache
    <3> DEFINE given(v) == IF v.name = "cache" THEN Volume("cache", EmptyDir) ELSE v
    <3>1. \A v : given(v).name = v.name
      BY DEF Volume
    <3> HIDE DEF given
    <3>2. RunnerVolumes(V, o) =
            {v \in {given(v) : v \in V} :
               (v.name = "data" => o.mountData) /\ (v.name = "db-credentials" => o.mountDatabase)}
      BY <2>2 DEF RunnerVolumes, given
    <3>3. name \in NamesIn(RunnerVolumes(V, o)) <=>
            \E v \in V : /\ given(v).name = name
                         /\ (name = "data" => o.mountData)
                         /\ (name = "db-credentials" => o.mountDatabase)
      BY <3>2 DEF NamesIn
    <3> QED  BY <3>1, <3>3 DEF NamesIn, V
  <2> QED  BY <2>1, <2>2 DEF V
<1>3. ASSUME NEW o, NEW name
      PROVE  name \in NamesIn(RunnerMounts(Mounts(spec), o)) <=>
               /\ name \in NamesIn(Mounts(spec))
               /\ (name = "data" => o.mountData) /\ (name = "db-credentials" => o.mountDatabase)
  <2>1. CASE ~o.mountData
    <3> DEFINE M == Mounts(spec)
    <3> HIDE DEF M
    <3> QED  BY <2>1 DEF RunnerMounts, NamesIn, M
  <2>2. CASE o.mountData
    <3> DEFINE given(m) == IF m.name = "data" THEN Writable(m) ELSE m
               M == Mounts(spec)
    <3>1. \A m \in M : given(m).name = m.name
      BY MountsAre, MountParts
    <3> HIDE DEF given, M
    <3>2. RunnerMounts(M, o) =
            {m \in {given(m) : m \in M} : m.name = "db-credentials" => o.mountDatabase}
      BY <2>2 DEF RunnerMounts, given, Writable
    <3> QED  BY <2>2, <3>1, <3>2 DEF NamesIn, M
  <2> QED  BY <2>1, <2>2
<1> QED  BY <1>1, <1>2, <1>3

\* What a pod mounts from is there.
LEMMA SourcesExist ==
  ASSUME NEW o, NEW v
  PROVE  /\ v \in Volumes(spec) => v.source \in Existing(o)
         /\ v = Volume("cache", EmptyDir) => v.source = EmptyDir
         /\ v \in {Volume(x.name, x.source) : x \in o.extra} => v.source \in Existing(o)
<1>1. Secret("repository") \in Existing(o)
  BY DEF Existing
<1>2. CacheEnabled(spec) => Claim(OwnCache) \in Existing(o)
  <2>1. CacheEnabled(spec) => \E c \in CacheClaim(spec, input.config) : c.name = OwnCache
    BY DEF CacheClaim
  <2> QED  BY <2>1 DEF Existing
<1>3. /\ \A db \in spec.database : Secret(DatabaseSecret(db)) \in Existing(o)
      /\ \A a \in spec.volume : Claim(a.existingClaim) \in Existing(o)
      /\ \A x \in o.extra : x.source \in Existing(o)
  BY DEF Existing
<1>4. v \in Volumes(spec) => v.source \in Existing(o)
  BY <1>2, <1>3, VolumesAre
<1>5. \A name, source : Volume(name, source).source = source
  BY DEF Volume
<1> QED  BY <1>3, <1>4, <1>5

\* The mount of the data, if there is one: its path is its own.
DataMounts == {DataMount(a) : a \in spec.volume}
WritableMounts == {Writable(DataMount(a)) : a \in spec.volume}
LEMMA OneDataMount ==
  ASSUME NamesApart, Given, NEW data \in {DataMounts, WritableMounts}
  PROVE  /\ \A k, l \in data : k = l
         /\ \A k \in data : k.path \notin {CachePath, SecretPath, "/restore", "/newkey"}
<1>1. \A a \in spec.volume : MountPath(a) \notin {CachePath, SecretPath, "/restore", "/newkey"}
  BY NamesApart DEF NamesApart, Given, spec
<1>2. \A a, b \in spec.volume : a = b
  BY InputAssumption DEF Given, spec, Optional
<1> QED  BY <1>1, <1>2, MountParts DEF DataMounts, WritableMounts

\* No two mounts of a pod have one path.
LEMMA PathsApart ==
  ASSUME NamesApart, Given, NEW o \in RunnerOptions, NEW data \in {DataMounts, WritableMounts},
         NEW m, NEW n, m.path = n.path,
         \A k \in {m, n} : \/ k = CacheMount \/ k = DatabaseMount \/ k \in data
                           \/ \E x \in o.extra : k = Mount(x.name, x.path, x.readOnly)
  PROVE  m = n
<1>1. /\ \A k, l \in data : k = l
      /\ \A k \in data : k.path \notin {CachePath, SecretPath, "/restore", "/newkey"}
  BY OneDataMount
<1>2. /\ \A x \in o.extra : x.path \in {"/restore", "/newkey"}
      /\ \A x, y \in o.extra : x = y
  BY ExtrasAre
<1>3. /\ CachePath # SecretPath
      /\ \A p \in {"/restore", "/newkey"} : p # CachePath /\ p # SecretPath
  BY DEF CachePath, SecretPath
<1> DEFINE extra(x) == Mount(x.name, x.path, x.readOnly)
<1>4. \A x : extra(x).path = x.path
  BY MountParts
<1> HIDE DEF extra
<1>5. \A k \in {m, n} : \/ k = CacheMount \/ k = DatabaseMount \/ k \in data
                        \/ \E x \in o.extra : k = extra(x)
  BY DEF extra
<1>6. /\ CacheMount.path = CachePath /\ DatabaseMount.path = SecretPath
  BY MountParts
<1> QED  BY <1>1, <1>2, <1>3, <1>4, <1>5, <1>6

\* A pod that mounts the data of an app runs beside the app.
LEMMA BesideTheApp ==
  ASSUME spec.affinity = {}, spec.volume # {}
  PROVE  Or(spec.affinity, DefaultAffinity(spec)).required # {}
  BY DEF Or, DefaultAffinity, NoAffinity

\* Every pod of a backup, and of a Job that corg derives from it, can start: each mount has
\* its volume, no two have one path, every claim and Secret is made by the operator, named in
\* the spec or made by corg before, and a pod with the volume of the app runs beside it.
THEOREM PodsAlwaysStart ==
  ASSUME NamesApart
  PROVE  Spec => []PodsCanStart
<1>1. Given => PodsCanStart
  <2> SUFFICES ASSUME Given, Template # Rejected
               PROVE  /\ Startable(Template, Options("shell"))
                      /\ \A o \in RunnerOptions : Startable(RunnerJob(Template, o), o)
    BY DEF PodsCanStart
  <2>1. /\ DOMAIN Template = Fields /\ Template.envFrom = {Secret("repository")}
        /\ Template.volumes = Volumes(spec) /\ Template.mounts = Mounts(spec)
        /\ Template.affinity = Or(spec.affinity, DefaultAffinity(spec))
        /\ "required" \in DOMAIN Template.affinity
    BY TemplateIs, JobFields, AffinityTyped
  <2>2. \A o : Secret("repository") \in Existing(o)
    BY DEF Existing
  <2>3. \A m \in Mounts(spec) : m.name = "data" => spec.volume # {}
    BY MountsAre, MountParts
  <2> DEFINE shell == Options("shell")
  <2>4. shell \in RunnerOptions
    BY DEF Options, RunnerOptions, Extras
  <2> HIDE DEF shell
  <2>5. Startable(Template, shell)
    <3>1. Preflight(Template, Existing(shell))
      BY <2>1, <2>2, SourcesExist DEF Preflight
    <3>2. {m.name : m \in Template.mounts} = {v.name : v \in Template.volumes}
      BY <2>1, SameNames DEF NamesIn
    <3>3. \A m, n \in Template.mounts : m.path = n.path => m = n
      <4>1. \A k \in Mounts(spec) : k = CacheMount \/ k = DatabaseMount \/ k \in DataMounts
        BY MountsAre DEF DataMounts
      <4> QED  BY <2>1, <2>4, <4>1, PathsApart
    <3>4. (\E m \in Template.mounts : m.name = "data") /\ spec.affinity = {}
            => Template.affinity.required # {}
      BY <2>1, <2>3, BesideTheApp
    <3> QED  BY <3>1, <3>2, <3>3, <3>4 DEF Startable
  <2>6. ASSUME NEW o \in RunnerOptions
        PROVE  Startable(RunnerJob(Template, o), o)
    <3> DEFINE job == RunnerJob(Template, o)
               volumes == {Volume(x.name, x.source) : x \in o.extra}
               mounts == {Mount(x.name, x.path, x.readOnly) : x \in o.extra}
    <3>1. /\ job.envFrom = {Secret("repository")}
          /\ o.mountData => job.affinity.required = Template.affinity.required
          /\ job.volumes = RunnerVolumes(Volumes(spec), o) \cup volumes
          /\ job.mounts = RunnerMounts(Mounts(spec), o) \cup mounts
      BY <2>1, RunnerFields
    <3> HIDE DEF job
    <3>2. Preflight(job, Existing(o))
      <4>1. \A v \in volumes : v.source \in Existing(o)
        BY SourcesExist
      <4>2. \A v \in RunnerVolumes(Volumes(spec), o) : v.source \in Existing(o) \cup {EmptyDir}
        BY SourcesExist DEF RunnerVolumes
      <4> HIDE DEF volumes, mounts
      <4> QED  BY <2>2, <3>1, <4>1, <4>2 DEF Preflight
    <3>3. {m.name : m \in job.mounts} = {v.name : v \in job.volumes}
      <4>1. NamesIn(mounts) = NamesIn(volumes)
        <5> DEFINE volume(x) == Volume(x.name, x.source)
                   mount(x) == Mount(x.name, x.path, x.readOnly)
        <5>1. \A x : volume(x).name = x.name
          BY DEF Volume
        <5>2. \A x : mount(x).name = x.name
          BY MountParts
        <5>3. volumes = {volume(x) : x \in o.extra} /\ mounts = {mount(x) : x \in o.extra}
          OBVIOUS
        <5> HIDE DEF volume, mount, volumes, mounts
        <5> QED  BY <5>1, <5>2, <5>3 DEF NamesIn
      <4> HIDE DEF volumes, mounts
      <4>2. /\ NamesIn(job.mounts) = NamesIn(RunnerMounts(Mounts(spec), o)) \cup NamesIn(mounts)
            /\ NamesIn(job.volumes) =
                 NamesIn(RunnerVolumes(Volumes(spec), o)) \cup NamesIn(volumes)
        BY <3>1 DEF NamesIn
      <4>3. NamesIn(job.mounts) = NamesIn(job.volumes)
        BY <4>1, <4>2, SameNames
      <4> QED  BY <4>3 DEF NamesIn
    <3>4. \A m, n \in job.mounts : m.path = n.path => m = n
      <4>1. \A k \in job.mounts : \/ k = CacheMount \/ k = DatabaseMount \/ k \in WritableMounts
                                  \/ \E x \in o.extra : k = Mount(x.name, x.path, x.readOnly)
        BY <3>1, RunnerMountsAre DEF WritableMounts
      <4> QED  BY <4>1, PathsApart
    <3>5. (\E m \in job.mounts : m.name = "data") /\ spec.affinity = {}
            => job.affinity.required # {}
      <4> SUFFICES ASSUME NEW m \in job.mounts, m.name = "data", spec.affinity = {}
                   PROVE  job.affinity.required # {}
        OBVIOUS
      <4>1. o.mountData /\ spec.volume # {}
        <5>1. CASE m \in RunnerMounts(Mounts(spec), o)
          BY <5>1, RunnerMountsAre, MountParts
        <5>2. CASE m \in mounts
          <6>1. PICK x \in o.extra : m = Mount(x.name, x.path, x.readOnly)
            BY <5>2
          <6>2. m.name = x.name
            BY <6>1, MountParts
          <6> QED  BY <6>2, ExtrasAre
        <5> QED  BY <3>1, <5>1, <5>2
      <4> QED  BY <2>1, <3>1, <4>1, BesideTheApp
    <3> QED  BY <3>2, <3>3, <3>4, <3>5 DEF Startable, job
  <2> QED  BY <2>5, <2>6 DEF shell
<1> QED  BY <1>1, InputStays, PTL

-------------------------------------------------------------------------------
(* Pings *)

\* The variables of runitor.
Pings == {"HC_API_URL", "CHECK_UUID", "CHECK_SLUG", "PING_KEY"}

\* A backup's own environment, which wins over what the operator puts there, leaves
\* the variables of runitor alone.
PingsApart == \A i \in Inputs : DOMAIN i.spec.env \cap Pings = {}

\* What one environment over another has.
LEMMA OverHas ==
  ASSUME NEW env, NEW below
  PROVE  /\ DOMAIN Over(env, below) = DOMAIN env \cup DOMAIN below
         /\ \A n \in DOMAIN env : Over(env, below)[n] = env[n]
         /\ \A n \in DOMAIN below \ DOMAIN env : Over(env, below)[n] = below[n]
  BY DEF Over
LEMMA VariableHas ==
  ASSUME NEW name, NEW value
  PROVE  DOMAIN Variable(name, value) = {name} /\ Variable(name, value)[name] = value
  BY DEF Variable

\* A reporter pings by UUID, or by slug and ping key, or not at all.
LEMMA ReporterEnvHas ==
  ASSUME NEW r
  PROVE  /\ ~r.enabled => DOMAIN ReporterEnv(r) = {}
         /\ r.enabled => ReporterEnv(r)["HC_API_URL"] = r.apiURL
         /\ r.enabled /\ r.uuid # {} => DOMAIN ReporterEnv(r) = {"HC_API_URL", "CHECK_UUID"}
         /\ r.enabled /\ r.uuid = {} =>
              DOMAIN ReporterEnv(r) = {"HC_API_URL", "CHECK_SLUG", "PING_KEY"}
<1> DEFINE
  url  == Variable("HC_API_URL", r.apiURL)
  uuid == Variable("CHECK_UUID", r.uuid)
  slug == Variable("CHECK_SLUG", {r.slug})
  key  == Variable("PING_KEY", r.pingKey)
<1>1. ReporterEnv(r) = IF ~r.enabled THEN NoVariable
                       ELSE Over(url, IF r.uuid # {} THEN uuid ELSE Over(slug, key))
  BY DEF ReporterEnv
<1>2. /\ DOMAIN url = {"HC_API_URL"} /\ url["HC_API_URL"] = r.apiURL
      /\ DOMAIN uuid = {"CHECK_UUID"} /\ DOMAIN slug = {"CHECK_SLUG"}
      /\ DOMAIN key = {"PING_KEY"}
  BY VariableHas
<1>3. DOMAIN NoVariable = {}
  BY DEF NoVariable
<1> HIDE DEF url, uuid, slug, key
<1>4. DOMAIN Over(slug, key) = {"CHECK_SLUG", "PING_KEY"}
  <2>1. DOMAIN Over(slug, key) = DOMAIN slug \cup DOMAIN key
    BY OverHas
  <2> QED  BY <1>2, <2>1
\* The address of the server is there, whatever names the check.
<1>5. ASSUME NEW below
      PROVE  /\ DOMAIN Over(url, below) = {"HC_API_URL"} \cup DOMAIN below
             /\ Over(url, below)["HC_API_URL"] = r.apiURL
  <2>1. /\ DOMAIN Over(url, below) = DOMAIN url \cup DOMAIN below
        /\ \A n \in DOMAIN url : Over(url, below)[n] = url[n]
    BY OverHas
  <2> QED  BY <1>2, <2>1
<1>6. CASE ~r.enabled
  BY <1>1, <1>3, <1>6
<1>7. CASE r.enabled /\ r.uuid # {}
  <2>1. ReporterEnv(r) = Over(url, uuid)
    BY <1>1, <1>7
  <2>2. /\ DOMAIN ReporterEnv(r) = {"HC_API_URL"} \cup {"CHECK_UUID"}
        /\ ReporterEnv(r)["HC_API_URL"] = r.apiURL
    BY <1>2, <1>5, <2>1
  <2> QED  BY <1>7, <2>2
<1>8. CASE r.enabled /\ r.uuid = {}
  <2>1. ReporterEnv(r) = Over(url, Over(slug, key))
    BY <1>1, <1>8
  <2>2. /\ DOMAIN ReporterEnv(r) = {"HC_API_URL"} \cup {"CHECK_SLUG", "PING_KEY"}
        /\ ReporterEnv(r)["HC_API_URL"] = r.apiURL
    BY <1>4, <1>5, <2>1
  <2> QED  BY <1>8, <2>2
<1> QED  BY <1>6, <1>7, <1>8

\* Of the variables of runitor a pod has those of its reporter.
LEMMA EnvPings ==
  ASSUME NEW s, DOMAIN s.env \cap Pings = {}, NEW r
  PROVE  /\ DOMAIN Env(s, r) \cap Pings = DOMAIN ReporterEnv(r) \cap Pings
         /\ "HC_API_URL" \in DOMAIN ReporterEnv(r) =>
              Env(s, r)["HC_API_URL"] = ReporterEnv(r)["HC_API_URL"]
<1> DEFINE
  host  == Over(Variable("RESTIC_HOST", {s.namespace}), Variable("TZ", s.timeZone))
  names == [v \in {"DB_HOST", "DB_DATABASE", "DB_USERNAME"} |-> {v}]
  own   == IF ~MariaDB(s) THEN host ELSE Over(host, names)
<1>1. Env(s, r) = Over(s.env, Over(ReporterEnv(r), own))
  BY DEF Env
<1>2. DOMAIN host = {"RESTIC_HOST", "TZ"}
  <2>1. DOMAIN host = DOMAIN Variable("RESTIC_HOST", {s.namespace})
                        \cup DOMAIN Variable("TZ", s.timeZone)
    BY OverHas
  <2>2. DOMAIN Variable("RESTIC_HOST", {s.namespace}) = {"RESTIC_HOST"}
    BY VariableHas
  <2>3. DOMAIN Variable("TZ", s.timeZone) = {"TZ"}
    BY VariableHas
  <2> HIDE DEF host
  <2> QED  BY <2>1, <2>2, <2>3
<1>3. DOMAIN names = {"DB_HOST", "DB_DATABASE", "DB_USERNAME"}
  OBVIOUS
<1> HIDE DEF host, names
<1>4. DOMAIN own \cap Pings = {}
  <2>1. DOMAIN Over(host, names) = DOMAIN host \cup DOMAIN names
    BY OverHas
  <2>2. DOMAIN own \in {DOMAIN host, DOMAIN host \cup DOMAIN names}
    BY <2>1
  <2> HIDE DEF own
  <2> QED  BY <1>2, <1>3, <2>2 DEF Pings
<1> HIDE DEF own
<1>5. DOMAIN Over(ReporterEnv(r), own) = DOMAIN ReporterEnv(r) \cup DOMAIN own
  BY OverHas
<1>6. DOMAIN Env(s, r) = DOMAIN s.env \cup DOMAIN ReporterEnv(r) \cup DOMAIN own
  BY <1>1, <1>5, OverHas
<1>7. ASSUME "HC_API_URL" \in DOMAIN ReporterEnv(r)
      PROVE  Env(s, r)["HC_API_URL"] = ReporterEnv(r)["HC_API_URL"]
  <2>1. "HC_API_URL" \notin DOMAIN s.env
    BY DEF Pings
  <2> DEFINE below == Over(ReporterEnv(r), own)
  <2>2. \A n \in DOMAIN ReporterEnv(r) : below[n] = ReporterEnv(r)[n]
    BY OverHas
  <2>3. below["HC_API_URL"] = ReporterEnv(r)["HC_API_URL"] /\ "HC_API_URL" \in DOMAIN below
    BY <1>5, <1>7, <2>2
  <2> HIDE DEF below
  <2>4. \A n \in DOMAIN below \ DOMAIN s.env : Over(s.env, below)[n] = below[n]
    BY OverHas
  <2>5. Over(s.env, below)["HC_API_URL"] = below["HC_API_URL"]
    BY <2>1, <2>3, <2>4
  <2> QED  BY <1>1, <2>3, <2>5 DEF below
<1> QED  BY <1>4, <1>6, <1>7

\* A pod reports to exactly one check, or to none: whatever the settings of operator and
\* backup combine to (healthchecks.Resolve, Wrap and Env), unless the backup sets a variable
\* of runitor itself.
THEOREM ReportsToOneCheck ==
  ASSUME PingsApart
  PROVE  Spec => []ReportsAsConfigured
<1>1. Given => ReportsAsConfigured
  <2> DEFINE r == ReporterOf(spec, input.config)
             env == DOMAIN Template.env
  <2> SUFFICES ASSUME Given, Template # Rejected
               PROVE  /\ Template.command.runitor <=> Or(spec.healthchecks.enabled,
                                                        input.config.healthchecks.enabled)
                      /\ ~Template.command.runitor => env \cap Pings = {}
                      /\ Template.command.runitor =>
                           /\ "HC_API_URL" \in env /\ Template.env["HC_API_URL"] # {}
                           /\ "CHECK_UUID" \in env \/ {"CHECK_SLUG", "PING_KEY"} \subseteq env
                           /\ {"CHECK_UUID", "CHECK_SLUG"} \cap env
                                # {"CHECK_UUID", "CHECK_SLUG"}
                      /\ Template.command.create => "CHECK_SLUG" \in env
    BY DEF ReportsAsConfigured, Pings
  <2>1. /\ Template.command = Wrap(r, Render(spec)) /\ Template.env = Env(spec, r)
        /\ ~EnvFails(r)
    BY TemplateIs, JobFields
  <2>2. DOMAIN spec.env \cap Pings = {}
    BY DEF PingsApart, Given, spec
  <2>3. /\ env \cap Pings = DOMAIN ReporterEnv(r) \cap Pings
        /\ "HC_API_URL" \in DOMAIN ReporterEnv(r) =>
             Template.env["HC_API_URL"] = ReporterEnv(r)["HC_API_URL"]
    BY <2>1, <2>2, EnvPings
  <2>4. r.enabled = Or(spec.healthchecks.enabled, input.config.healthchecks.enabled)
    BY DEF ReporterOf, Reporter
  <2> HIDE DEF r, env
  <2>5. /\ Template.command.runitor = r.enabled
        /\ Template.command.create = (r.enabled /\ Creates(r))
    BY <2>1 DEF Wrap
  <2>6. CASE ~r.enabled
    BY <2>3, <2>4, <2>5, <2>6, ReporterEnvHas
  <2>7. CASE r.enabled /\ r.uuid # {}
    <3>1. DOMAIN ReporterEnv(r) = {"HC_API_URL", "CHECK_UUID"}
      BY <2>7, ReporterEnvHas
    <3>2. env \cap Pings = {"HC_API_URL", "CHECK_UUID"}
      BY <2>3, <3>1 DEF Pings
    <3>3. "HC_API_URL" \in env /\ "CHECK_UUID" \in env /\ "CHECK_SLUG" \notin env
      BY <3>2 DEF Pings
    <3>4. Template.env["HC_API_URL"] = r.apiURL /\ r.apiURL # {}
      BY <2>1, <2>3, <2>7, <3>1, ReporterEnvHas DEF EnvFails
    <3>5. ~Template.command.create
      BY <2>5, <2>7 DEF Creates
    <3> QED  BY <2>4, <2>5, <2>7, <3>3, <3>4, <3>5
  <2>8. CASE r.enabled /\ r.uuid = {}
    <3>1. DOMAIN ReporterEnv(r) = {"HC_API_URL", "CHECK_SLUG", "PING_KEY"}
      BY <2>8, ReporterEnvHas
    <3>2. env \cap Pings = {"HC_API_URL", "CHECK_SLUG", "PING_KEY"}
      BY <2>3, <3>1 DEF Pings
    <3>3. /\ "HC_API_URL" \in env /\ "CHECK_SLUG" \in env /\ "PING_KEY" \in env
          /\ "CHECK_UUID" \notin env
      BY <3>2 DEF Pings
    <3>4. Template.env["HC_API_URL"] = r.apiURL /\ r.apiURL # {}
      BY <2>1, <2>3, <2>8, <3>1, ReporterEnvHas DEF EnvFails
    <3> QED  BY <2>4, <2>5, <2>8, <3>3, <3>4
  <2> QED  BY <2>6, <2>7, <2>8
<1> QED  BY <1>1, InputStays, PTL

=============================================================================
