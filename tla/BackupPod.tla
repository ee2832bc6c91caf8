------------------------------ MODULE BackupPod ------------------------------
(***************************************************************************)
(* The pods that internal/backup builds, at work: the runs of a backup,    *)
(* scheduled or manual, and the Jobs of `corg prune` and `corg unlock',    *)
(* side by side on one restic repository.  A run goes through the lines of *)
(* its script.  restic itself, runitor and the kubelet are external: a     *)
(* command takes a lock on the repository, works and gives the lock back;  *)
(* a pod that is killed leaves its lock behind.                            *)
(***************************************************************************)
EXTENDS BackupJob

CONSTANTS
  Runs,      \* pods, in the order of nothing in particular
  Inputs,    \* backups: [spec, config, appendOnly, kinds], kinds what may run
  MaxFaults  \* bound

VARIABLES
  input,     \* the backup, one of Inputs
  run,       \* [Runs -> pod]
  snapshots, \* those in the repository: [path, tag, at]
  locks,     \* [run, exclusive, stale]
  check,     \* the last ping of the healthchecks check
  clock,     \* snapshots taken so far
  faults

\* What the API server admits: a source has a type, and may have a tag and a path; an
\* optional field has one value at most. time.ParseDuration reads any duration, and the
\* jitter is a hash.
Source == [type : {"cnpg", "mariadb", "files"}, tag : SUBSET STRING, path : SUBSET STRING]
Affinity == [required : SUBSET STRING, preferred : SUBSET STRING]
Optional(field) == \A v, w \in field : v = w
ASSUME InputAssumption ==
  /\ MaxFaults \in Nat
  /\ \A i \in Inputs :
       /\ i.spec.sources \in Seq(Source) /\ i.spec.keep \in Nat /\ i.spec.jitter \in Jitters
       /\ CASE i.spec.schedule.form = "every"     -> i.spec.schedule.seconds \in Int
            [] i.spec.schedule.form = "shorthand" -> i.spec.schedule.name \in Shorthands
            [] i.spec.schedule.form = "cron"      ->
                 /\ IsCron(i.spec.schedule.cron)
                 /\ Accepts(i.spec.schedule.cron.minute, 0, 59)
                 /\ Accepts(i.spec.schedule.cron.hour, 0, 23)
            [] OTHER                              -> FALSE
       /\ i.spec.affinity \subseteq Affinity
       /\ Optional(i.spec.volume) /\ Optional(i.spec.database)

vars == <<input, run, snapshots, locks, check, clock, faults>>

Kinds == {"backup", "prune", "unlock"}
\* stored: for each path, when the newest snapshot was taken that this run made.
NoRun == [kind |-> "none", script |-> <<>>, line |-> 1, busy |-> FALSE, stored |-> {},
          state |-> "waiting"]

spec == input.spec
\* The scheduled and the manual runs have the template of the CronJob, which is
\* not written when something in the spec is refused.
CronJob == BuildCronJob(spec, input.config)
Template == IF CronJob = Rejected THEN Rejected ELSE CronJob.template
Reports == Template.command.runitor

\* The script of a run; a command that corg refuses starts none.
ScriptOf(kind) ==
  CASE kind = "backup" -> Template.command.script
    [] kind = "prune"  -> <<PruneCommand(spec, input.appendOnly)>>
    [] kind = "unlock" -> <<UnlockCommand(FALSE)>>
Refused(kind) ==
  \/ Template = Rejected
  \/ kind = "prune" /\ PruneCommand(spec, input.appendOnly) = Rejected

Init ==
  /\ input \in Inputs
  /\ run = [r \in Runs |-> NoRun]
  /\ snapshots = {} /\ locks = {} /\ check = "new" /\ clock = 0 /\ faults = 0

-------------------------------------------------------------------------------
(* Locks *)

Current(r) == run[r].script[run[r].line]
Working(r) == run[r].state = "running"
Exclusive(line) == line.command = "forget"
Locks(line) == line.command \in {"backup", "forget"}

\* A backup shares the repository with others, forget has it to itself.
Blockers(r) == {l \in locks : l.exclusive \/ Exclusive(Current(r))}

Fault == faults < MaxFaults /\ faults' = faults + 1

-------------------------------------------------------------------------------
(* The end of a run *)

\* runitor reports the exit code of the script, if the script runs under it.
Ping(r, state) ==
  check' = IF run[r].kind = "backup" /\ Reports
             THEN CASE state = "succeeded" -> "up" [] state = "failed" -> "down"
             ELSE check

\* set -eu: the first command that fails ends the script. The variant goes on.
GoOnAfterFailure(r) ==
  IF run[r].line < Len(run[r].script)
    THEN run' = [run EXCEPT ![r].busy = FALSE, ![r].line = @ + 1] /\ UNCHANGED check
    ELSE run' = [run EXCEPT ![r].busy = FALSE, ![r].state = "failed"] /\ Ping(r, "failed")
FailScript(r) ==
  /\ run' = [run EXCEPT ![r].busy = FALSE, ![r].state = "failed"]
  /\ Ping(r, "failed")

Advance(r, stored) ==
  LET last == run[r].line = Len(run[r].script) IN
  /\ run' = [run EXCEPT ![r].busy = FALSE, ![r].line = @ + 1, ![r].stored = stored,
                        ![r].state = IF last THEN "succeeded" ELSE @]
  /\ IF last THEN Ping(r, "succeeded") ELSE UNCHANGED check

-------------------------------------------------------------------------------
(* The steps of a run *)

Start(r, kind) ==
  /\ run[r].state = "waiting" /\ kind \in input.kinds /\ ~Refused(kind)
  /\ run' = [run EXCEPT ![r] = [NoRun EXCEPT !.kind = kind, !.script = ScriptOf(kind),
                                              !.state = "running"]]
  /\ UNCHANGED <<input, snapshots, locks, check, clock, faults>>

BeginCommand(r) ==
  /\ Working(r) /\ ~run[r].busy /\ Locks(Current(r)) /\ Blockers(r) = {}
  /\ locks' = locks \cup {[run |-> r, exclusive |-> Exclusive(Current(r)), stale |-> FALSE]}
  /\ run' = [run EXCEPT ![r].busy = TRUE]
  /\ UNCHANGED <<input, snapshots, check, clock, faults>>

\* Without --retry-lock a command fails at the first lock in its way.
GiveUpAtOnce(r) ==
  /\ Working(r) /\ ~run[r].busy /\ Locks(Current(r)) /\ Blockers(r) # {}
  /\ ~Current(r).retry
  /\ FailScript(r)
  /\ UNCHANGED <<input, snapshots, locks, clock, faults>>

\* With it, after waiting: for a lock whose owner is gone, or that its owner holds
\* for longer, which counts as a fault.
GiveUpWaiting(r) ==
  /\ Working(r) /\ ~run[r].busy /\ Locks(Current(r)) /\ Blockers(r) # {}
  /\ Current(r).retry
  /\ IF \E l \in Blockers(r) : l.stale THEN UNCHANGED faults ELSE Fault
  /\ FailScript(r)
  /\ UNCHANGED <<input, snapshots, locks, clock>>

\* The variant leaves the lock of a command that has ended.
ReleaseNothing(r) == UNCHANGED locks
Release(r) == locks' = {l \in locks : l.run # r}

\* The newest n of each path: restic groups by host and path, whatever the tag,
\* and the host is the namespace.
Kept(n) ==
  {s \in snapshots :
     Cardinality({t \in snapshots : t.path = s.path /\ t.at > s.at}) < n}

Taken(line) == [path |-> line.path, tag |-> line.tag, at |-> clock]

EndBackup(r) ==
  /\ Working(r) /\ run[r].busy /\ Current(r).command = "backup"
  /\ snapshots' = snapshots \cup {Taken(Current(r))}
  /\ clock' = clock + 1
  /\ Release(r)
  /\ Advance(r, run[r].stored \cup {Taken(Current(r))})
  /\ UNCHANGED <<input, faults>>

EndForget(r) ==
  /\ Working(r) /\ run[r].busy /\ Current(r).command = "forget" /\ ~input.appendOnly
  /\ snapshots' = Kept(Current(r).keep)
  /\ Release(r)
  /\ Advance(r, run[r].stored)
  /\ UNCHANGED <<input, clock, faults>>

\* BorgBase refuses to delete from an append-only repository.
ForgetDenied(r) ==
  /\ Working(r) /\ run[r].busy /\ Current(r).command = "forget" /\ input.appendOnly
  /\ Release(r)
  /\ FailScript(r)
  /\ UNCHANGED <<input, snapshots, clock, faults>>

\* restic cache --cleanup, or restic unlock: no lock of its own.
EndUnlocked(r) ==
  /\ Working(r) /\ Current(r).command \in {"cache", "unlock"}
  /\ locks' = IF Current(r).command = "unlock" THEN {l \in locks : ~l.stale} ELSE locks
  /\ Advance(r, run[r].stored)
  /\ UNCHANGED <<input, snapshots, clock, faults>>

\* A command fails; restic backup may have stored a snapshot of what it could
\* read before it says so. A command that waits for no lock fails as it is.
CommandFails(r, partial) ==
  /\ Working(r) /\ (run[r].busy \/ ~Locks(Current(r)))
  /\ partial => run[r].busy /\ Current(r).command = "backup"
  /\ Fault
  /\ IF partial THEN snapshots' = snapshots \cup {Taken(Current(r))} /\ clock' = clock + 1
                ELSE UNCHANGED <<snapshots, clock>>
  /\ Release(r)
  /\ FailScript(r)
  /\ UNCHANGED input

\* The Job is deleted, or its node is lost: nothing is reported, the lock stays.
Kill(r) ==
  /\ Working(r) /\ Fault
  /\ run' = [run EXCEPT ![r].busy = FALSE, ![r].state = "killed"]
  /\ locks' = {IF l.run = r THEN [l EXCEPT !.stale = TRUE] ELSE l : l \in locks}
  /\ UNCHANGED <<input, snapshots, check, clock>>

Next ==
  \E r \in Runs :
    \/ \E kind \in Kinds : Start(r, kind)
    \/ BeginCommand(r) \/ GiveUpAtOnce(r) \/ GiveUpWaiting(r)
    \/ EndBackup(r) \/ EndForget(r) \/ ForgetDenied(r) \/ EndUnlocked(r)
    \/ \E partial \in BOOLEAN : CommandFails(r, partial)
    \/ Kill(r)

Spec == Init /\ [][Next]_vars

-------------------------------------------------------------------------------
(* Type *)

\* Every run is at a line of its script, only a working one works or holds a live
\* lock, and a snapshot is older than the clock (the script of Render, the locks
\* of restic).
TypeOK ==
  /\ \A r \in Runs :
       /\ run[r].state \in {"waiting", "running", "succeeded", "failed", "killed"}
       /\ Working(r) => run[r].line \in DOMAIN run[r].script
       /\ run[r].busy <=> \E l \in locks : l.run = r /\ ~l.stale
  /\ \A s \in snapshots : s.at < clock
  /\ check \in {"new", "up", "down"}
  /\ faults \in 0..MaxFaults

-------------------------------------------------------------------------------
(* What the runs of a backup promise *)

Sources == {spec.sources[i] : i \in DOMAIN spec.sources}

\* A run has stored every source of the spec, under its tag.
StoredAll(r) ==
  \A source \in Sources : \E s \in run[r].stored :
    s.path = SourcePath(source) /\ s.tag = SourceTag(source)

\* The exit code of a script (set -eu in internal/backup/script.go) is what the
\* history of the ScheduledBackup and the healthchecks check are made from: when a
\* run succeeds, and when the check is up, every source was stored, and no
\* retention pass since has left its path with older snapshots only.
SuccessMeansStored ==
  /\ \A r \in Runs : run[r].kind = "backup" /\ run[r].state = "succeeded" =>
       /\ StoredAll(r)
       /\ \A s \in run[r].stored : \E t \in snapshots : t.path = s.path /\ t.at >= s.at
  /\ check = "up" => \E r \in Runs : run[r].state = "succeeded" /\ StoredAll(r)

\* Snapshots go only with `corg prune', or with a run that has stored every source
\* before its retention pass (the order of the lines of Render): backups that fail
\* one after another never use up what the policy keeps. The newest of each path
\* stays, and no other command is at work on the repository.
NothingLostToFailure ==
  [][~(snapshots \subseteq snapshots') =>
       /\ \E r \in Runs :
            /\ Working(r) /\ (run[r].kind = "prune" \/ StoredAll(r))
            /\ \A other \in Runs : run[other].busy => other = r
       /\ \A s \in snapshots : \E t \in snapshots' : t.path = s.path /\ t.at >= s.at]_vars

\* With a retryLock (five minutes by default) runs that overlap, of the CronJob, of
\* a trigger or of `corg prune', do not fail because of each other, as long as no
\* command fails, is killed or outlasts that time.
OverlapIsNoFailure ==
  /\ faults = 0 /\ spec.retryLock
  /\ ~(input.appendOnly /\ spec.keep > 0)
  => \A r \in Runs : run[r].kind = "backup" => run[r].state # "failed"

-------------------------------------------------------------------------------
(* What internal/backup and the runner build *)

\* A backup stays as it is: it is enough to look at it before its first run.
Unused == \A r \in Runs : run[r].state = "waiting"

\* The pings of a backup go to one check: by UUID, and never creating one, or by
\* slug and ping key, creating it if so configured (Wrap and Env); the script runs
\* under runitor exactly when the backup's setting, or else the operator's, says so.
ReportsAsConfigured ==
  Unused /\ Template # Rejected =>
    LET hc == spec.healthchecks  env == DOMAIN Template.env  command == Template.command IN
    /\ command.runitor <=> Or(hc.enabled, input.config.healthchecks.enabled)
    /\ ~command.runitor => env \cap {"HC_API_URL", "CHECK_UUID", "CHECK_SLUG", "PING_KEY"} = {}
    /\ command.runitor =>
         /\ "HC_API_URL" \in env /\ Template.env["HC_API_URL"] # {}
         /\ "CHECK_UUID" \in env \/ {"CHECK_SLUG", "PING_KEY"} \subseteq env
         /\ {"CHECK_UUID", "CHECK_SLUG"} \cap env # {"CHECK_UUID", "CHECK_SLUG"}
    /\ command.create => "CHECK_SLUG" \in env

\* What corg may ask of a one-off Job: shell and exec leave the choice to the user,
\* a restore mounts a new claim, rotate-password a Secret.
Extras == {{}, {[name |-> "restore-target", source |-> Claim("new claim"), path |-> "/restore",
                 readOnly |-> FALSE]},
           {[name |-> "newkey", source |-> Secret("new key"), path |-> "/newkey",
             readOnly |-> TRUE]}}
RunnerOptions ==
  [command : {<<"shell">>}, tty : BOOLEAN, image : {{}}, extra : Extras,
   mountData : BOOLEAN, mountCache : BOOLEAN, mountDatabase : BOOLEAN]

\* The claims and Secrets there are: those the operator makes, those the spec names
\* and those corg creates before the Job.
Existing(o) ==
  {Secret("repository")} \cup {Claim(c.name) : c \in CacheClaim(spec, input.config)}
    \cup {Secret(DatabaseSecret(db)) : db \in spec.database}
    \cup {Claim(v.existingClaim) : v \in spec.volume} \cup {x.source : x \in o.extra}

Startable(job, o) ==
  /\ Preflight(job, Existing(o))
  /\ {m.name : m \in job.mounts} = {v.name : v \in job.volumes}
  /\ \A m, n \in job.mounts : m.path = n.path => m = n
  /\ (\E m \in job.mounts : m.name = "data") /\ spec.affinity = {} => job.affinity.required # {}

\* A pod of a backup, and of a Job the runner derives from it, is one Kubernetes
\* accepts and can start: each mount has its volume, no two have one path, each
\* claim and Secret is there, and a pod with the volume of the app runs beside it.
PodsCanStart ==
  Unused /\ Template # Rejected =>
    /\ Startable(Template, Options("shell"))
    /\ \A o \in RunnerOptions : Startable(RunnerJob(Template, o), o)

\* "Nothing from the app is mounted unless --mount-data is passed, and the shared
\* restic cache is replaced" (internal/cli/shell.go:34-37): a one-off Job touches
\* neither unasked, may run anywhere then, reports to no check, and is not taken
\* for one of the backup's pods by its labels.
OneOffLeavesBackupAlone ==
  Unused /\ Template # Rejected =>
    \A o \in RunnerOptions :
      LET job == RunnerJob(Template, o)  sources == {v.source : v \in job.volumes} IN
      /\ ~job.command.runitor
      /\ ~o.mountCache => Claim(OwnCache) \notin sources
      /\ ~o.mountData => /\ \A v \in spec.volume : Claim(v.existingClaim) \notin sources
                         /\ job.affinity.required = {}
      /\ ~o.mountDatabase => \A db \in spec.database : Secret(DatabaseSecret(db)) \notin sources
      /\ job.labels \subseteq {"corg", "mariadb-client"}

-------------------------------------------------------------------------------
(* Schedules *)

Resolved == IF CronJob = Rejected THEN Rejected ELSE CronJob.schedule

\* "Only durations dividing evenly into an hour or a day are accepted"
\* (internal/backup/schedule.go:50-52): the jittered expression of an accepted
\* @every fires exactly each d minutes, over the hours and over midnight.
EveryIsEven ==
  Unused /\ spec.schedule.form = "every" /\ Resolved # Rejected =>
    LET d == spec.schedule.seconds \div 60 IN
    \E phase \in {t \in 0 .. d - 1 : FiresAt(Resolved, t)} :
      \A t \in 0 .. 2 * 1440 - 1 : FiresAt(Resolved, t) <=> t % d = phase

DaysIn == <<31, 28, 31, 30, 31, 30, 31, 31, 30, 31, 30, 31>>
Count(field, values) == Cardinality({n \in values : Allows(field, n)})

\* Whatever the jitter of its name, a shorthand runs once in each of its periods,
\* in the short months as well (the moduli of ResolveSchedule).
OncePerPeriod ==
  Unused /\ spec.schedule.form = "shorthand" /\ Resolved # Rejected =>
    LET name == spec.schedule.name  months == {m \in 1..12 : Allows(Resolved.month, m)} IN
    /\ Count(Resolved.minute, 0..59) = 1
    /\ Count(Resolved.hour, 0..23) = IF name = "@hourly" THEN 24 ELSE 1
    /\ Cardinality(months) = IF name = "@yearly" THEN 1 ELSE 12
    /\ \A m \in months : Count(Resolved.dom, 1..DaysIn[m]) =
         IF name \in {"@monthly", "@yearly"} THEN 1 ELSE DaysIn[m]
    /\ Count(Resolved.dow, 0..6) = IF name = "@weekly" THEN 1 ELSE 7

\* `corg migrate' replaces a cron expression by a shorthand (shorthandSchedule). The
\* operator accepts what it writes, and the backup runs as often and at the same
\* distances as before, by the measure of `corg parity' (cadenceOf), but for
\* expressions such as "7 */5 * * *": "@every 5h" takes their place, the operator
\* refuses it, and a backup that ran is not scheduled. src/README.md:190-191 says that
\* "anything that does not map exactly [...] is pinned verbatim and left alone".
MigrationKeepsCadence ==
  Unused /\ spec.schedule.form = "cron" =>
    LET cron == spec.schedule.cron
        moved == ResolveSchedule(ShorthandSchedule(cron), spec.jitter) IN
    IF UnevenHours(cron) THEN moved = Rejected
    ELSE moved # Rejected /\ Cadence(moved) = Cadence(cron)
===============================================================================
