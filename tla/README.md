# borgbase-operator in TLA+

The models, checks and proofs kept beside the borgbase-operator: a Kubernetes
operator that provisions restic repositories on BorgBase (`Repository`) and
runs scheduled backups into them (`ScheduledBackup`), and `corg`, the command
line that drives both. Paths below are relative to the repository.

Contents: [the system](#the-system), [modules](#modules),
[Repository](#the-repository-reconciler),
[ScheduledBackup](#the-scheduledbackup-reconciler),
[pods and schedules](#pods-and-schedules), [corg](#the-commands-of-corg),
[runs](#runs), [findings](#findings), [known limits](#known-limits),
[proofs](#proofs), [not modelled](#what-is-not-modelled), [plan](#plan).

## The system

| Part | State | Operations | Talks to | What is hard | Correct when |
| --- | --- | --- | --- | --- | --- |
| Repository reconciler, `internal/controller/repository_controller.go` | `status` of the resource (ID, adopted, initialized, Ready), the finalizer, the credentials Secret, the init Job | `resolveRepo`, `repositoryConflict`, `reconcileSecret`, `reconcileInitJob`, `finalize`, `patchStatus` | BorgBase by GraphQL; the API server, Repositories and Jobs through an informer cache, Secrets without one | a copy of the object that lags; calls that take effect and lose their reply; a restart between any two calls; passes for other keys beside it; deletion and recreation | no snapshots are destroyed unasked, none become unreadable, nothing is provisioned twice, and it gets ready or goes |
| BorgBase client, `internal/borgbase` | none | Get, FindByName, Add, Edit, Delete, each one request | BorgBase | a timeout after which BorgBase still runs the request | a repeated call does no harm |
| Password generation, `internal/secrets` | none | GeneratePassword | | | once per repository |
| ScheduledBackup reconciler, `scheduledbackup_controller.go`, `trigger.go`, `predicate.go` | `status` (Ready, last trigger, history), the CronJob, the cache claim, manual Jobs | `reconcile`, `slugConflict`, `reconcileCache`, `observedRuns`, `mergeHistory`, `reconcileTrigger` | the Repository, the CronJob controller, Jobs, other ScheduledBackups | triggers by annotation, acted upon once although every read lags; two backups of one slug; Forbid against runs the cache does not show | one run per trigger, the truth about it in the status, one reporter per slug |
| CronJob, schedule, script, `internal/backup` | none | `ResolveSchedule`, `Render`, `BuildCronJob` | the reconciler | arithmetic of `@every` and its jitter; a script that must fail when any part of it fails | the schedule means the interval; a failed source fails the run |
| Healthchecks, `internal/healthchecks` | none | `Resolve`, `Wrap`, `Env` | runitor | whose slug a run reports to | two backups do not share a check |
| `corg backup`, `cancel`, `suspend`, `wait` | the trigger annotation, `spec.suspend` | write, poll, follow | the ScheduledBackup reconciler | an answer that belongs to another trigger | the outcome reported is that of the backup asked for |
| `corg restore`, `shell`, `restic`, maintenance | a runner pod, the suspension around an in-place restore | suspend, run, resume | both reconcilers | leaving the backup suspended | the schedule is what it was |
| `corg reinit`, `rotate-password` | the Secret, `status.initialized`, restic's keys | several writes | the Repository reconciler | the operator acts in between | some stored password always opens the repository |
| Manager, `cmd/main.go` | leader lease, caches, work queues | start, stop | everything | another leader starts with empty caches | |
| Read-only commands, converters (`corg status`, `doctor`, `migrate`, ...) | none | read, print | | | |

The reconcilers share no memory. They meet in the API server: a
ScheduledBackup reads `status.initialized` of its Repository, its Jobs read the
credentials Secret, and every write of one becomes an event of the other some
time later. `corg` writes annotations and specs, and polls.

## Modules

| Module | What it is |
| --- | --- |
| `RepositoryController` | the Repository reconciler, BorgBase, init Jobs, the garbage collector, administrators |
| `RemoteLifecycle` | abstract: what is promised about the data on BorgBase |
| `RepositoryProofs`, `RepositoryRefinement`, `ProvisioningProofs` | theorems about the reconciler: what it destroys and claims, that it implements `RemoteLifecycle`, and that a resource has one repository, one ID and one password |
| `ScheduledBackupController` | the ScheduledBackup reconciler, the CronJob controller, Jobs, `corg backup --wait`, `corg cancel`, administrators |
| `Schedule` | `ResolveSchedule`, the cadence of `corg parity`, the shorthands of `corg migrate` |
| `BackupJob` | what is built from a ScheduledBackup: script, pod, CronJob, claim, one-off Jobs of the runner |
| `BackupPod` | the runs of these pods on one restic repository; extends `BackupJob`, which extends `Schedule` |
| `ScheduledBackupProofs` | theorems about the ScheduledBackup reconciler and `corg backup --wait` |
| `ScheduleProofs`, `BackupPodProofs` | theorems about schedules, and about the pods |
| `CorgCommands` | the commands of corg as processes side by side |
| `CorgProofs`, `RestoreProofs` | theorems about them |
| `MCRepositorySingle`, `MCRepositoryPair` | instances: one Repository, and two that adopt one BorgBase repository |
| `MCScheduledBackup` | instances: one backup with its triggers, two with slugs |
| `MCBackupPod` | instances: six backups that run, many that are built |
| `MCCorgCommands` | instance: two commands |

Both controllers are written the same way. `live` is the API server and
`cache` the informer cache the reconciler reads; a `Sync...` action brings the
cache up to date and raises the events. The cache jumps to the present, which
loses the orders in which a watch delivers the changes of one object but keeps
every staleness a pass can meet. `worker[k]` is the pass for one key: `obj` is
the working copy, `base` the copy the status patch is computed against
(`client.MergeFrom`), `pc` the next call. There is one step per call that can
fail or have something happen before it. A step can succeed, fail without
effect (`CallFails`, `PassFails`), or take effect while its reply is lost
(`ReplyLost`). `Patched`/`Merged` writes only the fields in which `obj` and
`base` differ, as a merge patch without resourceVersion does. controller-runtime
never runs two passes for one key, hence one worker per key; it runs four
passes for different keys, and no instance has more keys.

`Fault(kind)` and `Admin(op)` bound failures and administrators: `MaxFaults`,
`MaxAdminOps`, `MaxCreations`, `MaxClock` (seconds), `MaxScheduled` (Jobs
started by the CronJob), `MaxManual` (Jobs started for triggers, which a lagging
cache could start anew for ever once the backup is deleted). These are all the
bounds there are. `AdminOps` and `Faults` say which kinds an instance has.

Definitions named after another with a suffix, such as `DestroysAnyRecorded`
beside `DestroysRemote`, or `DueAlways` beside `Due`, are wrong variants of it.
No action uses them; putting one in place of the definition it precedes must
make a run fail, which shows that the property of that run depends on the code.

## The Repository reconciler

| Model | Code |
| --- | --- |
| `StartPass`, `AddFinalizer` | `Reconcile`, lines 80-118 |
| `ResolveExisting`, `ResolveRecorded`, `ResolveByName`, `Add` | `resolveRepo` |
| `AbandonAdd`, `LateAdd` | a repoAdd the client times out on, which BorgBase runs later |
| `Claim` | `repositoryConflict` and the ID in the status |
| `WriteSecret`, `RefuseSecret` | `reconcileSecret`, with `syncControllerRef` |
| `CreateInitJob`, `RetryInitJob`, `AwaitInitJob`, `RecordInitialized`, `CleanupInitJob` | `reconcileInitJob`, `deleteJob`, `cleanupInitJob` |
| `PatchStatus` | `patchStatus` |
| `Destroy`, `Release` | `finalize` |
| `StartPod`, `RunInit`, `InitJobFails`, `ExpireJob` | the Job `buildInitJob` renders |
| `CollectSecret`, `CollectJob` | the garbage collector |

`doomed` and `stored` are history: the IDs whose destruction was ever asked
for, and the passwords ever stored for an ID.

Properties.

* `DestroyedOnlyOnRequest`: a stale copy, retry or restart never destroys a
  BorgBase repository under Retain.
* `NoDuplicateRemote`: a lost reply of Add does not lead to a second repository.
* `OnePasswordPerRemote`, `SnapshotsReadable`: the password is generated once,
  and a Secret always opens the snapshots it points at.
* `InitializedIsUsable`: `status.initialized` means restic init has run there.
* `RecordedIdStable`: `status.repositoryID` never moves.
* `SecretFollowsPolicy`: once failures and administrators rest, the Secret has the
  owner its policy asks for, whatever passes on older copies wrote; what happens before a
  pass has run is among the [limits](#known-limits).
* `ElderNeverOverridden`: the younger of two resources never claims what the
  older adopts, however the cache lags.
* `DataAsPromised`: the controller implements `RemoteLifecycle` under the mapping
  `data <- DataView`, `requested <- doomed`.
* `EventuallyReady`, `EventuallyGone`: of a model without a work queue.

`RemoteLifecycle` is the contract without objects, caches and passes: an ID of
BorgBase is unborn, live, destroyed or removed by hand. A live repository is
created once; it is initialized once, with one password, and from then on only
gains snapshots; it is destroyed only if that was requested, and nothing brings
it back. `DataView` reads that off the state of `remote`; most steps of the
controller, all that concern Kubernetes only, are stutters. What it rules out
takes several actors: a retried init Job that initializes twice, a late Add that
lands on a repository that is there, a stale pass that destroys what nobody asked
it to, a change of password in place.

Abstractions. A pod disappears with its Job. Each Repository has its own Secret
name. Administrators delete a Secret or a repository at a time no pass runs
(`Settled`). The finalizer patch returns the live object, as in the code, and
so can be newer than the cache `repositoryConflict` lists;
`ElderNeverOverridden` is therefore stated for passes on the incarnation the
cache holds. Sizes, quotas, regions and conditions other than Ready are left out.

## The ScheduledBackup reconciler

| Model | Code |
| --- | --- |
| `StartPass`, `Check` | `Reconcile`, `reconcile` up to `slugConflict` |
| `Volume` | `reconcileCache`, `deleteCache` |
| `CreateCronJob`, `UpdateCronJob`, `StaleCronJob` | the three outcomes of writing the CronJob |
| `Observe` | `observedRuns`, `mergeHistory`, `activeRun`, and whether the trigger is due |
| `SkipTrigger`, `TriggerJob` | `reconcileTrigger` |
| `PatchStatus`, `PatchFails` | `patchStatus` and the requeue |
| `Notifies` | `ignoreOwnStatusWrites` |
| `RepositoryEvent` | `backupsForRepository`, and the informers' resync every ten hours |
| `FireCronJob`, `FinishJob`, `ExpireJob`, `Collect...` | Kubernetes |
| `TriggerBackup`, `AwaitTrigger`, `AwaitJob` | `corg backup --wait` |
| `Cancel`, `EditBackup` | `corg cancel`, `corg suspend` |

Here the work queue is explicit (`queue`), because a pass that holds a backup
back asks for no timer: whether anything wakes it is a property of the code.
`jobs` keeps every Job there has been, marked `gone` when it is deleted, so that
the properties can speak of runs that have expired. A slug stands for what
`backup.Reporter` resolves: `None` when runs are not reported or by UUID.
`Standing` and `Finished` let an instance begin with backups in force, and a
finished run of them, as an operator that is restarted finds them.

Properties.

* `TriggerRunsOnce`: however often a trigger is seen again, it starts one run of the
  backup that is there. A pass on a lagging cache may start the run of a deleted
  backup again, for the garbage collector to take; and a backup that is deleted and
  made anew, all in one second, may name a run as its predecessor did, which is why
  the property is about one incarnation.
* `SuccessMeansBackup`: `corg backup --wait` reports success only for a run that
  began after the command asked for one.
* `HistoryKept`: a recorded outcome leaves the history only for newer ones, for a
  backup that nobody deletes and makes anew (see [limits](#known-limits)).
* `EventuallyInForce`: a backup that may run ends Ready, with its CronJob, its cache and
  every trigger acted upon.
* `EventuallyHeldBack`: of two that came to one slug, also side by side or in one second,
  the younger ends with `SlugConflict`, whoever looks.
* `EventuallyAcknowledged`: a command learns what became of its trigger, though it was
  overwritten, refused, or answered by a pass whose record failed.

Abstractions. One namespace and one Repository, whose states come and go by
`ChangeRepository`. `ExpireJob` waits until the operator has recorded the Job
and answered its trigger: a finished Job lives for an hour, and an operator that
fails for longer than that starts the run again. `corg cancel` lists and deletes
in one step, at a time the operator is at rest. A command whose timeout passes,
or whose backup is deleted, takes no further step; its user may run it again.
All commands read one clock. The concurrency policy Replace, annotations that
are no timestamps, and CronJobs that belong to somebody else are left out.

## Pods and schedules

`Schedule` and `BackupJob` translate pure functions, one operator for each; an
optional field is a set of one value or none. `BackupPod` adds state: one restic
repository with its snapshots and locks, one healthchecks check, and pods that go
through their scripts line by line.

| Model | Code |
| --- | --- |
| `ResolveSchedule`, `Shorthand`, `ResolveEvery`, `MinuteOf`, ... | `ResolveSchedule`, `resolveEvery`, `jitter` in `backup/schedule.go` |
| `Cadence`, `ShorthandSchedule` | `cadenceOf` (`corg parity`), `shorthandSchedule` (`corg migrate`) |
| `Render`, `Backup`, `Forget` | `Render`, `renderSource`, `renderForget` in `backup/script.go` |
| `Reporter`, `Wrap`, `EnvFails`, `ReporterEnv` | `Resolve`, `Wrap`, `Env` in `healthchecks.go` |
| `Volumes`, `Mounts`, `DefaultAffinity`, `Env`, `JobTemplate`, `BuildCronJob`, `CacheClaim` | their namesakes in `backup/cronjob.go` |
| `RunnerJob`, `EphemeralCache`, `DropData`, `Without`, `WritableData`, `Preflight` | `Build` and its helpers, `Preflight` in `cli/runner/runner.go` |
| `PruneCommand`, `UnlockCommand` | `cli/maintenance.go` |
| `Start`, `FailScript`, `Advance` | a Job of the CronJob, a trigger or corg; `set -eu` |
| `BeginCommand`, `GiveUp...`, `End...`, `ForgetDenied`, `CommandFails`, `Kill` | restic, BorgBase and the kubelet (external) |

Properties.

* `SuccessMeansStored`: a run that succeeds, and a check that is up, mean that every
  source was stored under its tag, and that no retention pass since, of whatever
  pod, has left the path with older snapshots only.
* `NothingLostToFailure`: snapshots go only with `corg prune` or with a run that
  has stored everything; alone; and the newest of each path stays.
* `OverlapIsNoFailure`: with `retryLock` overlapping runs do not fail one another.
* `ReportsAsConfigured`: whatever the settings of operator and backup combine to,
  the pings of a run go to exactly one check, or there is no runitor.
* `PodsCanStart`, `OneOffLeavesBackupAlone`: the pods of a backup and of every
  one-off Job derived from it have volumes for their mounts, one mount to a path,
  and run beside the app when they mount its volume; a one-off Job touches neither
  cache, data nor database unasked.
* `EveryIsEven`, `OncePerPeriod`, `MigrationKeepsCadence`: an accepted `@every`
  fires at one distance over hours and midnight; a shorthand once a period, in
  February too; a migrated schedule is accepted and keeps its cadence, but for hours
  that divide no day (`UnevenHours`), where it is refused.

Abstractions. A policy keeps the newest n of each path: restic's hourly to yearly
buckets keep at least the newest, which is what the properties are about. Resources,
security contexts and labels that select nothing are left out, as are quoting
and the text of a command. What only depends on the spec is checked before any run
starts, so that specs that never run cost one state each.

## The commands of corg

A command is a process: `pc` is the call it makes next, `created`, `temp` and
`bracket` are what it has deferred. An error, an end or Ctrl-C (`Unwind`) goes
through the deferred steps in the opposite order; `Kill` skips them; a step whose
reply is lost has been done, and the command does not know (`stranded`).

| Model | Code |
| --- | --- |
| `Begin` | `resolveRunTarget`, the checks of `runSetSuspend` and `runRotatePassword`: what is read here is used to the end |
| `Confirm`, `SuspendForRestore`, `Resume` | `restoreInPlace`, `suspendForRestore` |
| `CreateClaim`, `DumpFails` | `restoreToNewPVC`, `restoreToDatabase` |
| `CreateJob`, `WaitForJob`, `WaitTimesOut`, `Cleanup` | `Run`, `WaitForPod`, `Wait`, `Cleanup` of the runner |
| `EndSession` | `openShell` |
| `CreateTemp`, `PatchSecret`, `DeleteTemp`, `RemoveOldKey` | `runRotatePassword`, and what it tells its user to do |
| `DeleteInitJobs`, `ClearInitialized` | `runReinit` |
| `SetSuspend` | `runSetSuspend` |
| `StartPod` ... `DeletedByOther` | Kubernetes, restic, other users (external) |
| `CreateInitJob`, `RunInit`, `RecordInit` | `reconcileInitJob`, as far as `reinit` meets it |

Properties.

* `SecretOpens`: the password in the Secret opens the repository, at every moment of
  any rotations.
* `ScheduleComesBack`: restores resume nothing a user suspended, and leave nothing
  suspended that was not.
* `OkMeansDone`: success is reported only if the Job did its work.
* `LeavesNothing`: Jobs and temporary Secrets go, however the command ended.
* `EventuallyInitialized`: `reinit` beside a rotation still ends initialized.

`held` is history: a user suspended the schedule while no in-place restore was under
way. What a user does during one is undone by it, see [limits](#known-limits).
A rotation is named after the password it generates. Following logs, resolving
snapshots and paths, and plain output are left out.

## Runs

| Run | Instance | Shows |
| --- | --- | --- |
| `RepositorySafety` | one Repository, both policies, an account that is empty or whose name is taken; one failure of any kind, two of: delete, change policy, lose the Secret, remove the repository by hand | six invariants, `RecordedIdStable`, and that `RemoteLifecycle` is implemented |
| `RepositoryLiveness` | one Repository created under Delete, one failure, two of: deletion, suspension, change of policy | it gets ready with its Secret as the policy says, or goes |
| `RepositoryRecreate` | Retain, two creations, two failures, late Adds | identity and password survive a deletion and recreation |
| `RepositoryAdoptTwice` | two Repositories that adopt one BorgBase repository, one of them deleted | the elder prevails |
| `RepositoryFirstPassFails` | one failed call in the first pass | violated: finding 1 |
| `RepositoryStaleInitJob` | deletion under Delete and recreation | violated: finding 2 |
| `BackupTriggers` | one backup under Allow, two triggers, two seconds, a history of one entry, one failure of any kind, one cancellation | triggers, outcomes and history |
| `BackupConcurrency` | one backup under Forbid, two commands one after the other beside a run of the CronJob, one refused status patch or restart | each command is answered; every trigger is acted upon |
| `BackupLiveness` | two backups in force of one slug and one second, or the elder comes to the slug later; one edit, deletion or change of the Repository | everything that may be in force is, and the younger of one slug is held back |
| `BackupTriggerSkipped` | two commands under Forbid | violated: finding 3 |
| `BackupPods` | three pods of one of six backups (one source or two, with and without `retryLock`, retention, append-only), two faults; some 1500 more specs that are only built | what is stored, lost, reported; what is built can start; schedules mean what they say |
| `CorgCommands` | two commands of nine kinds, two faults of seven kinds (312 239 states) | the Secret opens, the schedule comes back, success is true, nothing stays |

Bounds. Two IDs and two passwords are what a duplicate or a second password
needs; the properties compare two at a time. One failure is enough for each
interrupted step to be seen from every later pass, since a pass keeps nothing
between calls that the objects do not; `RepositoryRecreate` has two. One
deletion and two creations give an object, its successor and copies of both in
cache and pass. With a history of one entry two runs are already more than fit;
an instance of two entries and an earlier run holds as well, too large to be kept
here.
`RepositoryAdoptTwice` has two creations; the theorem covers the rest.
`BackupConcurrency` has one command in each of two seconds (`AsksAt`), the second of
which finds the first answered, refused or not yet seen; its runs do not end (`Outcomes`
is empty), so that Forbid holds against them, and their ends are in `BackupTriggers`.
Its failure is one after the Job was created or the trigger refused: the patch of the
status fails, or the operator stops anywhere. `BackupLiveness` has none: a failed pass
ends in the backoff of the queue as the conflicts with a lagging cache do, which it has,
and `BackupTriggers` has all kinds. The failures of `RepositoryLiveness` leave
out an API token that is not found, which ends a pass as a failed call does and is in
`RepositorySafety`.

`BackupPods` runs three pods: two backups and a `corg prune`, the most that get in
each other's way, since a lock blocks pairwise and a third may wait behind both.
Two faults are a kill that leaves a lock and a failure beside it. Pods are
interchangeable, and symmetry is used; the run checks no liveness. What is only
built is looked at before any run (`Unused`), one state for each spec. The jitters are
those of the first and last minute, hour, day and month and some between; the
durations all from nothing to 25 hours in whole minutes up to an hour and whole
hours beyond, and two that are neither. `CorgCommands` has two commands of any of
nine kinds, begun at any moment, and two faults of seven kinds: every property
compares two commands or one with the cluster. The theorems hold for any number
of both.

Fairness (`FairSpec`). Weak fairness of a pass: the queue starts it and its
calls return, since every client has a timeout. Weak fairness of caches, kubelet
and garbage collector (one queue for all it takes of a ScheduledBackup): watches are
re-established. Strong fairness of
`RetryInitJob`: its condition, five minutes since the failure, is time passing.
Weak fairness of `RepositoryEvent`: the informers resync every ten hours.
Failures, administrators, the CronJob's clock and the end of a backup are owed
nothing, and the liveness properties hold from whatever the last of them left.
In `CorgCommands` a command takes its next step, the operator its passes, and a
Job starts if it can, ends, as restic does, and expires ten minutes later; users,
failures and kills are owed nothing.

Deadlock is not checked: an instance whose bounds are used up, or whose objects
are deleted, stops for good, and so may the system.

## Findings

1. *First pass fails* (`RepositoryFirstPassFails`). `known` is meant to say that
   a pass has completed. The error path patches the ID as well, so after a
   failure before the Secret was written the next pass refuses to generate a
   password for a repository that never had one, for ever.
2. *Stale init Job* (`RepositoryStaleInitJob`). The init Job is looked up by
   name, whoever owns it: a recreated Repository takes the success of its
   predecessor's Job for its own and is initialized without `restic init`.
3. *Refused, reported as succeeded* (`BackupTriggerSkipped`). A pass on a lagging
   cache refuses a second trigger; `lastTriggerJob` is empty in its base and
   empty in its result, so the merge patch leaves the Job of the first trigger
   there, and the second command reports that Job's success.

## Known limits

What the models and the reading for them show of the code beside the findings. Each
item names the property it concerns.
First, where a line of the repository's documents says otherwise:

* "deleting the resource leaves both the BorgBase repository and the credentials Secret
  in place" (`README.md:46-47`, of Retain). The owner reference of the Secret follows
  the policy only when a pass runs (`repository_controller.go:497-515`). A change from
  Delete to Retain and a deletion at once leave it, and the garbage collector takes the
  Secret. `SecretFollowsPolicy` speaks of a Repository that is there once passes have run,
  and nothing here says that a deletion under Retain keeps the Secret;
  `AlwaysRetained`, where the policy never was another, implies it (`KeptInv`).
* "so the newer of the two is held back with `SlugConflict` rather than silently
  reporting into the same place" (`README.md:75-78`). A backup held back keeps the
  CronJob it had, and that goes on reporting (`scheduledbackup_controller.go:110-120`).
  `EventuallyHeldBack` is about the condition.
* "Anything that does not map exactly [...] is pinned verbatim and left alone"
  (`README.md:190-191`). `7 */5 * * *` does not, and `corg migrate` writes `@every 5h`,
  which the operator rejects (`cli/migrate.go:321`). `MigrationKeepsCadence` says so.
* "Suspends the schedule for the duration" (`docs/corg.md:137`, of `--in-place`). Of two
  that overlap the first to end resumes under the other (`cli/restore_targets.go:244`).
  `ScheduleComesBack` is about what is left in the end.

Then the rest:

* A status patch names no uid and no resourceVersion: a pass that began with a backup
  now deleted and made anew writes its history to the successor, whose own entries
  the next pass may overwrite, or drop when the Jobs of the predecessor are collected
  (`scheduledbackup_controller.go`, `patchStatus`; `BackupTriggers` deletes nothing).
* Two database sources share restic's path `/stdin`, so that `forget` counts them
  as one series; it has no filter by tag or host, so that ScheduledBackups of one
  namespace and Repository share theirs as well. A partial snapshot of a failed
  run counts, too. `NothingLostToFailure` is about the newest of a path.
* Retention on an `appendOnly` Repository fails every run, though its sources were
  stored (`OverlapIsNoFailure` excludes it).
* The CRD text says that `cache.enabled` defaults to the operator's setting; the code defaults to true.
* A variable of runitor in `spec.env` wins over the operator's: `CHECK_SLUG` beside a
  UUID gives a run two checks (`backup/cronjob.go:361-363`; `PingsApart`).
* A data volume mounted at `/cache`, where a claim named `cache` goes by default,
  is not refused though restic's cache is there (`PodsCanStart` has other names).
* `corg suspend` during an in-place restore is undone by its end. A restore whose
  suspension lost its reply, or that was killed, leaves the schedule suspended
  (`Undisturbed`).
* A Job whose creation lost its reply is not known to corg: an idle one never
  ends, one of a rotation waits for a Secret that is gone. A killed rotation
  leaves its temporary Secret (`LeavesNothing` excludes both).
* `restic dump | restoredb` has the exit code of `restoredb` (`OkMeansDone`
  leaves `--to-database` out).
* `corg wait` takes a Job that was deleted for one that has finished.

## Proofs

The theorems hold for every value of the constants; `tlapm` checks them to the
last leaf. All but `EveryFiresEvenly` state a property that a run checks.

| Module | Theorem | Statement |
| --- | --- | --- |
| `RepositoryProofs` | `TypeCorrect` | `Spec => []TypeOK` |
| | `DestructionRequested` | `Spec => []DestroyedOnlyOnRequest` |
| | `ElderPrevails` | `Spec => ElderNeverOverridden` |
| `RepositoryRefinement` | `ImplementsLifecycle` | `Spec => DataAsPromised`, that is `Lifecycle!Spec` |
| `ProvisioningProofs` | `NeverDuplicated` | `Spec => []NoDuplicateRemote`, for names of their own and no late Add |
| | `IdNeverMoves` | `Spec => RecordedIdStable`, for resources that keep apart |
| | `OnePasswordEver`, `AlwaysReadable` | `Spec /\ [][Careful]_vars => []OnePasswordPerRemote`, `[]SnapshotsReadable` |
| | `OnePasswordUnderRetain`, `ReadableUnderRetain` | the same of `Spec` alone, if everything is under Retain |
| | `AlwaysUsable` | `Spec /\ [][Careful]_vars /\ [][CleanStart]_vars => []InitializedIsUsable` |
| | `UsableUnlessDeleted` | `Spec => []InitializedIsUsable`, if nobody deletes a Repository |
| `ScheduleProofs` | `EveryFiresEvenly` | an expression made from an accepted `@every` fires at one phase and its multiples, at every minute for ever |
| `ScheduledBackupProofs` | `BackupTypeCorrect`, `TriggerAlwaysRunsOnce` | `Spec => []TypeOK`, `[]TriggerRunsOnce` |
| | `SuccessIsReal` | `Spec => []SuccessMeansBackup`, if no trigger is ever refused (`NoneRefused`) |
| | `HistoryIsKept` | `Spec /\ [][NobodyDeletes]_vars => HistoryKept` |
| `BackupPodProofs` | `SchedulesAreEven`, `ShorthandsRunOnce`, `MigrationsKeepCadence` | `Spec => []EveryIsEven`, `[]OncePerPeriod`, `[]MigrationKeepsCadence` |
| | `PodsAlwaysStart`, `OneOffsLeaveAlone` | `Spec => []PodsCanStart`, `[]OneOffLeavesBackupAlone`, for names of their own |
| | `ReportsToOneCheck` | `Spec => []ReportsAsConfigured`, if no backup sets runitor's variables itself |
| | `PodTypeCorrect`, `SuccessAlwaysStored`, `OverlapNeverFails`, `NothingEverLost` | `Spec => []TypeOK`, `[]SuccessMeansStored`, `[]OverlapIsNoFailure`, and `NothingLostToFailure` |
| `CorgProofs` | `TypeCorrect`, `SecretAlwaysOpens`, `OkAlwaysMeansDone` | `Spec => []TypeOK`, `[]SecretOpens`, `[]OkMeansDone` |
| `RestoreProofs` | `ScheduleReturns` | `Spec => []ScheduleComesBack` |

The assumptions are the `InputAssumption` of each module, what the CRD's
validation and the types of the constants say, which TLC evaluates in every run.
Only `SuccessIsReal`, `HistoryIsKept`, `PodsAlwaysStart`, `OneOffsLeaveAlone`, `ReportsToOneCheck` and
the theorems of `ProvisioningProofs` assume more; they name it in their statement, and it is explained below.

`RepositoryProofs` is for any number of Repositories, IDs, passwords and names, any
preexisting account and any failures. `TypeOK` is not inductive alone: `Typed`
adds that a pass beyond `resolveRepo` has a repository and that an existing Secret
is complete, from which a pod's environment is well typed. `Requested` adds to
`DestroyedOnlyOnRequest` that whoever is being deleted under Delete, on the server,
in the cache or in a pass about to destroy, has its ID in `doomed`: that is what
makes acting on a stale copy harmless, because deletion is never taken back.
`Elders` says that a uid has one creation time (`Incarnations`), that a cache
showing an object shows every older one still there (`CacheIsPast`), and that an
adopting resource has no ID but the adopted one (`AdoptsOne`);
`ElderNeverOverridden` follows in the step of `Claim`. The proofs go by action, one
lemma per group of actions; what a group leaves alone is stated once
(`PassFrames`, `LiveChanges`, `CacheFrame`, `RemoteFrame`).

`RepositoryRefinement` maps each step to one of the lifecycle or to a stutter. Only
six actions touch `remote` (`AddCreates`, `DestroyDestroys`, `RemoveRemoves`,
`BackupStores`, `InitInitializes`, and the growth of `doomed`); `DataFrame` says
that the rest do not. `Requested` is what a `Destroy` needs.

`ProvisioningProofs` is about one resource and what it has: a repository, an ID, a
password. First it sorts the steps: those of a pass, of an administrator, of the
caches (`StepKinds`), what they do to Secrets (`SecretKinds`) and to repositories
(`RemoteKinds`). Then there are six invariants.

* `LineageInv`: only a pass of the resource adds or removes the finalizer, so that a
  copy that shows the finalizer and no deletion is of the incarnation that is there.
  Most of what makes a stale cache harmless rests on that.
* `NamesInv`: a pass is before Add only while BorgBase has nothing of the name.
* `IdsInv`: the IDs in every copy are of repositories with the name of the resource,
  and a pass that began with a copy from before the ID was recorded (`StalePass`)
  finds the same one by its name. It can, because a repository that is recorded but
  not hosted is one whose ID the cache shows (`Shown`): `RemoveRemote` assumes that
  an administrator does not remove one the operator is just recording.
* `PassInv`: a generated password is in the Secret, or every copy a pass could begin
  with shows the ID (`Aware`), so that no pass generates another one (`OnePass`).
* `KeyInv`: a Secret, and a pod that has read it, hold a password that was stored for
  the repository they name (`Points`, `Armed`), and no other becomes a key (`Opens`).
* `UseInv`: an init Job that is to be seen, on the server or in the cache, is for the
  repository the resource is for (`JobOf`). It has to be carried along because the
  controller knows the Job by its name alone: what ties it to a repository is that its
  Secret names no other, and that every pass which is under way or may yet begin finds
  the same one (`Bound`), also when its copy is from before the ID was recorded. A pass
  that has seen the Job succeed writes the flag later, on whatever is there then
  (`Inits`); `Steady` says that the ID it compares with is still the recorded one.

What they assume, and why:

* `NamesApart`, `ResourcesApart`: two resources do not provision one BorgBase name,
  and none adopts what another provisions. The code takes such a repository for its
  own (`resolveRepo` looks up the name); the elder check settles adoptions only.
* No `lateAdd`: an Add that BorgBase runs after the client gave it up makes a second
  repository, and no code could see it coming.
* `SeedsAgree`, `SeedsOpen`: a user who adopts a repository gives its password.
* `Careful`, of each step: a Repository without a seed is created only where its Secret
  is kept, or BorgBase has no repository of its name for which a password was stored.
  What it leaves out is the hazard at `repository_controller.go:686`: a resource
  deleted under Delete before its ID was recorded leaves its repository and loses its
  Secret; created again, it gets another password for it. `AlwaysRetained` implies
  it (`RetainedIsCareful`), by `KeptInv`: there the Secret never goes.
* `CleanStart`, of each step: a Repository is created only where no init Job of the one
  before it is to be seen. Finding 2 is the run that does not meet it. Without a deletion
  it holds, and so does `Careful` (`NobodyDeletesIsClean`, by `FreshInv`).

`RepositorySafety` meets all of these but `AlwaysRetained` (its resource is created
once, so that each creation is careful); `RepositoryRecreate` all but the absence of a late Add and `CleanStart`.

`ScheduleProofs` goes from the divisors of 60 and of 24 to arithmetic: a step that
divides the period meets the end of it, so that the next period begins at the same
phase (`StepInHour`, `StepInDay`, `MinuteAndHour`). `BackupPodProofs` carries that
over to the CronJobs of all backups, and does the same for the shorthands: a jitter
taken modulo the days of a week, 28 or 365 names one day of each week, month or year
(`OncePerPeriod`). What `corg migrate` writes for an expression fires, as the expression
did, at the minutes of the day that lie some distance `d` from each other
(`Residues`). What `cadenceOf` counts depends on `d` alone (`CadenceOfResidues`, by
the first, the last and the next of such minutes), and two classes of one distance
are equally large, by a bijection (`ResidueCount`), wherever the jitter makes them begin.

`PodsAlwaysStart` and `OneOffsLeaveAlone` are about what is built, before any run.
`RunnerFields` says what corg makes of a template, `RunnerVolumesAre` and
`RunnerMountsAre` which volumes and mounts it leaves, each with the option it was
asked for by; `SourcesExist`, `SameNames`, `PathsApart` and `BesideTheApp` are the
four parts of `Startable`. `NamesApart` is assumed: the claim, path and Secret a user
names are none of those the operator and corg make. Nothing in the code refuses such
a name (see [limits](#known-limits)). `ReportsToOneCheck` goes through the environment
of a pod, one merge at a time (`OverHas`, `ReporterEnvHas`, `EnvPings`). Variables of
the spec come last in `buildEnv` and win, so that it assumes that none is one of
runitor's (`PingsApart`).

`BackupPodProofs` proves `PodInv` inductive, for every spec and any number of pods.
`Placed` says that a pod has the script of its kind and works at one of its lines,
`Done` that the lines before it are done, so that a run at the end of its script has
stored every source; `Preserved` that of each path a run has stored there is still a
snapshot as new or newer. Retention keeps that because each path has a newest
snapshot and `Kept` holds on to it: that there is a newest is carried along as
`Newest`, where each new snapshot is newer than all, because the existence of a
maximum in a finite set would need induction. `Holds` ties locks to the pods at
work, and `Alone` says that an exclusive lock is the only one, from which
`NothingLostToFailure` follows. `Faultless` is `OverlapIsNoFailure` with the absence
of stale locks added.

`ScheduledBackupProofs` proves four invariants, one on top of the other. `TypeInv`
adds to `TypeOK` that histories are short in every copy and that the Jobs are
finitely many. `OnceInv` is about triggers and the copies of them: the uids in use
are those handed out so far (`Made`), a pass that works for the backup that is there
finds it in the cache (`UidInv`), and each copy carries a trigger that has been
overtaken, since the annotation only grows (`TimeInv`); so that a one-off run that
has gone was answered in the object, in the cache and in the base of the pass
(`JobInv`), and none of them will start it anew. It was the attempt to prove
`TriggerRunsOnce` that showed two incarnations to share names in one second.
`ReportInv` adds that the recorded Job is that of the recorded time (`NamedInv`) and
that a command follows the run of its trigger or of a later one (`FollowInv`). The
first is false as soon as a trigger can be refused, and then so is the property
(finding 3); `NoneRefused` says what excludes it, and `BackupTriggers` is such an
instance.

`HistoryInv` carries `HistoryKept`, which is not inductive: a pass writes the whole list
over whatever is there, from a copy and a list of Jobs that may both be behind, and what
it writes depends on what was so when it began. `SoundInv` says that every copy of the
history reports Jobs there have been, each once and with no outcome but its own, so that
no merge can choose between two outcomes. `Retained` is about finished runs that
one copy has and another lacks: either the other is full of runs that began no earlier
(`Covers`), or the Job is still to be seen, on the server and in the cache (`Shown`),
so that a pass that begins with the poorer copy lists the run and records it again. That
holds of the cache and the object (`Lags`), and of what a pass began with and is going
to write (`Knows`), until it ends. The merge needs that a history full of newer runs
stays so (`NewestCovers`, `NewestExtends`), which is a matter of counting names;
`OwnInv`, that Jobs and copies are of the backup that is there, makes sure that the
Jobs it lists are its own. `OwnInv` and `Retained` are false of a backup that is deleted and made
anew, and so is the property (see [limits](#known-limits)): `NobodyDeletes` excludes it of
each step. `BackupTriggers` meets it.

`CorgProofs` proves `IInv` inductive. `InOrder` says what the place of a command in
its steps tells of it. `Replaced` says that the Secret holds, and every command has
read as the old password, only what was put there by a rotation that is past
replacing: a password never returns to the Secret, so that removing the old key of
a finished rotation cannot remove the current one. `KeyFirst` says that a rotation
that can still replace the Secret after its Job succeeded has its key in the
repository. `WorkDone` is `OkMeansDone` with the Jobs that succeeded added. Most
actions are steps of one command beside the others (`Aside`); the three that change
the Secret or remove a key are proved by themselves.

`RestoreProofs` adds `RInv`: whoever will resume the schedule (`bracket`) is an
in-place restore that found it running; while such a one is under way nobody holds
the schedule; and a schedule that is suspended, undisturbed, though nobody holds it
has somebody under way who will resume it (`Bracketed`). Suspending establishes the
last, resuming needs the second, and the other steps only hand on what a command
knows (`Follows`).

Every invariant and action property of a passing run is stated by a theorem. Only
model-checked are the liveness properties, `LeavesNothing` among them: fairness and
`ENABLED` are beyond the prover, as are induction over data and modules that use
`RECURSIVE` operators; no module here uses them.

## What is not modelled

* `reconcileSettings` and Edit (quota, alerts, append-only): no other step reads what
  they write, and an Edit is repeated at the next pass until the reply is as wanted.
* Secrets that belong to somebody else, one `spec.secretName` in two Repositories,
  annotations that are no timestamps, the policy Replace, CronJobs of others.
* Commands with clocks of their own, and two backups whose names are cut to one stem.
* A `corg cancel` that is interrupted between its list and its deletes, and entries
  of the history that stay Running because their Job was deleted.
* Dry runs, logs and the resolution of snapshots and paths; `corg wait`.
* The read-only commands and the converters but for schedules: they change no state of the
  system. Validation rules but those the models assume; metrics, flags, TLS;
  generated code and manifests.

`PROJECT.json` lists each part with its reason, and each hazard no property covers.

## Plan

1. `reconcileSettings` and Edit, and Secrets shared by two Repositories.
2. Two backups whose names are cut to one, commands with clocks of their own,
   `corg cancel` in two steps, and a property of `Running` entries.
