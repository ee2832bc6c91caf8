---------------------- MODULE ScheduledBackupController ----------------------
(***************************************************************************)
(* The ScheduledBackup reconciler of internal/controller for the backups   *)
(* of one namespace and one Repository: the CronJob and the cache claim it *)
(* keeps, the runs it starts for the trigger-at annotation, the history it *)
(* records, and the backups it holds back because they share a             *)
(* healthchecks slug.  Around it are the CronJob controller, the Jobs and  *)
(* the `corg backup --wait` commands that write the annotation and watch   *)
(* the status.                                                             *)
(*                                                                         *)
(* A pass is a sequence of steps of worker[b] on a copy of the cached      *)
(* object.  A key is in queue when an event, a timer or the backoff of an  *)
(* error will start a pass for it: a pass that holds a backup back asks    *)
(* for no timer, and writes of the status raise no event.                  *)
(***************************************************************************)
EXTENDS Naturals, FiniteSets

CONSTANTS
  Backups,      \* ScheduledBackups, by name
  Slugs,        \* healthchecks slugs
  None,         \* no slug, no Job
  Rank,         \* [Backups -> Nat]: the order of their names
  Stem,         \* [Backups -> names cut to what fits a Job name]
  Concurrency,  \* [Backups -> {"Allow", "Forbid"}]: Replace is not modelled
  InitialSlugs, \* [Backups -> SUBSET (Slugs \cup {None})]
  Standing,     \* [Backups -> Nat]: the uids of those in force when the operator
                \* starts, 0 for a backup that is not there yet
  Finished,     \* those of them with a finished run, whose Job is still there
  HistoryLimit, \* historyLimit
  Commands,     \* users of `corg backup --wait`
  AsksAt,       \* [Commands -> SUBSET Nat]: the seconds at which each runs the command
  Outcomes,     \* how runs end; none ends when it is empty
  Repositories, \* the states of the Repository when the operator starts
  AdminOps, Faults,
  MaxClock, MaxCreations, MaxAdminOps, MaxFaults, MaxScheduled, MaxManual  \* bounds

VARIABLES
  live, cache,        \* [Backups -> Object]: the API server, and the informer cache
  cron,               \* [Backups -> CronJob]
  cronCache,          \* [Backups -> Nat]: the uid of the cached CronJob, 0 for none
  jobs,               \* every backup Job there has been
  jobCache,           \* the Jobs the informer cache shows
  claim,              \* [Backups -> Nat]: the owner of the cache claim, 0 for none
  repository,         \* what the cache of Repositories shows
  queue,              \* the keys a pass will be started for
  worker,             \* [Backups -> Worker]: the pass in progress
  command,            \* [Commands -> Command]
  clock,              \* seconds
  creations, adminOps, faults

caches == <<cache, cronCache, jobCache>>
objects == <<live, cron, jobs, claim>>
bounds == <<clock, creations, adminOps, faults>>
vars == <<live, cache, cron, cronCache, jobs, jobCache, claim, repository, queue, worker,
          command, clock, creations, adminOps, faults>>

-------------------------------------------------------------------------------
(* Values *)

Ready == {"Unknown", "Ready", "RepositoryNotFound", "RepositoryNotReady", "SlugConflict",
          "ReconcileFailed"}
JobState == {"Running", "Succeeded", "Failed"}
Stems == {Stem[b] : b \in Backups}
JobName == [kind : {"Scheduled", "Manual"}, stem : Stems \cup Backups, at : Nat]
Run == [name : JobName, start : Nat, result : JobState]
\* slug is what Reporter resolves for the backup: None when its runs are not
\* reported, or by UUID. trigger is the annotation, 0 when there is none.
Object == [exists : BOOLEAN, uid : Nat, born : Nat, slug : Slugs \cup {None},
           suspend : BOOLEAN, cached : BOOLEAN, trigger : Nat, ready : Ready,
           lastTime : Nat, lastJob : JobName \cup {None}, history : SUBSET Run]
\* uid is that of the ScheduledBackup that created the CronJob.
CronJob == [exists : BOOLEAN, uid : Nat, owner : Nat, slug : Slugs \cup {None},
            suspend : BOOLEAN, cached : BOOLEAN]
\* owner is the uid of the ScheduledBackup for a manual run, of the CronJob for a
\* scheduled one; id tells Jobs of one name apart; gone: no longer on the API server.
Job == [id : Nat, name : JobName, backup : Backups, owner : Nat, start : Nat,
        state : JobState, gone : BOOLEAN]
Worker == [pc : {"idle", "check", "volume", "cron", "runs", "trigger", "patch"},
           obj : Object, base : Object, cronUid : Nat, active : JobName \cup {None}]
Command == [pc : {"idle", "acknowledge", "follow", "done"}, backup : Backups \cup {None},
            since : Nat, job : JobName \cup {None},
            result : {"none", "skipped", "succeeded", "failed"}]

NoObject == [exists |-> FALSE, uid |-> 0, born |-> 0, slug |-> None, suspend |-> FALSE,
             cached |-> FALSE, trigger |-> 0, ready |-> "Unknown", lastTime |-> 0,
             lastJob |-> None, history |-> {}]
NoCronJob == [exists |-> FALSE, uid |-> 0, owner |-> 0, slug |-> None, suspend |-> FALSE,
              cached |-> FALSE]
Idle == [pc |-> "idle", obj |-> NoObject, base |-> NoObject, cronUid |-> 0, active |-> None]
NoCommand == [pc |-> "idle", backup |-> None, since |-> 0, job |-> None, result |-> "none"]

ASSUME InputAssumption ==
  /\ Rank \in [Backups -> Nat]
  /\ \A b \in Backups : Stem[b] # None
  /\ Concurrency \in [Backups -> {"Allow", "Forbid"}]
  /\ InitialSlugs \in [Backups -> SUBSET (Slugs \cup {None})]
  /\ Standing \in [Backups -> 0..Cardinality({o \in Backups : Standing[o] # 0})]
  /\ \A a, b \in Backups : Standing[a] = Standing[b] /\ a # b => Standing[a] = 0
  /\ \A b \in Finished : b \in Backups /\ Standing[b] # 0
  /\ HistoryLimit \in Nat \ {0}
  /\ AsksAt \in [Commands -> SUBSET Nat]
  /\ Outcomes \subseteq {"Succeeded", "Failed"}
  /\ Repositories \subseteq {"absent", "uninitialized", "initialized"}
  /\ None \notin Slugs /\ None \notin Backups /\ None \notin JobName
  /\ IsFiniteSet(Backups)

\* What BuildCronJob renders, under the uid of the CronJob it is written to.
Rendered(o, uid) ==
  [exists |-> TRUE, uid |-> uid, owner |-> o.uid, slug |-> o.slug, suspend |-> o.suspend,
   cached |-> o.cached]

NewBackup(uid, born, slug) ==
  [NoObject EXCEPT !.exists = TRUE, !.uid = uid, !.born = born, !.slug = slug, !.cached = TRUE]

\* The run of a backup in force that its CronJob started before the operator.
LastRun(b) ==
  [id |-> 0, name |-> [kind |-> "Scheduled", stem |-> b, at |-> 0], backup |-> b,
   owner |-> Standing[b], start |-> 0, state |-> "Succeeded", gone |-> FALSE]
RunFromJob(j) == [name |-> j.name, start |-> j.start, result |-> j.state]

\* An operator starts on a cluster whose backups are in force, and lists them.
Init ==
  /\ \E slug \in [Backups -> Slugs \cup {None}] :
       /\ \A b \in Backups : slug[b] \in InitialSlugs[b]
       /\ live = [b \in Backups |->
                    IF Standing[b] = 0 THEN NoObject
                    ELSE [NewBackup(Standing[b], 0, slug[b]) EXCEPT
                            !.ready = "Ready",
                            !.history = {RunFromJob(LastRun(f)) : f \in Finished \cap {b}}]]
  /\ cache = live
  /\ cron = [b \in Backups |-> IF Standing[b] = 0 THEN NoCronJob ELSE Rendered(live[b], Standing[b])]
  /\ cronCache = Standing
  /\ jobs = {LastRun(b) : b \in Finished} /\ jobCache = jobs
  /\ claim = Standing
  /\ repository \in Repositories
  /\ queue = {b \in Backups : live[b].exists}
  /\ worker = [b \in Backups |-> Idle]
  /\ command = [c \in Commands |-> NoCommand]
  /\ clock = 1 /\ creations = Cardinality({b \in Backups : live[b].exists}) /\ adminOps = 0 /\ faults = 0

-------------------------------------------------------------------------------
(* Helpers *)

Fault(kind) == kind \in Faults /\ faults < MaxFaults /\ faults' = faults + 1

Visible == {j \in jobs : ~j.gone}
Scheduled == {j \in jobs : j.name.kind = "Scheduled"}
Manual == jobs \ Scheduled
Remove(gone) == jobs' = {IF j \in gone THEN [j EXCEPT !.gone = TRUE] ELSE j : j \in jobs}
StartJob(b, name, owner) ==
  jobs' = jobs \cup {[id |-> Cardinality(jobs), name |-> name, backup |-> b,
                      owner |-> owner, start |-> clock, state |-> "Running", gone |-> FALSE]}

Goto(b, w) == worker' = [worker EXCEPT ![b] = w]
At(w, pc) == [w EXCEPT !.pc = pc]
Settle(w, reason) == [w EXCEPT !.pc = "patch", !.obj.ready = reason]
Failed(w) == Settle(w, "ReconcileFailed")

\* A call took effect; its reply reached the operator, or did not.
Replied(b, reply, w) ==
  \/ reply = "ok" /\ Goto(b, w) /\ UNCHANGED faults
  \/ reply # "ok" /\ Fault(reply) /\ Goto(b, Failed(worker[b]))

-------------------------------------------------------------------------------
(* Reconcile: whether the backup may run *)

StartPass(b) ==
  /\ b \in queue /\ worker[b].pc = "idle"
  /\ queue' = queue \ {b}
  /\ IF cache[b].exists
     THEN Goto(b, [Idle EXCEPT !.pc = "check", !.obj = cache[b], !.base = cache[b]])
     ELSE UNCHANGED worker
  /\ UNCHANGED <<objects, caches, repository, command, bounds>>

OlderThan(a, o, w, b) ==
  a.born < w.born \/ (a.born = w.born /\ Rank[o] < Rank[b])

\* slugConflict; the variant has nothing to tell two of one second apart.
SlugConflictStrict(b) ==
  {o \in Backups \ {b} : /\ cache[o].exists
                         /\ worker[b].obj.slug # None /\ cache[o].slug = worker[b].obj.slug
                         /\ cache[o].born < worker[b].obj.born}
SlugConflict(b) ==
  {o \in Backups \ {b} : /\ cache[o].exists
                         /\ worker[b].obj.slug # None /\ cache[o].slug = worker[b].obj.slug
                         /\ OlderThan(cache[o], o, worker[b].obj, b)}

Check(b) ==
  LET w == worker[b] IN
  /\ w.pc = "check"
  /\ \/ repository = "absent" /\ Goto(b, Settle(w, "RepositoryNotFound"))
     \/ repository = "uninitialized" /\ Goto(b, Settle(w, "RepositoryNotReady"))
     \/ repository = "initialized" /\ SlugConflict(b) # {} /\ Goto(b, Settle(w, "SlugConflict"))
     \/ repository = "initialized" /\ SlugConflict(b) = {} /\ Goto(b, At(w, "volume"))
  /\ UNCHANGED <<objects, caches, repository, queue, command, bounds>>

-------------------------------------------------------------------------------
(* Reconcile: the cache claim and the CronJob *)

\* reconcileCache reads the claim uncached, leaves one that exists alone, and
\* deletes only its own.
Volume(b, reply) ==
  LET w == worker[b] IN
  /\ w.pc = "volume"
  /\ \/ w.obj.cached /\ claim[b] = 0 /\ claim' = [claim EXCEPT ![b] = w.obj.uid]
     \/ ~w.obj.cached /\ claim[b] = w.obj.uid /\ claim' = [claim EXCEPT ![b] = 0]
     \/ claim[b] # (IF w.obj.cached THEN 0 ELSE w.obj.uid) /\ reply = "ok" /\ UNCHANGED claim
  /\ Replied(b, reply, At(w, "cron"))
  /\ UNCHANGED <<live, cron, jobs, caches, repository, queue, command, clock, creations, adminOps>>

CreateCronJob(b, reply) ==
  LET w == worker[b] IN
  /\ w.pc = "cron" /\ cronCache[b] = 0 /\ ~cron[b].exists
  /\ cron' = [cron EXCEPT ![b] = Rendered(w.obj, w.obj.uid)]
  /\ Replied(b, reply, [At(w, "runs") EXCEPT !.cronUid = w.obj.uid, !.obj.ready = "Ready"])
  /\ UNCHANGED <<live, jobs, claim, caches, repository, queue, command, clock, creations, adminOps>>

\* The update carries the resourceVersion that was read.
UpdateCronJob(b, reply) ==
  LET w == worker[b]  uid == cronCache[b] IN
  /\ w.pc = "cron" /\ uid # 0 /\ cron[b].exists /\ cron[b].uid = uid
  /\ cron' = [cron EXCEPT ![b] = Rendered(w.obj, uid)]
  /\ Replied(b, reply, [At(w, "runs") EXCEPT !.cronUid = uid, !.obj.ready = "Ready"])
  /\ UNCHANGED <<live, jobs, claim, caches, repository, queue, command, clock, creations, adminOps>>

\* The cache showed no CronJob and there is one, or one that is no longer there.
StaleCronJob(b) ==
  /\ worker[b].pc = "cron"
  /\ cronCache[b] # (IF cron[b].exists THEN cron[b].uid ELSE 0)
  /\ Goto(b, Failed(worker[b]))
  /\ UNCHANGED <<objects, caches, repository, queue, command, bounds>>

-------------------------------------------------------------------------------
(* Reconcile: the history and the trigger *)

\* The cached Jobs this ScheduledBackup or its CronJob owns.
ObservedRuns(b) ==
  {j \in jobCache : j.owner = IF j.name.kind = "Manual" THEN worker[b].obj.uid
                                                         ELSE worker[b].cronUid}

\* The newest of them, as many as fit; runs of one second are in no order. The
\* variant keeps them all.
NewestAll(runs) == {runs}
Newest(runs) ==
  {kept \in SUBSET runs :
     /\ Cardinality(kept) = IF Cardinality(runs) < HistoryLimit THEN Cardinality(runs)
                                                               ELSE HistoryLimit
     /\ \A k \in kept, d \in runs \ kept : k.start >= d.start}

\* Runs recorded earlier stay when their Job is gone. The variant forgets them.
MergedObserved(existing, observed) == {RunFromJob(j) : j \in observed}
Merged(existing, observed) ==
  {RunFromJob(j) : j \in observed}
    \cup {r \in existing : r.name \notin {j.name : j \in observed}}

Active(observed) == {j \in observed : j.state = "Running"}

\* activeRun: the first of the runs, newest first.
ActiveRun(observed) ==
  IF Active(observed) = {} THEN {None}
  ELSE {j.name : j \in {k \in Active(observed) : \A l \in Active(observed) : k.start >= l.start}}

\* The annotation asks for a run the operator has not acted on. The variants
\* remember nothing, or only that there was a trigger before.
DueAlways(o) == o.trigger # 0
DueOnce(o) == o.trigger # 0 /\ o.lastTime = 0
Due(o) == o.trigger # 0 /\ o.trigger > o.lastTime

Observe(b) ==
  LET w == worker[b]  observed == ObservedRuns(b) IN
  /\ w.pc = "runs"
  /\ \E kept \in Newest(Merged(w.obj.history, observed)), active \in ActiveRun(observed) :
       Goto(b, [w EXCEPT !.pc = IF Due(w.obj) THEN "trigger" ELSE "patch",
                         !.obj.history = kept, !.active = active])
  /\ UNCHANGED <<objects, caches, repository, queue, command, bounds>>

\* The suffix is the trigger's time; the name before it is cut to fit.
ManualJobName(b, at) == [kind |-> "Manual", stem |-> Stem[b], at |-> at]

Skipped(b) ==
  LET w == worker[b] IN
  /\ Concurrency[b] = "Forbid"
  /\ w.active \notin {None, ManualJobName(b, w.obj.trigger)}

Answered(w, job) == [w EXCEPT !.pc = "patch", !.obj.lastTime = w.obj.trigger, !.obj.lastJob = job]

SkipTrigger(b) ==
  LET w == worker[b] IN
  /\ w.pc = "trigger" /\ Skipped(b)
  /\ Goto(b, Answered(w, None))
  /\ UNCHANGED <<objects, caches, repository, queue, command, bounds>>

\* A Job of that name is taken for this trigger's.
TriggerJob(b, reply) ==
  LET w == worker[b]  name == ManualJobName(b, w.obj.trigger) IN
  /\ w.pc = "trigger" /\ ~Skipped(b)
  /\ \/ (\E j \in Visible : j.name = name) /\ UNCHANGED jobs
     \/ /\ \A j \in Visible : j.name # name
        /\ Cardinality(Manual) < MaxManual
        /\ StartJob(b, name, w.obj.uid)
  /\ Replied(b, reply, Answered(w, name))
  /\ UNCHANGED <<live, cron, claim, caches, repository, queue, command, clock, creations, adminOps>>

-------------------------------------------------------------------------------
(* The end of a pass *)

\* The fields the pass changed, without a precondition; the history as a whole.
Patched(o, base, new) ==
  [o EXCEPT !.ready = IF new.ready # base.ready THEN new.ready ELSE @,
            !.lastTime = IF new.lastTime # base.lastTime THEN new.lastTime ELSE @,
            !.lastJob = IF new.lastJob # base.lastJob THEN new.lastJob ELSE @,
            !.history = IF new.history # base.history THEN new.history ELSE @]

\* The reasons whose pass is followed by another: after five minutes, or with
\* the backoff of an error.
Requeues == {"Ready", "ReconcileFailed"}

Requeue(b) == queue' = queue \cup {b}

PatchStatus(b) ==
  LET w == worker[b] IN
  /\ w.pc = "patch"
  /\ live' = IF live[b].exists
             THEN [live EXCEPT ![b] = Patched(@, w.base, w.obj)] ELSE live
  /\ Goto(b, Idle)
  /\ IF w.obj.ready \in Requeues \/ (~live[b].exists /\ w.obj # w.base)
     THEN Requeue(b) ELSE UNCHANGED queue
  /\ UNCHANGED <<cron, jobs, claim, caches, repository, command, bounds>>

\* A call of reconcile fails without effect.
CallFails(b) ==
  /\ \/ worker[b].pc \in {"check", "volume", "cron"}
     \/ worker[b].pc = "trigger" /\ ~Skipped(b)
  /\ Fault("apiError")
  /\ Goto(b, Failed(worker[b]))
  /\ UNCHANGED <<objects, caches, repository, queue, command, clock, creations, adminOps>>

PatchFails(b) ==
  /\ worker[b].pc = "patch"
  /\ Fault("patchError")
  /\ Goto(b, Idle) /\ Requeue(b)
  /\ UNCHANGED <<objects, caches, repository, command, clock, creations, adminOps>>

\* A restart or another leader: passes are lost, caches and queue listed anew.
Crash ==
  /\ Fault("crash")
  /\ worker' = [b \in Backups |-> Idle]
  /\ cache' = live
  /\ cronCache' = [b \in Backups |-> IF cron[b].exists THEN cron[b].uid ELSE 0]
  /\ jobCache' = Visible
  /\ queue' = {b \in Backups : live[b].exists}
  /\ UNCHANGED <<objects, repository, command, clock, creations, adminOps>>

-------------------------------------------------------------------------------
(* The informers *)

\* ignoreOwnStatusWrites: creations, deletions, the spec and the annotation.
Notifies(o, n) ==
  \/ o.uid # n.uid \/ o.slug # n.slug \/ o.suspend # n.suspend \/ o.cached # n.cached
  \/ o.trigger # n.trigger

SyncBackups ==
  /\ cache # live
  /\ cache' = live
  /\ queue' = queue \cup {b \in Backups : Notifies(cache[b], live[b])}
  /\ UNCHANGED <<objects, cronCache, jobCache, repository, worker, command, bounds>>

CronJobUids == [b \in Backups |-> IF cron[b].exists THEN cron[b].uid ELSE 0]

SyncCronJobs ==
  /\ cronCache # CronJobUids
  /\ cronCache' = CronJobUids
  /\ queue' = queue \cup {b \in Backups : cronCache[b] # CronJobUids[b]}
  /\ UNCHANGED <<objects, cache, jobCache, repository, worker, command, bounds>>

\* A manual run belongs to the ScheduledBackup; one that the CronJob started is
\* announced by the CronJob's list of active runs.
SyncJobs ==
  /\ jobCache # Visible
  /\ jobCache' = Visible
  /\ queue' = queue \cup {j.backup : j \in (jobCache \ Visible) \cup (Visible \ jobCache)}
  /\ UNCHANGED <<objects, cache, cronCache, repository, worker, command, bounds>>

\* backupsForRepository: an update of the Repository, or the informer's resync,
\* which no predicate filters. The variant enqueues nobody.
BackupsForNobody == {}
BackupsForRepository == {b \in Backups : cache[b].exists}

RepositoryEvent ==
  /\ ~(BackupsForRepository \subseteq queue)
  /\ queue' = queue \cup BackupsForRepository
  /\ UNCHANGED <<objects, caches, repository, worker, command, bounds>>

-------------------------------------------------------------------------------
(* The CronJob controller, the Jobs and the garbage collector *)

\* Forbid looks at the runs of the CronJob only.
FireCronJob(b) ==
  LET running == {j \in Visible : /\ j.name.kind = "Scheduled" /\ j.owner = cron[b].uid
                                  /\ j.state = "Running"}
      name == [kind |-> "Scheduled", stem |-> b, at |-> clock]
  IN  /\ Cardinality(Scheduled) < MaxScheduled
      /\ cron[b].exists /\ ~cron[b].suspend
      /\ \A j \in jobs : j.name # name
      /\ Concurrency[b] = "Forbid" => running = {}
      /\ StartJob(b, name, cron[b].uid)
      /\ UNCHANGED <<live, cron, claim, caches, repository, queue, worker, command, bounds>>

FinishJob(j, result) ==
  /\ j \in Visible /\ j.state = "Running"
  /\ jobs' = (jobs \ {j}) \cup {[j EXCEPT !.state = result]}
  /\ UNCHANGED <<live, cron, claim, caches, repository, queue, worker, command, bounds>>

\* A finished Job stays for an hour, or until newer ones push it out of what the
\* CronJob keeps. By then the operator has recorded its outcome and answered the
\* trigger it may be for, and every pass that began before has ended: it is neither
\* away nor failing for that long.
RecordedIn(o, j) ==
  RunFromJob(j) \in o.history /\ (j.name.kind = "Manual" => o.lastTime >= j.name.at)
Recorded(j) ==
  /\ RecordedIn(cache[j.backup], j)
  /\ worker[j.backup].pc # "idle" => RecordedIn(worker[j.backup].base, j)

ExpireJob(j) ==
  /\ j \in Visible /\ j.state # "Running" /\ Recorded(j)
  /\ Remove({j})
  /\ UNCHANGED <<live, cron, claim, caches, repository, queue, worker, command, bounds>>

Orphaned(j) ==
  IF j.name.kind = "Manual" THEN live[j.backup].uid # j.owner
  ELSE ~(cron[j.backup].exists /\ cron[j.backup].uid = j.owner)

CollectJobs ==
  /\ \E j \in Visible : Orphaned(j)
  /\ Remove({j \in Visible : Orphaned(j)})
  /\ UNCHANGED <<live, cron, claim, caches, repository, queue, worker, command, bounds>>

CollectCronJob(b) ==
  /\ cron[b].exists /\ cron[b].owner # live[b].uid
  /\ cron' = [cron EXCEPT ![b] = NoCronJob]
  /\ UNCHANGED <<live, jobs, claim, caches, repository, queue, worker, command, bounds>>

CollectClaim(b) ==
  /\ claim[b] \notin {0, live[b].uid}
  /\ claim' = [claim EXCEPT ![b] = 0]
  /\ UNCHANGED <<live, cron, jobs, caches, repository, queue, worker, command, bounds>>

Tick ==
  /\ clock < MaxClock
  /\ clock' = clock + 1
  /\ UNCHANGED <<objects, caches, repository, queue, worker, command, creations, adminOps, faults>>

-------------------------------------------------------------------------------
(* corg backup --wait *)

\* The time is cut to the second; the command writes the annotation of what it
\* read, whoever else wrote one. A user runs one command after another, also when
\* the one before has been interrupted.
TriggerBackup(c, b) ==
  /\ command[c].since < clock /\ clock \in AsksAt[c]
  /\ live[b].exists
  /\ live' = [live EXCEPT ![b].trigger = clock]
  /\ command' = [command EXCEPT ![c] = [NoCommand EXCEPT !.pc = "acknowledge", !.backup = b,
                                                         !.since = clock]]
  /\ UNCHANGED <<cron, jobs, claim, caches, repository, queue, worker, bounds>>

\* The variants take any acknowledgement for its own, or only that of its own trigger.
AcknowledgedAny(c) == live[command[c].backup].lastTime # 0
AcknowledgedOwn(c) == live[command[c].backup].lastTime = command[c].since
Acknowledged(c) ==
  LET last == live[command[c].backup].lastTime IN last # 0 /\ last >= command[c].since

AwaitTrigger(c) ==
  LET job == live[command[c].backup].lastJob IN
  /\ command[c].pc = "acknowledge"
  /\ Acknowledged(c)
  /\ command' = [command EXCEPT ![c] =
       IF job = None THEN [@ EXCEPT !.pc = "done", !.result = "skipped"]
                     ELSE [@ EXCEPT !.pc = "follow", !.job = job]]
  /\ UNCHANGED <<objects, caches, repository, queue, worker, bounds>>

\* A Job that is not there is waited for. A command whose timeout passes, or whose
\* ScheduledBackup is gone, gives up: it takes no more steps.
AwaitJob(c) ==
  \E j \in Visible :
    /\ command[c].pc = "follow"
    /\ j.name = command[c].job /\ j.state # "Running"
    /\ command' = [command EXCEPT ![c].pc = "done",
                     ![c].result = IF j.state = "Failed" THEN "failed" ELSE "succeeded"]
    /\ UNCHANGED <<objects, caches, repository, queue, worker, bounds>>

-------------------------------------------------------------------------------
(* Administrators *)

Admin(op) == op \in AdminOps /\ adminOps < MaxAdminOps /\ adminOps' = adminOps + 1

CreateBackup(b, slug) ==
  /\ ~live[b].exists
  /\ creations < MaxCreations /\ creations' = creations + 1
  /\ slug \in InitialSlugs[b]
  /\ live' = [live EXCEPT ![b] = NewBackup(creations + 1, clock, slug)]
  /\ UNCHANGED <<cron, jobs, claim, caches, repository, queue, worker, command, clock, adminOps, faults>>

DeleteBackup(b) ==
  /\ Admin("delete")
  /\ live[b].exists
  /\ live' = [live EXCEPT ![b] = NoObject]
  /\ UNCHANGED <<cron, jobs, claim, caches, repository, queue, worker, command, clock, creations, faults>>

\* The fields of the spec the model keeps, one at a time.
EditSlug(b, slug) ==
  /\ Admin("slug")
  /\ live[b].exists /\ live[b].slug # slug
  /\ live' = [live EXCEPT ![b].slug = slug]
  /\ UNCHANGED <<cron, jobs, claim, caches, repository, queue, worker, command, clock, creations, faults>>

EditBackup(b) ==
  /\ Admin("edit")
  /\ live[b].exists
  /\ \/ live' = [live EXCEPT ![b].suspend = ~@]
     \/ live' = [live EXCEPT ![b].cached = ~@]
  /\ UNCHANGED <<cron, jobs, claim, caches, repository, queue, worker, command, clock, creations, faults>>

\* corg cancel deletes the runs in flight, here at a time the operator has seen
\* all there is to see.
Cancel(b) ==
  LET running == {j \in Visible : j.backup = b /\ j.state = "Running"} IN
  /\ Admin("cancel")
  /\ worker[b].pc = "idle" /\ cache[b] = live[b] /\ ~Due(live[b]) /\ jobCache = Visible
  /\ running # {}
  /\ Remove(running)
  /\ UNCHANGED <<live, cron, claim, caches, repository, queue, worker, command, clock, creations, faults>>

\* The Repository goes, comes, is initialized or set back by corg reinit.
ChangeRepository(state) ==
  /\ Admin("repository")
  /\ state # repository
  /\ repository' = state
  /\ queue' = queue \cup BackupsForRepository
  /\ UNCHANGED <<objects, caches, worker, command, clock, creations, faults>>

-------------------------------------------------------------------------------
(* Specification *)

PassStep(b) ==
  \/ StartPass(b) \/ Check(b) \/ Volume(b, "ok")
  \/ CreateCronJob(b, "ok") \/ UpdateCronJob(b, "ok") \/ StaleCronJob(b)
  \/ Observe(b) \/ SkipTrigger(b) \/ TriggerJob(b, "ok")
  \/ PatchStatus(b)

ReplyLost(b) ==
  \/ Volume(b, "lostWrite") \/ CreateCronJob(b, "lostWrite") \/ UpdateCronJob(b, "lostWrite")
  \/ TriggerJob(b, "lostCreate")

Failure(b) == CallFails(b) \/ PatchFails(b)

Cluster ==
  \/ SyncBackups \/ SyncCronJobs \/ SyncJobs \/ RepositoryEvent
  \/ \E b \in Backups : FireCronJob(b) \/ CollectCronJob(b) \/ CollectClaim(b)
  \/ \E j \in jobs : ExpireJob(j) \/ \E result \in Outcomes : FinishJob(j, result)
  \/ CollectJobs \/ Tick

BackupCommand(c) ==
  \/ \E b \in Backups : TriggerBackup(c, b)
  \/ AwaitTrigger(c) \/ AwaitJob(c)

Administrator(b) ==
  \/ \E slug \in Slugs \cup {None} : CreateBackup(b, slug) \/ EditSlug(b, slug)
  \/ DeleteBackup(b) \/ EditBackup(b) \/ Cancel(b)

Next ==
  \/ \E b \in Backups : \/ PassStep(b) \/ ReplyLost(b) \/ Failure(b) \/ Administrator(b)
  \/ \E c \in Commands : BackupCommand(c)
  \/ \E state \in {"absent", "uninitialized", "initialized"} : ChangeRepository(state)
  \/ Cluster \/ Crash

Spec == Init /\ [][Next]_vars

-------------------------------------------------------------------------------
(* Safety *)

\* Every variable holds the kind of value its comment says, and no history is
\* longer than historyLimit.
TypeOK ==
  /\ live \in [Backups -> Object] /\ cache \in [Backups -> Object]
  /\ \A b \in Backups : Cardinality(live[b].history) <= HistoryLimit
  /\ cron \in [Backups -> CronJob] /\ cronCache \in [Backups -> Nat]
  /\ jobs \subseteq Job /\ jobCache \subseteq Job
  /\ claim \in [Backups -> Nat]
  /\ repository \in {"absent", "uninitialized", "initialized"}
  /\ queue \subseteq Backups
  /\ worker \in [Backups -> Worker]
  /\ command \in [Commands -> Command]
  /\ clock \in Nat /\ creations \in Nat /\ adminOps \in Nat /\ faults \in Nat

\* The annotation asks for a one-off backup: however often a pass sees it again,
\* after an error, a restart or with a lagging cache, it starts one run for the
\* backup that is there. (One that is deleted and made again, all in one second, may
\* give a run the name of one of its predecessor's.)
TriggerRunsOnce ==
  \A i, j \in jobs :
    /\ i.name = j.name /\ i.backup = j.backup /\ i.owner = j.owner
    /\ i.owner = live[i.backup].uid
    => i = j

\* What corg backup --wait promises: it reports success only for a run of its
\* backup that began once the command had asked for one, and that succeeded.
SuccessMeansBackup ==
  \A c \in Commands :
    command[c].result = "succeeded" =>
      \E j \in jobs : /\ j.backup = command[c].backup /\ j.state = "Succeeded"
                      /\ j.start >= command[c].since

\* mergeHistory keeps what status.history has recorded: a finished run leaves it,
\* or changes its outcome, only when newer ones fill the history. It speaks of
\* a backup nobody deletes and makes anew: the status patch names no uid, and
\* a pass that began with the predecessor would write its history over this one.
HistoryKept ==
  [][\A b \in Backups : live'[b].uid = live[b].uid =>
       \A r \in live[b].history : r.result # "Running" /\ r \notin live'[b].history =>
         /\ Cardinality(live'[b].history) = HistoryLimit
         /\ \A k \in live'[b].history : k.start >= r.start]_vars

-------------------------------------------------------------------------------
(* Liveness *)

\* A key in the queue gets its pass, and its calls return. The watches and the
\* garbage collector make progress, and every ten hours the informers resync.
Fairness ==
  /\ \A b \in Backups : WF_vars(PassStep(b))
  /\ WF_vars(SyncBackups) /\ WF_vars(SyncCronJobs) /\ WF_vars(SyncJobs)
  /\ WF_vars(CollectJobs \/ \E b \in Backups : CollectCronJob(b) \/ CollectClaim(b))
  /\ WF_vars(RepositoryEvent)
  /\ \A c \in Commands : WF_vars(AwaitTrigger(c))

FairSpec == Spec /\ Fairness

Older(o, b) ==
  /\ o # b /\ live[o].exists /\ live[o].slug # None /\ live[o].slug = live[b].slug
  /\ OlderThan(live[o], o, live[b], b)

\* Once failures and administrators rest, every backup whose Repository is
\* initialized and whose slug no older one reports to is Ready: its CronJob is
\* what the spec says, its claim is there and its trigger has been answered,
\* also when it had been held back or its claim was a predecessor's.
EventuallyInForce ==
  <>[](\A b \in Backups :
         live[b].exists /\ repository = "initialized" /\ (\A o \in Backups : ~Older(o, b)) =>
           /\ live[b].ready = "Ready"
           /\ cron[b] = Rendered(live[b], cron[b].uid)
           /\ live[b].cached => claim[b] # 0
           /\ live[b].trigger <= live[b].lastTime)

\* slugConflict looks before a pass reports Ready: however two backups came to share
\* a slug, also side by side and each from a list that did not show the other yet, in
\* the end the younger one says so. Which of them that is must not depend on who
\* looks, also when both came in one second. It is about the condition: a CronJob
\* that the younger one had before goes on reporting to the check.
EventuallyHeldBack ==
  <>[](\A b, o \in Backups :
         Older(o, b) /\ repository = "initialized" => live[b].ready = "SlugConflict")

\* corg backup --wait ends: a command whose backup is there and Ready for good learns
\* what became of its trigger, also when another command overwrote it, it was refused,
\* the record of its answer failed or the operator stopped before it was written.
EventuallyAcknowledged ==
  \A c \in Commands :
    <>[](command[c].pc = "acknowledge" =>
           \/ ~live[command[c].backup].exists \/ live[command[c].backup].ready # "Ready")
===============================================================================
