------------------------- MODULE ScheduledBackupProofs -------------------------
(***************************************************************************)
(* Theorems about ScheduledBackupController, for every set of backups,     *)
(* slugs and commands, every concurrency policy and every bound.           *)
(***************************************************************************)
EXTENDS ScheduledBackupController, FiniteSetTheorems, FunctionTheorems, TLAPS

-------------------------------------------------------------------------------
(* The values the helpers build *)

\* The placeholders are of their types.
LEMMA NoneTyped ==
  NoObject \in Object /\ NoCronJob \in CronJob /\ Idle \in Worker /\ NoCommand \in Command
<1>1. NoObject \in Object
  BY DEF NoObject, Object, Ready
<1> QED  BY <1>1 DEF NoCronJob, CronJob, Idle, Worker, NoCommand, Command

Pcs == {"idle", "check", "volume", "cron", "runs", "trigger", "patch"}

\* What the steps of a pass keep of its copies of the object.
Copies(w, n) ==
  /\ n \in Worker /\ n.base = w.base
  /\ n.obj.uid = w.obj.uid /\ n.obj.trigger = w.obj.trigger /\ n.obj.exists = w.obj.exists

\* The next step of a pass, with the same copies.
LEMMA AtTyped ==
  ASSUME NEW w \in Worker, NEW pc \in Pcs
  PROVE  Copies(w, At(w, pc)) /\ At(w, pc).pc = pc /\ At(w, pc).obj = w.obj
BY DEF At, Worker, Pcs, Copies

\* The end of a pass sets the reason of the Ready condition.
LEMMA SettleTyped ==
  ASSUME NEW w \in Worker, NEW reason \in Ready
  PROVE  /\ Copies(w, Settle(w, reason)) /\ Settle(w, reason).pc = "patch"
         /\ Settle(w, reason).obj.lastTime = w.obj.lastTime
         /\ Settle(w, reason).obj.lastJob = w.obj.lastJob
         /\ Settle(w, reason).obj.history = w.obj.history
<1> DEFINE o == [w.obj EXCEPT !.ready = reason]
<1>1. /\ o \in Object /\ o.uid = w.obj.uid /\ o.trigger = w.obj.trigger
      /\ o.exists = w.obj.exists /\ o.lastTime = w.obj.lastTime /\ o.lastJob = w.obj.lastJob
      /\ o.history = w.obj.history
  BY DEF Object, Worker
<1>2. Settle(w, reason) = [w EXCEPT !.pc = "patch", !.obj = o]
  BY DEF Settle, Worker
<1> HIDE DEF o
<1> QED  BY <1>1, <1>2 DEF Worker, Copies

\* An error of reconcile sets the condition and nothing else.
LEMMA FailedTyped ==
  ASSUME NEW w \in Worker
  PROVE  /\ Copies(w, Failed(w)) /\ Failed(w).pc = "patch"
         /\ Failed(w).obj.lastTime = w.obj.lastTime /\ Failed(w).obj.lastJob = w.obj.lastJob
         /\ Failed(w).obj.history = w.obj.history
BY SettleTyped DEF Failed, Ready

\* A trigger is answered with a Job, or with none.
LEMMA AnsweredTyped ==
  ASSUME NEW w \in Worker, NEW job \in JobName \cup {None}
  PROVE  /\ Copies(w, Answered(w, job)) /\ Answered(w, job).pc = "patch"
         /\ Answered(w, job).obj.lastTime = w.obj.trigger
         /\ Answered(w, job).obj.lastJob = job
         /\ Answered(w, job).obj.history = w.obj.history
<1> DEFINE o == [w.obj EXCEPT !.lastTime = w.obj.trigger, !.lastJob = job]
<1>1. /\ o \in Object /\ o.uid = w.obj.uid /\ o.trigger = w.obj.trigger
      /\ o.exists = w.obj.exists /\ o.lastTime = w.obj.trigger /\ o.lastJob = job
      /\ o.history = w.obj.history
  BY DEF Object, Worker
<1>2. Answered(w, job) = [w EXCEPT !.pc = "patch", !.obj = o]
  BY DEF Answered, Worker
<1> HIDE DEF o
<1> QED  BY <1>1, <1>2 DEF Worker, Copies

\* The CronJob is written, and the backup is Ready.
Rendering(w, uid) == [At(w, "runs") EXCEPT !.cronUid = uid, !.obj.ready = "Ready"]
\* The CronJob has been written: the pass is Ready and has the uid of it.
LEMMA RenderingTyped ==
  ASSUME NEW w \in Worker, NEW uid \in Nat
  PROVE  /\ Copies(w, Rendering(w, uid)) /\ Rendering(w, uid).pc = "runs"
         /\ Rendering(w, uid).obj.lastTime = w.obj.lastTime
         /\ Rendering(w, uid).obj.lastJob = w.obj.lastJob
         /\ Rendering(w, uid).obj.history = w.obj.history
<1> DEFINE o == [w.obj EXCEPT !.ready = "Ready"]
<1>1. /\ o \in Object /\ o.uid = w.obj.uid /\ o.trigger = w.obj.trigger
      /\ o.exists = w.obj.exists /\ o.lastTime = w.obj.lastTime /\ o.lastJob = w.obj.lastJob
      /\ o.history = w.obj.history
  BY DEF Object, Worker, Ready
<1>2. Rendering(w, uid) = [w EXCEPT !.pc = "runs", !.cronUid = uid, !.obj = o]
  BY DEF Rendering, At, Worker
<1> HIDE DEF o
<1> QED  BY <1>1, <1>2 DEF Worker, Copies

\* The runs are observed.
Observed(w, pc, kept, active) == [w EXCEPT !.pc = pc, !.obj.history = kept, !.active = active]
\* The history has been merged, and what is active has been seen.
LEMMA ObservedTyped ==
  ASSUME NEW w \in Worker, NEW pc \in Pcs, NEW kept \in SUBSET Run,
         NEW active \in JobName \cup {None}
  PROVE  LET n == Observed(w, pc, kept, active) IN
         /\ Copies(w, n) /\ n.pc = pc
         /\ n.obj.lastTime = w.obj.lastTime /\ n.obj.lastJob = w.obj.lastJob
         /\ n.obj.history = kept
<1> DEFINE o == [w.obj EXCEPT !.history = kept]
<1>1. /\ o \in Object /\ o.uid = w.obj.uid /\ o.trigger = w.obj.trigger
      /\ o.exists = w.obj.exists /\ o.lastTime = w.obj.lastTime /\ o.lastJob = w.obj.lastJob
      /\ o.history = kept
  BY DEF Object, Worker
<1>2. Observed(w, pc, kept, active) = [w EXCEPT !.pc = pc, !.obj = o, !.active = active]
  BY DEF Observed, Worker
<1> HIDE DEF o
<1> QED  BY <1>1, <1>2 DEF Worker, Copies, Pcs

\* A status is patched field by field.
LEMMA PatchedTyped ==
  ASSUME NEW o \in Object, NEW base \in Object, NEW new \in Object
  PROVE  LET p == Patched(o, base, new) IN
         /\ p \in Object
         /\ p.exists = o.exists /\ p.uid = o.uid /\ p.trigger = o.trigger
         /\ p.lastTime = IF new.lastTime # base.lastTime THEN new.lastTime ELSE o.lastTime
         /\ p.lastJob = IF new.lastJob # base.lastJob THEN new.lastJob ELSE o.lastJob
         /\ p.history = IF new.history # base.history THEN new.history ELSE o.history
<1> DEFINE ready == IF new.ready # base.ready THEN new.ready ELSE o.ready
           lastTime == IF new.lastTime # base.lastTime THEN new.lastTime ELSE o.lastTime
           lastJob == IF new.lastJob # base.lastJob THEN new.lastJob ELSE o.lastJob
           history == IF new.history # base.history THEN new.history ELSE o.history
<1>1. /\ ready \in Ready /\ lastTime \in Nat /\ lastJob \in JobName \cup {None}
      /\ history \in SUBSET Run
  BY DEF Object
<1>2. Patched(o, base, new) =
        [o EXCEPT !.ready = ready, !.lastTime = lastTime, !.lastJob = lastJob, !.history = history]
  BY DEF Patched
<1>3. /\ lastTime = IF new.lastTime # base.lastTime THEN new.lastTime ELSE o.lastTime
      /\ lastJob = IF new.lastJob # base.lastJob THEN new.lastJob ELSE o.lastJob
      /\ history = IF new.history # base.history THEN new.history ELSE o.history
  OBVIOUS
<1> HIDE DEF ready, lastTime, lastJob, history
<1> QED  BY <1>1, <1>2, <1>3 DEF Object

\* A backup is created.
LEMMA NewBackupTyped ==
  ASSUME NEW uid \in Nat, NEW born \in Nat, NEW slug \in Slugs \cup {None}
  PROVE  LET n == NewBackup(uid, born, slug) IN
         /\ n \in Object /\ n.exists /\ n.uid = uid /\ n.trigger = 0 /\ n.lastTime = 0
         /\ n.lastJob = None /\ n.history = {}
BY NoneTyped DEF NewBackup, NoObject, Object

\* A CronJob is rendered from any backup.
LEMMA RenderedTyped ==
  ASSUME NEW o \in Object, NEW uid \in Nat
  PROVE  Rendered(o, uid) \in CronJob
BY DEF Rendered, Object, CronJob

\* Only the pass of one key moves.
LEMMA GotoTyped ==
  ASSUME worker \in [Backups -> Worker], NEW b \in Backups, NEW w \in Worker, Goto(b, w)
  PROVE  /\ worker' \in [Backups -> Worker] /\ worker'[b] = w
         /\ \A o \in Backups \ {b} : worker'[o] = worker[o]
BY DEF Goto

-------------------------------------------------------------------------------
(* Types *)

\* A history is finite, and no longer than historyLimit.
Short(o) == IsFiniteSet(o.history) /\ Cardinality(o.history) <= HistoryLimit

ObjectsTyped ==
  /\ live \in [Backups -> Object] /\ cache \in [Backups -> Object]
  /\ \A b \in Backups : Short(live[b]) /\ Short(cache[b])
WorkersTyped ==
  /\ worker \in [Backups -> Worker]
  /\ \A b \in Backups : Short(worker[b].obj)
JobsTyped ==
  /\ jobs \subseteq Job /\ IsFiniteSet(jobs)
  /\ jobCache \subseteq Job /\ IsFiniteSet(jobCache)
ClusterTyped ==
  /\ cron \in [Backups -> CronJob] /\ cronCache \in [Backups -> Nat]
  /\ claim \in [Backups -> Nat]
  /\ repository \in {"absent", "uninitialized", "initialized"}
  /\ queue \subseteq Backups
CommandsTyped ==
  /\ command \in [Commands -> Command]
  /\ \A c \in Commands : command[c].pc = "acknowledge" => command[c].backup \in Backups
BoundsTyped == clock \in Nat /\ creations \in Nat /\ adminOps \in Nat /\ faults \in Nat

\* TypeOK, with the finiteness that the numbers of runs and Jobs rest on, and what a
\* command that waits knows.
TypeInv ==
  ObjectsTyped /\ WorkersTyped /\ JobsTyped /\ ClusterTyped /\ CommandsTyped /\ BoundsTyped

\* The placeholders have no history.
LEMMA NoHistory == Short(NoObject) /\ Short(Idle.obj)
<1>1. HistoryLimit \in Nat
  BY InputAssumption
<1> QED  BY <1>1, FS_EmptySet DEF Short, NoObject, Idle

\* A trigger is settled: its time is recorded, with its Job, or a refusal under Forbid.
Settles(b, w, n) ==
  /\ w.pc = "trigger" /\ n.pc = "patch" /\ n.obj.lastTime = w.obj.trigger
  /\ \/ n.obj.lastJob = ManualJobName(b, w.obj.trigger)
     \/ n.obj.lastJob = None /\ Concurrency[b] = "Forbid"

\* A pass moves on: its copies stay, it comes to the trigger only when it is due, and
\* records nothing about triggers but that.
Continues(b) ==
  LET w == worker[b] IN
  \E n \in Worker :
    /\ Goto(b, n) /\ Copies(w, n)
    /\ w.pc \notin {"idle", "patch"} /\ n.pc # "idle"
    /\ \/ n.obj.lastTime = w.obj.lastTime /\ n.obj.lastJob = w.obj.lastJob
       \/ Settles(b, w, n)
    /\ n.pc = "trigger" => Due(n.obj)
    /\ Short(n.obj)

\* A pass that goes on stays well typed.
LEMMA ContinuesTyped ==
  ASSUME WorkersTyped, NEW b \in Backups, Continues(b)
  PROVE  WorkersTyped'
BY DEF Continues, WorkersTyped, Goto

\* A call of a pass was answered, or failed.
LEMMA RepliedContinues ==
  ASSUME TypeInv, NEW b \in Backups, NEW reply, NEW n \in Worker, Replied(b, reply, n),
         Copies(worker[b], n), n.pc \notin {"idle", "trigger"},
         \/ /\ n.obj.lastTime = worker[b].obj.lastTime
            /\ n.obj.lastJob = worker[b].obj.lastJob
         \/ Settles(b, worker[b], n),
         n.obj.history = worker[b].obj.history,
         worker[b].pc \notin {"idle", "patch"}
  PROVE  Continues(b) /\ faults' \in Nat
<1> DEFINE w == worker[b]
<1>1. w \in Worker /\ Short(w.obj)
  BY DEF TypeInv, WorkersTyped
<1>2. CASE Goto(b, n) /\ UNCHANGED faults
  BY <1>1, <1>2 DEF Continues, Short, TypeInv, BoundsTyped
<1>3. CASE Fault(reply) /\ Goto(b, Failed(w))
  <2>1. faults' \in Nat
    BY <1>3 DEF Fault, TypeInv, BoundsTyped
  <2>2. /\ Failed(w) \in Worker /\ Copies(w, Failed(w)) /\ Failed(w).pc = "patch"
        /\ Failed(w).obj.lastTime = w.obj.lastTime /\ Failed(w).obj.lastJob = w.obj.lastJob
        /\ Short(Failed(w).obj)
    BY <1>1, FailedTyped DEF Copies, Short
  <2> QED  BY <1>3, <2>1, <2>2 DEF Continues
<1> QED  BY <1>2, <1>3 DEF Replied

\* The newest runs that fit are finitely many, and no more than that.
LEMMA NewestShort ==
  ASSUME NEW runs, IsFiniteSet(runs), NEW kept \in Newest(runs)
  PROVE  /\ kept \subseteq runs /\ IsFiniteSet(kept)
         /\ Cardinality(kept) <= HistoryLimit
<1>1. kept \subseteq runs /\ IsFiniteSet(kept)
  BY FS_Subset DEF Newest
<1>2. Cardinality(runs) \in Nat /\ HistoryLimit \in Nat
  BY FS_CardinalityType, InputAssumption
<1>3. Cardinality(kept) = IF Cardinality(runs) < HistoryLimit THEN Cardinality(runs)
                                                              ELSE HistoryLimit
  BY DEF Newest
<1> QED  BY <1>1, <1>2, <1>3

\* What has been recorded and what is seen are runs, and finitely many.
LEMMA MergedTyped ==
  ASSUME NEW existing \in SUBSET Run, IsFiniteSet(existing),
         NEW observed \in SUBSET Job, IsFiniteSet(observed)
  PROVE  Merged(existing, observed) \subseteq Run /\ IsFiniteSet(Merged(existing, observed))
<1> DEFINE seen == {RunFromJob(j) : j \in observed}
           older == {r \in existing : r.name \notin {j.name : j \in observed}}
           f == [j \in observed |-> RunFromJob(j)]
<1>1. seen \subseteq Run
  BY DEF RunFromJob, Job, Run
<1>2. IsFiniteSet(seen)
  <2>1. f \in Surjection(observed, seen)
    BY DEF Surjection
  <2> QED  BY <2>1, FS_Surjection
<1>3. IsFiniteSet(older) /\ older \subseteq existing
  BY FS_Subset
<1>4. Merged(existing, observed) = seen \cup older
  BY DEF Merged
<1> HIDE DEF seen, older
<1> QED  BY <1>1, <1>2, <1>3, <1>4, FS_Union

-------------------------------------------------------------------------------
(* The steps of a pass *)

\* What a pass leaves alone until it patches the status.
Untouched == UNCHANGED <<live, cache, jobCache, repository, queue, command, clock, creations,
                         adminOps, cronCache>>

\* The Repository and the slug are checked: the pass goes on or ends held back.
LEMMA CheckContinues ==
  ASSUME TypeInv, NEW b \in Backups, Check(b)
  PROVE  Continues(b) /\ Untouched /\ UNCHANGED <<jobs, cron, claim, faults>>
<1> DEFINE w == worker[b]
<1>1. w \in Worker /\ Short(w.obj) /\ w.pc = "check"
  BY DEF TypeInv, WorkersTyped, Check
<1>2. Untouched /\ UNCHANGED <<jobs, cron, claim, faults>>
  BY DEF Check, Untouched, objects, caches, bounds
<1>3. CASE \E reason \in Ready : Goto(b, Settle(w, reason))
  <2>1. PICK reason \in Ready : Goto(b, Settle(w, reason))
    BY <1>3
  <2>2. /\ Settle(w, reason) \in Worker /\ Copies(w, Settle(w, reason))
        /\ Settle(w, reason).pc = "patch"
        /\ Settle(w, reason).obj.lastTime = w.obj.lastTime
        /\ Settle(w, reason).obj.lastJob = w.obj.lastJob
        /\ Short(Settle(w, reason).obj)
    BY <1>1, SettleTyped DEF Copies, Short
  <2> QED  BY <1>1, <1>2, <2>1, <2>2 DEF Continues
<1>4. CASE Goto(b, At(w, "volume"))
  <2>1. /\ At(w, "volume") \in Worker /\ Copies(w, At(w, "volume"))
        /\ At(w, "volume").pc = "volume" /\ At(w, "volume").obj = w.obj
    BY <1>1, AtTyped DEF Copies, Pcs
  <2> QED  BY <1>1, <1>2, <1>4, <2>1 DEF Continues
<1> QED  BY <1>3, <1>4 DEF Check, Ready

\* reconcileCache writes the claim and the pass goes on.
LEMMA VolumeContinues ==
  ASSUME TypeInv, NEW b \in Backups, NEW reply, Volume(b, reply)
  PROVE  /\ Continues(b) /\ Untouched /\ UNCHANGED <<jobs, cron>>
         /\ claim' \in [Backups -> Nat] /\ faults' \in Nat
<1> DEFINE w == worker[b]
<1>1. w \in Worker /\ Short(w.obj) /\ w.pc = "volume"
  BY DEF TypeInv, WorkersTyped, Volume
<1>2. Untouched /\ UNCHANGED <<jobs, cron>>
  BY DEF Volume, Untouched, caches
<1>3. claim' \in [Backups -> Nat]
  <2>1. w.obj.uid \in Nat /\ claim \in [Backups -> Nat]
    BY <1>1 DEF Worker, Object, TypeInv, ClusterTyped
  <2> QED  BY <2>1 DEF Volume
<1>4. /\ At(w, "cron") \in Worker /\ Copies(w, At(w, "cron"))
      /\ At(w, "cron").pc = "cron" /\ At(w, "cron").obj = w.obj
  BY <1>1, AtTyped DEF Copies, Pcs
<1>5. Replied(b, reply, At(w, "cron"))
  BY DEF Volume
<1>6. Continues(b) /\ faults' \in Nat
  BY <1>1, <1>4, <1>5, RepliedContinues
<1> QED  BY <1>2, <1>3, <1>6

\* What CreateCronJob and UpdateCronJob have in common.
LEMMA WriteContinues ==
  ASSUME TypeInv, NEW b \in Backups, NEW reply, NEW uid \in Nat,
         worker[b].pc = "cron", cron' = [cron EXCEPT ![b] = Rendered(worker[b].obj, uid)],
         Replied(b, reply, Rendering(worker[b], uid))
  PROVE  Continues(b) /\ cron' \in [Backups -> CronJob] /\ faults' \in Nat
<1> DEFINE w == worker[b]  n == Rendering(w, uid)
<1>1. w \in Worker /\ w.obj \in Object
  BY DEF TypeInv, WorkersTyped, Worker
<1>2. cron' \in [Backups -> CronJob]
  BY <1>1, RenderedTyped DEF TypeInv, ClusterTyped
<1>3. /\ n \in Worker /\ Copies(w, n) /\ n.pc = "runs"
      /\ n.obj.lastTime = w.obj.lastTime /\ n.obj.lastJob = w.obj.lastJob
      /\ n.obj.history = w.obj.history
  BY <1>1, RenderingTyped DEF Copies
<1> HIDE DEF n
<1>4. Continues(b) /\ faults' \in Nat
  BY <1>3, RepliedContinues DEF n
<1> QED  BY <1>2, <1>4

\* The CronJob is created or updated and the pass goes on.
LEMMA CronJobContinues ==
  ASSUME TypeInv, NEW b \in Backups, NEW reply,
         CreateCronJob(b, reply) \/ UpdateCronJob(b, reply)
  PROVE  /\ Continues(b) /\ Untouched /\ UNCHANGED <<jobs, claim>>
         /\ cron' \in [Backups -> CronJob] /\ faults' \in Nat
<1>1. Untouched /\ UNCHANGED <<jobs, claim>>
  BY DEF CreateCronJob, UpdateCronJob, Untouched, caches
<1>2. worker[b].obj.uid \in Nat /\ cronCache[b] \in Nat
  BY DEF TypeInv, WorkersTyped, Worker, Object, ClusterTyped
<1>3. \E uid \in Nat :
        /\ worker[b].pc = "cron" /\ cron' = [cron EXCEPT ![b] = Rendered(worker[b].obj, uid)]
        /\ Replied(b, reply, Rendering(worker[b], uid))
  BY <1>2 DEF CreateCronJob, UpdateCronJob, Rendering
<1> QED  BY <1>1, <1>3, WriteContinues

\* A call that failed ends the pass with an error.
LEMMA StaleContinues ==
  ASSUME TypeInv, NEW b \in Backups, StaleCronJob(b) \/ CallFails(b)
  PROVE  /\ Continues(b) /\ Untouched /\ UNCHANGED <<jobs, cron, claim>> /\ faults' \in Nat
<1> DEFINE w == worker[b]
<1>1. /\ w \in Worker /\ Short(w.obj) /\ w.pc \notin {"idle", "patch"}
      /\ Goto(b, Failed(w))
  BY DEF TypeInv, WorkersTyped, StaleCronJob, CallFails
<1>2. Untouched /\ UNCHANGED <<jobs, cron, claim>>
  BY DEF StaleCronJob, CallFails, Untouched, objects, caches, bounds
<1>3. faults' \in Nat
  BY DEF StaleCronJob, CallFails, Fault, bounds, TypeInv, BoundsTyped
<1>4. /\ Failed(w) \in Worker /\ Copies(w, Failed(w)) /\ Failed(w).pc = "patch"
      /\ Failed(w).obj.lastTime = w.obj.lastTime /\ Failed(w).obj.lastJob = w.obj.lastJob
      /\ Short(Failed(w).obj)
  BY <1>1, FailedTyped DEF Copies, Short
<1> QED  BY <1>1, <1>2, <1>3, <1>4 DEF Continues

\* The history read off the Jobs is no longer than historyLimit.
LEMMA ObserveContinues ==
  ASSUME TypeInv, NEW b \in Backups, Observe(b)
  PROVE  Continues(b) /\ Untouched /\ UNCHANGED <<jobs, cron, claim, faults>>
<1> DEFINE w == worker[b]  observed == ObservedRuns(b)
           pc == IF Due(w.obj) THEN "trigger" ELSE "patch"
<1>1. w \in Worker /\ w.obj \in Object /\ Short(w.obj) /\ w.pc = "runs"
  BY DEF TypeInv, WorkersTyped, Worker, Observe
<1>2. Untouched /\ UNCHANGED <<jobs, cron, claim, faults>>
  BY DEF Observe, Untouched, objects, caches, bounds
<1>3. observed \subseteq Job /\ IsFiniteSet(observed)
  BY FS_Subset DEF TypeInv, JobsTyped, ObservedRuns
<1>4. PICK kept \in Newest(Merged(w.obj.history, observed)), active \in ActiveRun(observed) :
        Goto(b, Observed(w, pc, kept, active))
  BY DEF Observe, Observed
<1>5. kept \subseteq Run /\ IsFiniteSet(kept) /\ Cardinality(kept) <= HistoryLimit
  <2>1. w.obj.history \in SUBSET Run /\ IsFiniteSet(w.obj.history)
    BY <1>1 DEF Object, Short
  <2> HIDE DEF w, observed
  <2>2. /\ Merged(w.obj.history, observed) \subseteq Run
        /\ IsFiniteSet(Merged(w.obj.history, observed))
    BY <2>1, <1>3, MergedTyped
  <2> QED  BY <2>2, NewestShort
<1>6. active \in JobName \cup {None}
  BY <1>3 DEF ActiveRun, Active, Job
<1>7. pc \in Pcs
  BY DEF Pcs
<1> DEFINE n == Observed(w, pc, kept, active)
<1>8. /\ n \in Worker /\ Copies(w, n) /\ n.pc = pc
      /\ n.obj.lastTime = w.obj.lastTime /\ n.obj.lastJob = w.obj.lastJob
      /\ n.obj.history = kept
  <2> HIDE DEF pc, w, observed
  <2> QED  BY <1>1, <1>5, <1>6, <1>7, ObservedTyped DEF Copies
<1>9. n.pc = "trigger" => Due(n.obj)
  BY <1>8 DEF Due, Copies
<1> HIDE DEF n
<1> QED  BY <1>1, <1>2, <1>4, <1>5, <1>8, <1>9 DEF Continues, Short, n

\* A Job is added to what there is.
LEMMA StartJobTyped ==
  ASSUME TypeInv, NEW b \in Backups, NEW name \in JobName, NEW owner \in Nat,
         StartJob(b, name, owner)
  PROVE  jobs' \subseteq Job /\ IsFiniteSet(jobs')
<1>1. jobs \subseteq Job /\ IsFiniteSet(jobs) /\ clock \in Nat
  BY DEF TypeInv, JobsTyped, BoundsTyped
<1>2. Cardinality(jobs) \in Nat
  BY <1>1, FS_CardinalityType
<1>3. [id |-> Cardinality(jobs), name |-> name, backup |-> b, owner |-> owner,
       start |-> clock, state |-> "Running", gone |-> FALSE] \in Job
  BY <1>1, <1>2 DEF Job, JobState
<1> QED  BY <1>1, <1>3, FS_AddElement DEF StartJob

\* A trigger names a Job.
LEMMA ManualNameTyped ==
  ASSUME NEW b \in Backups, NEW at \in Nat
  PROVE  ManualJobName(b, at) \in JobName /\ ManualJobName(b, at) # None
BY InputAssumption DEF ManualJobName, JobName, Stems

\* A trigger that is refused is answered without a Job.
LEMMA SkipContinues ==
  ASSUME TypeInv, NEW b \in Backups, SkipTrigger(b)
  PROVE  Continues(b) /\ Untouched /\ UNCHANGED <<jobs, cron, claim, faults>>
<1> DEFINE w == worker[b]  n == Answered(w, None)
<1>1. w \in Worker /\ Short(w.obj) /\ w.pc = "trigger" /\ Goto(b, n)
  BY DEF TypeInv, WorkersTyped, SkipTrigger
<1>2. Untouched /\ UNCHANGED <<jobs, cron, claim, faults>>
  BY DEF SkipTrigger, Untouched, objects, caches, bounds
<1>3. /\ n \in Worker /\ Copies(w, n) /\ n.pc = "patch"
      /\ n.obj.lastTime = w.obj.trigger /\ n.obj.lastJob = None /\ Short(n.obj)
  <2> HIDE DEF w
  <2> QED  BY <1>1, AnsweredTyped DEF Copies, Short
<1>4. Concurrency[b] = "Forbid"
  BY DEF SkipTrigger, Skipped
<1> HIDE DEF n
<1> QED  BY <1>1, <1>2, <1>3, <1>4 DEF Continues, Settles

\* The Job of a trigger: there is none of its name, or one that is not gone.
StartsManual(b) ==
  LET name == ManualJobName(b, worker[b].obj.trigger) IN
  \/ UNCHANGED jobs
  \/ (\A j \in Visible : j.name # name) /\ StartJob(b, name, worker[b].obj.uid)

\* A trigger that is answered by a Job: the Job is created or is there.
LEMMA TriggerContinues ==
  ASSUME TypeInv, NEW b \in Backups, NEW reply, TriggerJob(b, reply)
  PROVE  /\ Continues(b) /\ Untouched /\ UNCHANGED <<cron, claim>>
         /\ worker[b].pc = "trigger" /\ StartsManual(b)
         /\ jobs' \subseteq Job /\ IsFiniteSet(jobs') /\ faults' \in Nat
<1> DEFINE w == worker[b]  name == ManualJobName(b, w.obj.trigger)  n == Answered(w, name)
<1>1. /\ w \in Worker /\ Short(w.obj) /\ w.pc = "trigger" /\ Replied(b, reply, n)
      /\ w.obj.trigger \in Nat /\ w.obj.uid \in Nat
  BY DEF TypeInv, WorkersTyped, TriggerJob, Worker, Object
<1>2. Untouched /\ UNCHANGED <<cron, claim>>
  BY DEF TriggerJob, Untouched, caches
<1>3. name \in JobName
  BY <1>1, ManualNameTyped
<1>4. StartsManual(b)
  BY DEF TriggerJob, StartsManual
<1>5. jobs' \subseteq Job /\ IsFiniteSet(jobs')
  <2>1. CASE UNCHANGED jobs
    BY <2>1 DEF TypeInv, JobsTyped
  <2>2. CASE StartJob(b, name, w.obj.uid)
    <3> HIDE DEF name
    <3> QED  BY <1>1, <1>3, <2>2, StartJobTyped
  <2> QED  BY <1>4, <2>1, <2>2 DEF StartsManual
<1>6. /\ n \in Worker /\ Copies(w, n) /\ n.pc = "patch"
      /\ n.obj.lastTime = w.obj.trigger /\ n.obj.lastJob = name
      /\ n.obj.history = w.obj.history
  <2> HIDE DEF w, name
  <2> QED  BY <1>1, <1>3, AnsweredTyped DEF Copies
<1> HIDE DEF n
<1>7. Continues(b) /\ faults' \in Nat
  BY <1>1, <1>6, RepliedContinues DEF Settles
<1> QED  BY <1>1, <1>2, <1>4, <1>5, <1>7

\* Whatever a pass does between its first step and its last keeps the types.
PassMoves(b) ==
  /\ Continues(b) /\ Untouched
  /\ UNCHANGED jobs \/ (worker[b].pc = "trigger" /\ StartsManual(b))

\* Every call of a pass but the first and the last.
LEMMA PassTyped ==
  ASSUME TypeInv, NEW b \in Backups, NEW reply,
         \/ Check(b) \/ Volume(b, reply) \/ CreateCronJob(b, reply) \/ UpdateCronJob(b, reply)
         \/ StaleCronJob(b) \/ Observe(b) \/ SkipTrigger(b) \/ TriggerJob(b, reply)
         \/ CallFails(b)
  PROVE  TypeInv' /\ PassMoves(b)
<1>1. /\ Continues(b) /\ Untouched /\ faults' \in Nat
      /\ cron' \in [Backups -> CronJob] /\ claim' \in [Backups -> Nat]
      /\ jobs' \subseteq Job /\ IsFiniteSet(jobs')
      /\ UNCHANGED jobs \/ (worker[b].pc = "trigger" /\ StartsManual(b))
  <2>1. /\ cron \in [Backups -> CronJob] /\ claim \in [Backups -> Nat]
        /\ jobs \subseteq Job /\ IsFiniteSet(jobs) /\ faults \in Nat
    BY DEF TypeInv, ClusterTyped, JobsTyped, BoundsTyped
  <2>2. CASE Check(b) \/ Observe(b) \/ SkipTrigger(b)
    BY <2>1, <2>2, CheckContinues, ObserveContinues, SkipContinues
  <2>3. CASE StaleCronJob(b) \/ CallFails(b)
    BY <2>1, <2>3, StaleContinues
  <2>4. CASE Volume(b, reply)
    BY <2>1, <2>4, VolumeContinues
  <2>5. CASE CreateCronJob(b, reply) \/ UpdateCronJob(b, reply)
    BY <2>1, <2>5, CronJobContinues
  <2>6. CASE TriggerJob(b, reply)
    BY <2>1, <2>6, TriggerContinues
  <2> QED  BY <2>2, <2>3, <2>4, <2>5, <2>6
<1>2. WorkersTyped'
  BY <1>1, ContinuesTyped DEF TypeInv
<1>3. ObjectsTyped' /\ JobsTyped' /\ CommandsTyped'
  BY <1>1 DEF TypeInv, Untouched, ObjectsTyped, JobsTyped, CommandsTyped, Short
<1>4. ClusterTyped' /\ BoundsTyped'
  BY <1>1 DEF TypeInv, Untouched, ClusterTyped, BoundsTyped
<1> QED  BY <1>1, <1>2, <1>3, <1>4 DEF TypeInv, PassMoves

\* A pass begins with the cached object, twice.
LEMMA StartPassTyped ==
  ASSUME TypeInv, NEW b \in Backups, StartPass(b)
  PROVE  TypeInv'
<1> DEFINE n == [Idle EXCEPT !.pc = "check", !.obj = cache[b], !.base = cache[b]]
<1>1. cache[b] \in Object /\ Short(cache[b])
  BY DEF TypeInv, ObjectsTyped
<1>2. n \in Worker /\ n.obj = cache[b]
  BY <1>1, NoneTyped DEF Idle, Worker
<1> HIDE DEF n
<1>3. WorkersTyped'
  <2>1. UNCHANGED worker \/ Goto(b, n)
    BY DEF StartPass, n
  <2> QED  BY <2>1, <1>1, <1>2 DEF TypeInv, WorkersTyped, Goto
<1>4. ObjectsTyped' /\ JobsTyped' /\ ClusterTyped' /\ CommandsTyped' /\ BoundsTyped'
  BY DEF StartPass, objects, caches, bounds, TypeInv, ObjectsTyped, JobsTyped, ClusterTyped,
         CommandsTyped, BoundsTyped, Short
<1> QED  BY <1>3, <1>4 DEF TypeInv

\* The status patch keeps the types and the length of the history.
LEMMA PatchTyped ==
  ASSUME TypeInv, NEW b \in Backups, PatchStatus(b)
  PROVE  TypeInv'
<1> DEFINE w == worker[b]  p == Patched(live[b], w.base, w.obj)
<1>1. w \in Worker /\ w.obj \in Object /\ w.base \in Object /\ live[b] \in Object
      /\ Short(w.obj) /\ Short(live[b])
  BY DEF TypeInv, WorkersTyped, ObjectsTyped, Worker
<1>2. p \in Object /\ Short(p)
  <2> HIDE DEF w
  <2> QED  BY <1>1, PatchedTyped DEF Short
<1>3. live' = [live EXCEPT ![b] = p] \/ UNCHANGED live
  BY DEF PatchStatus
<1> HIDE DEF p
<1>4. ObjectsTyped'
  BY <1>2, <1>3 DEF PatchStatus, caches, TypeInv, ObjectsTyped, Short
<1>5. WorkersTyped'
  BY NoneTyped, NoHistory DEF PatchStatus, Goto, TypeInv, WorkersTyped
<1>6. JobsTyped' /\ ClusterTyped' /\ CommandsTyped' /\ BoundsTyped'
  BY DEF PatchStatus, Requeue, caches, bounds, TypeInv, JobsTyped, ClusterTyped, CommandsTyped,
         BoundsTyped
<1> QED  BY <1>4, <1>5, <1>6 DEF TypeInv

\* A status patch that fails leaves the cluster alone.
LEMMA PatchFailsTyped ==
  ASSUME TypeInv, NEW b \in Backups, PatchFails(b)
  PROVE  TypeInv'
<1>1. WorkersTyped'
  BY NoneTyped, NoHistory DEF PatchFails, Goto, TypeInv, WorkersTyped
<1>2. ObjectsTyped' /\ JobsTyped' /\ ClusterTyped' /\ CommandsTyped' /\ BoundsTyped'
  BY DEF PatchFails, Requeue, Fault, objects, caches, TypeInv, ObjectsTyped, JobsTyped,
         ClusterTyped, CommandsTyped, BoundsTyped, Short
<1> QED  BY <1>1, <1>2 DEF TypeInv

\* A restart forgets the passes and lists the caches.
LEMMA CrashTyped ==
  ASSUME TypeInv, Crash
  PROVE  TypeInv'
<1>1. WorkersTyped'
  BY NoneTyped, NoHistory DEF Crash, TypeInv, WorkersTyped
<1>2. ObjectsTyped' /\ CommandsTyped' /\ BoundsTyped'
  BY DEF Crash, Fault, objects, TypeInv, ObjectsTyped, CommandsTyped, BoundsTyped, Short
<1>3. JobsTyped'
  BY FS_Subset DEF Crash, objects, Visible, TypeInv, JobsTyped
<1>4. ClusterTyped'
  BY DEF Crash, objects, TypeInv, ClusterTyped, CronJob
<1> QED  BY <1>1, <1>2, <1>3, <1>4 DEF TypeInv

-------------------------------------------------------------------------------
(* The steps around the passes *)

LEMMA InformersTyped ==
  ASSUME TypeInv, SyncBackups \/ SyncCronJobs \/ SyncJobs \/ RepositoryEvent
  PROVE  TypeInv'
<1>1. WorkersTyped' /\ CommandsTyped' /\ BoundsTyped'
  BY DEF SyncBackups, SyncCronJobs, SyncJobs, RepositoryEvent, bounds, TypeInv, WorkersTyped,
         CommandsTyped, BoundsTyped, Short
<1>2. ObjectsTyped'
  BY DEF SyncBackups, SyncCronJobs, SyncJobs, RepositoryEvent, objects, caches, TypeInv,
         ObjectsTyped, Short
<1>3. Visible \subseteq Job /\ IsFiniteSet(Visible)
  BY FS_Subset DEF Visible, TypeInv, JobsTyped
<1>4. JobsTyped'
  BY <1>3 DEF SyncBackups, SyncCronJobs, SyncJobs, RepositoryEvent, objects, caches, TypeInv,
     JobsTyped
<1>5. ClusterTyped'
  <2>1. CronJobUids \in [Backups -> Nat]
    BY DEF CronJobUids, TypeInv, ClusterTyped, CronJob
  <2>2. cronCache' \in [Backups -> Nat] /\ UNCHANGED <<cron, claim, repository>>
    BY <2>1 DEF SyncBackups, SyncCronJobs, SyncJobs, RepositoryEvent, objects, caches, TypeInv,
       ClusterTyped
  <2>3. queue' \subseteq Backups
    BY <1>3 DEF SyncBackups, SyncCronJobs, SyncJobs, RepositoryEvent, BackupsForRepository,
       TypeInv, JobsTyped, ClusterTyped, Job
  <2> QED  BY <2>2, <2>3 DEF TypeInv, ClusterTyped
<1> QED  BY <1>1, <1>2, <1>4, <1>5 DEF TypeInv

\* Jobs finish and go, and are the same Jobs; an outcome is final.
Turned(f) ==
  /\ f \in [jobs -> Job] /\ jobs' = {f[j] : j \in jobs}
  /\ \A j \in jobs : /\ f[j].name = j.name /\ f[j].backup = j.backup /\ f[j].owner = j.owner
                     /\ f[j].start = j.start
                     /\ j.state # "Running" => f[j].state = j.state

\* Jobs that change in place stay finitely many.
LEMMA TurnedTyped ==
  ASSUME JobsTyped, UNCHANGED jobCache, NEW f, Turned(f)
  PROVE  JobsTyped'
<1>1. f \in Surjection(jobs, jobs')
  BY DEF Turned, Surjection
<1>2. IsFiniteSet(jobs')
  BY <1>1, FS_Surjection DEF JobsTyped
<1>3. jobs' \subseteq Job
  BY DEF Turned
<1> QED  BY <1>2, <1>3 DEF JobsTyped

\* Removing Jobs marks them gone, and no others.
LEMMA RemoveTurns ==
  ASSUME TypeInv, NEW gone, Remove(gone)
  PROVE  \E f : Turned(f) /\ \A j \in jobs : f[j].gone => j.gone \/ j \in gone
<1> DEFINE f == [j \in jobs |-> IF j \in gone THEN [j EXCEPT !.gone = TRUE] ELSE j]
<1>1. \A j \in jobs : j \in Job
  BY DEF TypeInv, JobsTyped
<1>2. \A j \in jobs : /\ f[j] \in Job
                      /\ f[j].name = j.name /\ f[j].backup = j.backup /\ f[j].owner = j.owner
                      /\ f[j].start = j.start /\ f[j].state = j.state
                      /\ f[j].gone => j.gone \/ j \in gone
  BY <1>1 DEF Job
<1>3. jobs' = {f[j] : j \in jobs}
  BY DEF Remove
<1>4. f \in [jobs -> Job]
  BY <1>2
<1> HIDE DEF f
<1> QED  BY <1>2, <1>3, <1>4 DEF Turned

\* A Job that finishes is still there.
LEMMA FinishTurns ==
  ASSUME TypeInv, NEW j \in jobs, NEW result \in JobState, FinishJob(j, result)
  PROVE  \E f : Turned(f) /\ \A i \in jobs : f[i].gone => i.gone
<1> DEFINE f == [i \in jobs |-> IF i = j THEN [j EXCEPT !.state = result] ELSE i]
<1>1. \A i \in jobs : i \in Job
  BY DEF TypeInv, JobsTyped
<1>2. \A i \in jobs : /\ f[i] \in Job
                      /\ f[i].name = i.name /\ f[i].backup = i.backup /\ f[i].owner = i.owner
                      /\ f[i].start = i.start /\ (f[i].gone => i.gone)
                      /\ i.state # "Running" => f[i].state = i.state
  BY <1>1 DEF Job, FinishJob
<1>3. jobs' = {f[i] : i \in jobs}
  BY DEF FinishJob
<1>4. f \in [jobs -> Job]
  BY <1>2
<1> HIDE DEF f
<1> QED  BY <1>2, <1>3, <1>4 DEF Turned

\* The CronJob controller starts a Job.
LEMMA FireTyped ==
  ASSUME TypeInv, NEW b \in Backups, FireCronJob(b)
  PROVE  TypeInv'
<1> DEFINE name == [kind |-> "Scheduled", stem |-> b, at |-> clock]
<1>1. name \in JobName /\ cron[b].uid \in Nat
  BY DEF JobName, TypeInv, BoundsTyped, ClusterTyped, CronJob
<1>2. StartJob(b, name, cron[b].uid)
  BY DEF FireCronJob
<1>3. jobs' \subseteq Job /\ IsFiniteSet(jobs')
  <2> HIDE DEF name
  <2> QED  BY <1>1, <1>2, StartJobTyped
<1> QED  BY <1>3 DEF FireCronJob, caches, bounds, TypeInv, ObjectsTyped, WorkersTyped, JobsTyped,
         ClusterTyped, CommandsTyped, BoundsTyped, Short

\* Jobs finish, expire, are collected or cancelled.
LEMMA JobsTurnTyped ==
  ASSUME TypeInv,
         \/ \E j \in jobs : ExpireJob(j) \/ \E result \in JobState : FinishJob(j, result)
         \/ CollectJobs
         \/ \E b \in Backups : Cancel(b)
  PROVE  TypeInv'
<1>1. /\ UNCHANGED <<live, cron, claim, cache, cronCache, jobCache, repository, queue, worker,
                     command, clock, creations, faults>>
      /\ adminOps' \in Nat
  <2>1. CASE \E j \in jobs : ExpireJob(j) \/ \E result \in JobState : FinishJob(j, result)
    BY <2>1 DEF ExpireJob, FinishJob, caches, bounds, TypeInv, BoundsTyped
  <2>2. CASE CollectJobs
    BY <2>2 DEF CollectJobs, caches, bounds, TypeInv, BoundsTyped
  <2>3. CASE \E b \in Backups : Cancel(b)
    BY <2>3 DEF Cancel, Admin, caches, TypeInv, BoundsTyped
  <2> QED  BY <2>1, <2>2, <2>3
<1>2. \E f : Turned(f)
  <2>1. CASE \E gone : Remove(gone)
    BY <2>1, RemoveTurns
  <2>2. CASE \E j \in jobs, result \in JobState : FinishJob(j, result)
    BY <2>2, FinishTurns
  <2> QED  BY <2>1, <2>2 DEF ExpireJob, CollectJobs, Cancel
<1>3. JobsTyped'
  BY <1>1, <1>2, TurnedTyped DEF TypeInv
<1> QED  BY <1>1, <1>3 DEF TypeInv, ObjectsTyped, WorkersTyped, ClusterTyped, CommandsTyped,
         BoundsTyped, Short

\* The garbage collector takes a CronJob or a claim.
LEMMA CollectTyped ==
  ASSUME TypeInv, NEW b \in Backups, CollectCronJob(b) \/ CollectClaim(b)
  PROVE  TypeInv'
<1>1. ClusterTyped'
  BY NoneTyped DEF CollectCronJob, CollectClaim, caches, TypeInv, ClusterTyped
<1> QED  BY <1>1 DEF CollectCronJob, CollectClaim, caches, bounds, TypeInv, ObjectsTyped,
         WorkersTyped, JobsTyped, CommandsTyped, BoundsTyped, Short

\* The clock moves.
LEMMA TickTyped ==
  ASSUME TypeInv, Tick
  PROVE  TypeInv'
BY DEF Tick, objects, caches, TypeInv, ObjectsTyped, WorkersTyped, JobsTyped, ClusterTyped,
   CommandsTyped, BoundsTyped, Short

\* One object changes, and keeps its history or has none.
LEMMA LiveTyped ==
  ASSUME TypeInv, NEW b \in Backups, NEW o \in Object, o.history \in {{}, live[b].history},
         live' = [live EXCEPT ![b] = o], UNCHANGED cache
  PROVE  ObjectsTyped'
<1>1. Short(o)
  BY NoHistory DEF Short, NoObject, TypeInv, ObjectsTyped
<1> QED  BY <1>1 DEF TypeInv, ObjectsTyped, Short

\* The fields of an object that users change.
LEMMA FieldTyped ==
  ASSUME NEW o \in Object, NEW at \in Nat, NEW slug \in Slugs \cup {None}
  PROVE  /\ [o EXCEPT !.trigger = at] \in Object /\ [o EXCEPT !.slug = slug] \in Object
         /\ [o EXCEPT !.suspend = ~@] \in Object /\ [o EXCEPT !.cached = ~@] \in Object
<1>1. [o EXCEPT !.trigger = at] \in Object
  BY DEF Object
<1>2. [o EXCEPT !.slug = slug] \in Object
  BY DEF Object
<1>3. [o EXCEPT !.suspend = ~@] \in Object
  BY DEF Object
<1>4. [o EXCEPT !.cached = ~@] \in Object
  BY DEF Object
<1> QED  BY <1>1, <1>2, <1>3, <1>4

\* A waiting command has a backup to wait for.
LEMMA CommandsStepTyped ==
  ASSUME TypeInv, NEW c \in Commands, BackupCommand(c)
  PROVE  TypeInv'
<1>1. command \in [Commands -> Command] /\ live \in [Backups -> Object] /\ clock \in Nat
  BY DEF TypeInv, CommandsTyped, ObjectsTyped, BoundsTyped
<1>2. CASE \E b \in Backups : TriggerBackup(c, b)
  <2>1. PICK b \in Backups : TriggerBackup(c, b)
    BY <1>2
  <2> DEFINE o == [live[b] EXCEPT !.trigger = clock]
  <2>2. o \in Object /\ o.history = live[b].history
    <3>1. live[b] \in Object /\ live[b].slug \in Slugs \cup {None}
      BY <1>1 DEF Object
    <3>2. o \in Object
      BY <1>1, <3>1, FieldTyped
    <3> QED  BY <3>1, <3>2 DEF Object
  <2>3. live' = [live EXCEPT ![b] = o]
    BY <2>1, <1>1 DEF TriggerBackup
  <2> HIDE DEF o
  <2>4. ObjectsTyped'
    BY <2>1, <2>2, <2>3, LiveTyped DEF TriggerBackup, caches
  <2>5. CommandsTyped'
    <3> DEFINE n == [NoCommand EXCEPT !.pc = "acknowledge", !.backup = b, !.since = clock]
    <3>1. n \in Command /\ n.backup = b
      BY <1>1 DEF Command, NoCommand
    <3>2. command' = [command EXCEPT ![c] = n]
      BY <2>1 DEF TriggerBackup
    <3> HIDE DEF n
    <3> QED  BY <1>1, <3>1, <3>2 DEF TypeInv, CommandsTyped
  <2> QED  BY <2>1, <2>4, <2>5 DEF TriggerBackup, caches, bounds, TypeInv, WorkersTyped,
           JobsTyped, ClusterTyped, BoundsTyped, Short
<1>3. CASE AwaitTrigger(c) \/ AwaitJob(c)
  <2>1. CommandsTyped'
    <3>1. CASE AwaitTrigger(c)
      <4> DEFINE job == live[command[c].backup].lastJob
                 n == IF job = None
                      THEN [command[c] EXCEPT !.pc = "done", !.result = "skipped"]
                      ELSE [command[c] EXCEPT !.pc = "follow", !.job = job]
      <4>1. command' = [command EXCEPT ![c] = n]
        BY <1>1, <3>1 DEF AwaitTrigger
      <4>2. job \in JobName \cup {None}
        <5>1. live[command[c].backup] \in Object
          BY <1>1, <3>1 DEF AwaitTrigger, TypeInv, CommandsTyped
        <5> QED  BY <5>1 DEF Object
      <4>3. n \in Command /\ n.pc # "acknowledge"
        <5> HIDE DEF job
        <5> QED  BY <1>1, <4>2 DEF Command
      <4> HIDE DEF n
      <4> QED  BY <1>1, <4>1, <4>3 DEF TypeInv, CommandsTyped
    <3>2. CASE AwaitJob(c)
      <4> DEFINE n(r) == [command[c] EXCEPT !.pc = "done", !.result = r]
      <4>1. \A r \in {"failed", "succeeded"} : n(r) \in Command /\ n(r).pc # "acknowledge"
        BY <1>1 DEF Command
      <4>2. \E r \in {"failed", "succeeded"} : command' = [command EXCEPT ![c] = n(r)]
        BY <1>1, <3>2 DEF AwaitJob
      <4> HIDE DEF n
      <4> QED  BY <1>1, <4>1, <4>2 DEF TypeInv, CommandsTyped
    <3> QED  BY <1>3, <3>1, <3>2
  <2> QED  BY <2>1, <1>3 DEF AwaitTrigger, AwaitJob, objects, caches, bounds, TypeInv,
           ObjectsTyped, WorkersTyped, JobsTyped, ClusterTyped, BoundsTyped, Short
<1> QED  BY <1>2, <1>3 DEF BackupCommand

\* An administrator changes one object.
LEMMA AdministratorTyped ==
  ASSUME TypeInv, NEW b \in Backups,
         \/ \E slug \in Slugs \cup {None} : CreateBackup(b, slug) \/ EditSlug(b, slug)
         \/ DeleteBackup(b) \/ EditBackup(b)
  PROVE  TypeInv'
<1>1. live[b] \in Object /\ clock \in Nat /\ creations + 1 \in Nat /\ live \in [Backups -> Object]
  BY DEF TypeInv, ObjectsTyped, BoundsTyped
<1>2. /\ UNCHANGED <<cron, jobs, claim, cache, cronCache, jobCache, repository, queue, worker,
                     command, clock, faults>>
      /\ adminOps' \in Nat /\ creations' \in Nat
  BY <1>1 DEF CreateBackup, EditSlug, DeleteBackup, EditBackup, Admin, caches, TypeInv,
     BoundsTyped
<1>3. \E o \in Object : /\ o.history \in {{}, live[b].history}
                        /\ live' = [live EXCEPT ![b] = o]
  <2>1. CASE \E slug \in Slugs \cup {None} : CreateBackup(b, slug)
    <3>1. PICK slug \in Slugs \cup {None} :
            live' = [live EXCEPT ![b] = NewBackup(creations + 1, clock, slug)]
      BY <2>1 DEF CreateBackup
    <3> QED  BY <1>1, <3>1, NewBackupTyped
  <2>2. CASE \E slug \in Slugs \cup {None} : EditSlug(b, slug)
    <3>1. PICK slug \in Slugs \cup {None} : live' = [live EXCEPT ![b].slug = slug]
      BY <2>2 DEF EditSlug
    <3> DEFINE o == [live[b] EXCEPT !.slug = slug]
    <3>2. o \in Object /\ o.history = live[b].history
      BY <1>1 DEF Object
    <3>3. live' = [live EXCEPT ![b] = o]
      BY <1>1, <3>1
    <3> QED  BY <3>2, <3>3
  <2>3. CASE DeleteBackup(b)
    BY <2>3, NoneTyped DEF DeleteBackup, NoObject
  <2>4. CASE EditBackup(b)
    <3> DEFINE s == [live[b] EXCEPT !.suspend = ~@]  k == [live[b] EXCEPT !.cached = ~@]
    <3>1. s \in Object /\ s.history = live[b].history
      BY <1>1 DEF Object
    <3>2. k \in Object /\ k.history = live[b].history
      BY <1>1 DEF Object
    <3>3. live' = [live EXCEPT ![b] = s] \/ live' = [live EXCEPT ![b] = k]
      BY <1>1, <2>4 DEF EditBackup
    <3> QED  BY <3>1, <3>2, <3>3
  <2> QED  BY <2>1, <2>2, <2>3, <2>4
<1>4. ObjectsTyped'
  BY <1>2, <1>3, LiveTyped
<1> QED  BY <1>2, <1>4 DEF TypeInv, WorkersTyped, JobsTyped, ClusterTyped, CommandsTyped,
         BoundsTyped, Short

\* The Repository comes, goes or is initialized.
LEMMA ChangeTyped ==
  ASSUME TypeInv, NEW state \in {"absent", "uninitialized", "initialized"},
         ChangeRepository(state)
  PROVE  TypeInv'
<1>1. ClusterTyped' /\ BoundsTyped'
  BY DEF ChangeRepository, Admin, BackupsForRepository, objects, caches, TypeInv, ClusterTyped,
     BoundsTyped
<1> QED  BY <1>1 DEF ChangeRepository, objects, caches, TypeInv, ObjectsTyped, WorkersTyped,
         JobsTyped, CommandsTyped, Short

\* The run of a backup in force.
LEMMA LastRunTyped ==
  ASSUME NEW b \in Backups
  PROVE  Standing[b] \in Nat /\ LastRun(b) \in Job /\ RunFromJob(LastRun(b)) \in Run
<1>1. Standing[b] \in Nat
  <2> DEFINE n == Cardinality({o \in Backups : Standing[o] # 0})
  <2>1. n \in Nat
    <3>1. IsFiniteSet({o \in Backups : Standing[o] # 0})
      BY InputAssumption, FS_Subset
    <3> QED  BY <3>1, FS_CardinalityType
  <2>2. Standing[b] \in 0..n
    BY InputAssumption
  <2> HIDE DEF n
  <2> QED  BY <2>1, <2>2
<1>2. [kind |-> "Scheduled", stem |-> b, at |-> 0] \in JobName
  BY DEF JobName
<1>3. LastRun(b) \in Job
  BY <1>1, <1>2 DEF LastRun, Job, JobState
<1> QED  BY <1>1, <1>3 DEF RunFromJob, Job, Run

\* The instances begin with backups that are in force, and a run of them.
LEMMA InitTyped == Init => TypeInv
<1> SUFFICES ASSUME Init PROVE TypeInv
  OBVIOUS
<1> DEFINE force(b, slug) ==
             [NewBackup(Standing[b], 0, slug) EXCEPT
                !.ready = "Ready",
                !.history = {RunFromJob(LastRun(f)) : f \in Finished \cap {b}}]
<1>1. \A b \in Backups, slug \in Slugs \cup {None} :
        force(b, slug) \in Object /\ Short(force(b, slug))
  <2> SUFFICES ASSUME NEW b \in Backups, NEW slug \in Slugs \cup {None}
               PROVE  force(b, slug) \in Object /\ Short(force(b, slug))
    OBVIOUS
  <2> DEFINE runs == {RunFromJob(LastRun(f)) : f \in Finished \cap {b}}
             o == NewBackup(Standing[b], 0, slug)
  <2>1. runs \subseteq Run
    BY LastRunTyped
  <2>2. IsFiniteSet(runs) /\ Cardinality(runs) <= HistoryLimit
    <3>1. runs = {} \/ runs = {RunFromJob(LastRun(b))}
      <4>1. CASE b \in Finished
        <5>1. Finished \cap {b} = {b}
          BY <4>1
        <5> QED  BY <5>1
      <4>2. CASE b \notin Finished
        <5>1. Finished \cap {b} = {}
          BY <4>2
        <5> QED  BY <5>1
      <4> QED  BY <4>1, <4>2
    <3>2. HistoryLimit \in Nat \ {0}
      BY InputAssumption
    <3>3. IsFiniteSet({}) /\ Cardinality({}) = 0
      BY FS_EmptySet
    <3>4. /\ IsFiniteSet({RunFromJob(LastRun(b))})
          /\ Cardinality({RunFromJob(LastRun(b))}) = 1
      BY FS_Singleton
    <3> HIDE DEF runs
    <3> QED  BY <3>1, <3>2, <3>3, <3>4
  <2>3. o \in Object
    BY LastRunTyped, NewBackupTyped
  <2>4. force(b, slug) = [o EXCEPT !.ready = "Ready", !.history = runs]
    OBVIOUS
  <2> HIDE DEF runs, o, force
  <2> QED  BY <2>1, <2>2, <2>3, <2>4 DEF Object, Ready, Short
<1>2. PICK slug \in [Backups -> Slugs \cup {None}] :
        live = [b \in Backups |-> IF Standing[b] = 0 THEN NoObject ELSE force(b, slug[b])]
  BY DEF Init
<1> HIDE DEF force
<1>3. live \in [Backups -> Object] /\ \A b \in Backups : Short(live[b])
  BY <1>1, <1>2, NoneTyped, NoHistory
<1>4. ObjectsTyped
  BY <1>3 DEF Init, ObjectsTyped
<1>5. WorkersTyped
  BY NoneTyped, NoHistory DEF Init, WorkersTyped
<1>6. JobsTyped
  <2> DEFINE f == [b \in Finished |-> LastRun(b)]
  <2>1. IsFiniteSet(Finished)
    BY InputAssumption, FS_Subset
  <2>2. f \in Surjection(Finished, jobs)
    BY DEF Init, Surjection
  <2>3. IsFiniteSet(jobs)
    BY <2>1, <2>2, FS_Surjection
  <2>4. jobs \subseteq Job
    <3>1. jobs = {LastRun(b) : b \in Finished} /\ Finished \subseteq Backups
      BY InputAssumption DEF Init
    <3> QED  BY <3>1, LastRunTyped
  <2> QED  BY <2>3, <2>4 DEF Init, JobsTyped
<1>7. ClusterTyped
  <2>1. Standing \in [Backups -> Nat]
    BY LastRunTyped, InputAssumption
  <2>2. cron \in [Backups -> CronJob]
    BY <1>3, <2>1, NoneTyped, RenderedTyped DEF Init
  <2>3. repository \in {"absent", "uninitialized", "initialized"}
    BY InputAssumption DEF Init
  <2> QED  BY <2>1, <2>2, <2>3 DEF Init, ClusterTyped
<1>8. CommandsTyped
  BY NoneTyped DEF Init, CommandsTyped, NoCommand
<1>9. BoundsTyped
  <2>1. IsFiniteSet({b \in Backups : live[b].exists})
    BY InputAssumption, FS_Subset
  <2> QED  BY <2>1, FS_CardinalityType DEF Init, BoundsTyped
<1> QED  BY <1>4, <1>5, <1>6, <1>7, <1>8, <1>9 DEF TypeInv

\* The steps of a pass between its first and its last, with each reply they may get.
PassWork(b) ==
  \E reply \in {"ok", "lostWrite", "lostCreate"} :
    \/ Check(b) \/ Volume(b, reply) \/ CreateCronJob(b, reply) \/ UpdateCronJob(b, reply)
    \/ StaleCronJob(b) \/ Observe(b) \/ SkipTrigger(b) \/ TriggerJob(b, reply)
    \/ CallFails(b)

\* The steps that change neither objects, passes nor Jobs.
Elsewhere ==
  \/ SyncCronJobs \/ SyncJobs \/ RepositoryEvent
  \/ \E b \in Backups : CollectCronJob(b) \/ CollectClaim(b)
  \/ \E c \in Commands : AwaitTrigger(c) \/ AwaitJob(c)
  \/ \E state \in {"absent", "uninitialized", "initialized"} : ChangeRepository(state)

\* The steps of the specification, by what they change.
LEMMA StepCases ==
  ASSUME Next
  PROVE  \/ \E b \in Backups :
              \/ PassWork(b) \/ StartPass(b) \/ PatchStatus(b) \/ PatchFails(b)
              \/ FireCronJob(b) \/ Cancel(b) \/ DeleteBackup(b) \/ EditBackup(b)
              \/ \E slug \in Slugs \cup {None} : CreateBackup(b, slug) \/ EditSlug(b, slug)
              \/ \E c \in Commands : TriggerBackup(c, b)
         \/ \E j \in jobs : ExpireJob(j) \/ \E result \in JobState : FinishJob(j, result)
         \/ CollectJobs \/ Elsewhere \/ SyncBackups \/ Crash \/ Tick
<1>1. CASE \E b \in Backups : PassStep(b) \/ ReplyLost(b) \/ Failure(b)
  BY <1>1 DEF PassStep, ReplyLost, Failure, PassWork
<1>2. CASE \E b \in Backups : Administrator(b)
  BY <1>2 DEF Administrator
<1>3. CASE \E c \in Commands : BackupCommand(c)
  BY <1>3 DEF BackupCommand, Elsewhere
<1>4. CASE \E state \in {"absent", "uninitialized", "initialized"} : ChangeRepository(state)
  BY <1>4 DEF Elsewhere
<1>5. CASE Cluster
  <2>1. Outcomes \subseteq JobState
    BY InputAssumption DEF JobState
  <2> QED  BY <1>5, <2>1 DEF Cluster, Elsewhere
<1> QED  BY <1>1, <1>2, <1>3, <1>4, <1>5 DEF Next

\* Every step keeps TypeInv.
LEMMA TypeStep == TypeInv /\ [Next]_vars => TypeInv'
<1> SUFFICES ASSUME TypeInv, [Next]_vars PROVE TypeInv'
  OBVIOUS
<1>1. CASE UNCHANGED vars
  BY <1>1 DEF vars, TypeInv, ObjectsTyped, WorkersTyped, JobsTyped, ClusterTyped, CommandsTyped,
     BoundsTyped, Short
<1>2. CASE \E b \in Backups :
             PassWork(b) \/ StartPass(b) \/ PatchStatus(b) \/ PatchFails(b) \/ FireCronJob(b)
  BY <1>2, PassTyped, StartPassTyped, PatchTyped, PatchFailsTyped, FireTyped DEF PassWork
<1>3. CASE \E b \in Backups :
             \/ DeleteBackup(b) \/ EditBackup(b)
             \/ \E slug \in Slugs \cup {None} : CreateBackup(b, slug) \/ EditSlug(b, slug)
  BY <1>3, AdministratorTyped
<1>4. CASE \/ \E j \in jobs : ExpireJob(j) \/ \E result \in JobState : FinishJob(j, result)
           \/ CollectJobs
           \/ \E b \in Backups : Cancel(b)
  BY <1>4, JobsTurnTyped
<1>5. CASE \E c \in Commands :
        AwaitTrigger(c) \/ AwaitJob(c) \/ \E b \in Backups : TriggerBackup(c, b)
  BY <1>5, CommandsStepTyped DEF BackupCommand
<1>6. CASE SyncBackups \/ SyncCronJobs \/ SyncJobs \/ RepositoryEvent
  BY <1>6, InformersTyped
<1>7. CASE \E b \in Backups : CollectCronJob(b) \/ CollectClaim(b)
  BY <1>7, CollectTyped
<1>8. CASE \E state \in {"absent", "uninitialized", "initialized"} : ChangeRepository(state)
  BY <1>8, ChangeTyped
<1>9. CASE Crash \/ Tick
  BY <1>9, CrashTyped, TickTyped
<1> QED  BY <1>1, <1>2, <1>3, <1>4, <1>5, <1>6, <1>7, <1>8, <1>9, StepCases DEF Elsewhere

\* TypeInv in every reachable state.
LEMMA TypeInvariant == Spec => []TypeInv
BY InitTyped, TypeStep, PTL DEF Spec

\* Every variable keeps the kind of value its comment says, and no status.history grows
\* longer than historyLimit, however many runs a pass finds and whichever of its calls fail.
THEOREM BackupTypeCorrect == Spec => []TypeOK
<1>1. TypeInv => TypeOK
  BY DEF TypeInv, ObjectsTyped, WorkersTyped, JobsTyped, ClusterTyped, CommandsTyped,
     BoundsTyped, Short, TypeOK
<1> QED  BY <1>1, TypeInvariant, PTL

-------------------------------------------------------------------------------
(* A trigger starts one run *)

\* A pass works on a copy of what it started from, and records a time only when it
\* answers a trigger that is due.
PassInv(b) ==
  LET w == worker[b] IN
  /\ w.pc = "idle" => w = Idle
  /\ w.pc # "idle" => w.obj.uid # 0
  /\ w.obj.uid = w.base.uid /\ w.obj.trigger = w.base.trigger
  /\ w.pc = "trigger" => w.obj.trigger > w.obj.lastTime
  /\ w.obj.lastTime # w.base.lastTime =>
       w.obj.lastTime = w.obj.trigger /\ w.obj.trigger > w.base.lastTime
  /\ w.pc # "patch" => w.obj.lastTime = w.base.lastTime

\* The uids are those of the backups made so far, the triggers are not of the future,
\* and a pass that works for the backup that is there finds it in the cache.
Made(o) ==
  /\ o.uid <= creations /\ o.trigger <= clock
  /\ o.uid = 0 => o.trigger = 0
  /\ o.exists <=> o.uid # 0
UidInv(b) ==
  /\ Made(live[b]) /\ Made(cache[b]) /\ Made(worker[b].obj)
  /\ worker[b].obj.uid = live[b].uid => cache[b].uid = live[b].uid \/ live[b].uid = 0

\* Each copy of a backup is as it was, or as one of its predecessors was: its trigger has
\* been overtaken by what is there, or what is there is new and has none.
Overtaken(o, n) == o.trigger <= n.trigger \/ (n.trigger = 0 /\ n.uid # o.uid)
TimeInv(b) ==
  /\ Overtaken(cache[b], live[b]) /\ Overtaken(worker[b].obj, live[b])
  /\ Overtaken(worker[b].obj, cache[b])
  /\ \A o \in {live[b], cache[b], worker[b].obj} :
       o.trigger # 0 => o.trigger >= live[b].lastTime
  /\ live[b].uid # 0 /\ cache[b].uid = live[b].uid => cache[b].lastTime <= live[b].lastTime
  /\ live[b].lastTime <= clock

\* A one-off run that is gone has been answered, in the object and in every copy of it.
JobInv(j) ==
  LET b == j.backup IN
  /\ j.owner \in 1..creations /\ j.name.at > 0
  /\ j.owner = live[b].uid =>
       /\ cache[b].uid = live[b].uid
       /\ j.name.at <= live[b].trigger
       /\ j.gone => /\ live[b].lastTime >= j.name.at /\ cache[b].lastTime >= j.name.at
                    /\ worker[b].base.uid = j.owner => worker[b].base.lastTime >= j.name.at

BackupsInv == \A b \in Backups : PassInv(b) /\ UidInv(b) /\ TimeInv(b)
ManualInv == \A j \in jobs : j.name.kind = "Manual" => JobInv(j)

\* The CronJob names its runs by their times.
ScheduledOnce ==
  \A i, j \in jobs : i.name.kind = "Scheduled" /\ i.name = j.name => i = j
ManualOnce ==
  \A i, j \in jobs :
    /\ i.name.kind = "Manual"
    /\ i.name = j.name /\ i.backup = j.backup /\ i.owner = j.owner
    /\ i.owner = live[i.backup].uid
    => i = j

OnceInv == BackupsInv /\ ManualInv /\ ScheduledOnce /\ ManualOnce

\* What the types say of the parts the invariant is about.
LEMMA BackupParts ==
  ASSUME TypeInv, NEW b \in Backups
  PROVE  /\ live[b] \in Object /\ cache[b] \in Object
         /\ worker[b] \in Worker /\ worker[b].obj \in Object /\ worker[b].base \in Object
         /\ \A o \in {live[b], cache[b], worker[b].obj, worker[b].base} :
              o.uid \in Nat /\ o.trigger \in Nat /\ o.lastTime \in Nat /\ o.exists \in BOOLEAN
         /\ clock \in Nat /\ creations \in Nat
<1>1. live[b] \in Object /\ cache[b] \in Object /\ worker[b] \in Worker
  BY DEF TypeInv, ObjectsTyped, WorkersTyped
<1>2. worker[b].obj \in Object /\ worker[b].base \in Object
  BY <1>1 DEF Worker
<1>3. \A o \in Object :
        o.uid \in Nat /\ o.trigger \in Nat /\ o.lastTime \in Nat /\ o.exists \in BOOLEAN
  BY DEF Object
<1> QED  BY <1>1, <1>2, <1>3 DEF TypeInv, BoundsTyped

\* The parts of a Job.
LEMMA JobParts ==
  ASSUME TypeInv, NEW j \in jobs
  PROVE  /\ j \in Job /\ j.backup \in Backups /\ j.owner \in Nat /\ j.name \in JobName
         /\ j.name.at \in Nat /\ j.name.kind \in {"Scheduled", "Manual"} /\ j.gone \in BOOLEAN
<1>1. j \in Job
  BY DEF TypeInv, JobsTyped
<1> QED  BY <1>1 DEF Job, JobName

\* While no Job changes, only another backup of its name can come between two runs, and
\* one that is new has none.
LEMMA OnceKept ==
  ASSUME TypeInv, ManualInv, ManualOnce, ScheduledOnce, UNCHANGED jobs,
         \A b \in Backups : live'[b].uid \in {live[b].uid, 0, creations + 1}
  PROVE  ManualOnce' /\ ScheduledOnce'
<1>1. ScheduledOnce'
  BY DEF ScheduledOnce
<1>2. \A j \in jobs : j.name.kind = "Manual" =>
        j.owner # 0 /\ j.owner # creations + 1 /\ j.backup \in Backups
  BY JobParts DEF ManualInv, JobInv, TypeInv, BoundsTyped
<1>3. ManualOnce'
  <2> SUFFICES ASSUME NEW i \in jobs, NEW j \in jobs, i.name.kind = "Manual",
                      i.name = j.name, i.backup = j.backup, i.owner = j.owner,
                      i.owner = live'[i.backup].uid
               PROVE  i = j
    BY DEF ManualOnce
  <2>1. i.owner = live[i.backup].uid
    BY <1>2
  <2> QED  BY <2>1 DEF ManualOnce
<1> QED  BY <1>1, <1>3

\* What a step does not touch stays true.
LEMMA BackupKept ==
  ASSUME NEW b \in Backups, PassInv(b), UidInv(b), TimeInv(b), TypeInv,
         UNCHANGED <<live[b], cache[b], worker[b]>>,
         clock' \in Nat, creations' \in Nat, clock' >= clock, creations' >= creations
  PROVE  PassInv(b)' /\ UidInv(b)' /\ TimeInv(b)'
<1>1. PassInv(b)'
  BY DEF PassInv
<1>2. UidInv(b)'
  BY BackupParts DEF UidInv, Made
<1>3. TimeInv(b)'
  BY BackupParts DEF TimeInv, Overtaken
<1> QED  BY <1>1, <1>2, <1>3

\* A pass that goes on keeps what the copies know of triggers.
LEMMA PassMovesOnce ==
  ASSUME TypeInv, OnceInv, NEW a \in Backups, Continues(a), Untouched
  PROVE  BackupsInv' /\ \A j \in jobs : j.name.kind = "Manual" => JobInv(j)'
<1> DEFINE w == worker[a]
<1>1. PICK n \in Worker :
        /\ Goto(a, n) /\ Copies(w, n)
        /\ w.pc \notin {"idle", "patch"} /\ n.pc # "idle"
        /\ \/ n.obj.lastTime = w.obj.lastTime
           \/ w.pc = "trigger" /\ n.pc = "patch" /\ n.obj.lastTime = w.obj.trigger
        /\ n.pc = "trigger" => Due(n.obj)
  BY DEF Continues, Settles
<1>2. worker'[a] = n /\ \A b \in Backups \ {a} : worker'[b] = worker[b]
  BY <1>1, GotoTyped DEF TypeInv, WorkersTyped
<1>3. UNCHANGED <<live, cache, clock, creations>>
  BY DEF Untouched
<1>4. PassInv(a) /\ UidInv(a) /\ TimeInv(a)
  BY DEF OnceInv, BackupsInv
<1>5. /\ n.base = w.base /\ n.obj.uid = w.obj.uid /\ n.obj.trigger = w.obj.trigger
      /\ n.obj.exists = w.obj.exists
  BY <1>1 DEF Copies
<1>6. PassInv(a)'
  <2>1. /\ w.obj.lastTime = w.base.lastTime /\ w.obj.uid # 0
        /\ w.obj.uid = w.base.uid /\ w.obj.trigger = w.base.trigger
        /\ w.pc = "trigger" => w.obj.trigger > w.obj.lastTime
    BY <1>1, <1>4 DEF PassInv
  <2>2. n.obj.trigger \in Nat /\ n.obj.lastTime \in Nat /\ n.base.lastTime \in Nat
    BY DEF Worker, Object
  <2>3. n.pc = "trigger" => n.obj.trigger > n.obj.lastTime
    BY <1>1 DEF Due
  <2> QED  BY <1>1, <1>2, <1>5, <2>1, <2>2, <2>3 DEF PassInv
<1>7. UidInv(a)' /\ TimeInv(a)'
  BY <1>2, <1>3, <1>4, <1>5 DEF UidInv, TimeInv, Made, Overtaken
<1>8. \A b \in Backups \ {a} : PassInv(b)' /\ UidInv(b)' /\ TimeInv(b)'
  <2>1. clock \in Nat /\ creations \in Nat
    BY DEF TypeInv, BoundsTyped
  <2> QED  BY <1>2, <1>3, <2>1, BackupKept DEF OnceInv, BackupsInv
<1>9. BackupsInv'
  BY <1>6, <1>7, <1>8 DEF BackupsInv
<1>10. \A j \in jobs : j.name.kind = "Manual" => JobInv(j)'
  <2>1. \A b \in Backups : worker'[b].base = worker[b].base
    BY <1>2, <1>5
  <2> QED  BY <1>3, <2>1, JobParts DEF OnceInv, ManualInv, JobInv
<1> QED  BY <1>9, <1>10

\* The calls of a pass, the one that creates a Job among them.
LEMMA PassWorkOnce ==
  ASSUME TypeInv, OnceInv, NEW a \in Backups, PassMoves(a)
  PROVE  OnceInv'
<1> DEFINE w == worker[a]  name == ManualJobName(a, w.obj.trigger)
<1>1. BackupsInv' /\ \A j \in jobs : j.name.kind = "Manual" => JobInv(j)'
  BY PassMovesOnce DEF PassMoves
<1>2. UNCHANGED <<live, cache, clock, creations>>
  BY DEF PassMoves, Untouched
<1>3. CASE UNCHANGED jobs
  <2>1. ManualOnce' /\ ScheduledOnce'
    BY <1>2, <1>3, OnceKept DEF OnceInv
  <2> QED  BY <1>1, <1>3, <2>1 DEF OnceInv, ManualInv
<1>4. CASE w.pc = "trigger" /\ (\A j \in Visible : j.name # name) /\ StartJob(a, name, w.obj.uid)
  <2>1. PassInv(a) /\ UidInv(a) /\ TimeInv(a)
    BY DEF OnceInv, BackupsInv
  <2>2. /\ w.obj.uid # 0 /\ w.obj.uid = w.base.uid
        /\ w.obj.trigger > w.obj.lastTime /\ w.obj.lastTime = w.base.lastTime
    BY <1>4, <2>1 DEF PassInv
  <2>0. PICK k : k = [id |-> Cardinality(jobs), name |-> name, backup |-> a,
                      owner |-> w.obj.uid, start |-> clock, state |-> "Running", gone |-> FALSE]
    OBVIOUS
  <2>3. jobs' = jobs \cup {k}
    BY <1>4, <2>0 DEF StartJob
  <2>4. /\ k.name = name /\ k.backup = a /\ k.owner = w.obj.uid /\ k.gone = FALSE
        /\ k.name.kind = "Manual" /\ k.name.at = w.obj.trigger
    BY <2>0 DEF ManualJobName
  <2> HIDE DEF name
  <2>5. JobInv(k)'
    <3>1. k.owner \in 1..creations /\ k.name.at > 0
      BY <2>1, <2>2, <2>4, BackupParts DEF UidInv, Made
    <3>2. k.owner = live[a].uid => cache[a].uid = live[a].uid /\ k.name.at <= live[a].trigger
      BY <2>1, <2>2, <2>4, BackupParts DEF UidInv, TimeInv, Overtaken
    <3> QED  BY <1>2, <2>4, <3>1, <3>2 DEF JobInv
  <2>6. ManualInv'
    BY <1>1, <2>3, <2>5 DEF ManualInv
  <2>7. ScheduledOnce'
    BY <2>3, <2>4 DEF OnceInv, ScheduledOnce
  <2>8. \A j \in jobs :
          j.name = k.name /\ j.backup = a /\ j.owner = k.owner => k.owner # live[a].uid
    <3> SUFFICES ASSUME NEW j \in jobs, j.name = k.name, j.backup = a, j.owner = k.owner,
                        k.owner = live[a].uid
                 PROVE  FALSE
      OBVIOUS
    <3>1. j.gone
      BY <1>4, <2>4 DEF Visible
    <3>2. JobInv(j)
      BY <2>4 DEF OnceInv, ManualInv
    <3>3. w.base.lastTime >= w.obj.trigger
      BY <2>2, <2>4, <3>1, <3>2 DEF JobInv
    <3> QED  BY <2>2, <3>3, BackupParts
  <2>9. ManualOnce'
    <3> SUFFICES ASSUME NEW i \in jobs', NEW j \in jobs', i.name.kind = "Manual",
                        i.name = j.name, i.backup = j.backup, i.owner = j.owner,
                        i.owner = live[i.backup].uid
                 PROVE  i = j
      BY <1>2 DEF ManualOnce
    <3> QED  BY <2>3, <2>4, <2>8 DEF OnceInv, ManualOnce
  <2> QED  BY <1>1, <2>6, <2>7, <2>9 DEF OnceInv
<1> QED  BY <1>3, <1>4 DEF PassMoves, StartsManual

\* A pass begins with a copy of the past.
LEMMA StartPassOnce ==
  ASSUME TypeInv, OnceInv, NEW a \in Backups, StartPass(a)
  PROVE  OnceInv'
<1> DEFINE n == [Idle EXCEPT !.pc = "check", !.obj = cache[a], !.base = cache[a]]
<1>1. UNCHANGED <<live, cache, jobs, clock, creations>>
  BY DEF StartPass, objects, caches, bounds
<1>2. CASE UNCHANGED worker
  <2>1. BackupsInv' /\ ManualInv'
    BY <1>1, <1>2 DEF OnceInv, BackupsInv, ManualInv, PassInv, UidInv, TimeInv, JobInv, Made
  <2> QED  BY <1>1, <2>1, OnceKept DEF OnceInv
<1>3. CASE cache[a].exists /\ Goto(a, n)
  <2>1. /\ n \in Worker /\ n.pc = "check" /\ n.obj = cache[a] /\ n.base = cache[a]
    BY NoneTyped, BackupParts DEF Idle, Worker
  <2> HIDE DEF n
  <2>2. worker'[a] = n /\ \A b \in Backups \ {a} : worker'[b] = worker[b]
    BY <1>3, <2>1, GotoTyped DEF TypeInv, WorkersTyped
  <2>3. PassInv(a) /\ UidInv(a) /\ TimeInv(a)
    BY DEF OnceInv, BackupsInv
  <2>4. PassInv(a)'
    BY <1>3, <2>1, <2>2, <2>3 DEF PassInv, UidInv, Made
  <2>5. UidInv(a)' /\ TimeInv(a)'
    BY <1>1, <2>1, <2>2, <2>3, BackupParts DEF UidInv, TimeInv, Made, Overtaken
  <2>6. \A b \in Backups \ {a} : PassInv(b)' /\ UidInv(b)' /\ TimeInv(b)'
    BY <1>1, <2>2, BackupParts, BackupKept DEF OnceInv, BackupsInv
  <2>7. ManualInv'
    <3> SUFFICES ASSUME NEW j \in jobs, j.name.kind = "Manual"
                 PROVE  JobInv(j)'
      BY <1>1 DEF ManualInv
    <3>1. JobInv(j) /\ j.backup \in Backups
      BY JobParts DEF OnceInv, ManualInv
    <3> QED  BY <1>1, <2>1, <2>2, <3>1 DEF JobInv
  <2> QED  BY <1>1, <2>4, <2>5, <2>6, <2>7, OnceKept DEF OnceInv, BackupsInv
<1> QED  BY <1>2, <1>3 DEF StartPass

\* A pass ends: its copies are forgotten.
LEMMA IdleOnce ==
  ASSUME TypeInv, NEW a \in Backups, PassInv(a), UidInv(a), TimeInv(a), worker'[a] = Idle,
         UNCHANGED <<live[a], cache[a], clock, creations>>
  PROVE  PassInv(a)' /\ UidInv(a)' /\ TimeInv(a)'
<1>1. Idle.pc = "idle" /\ Idle.obj = NoObject /\ Idle.base = NoObject
  BY DEF Idle
<1>2. ~NoObject.exists /\ NoObject.uid = 0 /\ NoObject.trigger = 0 /\ NoObject.lastTime = 0
  BY DEF NoObject
<1> QED  BY <1>1, <1>2, BackupParts DEF PassInv, UidInv, TimeInv, Made, Overtaken

\* Whatever becomes of the pass, what has been answered stays answered.
LEMMA EndOnce ==
  ASSUME TypeInv, OnceInv, NEW a \in Backups, PatchStatus(a) \/ PatchFails(a)
  PROVE  OnceInv'
<1> DEFINE w == worker[a]  p == Patched(live[a], w.base, w.obj)
<1>1. UNCHANGED <<cache, jobs, clock, creations>> /\ Goto(a, Idle)
  BY DEF PatchStatus, PatchFails, Fault, objects, caches, bounds
<1>2. worker'[a] = Idle /\ \A b \in Backups \ {a} : worker'[b] = worker[b]
  BY <1>1, NoneTyped, GotoTyped DEF TypeInv, WorkersTyped
<1>3. Idle.pc = "idle" /\ Idle.obj = NoObject /\ Idle.base = NoObject
  BY DEF Idle
<1>4. ~NoObject.exists /\ NoObject.uid = 0 /\ NoObject.trigger = 0 /\ NoObject.lastTime = 0
  BY DEF NoObject
<1>5. PassInv(a) /\ UidInv(a) /\ TimeInv(a)
  BY DEF OnceInv, BackupsInv
<1>6. CASE UNCHANGED live
  <2>1. BackupsInv'
    BY <1>1, <1>2, <1>5, <1>6, IdleOnce, BackupKept, BackupParts DEF OnceInv, BackupsInv
  <2>2. ManualInv'
    <3> SUFFICES ASSUME NEW j \in jobs, j.name.kind = "Manual"
                 PROVE  JobInv(j)'
      BY <1>1 DEF ManualInv
    <3>1. JobInv(j) /\ j.backup \in Backups
      BY JobParts DEF OnceInv, ManualInv
    <3>2. j.owner # 0
      BY <3>1, JobParts, BackupParts DEF JobInv
    <3> QED  BY <1>1, <1>2, <1>3, <1>4, <1>6, <3>1, <3>2 DEF JobInv
  <2>3. ManualOnce' /\ ScheduledOnce'
    BY <1>1, <1>6, OnceKept DEF OnceInv
  <2> QED  BY <2>1, <2>2, <2>3 DEF OnceInv
<1>7. CASE live[a].exists /\ live' = [live EXCEPT ![a] = p]
  <2>1. live'[a] = p /\ \A b \in Backups \ {a} : live'[b] = live[b]
    BY <1>7 DEF TypeInv, ObjectsTyped
  <2>2. /\ p.exists = live[a].exists /\ p.uid = live[a].uid /\ p.trigger = live[a].trigger
        /\ p.lastTime = IF w.obj.lastTime # w.base.lastTime THEN w.obj.lastTime
                                                            ELSE live[a].lastTime
    BY BackupParts, PatchedTyped
  <2> HIDE DEF p
  <2>3. w.obj.lastTime # w.base.lastTime =>
          /\ w.obj.lastTime = w.obj.trigger /\ w.obj.trigger # 0
          /\ w.obj.trigger >= live[a].lastTime
    BY <1>5, BackupParts DEF PassInv, TimeInv
  <2>4. p.lastTime >= live[a].lastTime /\ p.lastTime \in Nat
    BY <2>2, <2>3, BackupParts
  <2>5. PassInv(a)' /\ UidInv(a)'
    BY <1>1, <1>2, <1>3, <1>4, <1>5, <2>1, <2>2, BackupParts DEF PassInv, UidInv, Made
  <2>6. TimeInv(a)'
    <3>1. /\ live[a].trigger # 0 => live[a].trigger >= p.lastTime
          /\ cache[a].trigger # 0 => cache[a].trigger >= p.lastTime
          /\ p.lastTime <= clock
          /\ cache[a].uid = p.uid => cache[a].lastTime <= p.lastTime
      BY <1>5, <1>7, <2>2, <2>3, BackupParts DEF UidInv, TimeInv, Made, Overtaken
    <3>2. Overtaken(cache[a], p)
      BY <1>5, <2>2 DEF TimeInv, Overtaken
    <3>3. Overtaken(NoObject, p) /\ Overtaken(NoObject, cache[a])
      BY <1>4, <2>2, BackupParts DEF Overtaken
    <3> QED  BY <1>1, <1>2, <1>3, <1>4, <2>1, <2>2, <3>1, <3>2, <3>3 DEF TimeInv
  <2>7. \A b \in Backups \ {a} : PassInv(b)' /\ UidInv(b)' /\ TimeInv(b)'
    BY <1>1, <1>2, <2>1, BackupKept, BackupParts DEF OnceInv, BackupsInv
  <2>8. ManualInv'
    <3> SUFFICES ASSUME NEW j \in jobs, j.name.kind = "Manual"
                 PROVE  JobInv(j)'
      BY <1>1 DEF ManualInv
    <3>1. JobInv(j) /\ j.backup \in Backups
      BY JobParts DEF OnceInv, ManualInv
    <3>2. j.owner # 0
      BY <3>1, JobParts, BackupParts DEF JobInv
    <3>3. CASE j.backup # a
      BY <1>1, <1>2, <2>1, <3>1, <3>3 DEF JobInv
    <3>4. CASE j.backup = a
      BY <1>1, <1>2, <1>3, <1>4, <2>1, <2>2, <2>4, <3>1, <3>2, <3>4, JobParts, BackupParts
         DEF JobInv
    <3> QED  BY <3>3, <3>4
  <2>9. ManualOnce' /\ ScheduledOnce'
    BY <1>1, <2>1, <2>2, OnceKept DEF OnceInv
  <2> QED  BY <2>5, <2>6, <2>7, <2>8, <2>9 DEF OnceInv, BackupsInv
<1> QED  BY <1>6, <1>7 DEF PatchStatus, PatchFails, objects

\* The cache shows what is there, while each pass goes on, or all are lost.
LEMMA ListOnce ==
  ASSUME TypeInv, OnceInv, cache' = live,
         UNCHANGED <<live, jobs, clock, creations>>,
         \/ UNCHANGED worker
         \/ \A b \in Backups : worker'[b] = Idle
  PROVE  OnceInv'
<1>1. Idle.pc = "idle" /\ Idle.obj = NoObject /\ Idle.base = NoObject
  BY DEF Idle
<1>2. ~NoObject.exists /\ NoObject.uid = 0 /\ NoObject.trigger = 0 /\ NoObject.lastTime = 0
  BY DEF NoObject
<1>3. ASSUME NEW b \in Backups PROVE PassInv(b)' /\ UidInv(b)' /\ TimeInv(b)'
  <2>1. PassInv(b) /\ UidInv(b) /\ TimeInv(b)
    BY DEF OnceInv, BackupsInv
  <2>2. worker'[b] = worker[b] \/ worker'[b] = Idle
    OBVIOUS
  <2>3. PassInv(b)'
    BY <1>1, <2>1, <2>2 DEF PassInv
  <2>4. UidInv(b)'
    BY <1>1, <1>2, <2>1, <2>2, BackupParts DEF UidInv, Made
  <2>5. TimeInv(b)'
    BY <1>1, <1>2, <2>1, <2>2, BackupParts DEF TimeInv, Overtaken
  <2> QED  BY <2>3, <2>4, <2>5
<1>4. ManualInv'
  <2> SUFFICES ASSUME NEW j \in jobs, j.name.kind = "Manual"
               PROVE  JobInv(j)'
    BY DEF ManualInv
  <2>1. JobInv(j) /\ j.backup \in Backups
    BY JobParts DEF OnceInv, ManualInv
  <2>2. j.owner # 0
    BY <2>1, JobParts, BackupParts DEF JobInv
  <2>3. worker'[j.backup] = worker[j.backup] \/ worker'[j.backup] = Idle
    BY <2>1
  <2> QED  BY <1>1, <1>2, <2>1, <2>2, <2>3 DEF JobInv
<1> QED  BY <1>3, <1>4, OnceKept DEF OnceInv, BackupsInv

\* The steps that change neither objects, passes nor Jobs.
LEMMA ElsewhereOnce ==
  ASSUME TypeInv, OnceInv, Elsewhere \/ Tick
  PROVE  OnceInv'
<1>1. clock \in Nat /\ creations \in Nat
  BY DEF TypeInv, BoundsTyped
<1>2. /\ UNCHANGED <<live, cache, worker, jobs, creations>>
      /\ clock' = clock \/ clock' = clock + 1
  <2>1. CASE Elsewhere
    <3>1. UNCHANGED <<live, cache, worker, jobs, creations, clock>>
      BY <2>1 DEF Elsewhere, SyncCronJobs, SyncJobs, RepositoryEvent, CollectCronJob,
         CollectClaim, AwaitTrigger, AwaitJob, ChangeRepository, objects, caches, bounds
    <3> QED  BY <3>1
  <2>2. CASE Tick
    BY <2>2 DEF Tick, objects, caches
  <2> QED  BY <2>1, <2>2
<1>3. clock' \in Nat /\ clock' >= clock
  BY <1>1, <1>2
<1>4. BackupsInv'
  BY <1>1, <1>2, <1>3, BackupKept DEF OnceInv, BackupsInv
<1>5. ManualInv'
  BY <1>2 DEF OnceInv, ManualInv, JobInv
<1> QED  BY <1>2, <1>4, <1>5, OnceKept DEF OnceInv

\* The CronJob starts a run: none of that name has been.
LEMMA FireOnce ==
  ASSUME TypeInv, OnceInv, NEW a \in Backups, FireCronJob(a)
  PROVE  OnceInv'
<1>1. UNCHANGED <<live, cache, worker, clock, creations>>
  BY DEF FireCronJob, caches, bounds
<1>2. PICK k : /\ jobs' = jobs \cup {k} /\ k.name.kind = "Scheduled"
               /\ \A j \in jobs : j.name # k.name
  <2> DEFINE name == [kind |-> "Scheduled", stem |-> a, at |-> clock]
  <2>1. (\A j \in jobs : j.name # name) /\ StartJob(a, name, cron[a].uid)
    BY DEF FireCronJob
  <2>2. name.kind = "Scheduled"
    OBVIOUS
  <2> DEFINE k == [id |-> Cardinality(jobs), name |-> name, backup |-> a,
                   owner |-> cron[a].uid, start |-> clock, state |-> "Running", gone |-> FALSE]
  <2>3. jobs' = jobs \cup {k}
    BY <2>1 DEF StartJob
  <2>4. k.name = name
    OBVIOUS
  <2> HIDE DEF k, name
  <2> QED  BY <2>1, <2>2, <2>3, <2>4
<1>3. BackupsInv'
  BY <1>1, BackupKept, BackupParts DEF OnceInv, BackupsInv
<1>4. ManualInv'
  BY <1>1, <1>2 DEF OnceInv, ManualInv, JobInv
<1>5. ScheduledOnce'
  BY <1>2 DEF OnceInv, ScheduledOnce
<1>6. ManualOnce'
  BY <1>1, <1>2 DEF OnceInv, ManualOnce
<1> QED  BY <1>3, <1>4, <1>5, <1>6 DEF OnceInv

\* A run that goes has been answered.
Answers(j) ==
  LET b == j.backup IN
  j.owner = live[b].uid =>
    /\ live[b].lastTime >= j.name.at /\ cache[b].lastTime >= j.name.at
    /\ worker[b].base.uid = j.owner => worker[b].base.lastTime >= j.name.at

\* Jobs change in place, and go only when they have been answered.
LEMMA TurnOnce ==
  ASSUME TypeInv, OnceInv, UNCHANGED <<live, cache, worker, clock, creations>>,
         NEW f, Turned(f),
         \A j \in jobs : j.name.kind = "Manual" /\ f[j].gone => j.gone \/ Answers(j)
  PROVE  OnceInv'
<1>1. BackupsInv'
  BY BackupKept, BackupParts DEF OnceInv, BackupsInv
<1>2. ManualInv'
  <2> SUFFICES ASSUME NEW i \in jobs', i.name.kind = "Manual" PROVE JobInv(i)'
    BY DEF ManualInv
  <2>1. PICK j \in jobs : i = f[j]
    BY DEF Turned
  <2>2. /\ i.name = j.name /\ i.backup = j.backup /\ i.owner = j.owner
        /\ i.gone => j.gone \/ Answers(j)
    BY <2>1 DEF Turned
  <2>3. JobInv(j)
    BY <2>2 DEF OnceInv, ManualInv
  <2> QED  BY <2>2, <2>3 DEF JobInv, Answers
<1>3. ScheduledOnce'
  BY DEF OnceInv, ScheduledOnce, Turned
<1>4. ManualOnce'
  <2> SUFFICES ASSUME NEW i \in jobs', NEW k \in jobs', i.name.kind = "Manual",
                      i.name = k.name, i.backup = k.backup, i.owner = k.owner,
                      i.owner = live[i.backup].uid
               PROVE  i = k
    BY DEF ManualOnce
  <2>1. PICK j \in jobs, l \in jobs : i = f[j] /\ k = f[l]
    BY DEF Turned
  <2>2. /\ i.name = j.name /\ i.backup = j.backup /\ i.owner = j.owner
        /\ k.name = l.name /\ k.backup = l.backup /\ k.owner = l.owner
    BY <2>1 DEF Turned
  <2>3. j = l
    BY <2>2 DEF OnceInv, ManualOnce
  <2> QED  BY <2>1, <2>3
<1> QED  BY <1>1, <1>2, <1>3, <1>4 DEF OnceInv

\* A finished run expires once it is recorded, also where a pass began.
LEMMA ExpireAnswers ==
  ASSUME TypeInv, OnceInv, NEW j \in jobs, j.name.kind = "Manual", ExpireJob(j)
  PROVE  Answers(j)
<1> DEFINE b == j.backup
<1>1. JobInv(j) /\ b \in Backups /\ j.owner \in Nat /\ j.name.at \in Nat
  BY JobParts DEF OnceInv, ManualInv
<1>2. PassInv(b) /\ TimeInv(b)
  BY <1>1 DEF OnceInv, BackupsInv
<1>3. /\ cache[b].lastTime >= j.name.at
      /\ worker[b].pc # "idle" => worker[b].base.lastTime >= j.name.at
  BY DEF ExpireJob, Recorded, RecordedIn
<1>4. worker[b].base.uid = j.owner => worker[b].pc # "idle"
  <2>1. j.owner # 0
    BY <1>1, BackupParts DEF JobInv
  <2>2. Idle.base.uid = 0
    BY DEF Idle, NoObject
  <2> QED  BY <1>2, <2>1, <2>2 DEF PassInv
<1>5. j.owner = live[b].uid => live[b].lastTime >= j.name.at
  BY <1>1, <1>2, <1>3, BackupParts DEF JobInv, TimeInv
<1> QED  BY <1>3, <1>4, <1>5 DEF Answers

\* corg cancel waits until the trigger of the run has been answered.
LEMMA CancelAnswers ==
  ASSUME TypeInv, OnceInv, NEW j \in jobs, j.name.kind = "Manual", Cancel(j.backup)
  PROVE  Answers(j)
<1> DEFINE b == j.backup
<1>1. JobInv(j) /\ b \in Backups /\ j.owner \in Nat /\ j.name.at \in Nat
  BY JobParts DEF OnceInv, ManualInv
<1>2. worker[b].pc = "idle" /\ cache[b] = live[b] /\ ~Due(live[b])
  BY DEF Cancel
<1>3. worker[b].base.uid = 0
  <2>1. worker[b] = Idle
    BY <1>1, <1>2 DEF OnceInv, BackupsInv, PassInv
  <2> QED  BY <2>1 DEF Idle, NoObject
<1> QED  BY <1>1, <1>2, <1>3, BackupParts DEF Answers, JobInv, Due

\* Jobs finish, expire, are collected or cancelled, after they were answered.
LEMMA JobsTurnOnce ==
  ASSUME TypeInv, OnceInv,
         \/ \E j \in jobs : ExpireJob(j) \/ \E result \in JobState : FinishJob(j, result)
         \/ CollectJobs
         \/ \E b \in Backups : Cancel(b)
  PROVE  OnceInv'
<1>1. CASE \E j \in jobs, result \in JobState : FinishJob(j, result)
  <2>1. UNCHANGED <<live, cache, worker, clock, creations>>
    BY <1>1 DEF FinishJob, caches, bounds
  <2>2. \E f : Turned(f) /\ \A i \in jobs : f[i].gone => i.gone
    BY <1>1, FinishTurns
  <2> QED  BY <2>1, <2>2, TurnOnce
<1>2. ASSUME NEW gone, Remove(gone), UNCHANGED <<live, cache, worker, clock, creations>>,
             \A j \in jobs \cap gone : j.name.kind = "Manual" => Answers(j)
      PROVE  OnceInv'
  <2>1. PICK f : Turned(f) /\ \A j \in jobs : f[j].gone => j.gone \/ j \in gone
    BY <1>2, RemoveTurns
  <2> QED  BY <1>2, <2>1, TurnOnce
<1>3. CASE \E j \in jobs : ExpireJob(j)
  <2>1. PICK j \in jobs : ExpireJob(j)
    BY <1>3
  <2>2. Remove({j}) /\ UNCHANGED <<live, cache, worker, clock, creations>>
    BY <2>1 DEF ExpireJob, caches, bounds
  <2> QED  BY <1>2, <2>1, <2>2, ExpireAnswers
<1>4. CASE CollectJobs
  <2>1. Remove({j \in Visible : Orphaned(j)}) /\ UNCHANGED <<live, cache, worker, clock, creations>>
    BY <1>4 DEF CollectJobs, caches, bounds
  <2>2. \A j \in {j \in Visible : Orphaned(j)} : j.name.kind = "Manual" => Answers(j)
    BY DEF Orphaned, Answers
  <2> QED  BY <1>2, <2>1, <2>2
<1>5. CASE \E b \in Backups : Cancel(b)
  <2>1. PICK b \in Backups : Cancel(b)
    BY <1>5
  <2> DEFINE running == {j \in Visible : j.backup = b /\ j.state = "Running"}
  <2>2. Remove(running) /\ UNCHANGED <<live, cache, worker, clock, creations>>
    BY <2>1 DEF Cancel, caches
  <2>3. \A j \in jobs \cap running : j.name.kind = "Manual" => Answers(j)
    BY <2>1, CancelAnswers
  <2> HIDE DEF running
  <2> QED  BY <1>2, <2>2, <2>3
<1> QED  BY <1>1, <1>3, <1>4, <1>5

\* The object changes, but not what has been answered; a new trigger is of this second.
LEMMA EditOnce ==
  ASSUME TypeInv, OnceInv, NEW a \in Backups, NEW o, live' = [live EXCEPT ![a] = o],
         o.uid = live[a].uid, o.lastTime = live[a].lastTime, o.exists = live[a].exists,
         o.trigger = live[a].trigger \/ (live[a].exists /\ o.trigger = clock),
         UNCHANGED <<cache, worker, jobs, clock, creations>>
  PROVE  OnceInv'
<1>1. live'[a] = o /\ \A b \in Backups \ {a} : live'[b] = live[b]
  BY DEF TypeInv, ObjectsTyped
<1>2. PassInv(a) /\ UidInv(a) /\ TimeInv(a)
  BY DEF OnceInv, BackupsInv
<1>3. o.trigger \in Nat /\ o.trigger <= clock /\ o.trigger >= live[a].trigger
  BY <1>2, BackupParts DEF UidInv, Made
<1>4. PassInv(a)' /\ UidInv(a)'
  BY <1>1, <1>2, <1>3 DEF PassInv, UidInv, Made
<1>5. TimeInv(a)'
  <2>1. Overtaken(cache[a], o) /\ Overtaken(worker[a].obj, o)
    BY <1>2, <1>3, BackupParts DEF UidInv, TimeInv, Made, Overtaken
  <2>2. o.trigger # 0 => o.trigger >= o.lastTime
    BY <1>2, BackupParts DEF TimeInv
  <2> QED  BY <1>1, <1>2, <2>1, <2>2 DEF TimeInv
<1>6. \A b \in Backups \ {a} : PassInv(b)' /\ UidInv(b)' /\ TimeInv(b)'
  BY <1>1, BackupKept, BackupParts DEF OnceInv, BackupsInv
<1>7. ManualInv'
  <2> SUFFICES ASSUME NEW j \in jobs, j.name.kind = "Manual" PROVE JobInv(j)'
    BY DEF ManualInv
  <2>1. JobInv(j) /\ j.backup \in Backups /\ j.name.at \in Nat
    BY JobParts DEF OnceInv, ManualInv
  <2>2. CASE j.backup # a
    BY <1>1, <2>1, <2>2 DEF JobInv
  <2>3. CASE j.backup = a
    BY <1>1, <1>3, <2>1, <2>3, BackupParts DEF JobInv
  <2> QED  BY <2>2, <2>3
<1>8. ManualOnce' /\ ScheduledOnce'
  BY <1>1, OnceKept DEF OnceInv
<1> QED  BY <1>4, <1>6, <1>5, <1>7, <1>8 DEF OnceInv, BackupsInv

\* The backup goes, or another comes in its place: no run and no copy is of that one.
LEMMA ReplaceOnce ==
  ASSUME TypeInv, OnceInv, NEW a \in Backups, NEW o, live' = [live EXCEPT ![a] = o],
         o.uid \in {0, creations + 1}, o.exists <=> o.uid # 0, o.trigger = 0, o.lastTime = 0,
         creations' \in {creations, creations + 1}, o.uid <= creations',
         UNCHANGED <<cache, worker, jobs, clock>>
  PROVE  OnceInv'
<1>1. live'[a] = o /\ \A b \in Backups \ {a} : live'[b] = live[b]
  BY DEF TypeInv, ObjectsTyped
<1>2. PassInv(a) /\ UidInv(a) /\ TimeInv(a)
  BY DEF OnceInv, BackupsInv
<1>3. creations \in Nat /\ creations' \in Nat /\ creations' >= creations /\ clock \in Nat
  BY DEF TypeInv, BoundsTyped
<1>4. PassInv(a)' /\ UidInv(a)'
  BY <1>1, <1>2, <1>3, BackupParts DEF PassInv, UidInv, Made
<1>5. TimeInv(a)'
  <2>1. Overtaken(cache[a], o) /\ Overtaken(worker[a].obj, o)
    BY <1>2, <1>3, BackupParts DEF UidInv, Made, Overtaken
  <2>2. o.uid # 0 => cache[a].uid # o.uid
    BY <1>2, <1>3, BackupParts DEF UidInv, Made
  <2> QED  BY <1>1, <1>2, <1>3, <2>1, <2>2, BackupParts DEF TimeInv
<1>6. \A b \in Backups \ {a} : PassInv(b)' /\ UidInv(b)' /\ TimeInv(b)'
  BY <1>1, <1>3, BackupKept DEF OnceInv, BackupsInv
<1>7. ManualInv'
  <2> SUFFICES ASSUME NEW j \in jobs, j.name.kind = "Manual" PROVE JobInv(j)'
    BY DEF ManualInv
  <2>1. JobInv(j) /\ j.backup \in Backups /\ j.owner \in Nat
    BY JobParts DEF OnceInv, ManualInv
  <2>2. j.owner \in 1..creations' /\ j.owner # o.uid
    BY <1>3, <2>1 DEF JobInv
  <2>3. CASE j.backup # a
    BY <1>1, <2>1, <2>2, <2>3 DEF JobInv
  <2>4. CASE j.backup = a
    BY <1>1, <2>1, <2>2, <2>4 DEF JobInv
  <2> QED  BY <2>3, <2>4
<1>8. ManualOnce' /\ ScheduledOnce'
  BY <1>1, OnceKept DEF OnceInv
<1> QED  BY <1>4, <1>5, <1>6, <1>7, <1>8 DEF OnceInv, BackupsInv

\* Users and administrators change a backup: a trigger only grows.
LEMMA LiveOnce ==
  ASSUME TypeInv, OnceInv, NEW a \in Backups,
         \/ DeleteBackup(a) \/ EditBackup(a)
         \/ \E slug \in Slugs \cup {None} : CreateBackup(a, slug) \/ EditSlug(a, slug)
         \/ \E c \in Commands : TriggerBackup(c, a)
  PROVE  OnceInv'
<1>1. live[a] \in Object /\ creations \in Nat /\ clock \in Nat
  BY BackupParts
<1>2. UNCHANGED <<cache, worker, jobs, clock>>
  BY DEF DeleteBackup, EditBackup, CreateBackup, EditSlug, TriggerBackup, caches, bounds
<1>3. CASE DeleteBackup(a)
  <2>1. live' = [live EXCEPT ![a] = NoObject] /\ UNCHANGED creations
    BY <1>3 DEF DeleteBackup
  <2>2. NoObject.uid = 0 /\ ~NoObject.exists /\ NoObject.trigger = 0 /\ NoObject.lastTime = 0
    BY DEF NoObject
  <2>3. /\ NoObject.exists <=> NoObject.uid # 0
        /\ NoObject.uid \in {0, creations + 1} /\ NoObject.uid <= creations'
        /\ creations' \in {creations, creations + 1}
    BY <1>1, <2>1, <2>2
  <2> QED  BY <1>1, <1>2, <2>1, <2>2, <2>3, ReplaceOnce
<1>4. CASE \E slug \in Slugs \cup {None} : CreateBackup(a, slug)
  <2>1. PICK slug \in Slugs \cup {None} : CreateBackup(a, slug)
    BY <1>4
  <2> DEFINE n == NewBackup(creations + 1, clock, slug)
  <2>2. n.uid = creations + 1 /\ n.exists /\ n.trigger = 0 /\ n.lastTime = 0
    BY <1>1, NewBackupTyped
  <2>3. live' = [live EXCEPT ![a] = n] /\ creations' = creations + 1
    BY <2>1 DEF CreateBackup
  <2> HIDE DEF n
  <2>4. (n.exists <=> n.uid # 0) /\ n.uid <= creations'
    BY <1>1, <2>2, <2>3
  <2> QED  BY <1>1, <1>2, <2>2, <2>3, <2>4, ReplaceOnce
<1>5. ASSUME NEW o \in Object, live' = [live EXCEPT ![a] = o], UNCHANGED creations,
             o.uid = live[a].uid, o.lastTime = live[a].lastTime, o.exists = live[a].exists,
             o.trigger = live[a].trigger \/ (live[a].exists /\ o.trigger = clock)
      PROVE  OnceInv'
  BY <1>2, <1>5, EditOnce
<1>6. CASE EditBackup(a)
  <2> DEFINE s == [live[a] EXCEPT !.suspend = ~@]  k == [live[a] EXCEPT !.cached = ~@]
  <2>1. /\ s \in Object /\ s.uid = live[a].uid /\ s.lastTime = live[a].lastTime
        /\ s.exists = live[a].exists /\ s.trigger = live[a].trigger
    BY <1>1 DEF Object
  <2>2. /\ k \in Object /\ k.uid = live[a].uid /\ k.lastTime = live[a].lastTime
        /\ k.exists = live[a].exists /\ k.trigger = live[a].trigger
    BY <1>1 DEF Object
  <2>3. /\ live' = [live EXCEPT ![a] = s] \/ live' = [live EXCEPT ![a] = k]
        /\ UNCHANGED creations
    BY <1>1, <1>6 DEF EditBackup, TypeInv, ObjectsTyped
  <2> HIDE DEF s, k
  <2> QED  BY <1>5, <2>1, <2>2, <2>3
<1>7. CASE \E slug \in Slugs \cup {None} : EditSlug(a, slug)
  <2>1. PICK slug \in Slugs \cup {None} : EditSlug(a, slug)
    BY <1>7
  <2> DEFINE o == [live[a] EXCEPT !.slug = slug]
  <2>2. /\ o \in Object /\ o.uid = live[a].uid /\ o.lastTime = live[a].lastTime
        /\ o.exists = live[a].exists /\ o.trigger = live[a].trigger
    BY <1>1 DEF Object
  <2>3. live' = [live EXCEPT ![a] = o] /\ UNCHANGED creations
    BY <1>1, <2>1 DEF EditSlug, TypeInv, ObjectsTyped
  <2> HIDE DEF o
  <2> QED  BY <1>5, <2>2, <2>3
<1>8. CASE \E c \in Commands : TriggerBackup(c, a)
  <2> DEFINE o == [live[a] EXCEPT !.trigger = clock]
  <2>1. /\ o \in Object /\ o.uid = live[a].uid /\ o.lastTime = live[a].lastTime
        /\ o.exists = live[a].exists /\ o.trigger = clock
    BY <1>1 DEF Object
  <2>2. live[a].exists /\ live' = [live EXCEPT ![a] = o] /\ UNCHANGED creations
    BY <1>1, <1>8 DEF TriggerBackup, TypeInv, ObjectsTyped, bounds
  <2> HIDE DEF o
  <2> QED  BY <1>5, <2>1, <2>2
<1> QED  BY <1>3, <1>4, <1>6, <1>7, <1>8

\* When the operator starts no trigger has been answered, and no one-off run been made.
LEMMA InitOnce == Init => OnceInv
<1> SUFFICES ASSUME Init PROVE OnceInv
  OBVIOUS
<1>1. TypeInv
  BY InitTyped
<1>2. \A b \in Backups : worker[b] = Idle /\ cache[b] = live[b]
  BY DEF Init
<1>3. Idle.pc = "idle" /\ Idle.obj = NoObject /\ Idle.base = NoObject
  BY DEF Idle
<1>4. NoObject.exists = FALSE /\ NoObject.uid = 0 /\ NoObject.trigger = 0 /\ NoObject.lastTime = 0
  BY DEF NoObject
<1>5. ASSUME NEW b \in Backups
      PROVE  /\ live[b].trigger = 0 /\ live[b].lastTime = 0 /\ live[b].uid = Standing[b]
             /\ live[b].exists <=> Standing[b] # 0
  <2>1. PICK slug \in [Backups -> Slugs \cup {None}] :
          live = [o \in Backups |->
                    IF Standing[o] = 0 THEN NoObject
                    ELSE [NewBackup(Standing[o], 0, slug[o]) EXCEPT
                            !.ready = "Ready",
                            !.history = {RunFromJob(LastRun(f)) : f \in Finished \cap {o}}]]
    BY DEF Init
  <2> DEFINE n == NewBackup(Standing[b], 0, slug[b])
             runs == {RunFromJob(LastRun(f)) : f \in Finished \cap {b}}
  <2>2. n \in Object /\ n.exists /\ n.uid = Standing[b] /\ n.trigger = 0 /\ n.lastTime = 0
    BY LastRunTyped, NewBackupTyped
  <2>3. CASE Standing[b] = 0
    <3>1. live[b] = NoObject
      BY <2>1, <2>3
    <3> QED  BY <1>4, <2>3, <3>1
  <2>4. CASE Standing[b] # 0
    <3>1. live[b] = [n EXCEPT !.ready = "Ready", !.history = runs]
      BY <2>1, <2>4
    <3> HIDE DEF n, runs
    <3> QED  BY <2>2, <2>4, <3>1 DEF Object
  <2> QED  BY <2>3, <2>4
<1>6. ASSUME NEW b \in Backups PROVE Standing[b] \in 0..creations
  <2>1. {o \in Backups : Standing[o] # 0} = {o \in Backups : live[o].exists}
    BY <1>5
  <2>2. creations = Cardinality({o \in Backups : live[o].exists})
    BY DEF Init
  <2> QED  BY <2>1, <2>2, InputAssumption
<1>7. clock = 1 /\ creations \in Nat
  BY <1>1 DEF Init, TypeInv, BoundsTyped
<1>8. BackupsInv
  <2> SUFFICES ASSUME NEW b \in Backups PROVE PassInv(b) /\ UidInv(b) /\ TimeInv(b)
    BY DEF BackupsInv
  <2>1. PassInv(b)
    BY <1>2, <1>3, <1>4 DEF PassInv
  <2>2. Standing[b] \in Nat /\ Standing[b] <= creations
    BY <1>6, <1>7
  <2>3. UidInv(b)
    BY <1>2, <1>3, <1>4, <1>5, <1>7, <2>2 DEF UidInv, Made
  <2>4. TimeInv(b)
    BY <1>2, <1>3, <1>4, <1>5, <1>7 DEF TimeInv, Overtaken
  <2> QED  BY <2>1, <2>3, <2>4
<1>9. \A j \in jobs : \E b \in Backups : j = LastRun(b)
  BY InputAssumption DEF Init
<1>10. ASSUME NEW b \in Backups
       PROVE  LastRun(b).name.kind = "Scheduled" /\ LastRun(b).name.stem = b
  <2> DEFINE name == [kind |-> "Scheduled", stem |-> b, at |-> 0]
  <2>1. LastRun(b).name = name
    BY DEF LastRun
  <2>2. name.kind = "Scheduled" /\ name.stem = b
    OBVIOUS
  <2> HIDE DEF name
  <2> QED  BY <2>1, <2>2
<1>11. ManualInv /\ ManualOnce
  BY <1>9, <1>10 DEF ManualInv, ManualOnce
<1>12. ScheduledOnce
  BY <1>9, <1>10 DEF ScheduledOnce
<1> QED  BY <1>8, <1>11, <1>12 DEF OnceInv

\* Every step keeps OnceInv.
LEMMA OnceStep == TypeInv /\ OnceInv /\ [Next]_vars => OnceInv'
<1> SUFFICES ASSUME TypeInv, OnceInv, [Next]_vars PROVE OnceInv'
  OBVIOUS
<1>1. CASE UNCHANGED vars
  BY <1>1 DEF vars, OnceInv, BackupsInv, ManualInv, ScheduledOnce, ManualOnce, PassInv, UidInv,
     TimeInv, JobInv, Made
<1>2. CASE \E b \in Backups : PassWork(b)
  <2>1. PICK b \in Backups : PassMoves(b)
    BY <1>2, PassTyped DEF PassWork
  <2> QED  BY <2>1, PassWorkOnce
<1>3. CASE \E b \in Backups : StartPass(b) \/ PatchStatus(b) \/ PatchFails(b) \/ FireCronJob(b)
  BY <1>3, StartPassOnce, EndOnce, FireOnce
<1>4. CASE \E b \in Backups :
             \/ DeleteBackup(b) \/ EditBackup(b)
             \/ \E slug \in Slugs \cup {None} : CreateBackup(b, slug) \/ EditSlug(b, slug)
             \/ \E c \in Commands : TriggerBackup(c, b)
  BY <1>4, LiveOnce
<1>5. CASE \/ \E j \in jobs : ExpireJob(j) \/ \E result \in JobState : FinishJob(j, result)
           \/ CollectJobs
           \/ \E b \in Backups : Cancel(b)
  BY <1>5, JobsTurnOnce
<1>6. CASE Elsewhere \/ Tick
  BY <1>6, ElsewhereOnce
<1>7. CASE SyncBackups
  BY <1>7, ListOnce DEF SyncBackups, objects, bounds
<1>8. CASE Crash
  BY <1>8, ListOnce DEF Crash, objects
<1> QED  BY <1>1, <1>2, <1>3, <1>4, <1>5, <1>6, <1>7, <1>8, StepCases

\* One trigger, one run: however often a pass sees it again, after errors of any call, lost
\* replies, restarts, behind a cache that lags, and however many commands write it.
THEOREM TriggerAlwaysRunsOnce == Spec => []TriggerRunsOnce
<1>1. Init => TypeInv /\ OnceInv
  BY InitTyped, InitOnce
<1>2. TypeInv /\ OnceInv /\ [Next]_vars => (TypeInv /\ OnceInv)'
  BY TypeStep, OnceStep
<1>3. TypeInv /\ OnceInv => TriggerRunsOnce
  <2> SUFFICES ASSUME TypeInv, OnceInv PROVE TriggerRunsOnce
    OBVIOUS
  <2>1. \A j \in jobs : j.name.kind \in {"Scheduled", "Manual"}
    BY JobParts
  <2> QED  BY <2>1 DEF OnceInv, ScheduledOnce, ManualOnce, TriggerRunsOnce
<1> QED  BY <1>1, <1>2, <1>3, PTL DEF Spec

-------------------------------------------------------------------------------
(* What corg backup --wait reports *)

\* No run is refused, and no two names are cut to one.
NoneRefused ==
  /\ \A b \in Backups : Concurrency[b] = "Allow"
  /\ \A a, b \in Backups : Stem[a] = Stem[b] => a = b

\* The Job that is recorded is the one of the time recorded with it.
JobNamed(b, o) ==
  o.lastJob = IF o.lastTime = 0 THEN None ELSE ManualJobName(b, o.lastTime)
NamedInv ==
  \A b \in Backups : /\ JobNamed(b, live[b]) /\ JobNamed(b, cache[b])
                     /\ JobNamed(b, worker[b].obj) /\ JobNamed(b, worker[b].base)

\* A one-off run has the name of its backup, and begins after it was asked for.
RunsInv ==
  \A j \in jobs :
    j.name.kind = "Manual" => j.name.stem = Stem[j.backup] /\ j.start >= j.name.at

\* A command follows the run of its trigger, or of a later one.
FollowInv ==
  \A c \in Commands :
    command[c].pc = "follow" =>
      /\ command[c].backup \in Backups
      /\ \E at \in Nat : /\ at >= command[c].since
                         /\ command[c].job = ManualJobName(command[c].backup, at)

ReportInv == NamedInv /\ RunsInv /\ FollowInv /\ SuccessMeansBackup

\* Names of different times differ.
LEMMA NamesDiffer ==
  ASSUME NEW a \in Backups, NEW b \in Backups, NEW s \in Nat, NEW t \in Nat
  PROVE  /\ ManualJobName(a, s) = ManualJobName(b, t) => Stem[a] = Stem[b] /\ s = t
         /\ ManualJobName(a, s).kind = "Manual" /\ ManualJobName(a, s).stem = Stem[a]
         /\ ManualJobName(a, s).at = s
BY DEF ManualJobName

\* A patch of the time is one of the Job as well.
LEMMA PatchedNamed ==
  ASSUME NEW b \in Backups, NEW o \in Object, NEW base \in Object, NEW new \in Object,
         JobNamed(b, o), JobNamed(b, base), JobNamed(b, new)
  PROVE  JobNamed(b, Patched(o, base, new))
<1>1. /\ o.lastTime \in Nat /\ base.lastTime \in Nat /\ new.lastTime \in Nat
  BY DEF Object
<1>2. \A at \in Nat : ManualJobName(b, at) # None
  BY ManualNameTyped
<1>3. new.lastTime # base.lastTime <=> new.lastJob # base.lastJob
  BY <1>1, <1>2, NamesDiffer DEF JobNamed
<1> QED  BY <1>3, PatchedTyped DEF JobNamed

\* A backup that is in force at first has answered no trigger.
LEMMA InitReport == Init => ReportInv
<1> SUFFICES ASSUME Init PROVE ReportInv
  OBVIOUS
<1>1. NamedInv
  <2> SUFFICES ASSUME NEW b \in Backups
               PROVE  /\ JobNamed(b, live[b]) /\ JobNamed(b, cache[b])
                      /\ JobNamed(b, worker[b].obj) /\ JobNamed(b, worker[b].base)
    BY DEF NamedInv
  <2>1. live[b].lastTime = 0 /\ live[b].lastJob = None
    <3>1. PICK slug \in [Backups -> Slugs \cup {None}] :
            live = [o \in Backups |->
                      IF Standing[o] = 0 THEN NoObject
                      ELSE [NewBackup(Standing[o], 0, slug[o]) EXCEPT
                              !.ready = "Ready",
                              !.history = {RunFromJob(LastRun(f)) : f \in Finished \cap {o}}]]
      BY DEF Init
    <3> DEFINE n == NewBackup(Standing[b], 0, slug[b])
               runs == {RunFromJob(LastRun(f)) : f \in Finished \cap {b}}
    <3>2. n \in Object /\ n.lastTime = 0 /\ n.lastJob = None
      BY LastRunTyped, NewBackupTyped
    <3>3. live[b] = NoObject \/ live[b] = [n EXCEPT !.ready = "Ready", !.history = runs]
      BY <3>1
    <3>4. NoObject.lastTime = 0 /\ NoObject.lastJob = None
      BY DEF NoObject
    <3> HIDE DEF n, runs
    <3> QED  BY <3>2, <3>3, <3>4 DEF Object
  <2>2. cache[b] = live[b] /\ worker[b] = Idle
    BY DEF Init
  <2> QED  BY <2>1, <2>2 DEF JobNamed, Idle, NoObject
<1>2. RunsInv
  <2>1. \A j \in jobs : \E b \in Backups : j = LastRun(b)
    BY InputAssumption DEF Init
  <2>2. ASSUME NEW b \in Backups PROVE LastRun(b).name.kind # "Manual"
    <3> DEFINE name == [kind |-> "Scheduled", stem |-> b, at |-> 0]
    <3>1. LastRun(b).name = name
      BY DEF LastRun
    <3>2. name.kind = "Scheduled"
      OBVIOUS
    <3> HIDE DEF name
    <3> QED  BY <3>1, <3>2
  <2> QED  BY <2>1, <2>2 DEF RunsInv
<1>3. FollowInv /\ SuccessMeansBackup
  BY DEF Init, NoCommand, FollowInv, SuccessMeansBackup
<1> QED  BY <1>1, <1>2, <1>3 DEF ReportInv

\* A run that succeeded stays one: Jobs are added, and those there are end and go.
JobsGo ==
  \A j \in jobs : \E k \in jobs' :
    /\ k.backup = j.backup /\ k.start = j.start /\ k.name = j.name
    /\ j.state = "Succeeded" => k.state = "Succeeded"

\* What was reported stays true: Jobs only go.
LEMMA SuccessKept ==
  ASSUME SuccessMeansBackup, FollowInv, JobsGo, UNCHANGED command
  PROVE  SuccessMeansBackup' /\ FollowInv'
<1>1. FollowInv'
  BY DEF FollowInv
<1>2. SuccessMeansBackup'
  <2> SUFFICES ASSUME NEW c \in Commands, command[c].result = "succeeded"
               PROVE  \E k \in jobs' : /\ k.backup = command[c].backup /\ k.state = "Succeeded"
                                       /\ k.start >= command[c].since
    BY DEF SuccessMeansBackup
  <2>1. PICK j \in jobs : /\ j.backup = command[c].backup /\ j.state = "Succeeded"
                          /\ j.start >= command[c].since
    BY DEF SuccessMeansBackup
  <2> QED  BY <2>1 DEF JobsGo
<1> QED  BY <1>1, <1>2

\* A pass records the Job with the time.
LEMMA PassWorkReport ==
  ASSUME TypeInv, OnceInv, ReportInv, NoneRefused, NEW a \in Backups, PassMoves(a)
  PROVE  ReportInv'
<1> DEFINE w == worker[a]  name == ManualJobName(a, w.obj.trigger)
<1>1. PICK n \in Worker :
        /\ Goto(a, n) /\ Copies(w, n)
        /\ \/ n.obj.lastTime = w.obj.lastTime /\ n.obj.lastJob = w.obj.lastJob
           \/ Settles(a, w, n)
  BY DEF PassMoves, Continues
<1>2. worker'[a] = n /\ \A b \in Backups \ {a} : worker'[b] = worker[b]
  BY <1>1, GotoTyped DEF TypeInv, WorkersTyped
<1>3. UNCHANGED <<live, cache, clock, command>>
  BY DEF PassMoves, Untouched
<1>4. n.base = w.base
  BY <1>1 DEF Copies
<1>5. JobNamed(a, n.obj)
  <2>1. CASE n.obj.lastTime = w.obj.lastTime /\ n.obj.lastJob = w.obj.lastJob
    BY <2>1 DEF ReportInv, NamedInv, JobNamed
  <2>2. CASE Settles(a, w, n)
    <3>1. w.obj.trigger > w.obj.lastTime
      BY <2>2 DEF Settles, OnceInv, BackupsInv, PassInv
    <3>2. w.obj.trigger # 0
      BY <3>1, BackupParts
    <3>3. Concurrency[a] # "Forbid"
      BY DEF NoneRefused
    <3> QED  BY <2>2, <3>2, <3>3 DEF Settles, JobNamed
  <2> QED  BY <1>1, <2>1, <2>2
<1>6. NamedInv'
  BY <1>2, <1>3, <1>4, <1>5 DEF ReportInv, NamedInv, JobNamed
<1>7. CASE UNCHANGED jobs
  <2>1. RunsInv' /\ JobsGo
    BY <1>7 DEF ReportInv, RunsInv, JobsGo
  <2> QED  BY <1>3, <1>6, <2>1, SuccessKept DEF ReportInv
<1>8. CASE StartJob(a, name, w.obj.uid)
  <2>1. PICK k : /\ jobs' = jobs \cup {k}
                 /\ k.name = name /\ k.backup = a /\ k.start = clock
    <3> DEFINE k == [id |-> Cardinality(jobs), name |-> name, backup |-> a,
                     owner |-> w.obj.uid, start |-> clock, state |-> "Running", gone |-> FALSE]
    <3>1. jobs' = jobs \cup {k}
      BY <1>8 DEF StartJob
    <3>2. k.name = name /\ k.backup = a /\ k.start = clock
      OBVIOUS
    <3> HIDE DEF k, name
    <3> QED  BY <3>1, <3>2
  <2>2. name.stem = Stem[a] /\ name.at = w.obj.trigger /\ w.obj.trigger <= clock
    BY BackupParts, NamesDiffer DEF OnceInv, BackupsInv, UidInv, Made
  <2> HIDE DEF name
  <2>3. k.start >= k.name.at
    BY <2>1, <2>2, BackupParts
  <2>4. RunsInv'
    BY <2>1, <2>2, <2>3 DEF ReportInv, RunsInv
  <2>5. JobsGo
    BY <2>1 DEF JobsGo
  <2> QED  BY <1>3, <1>6, <2>4, <2>5, SuccessKept DEF ReportInv
<1> QED  BY <1>7, <1>8 DEF PassMoves, StartsManual

\* The pass starts from the cache, ends, or is lost; the cache comes up to date.
LEMMA CopiesReport ==
  ASSUME TypeInv, ReportInv, UNCHANGED <<jobs, command>>,
         \A b \in Backups :
           /\ live'[b] = live[b] \/ live'[b] = Patched(live[b], worker[b].base, worker[b].obj)
           /\ cache'[b] \in {cache[b], live[b]}
           /\ \/ worker'[b] = worker[b] \/ worker'[b] = Idle
              \/ worker'[b].obj = cache[b] /\ worker'[b].base = cache[b]
  PROVE  ReportInv'
<1>1. NamedInv'
  <2> SUFFICES ASSUME NEW b \in Backups
               PROVE  /\ JobNamed(b, live'[b]) /\ JobNamed(b, cache'[b])
                      /\ JobNamed(b, worker'[b].obj) /\ JobNamed(b, worker'[b].base)
    BY DEF NamedInv, JobNamed
  <2>1. /\ JobNamed(b, live[b]) /\ JobNamed(b, cache[b])
        /\ JobNamed(b, worker[b].obj) /\ JobNamed(b, worker[b].base)
    BY DEF ReportInv, NamedInv
  <2>2. JobNamed(b, live'[b])
    BY <2>1, BackupParts, PatchedNamed
  <2>3. JobNamed(b, Idle.obj) /\ JobNamed(b, Idle.base)
    BY DEF JobNamed, Idle, NoObject
  <2> QED  BY <2>1, <2>2, <2>3
<1>2. RunsInv' /\ JobsGo
  BY DEF ReportInv, RunsInv, JobsGo
<1> QED  BY <1>1, <1>2, SuccessKept DEF ReportInv

\* Copies are taken and patched back.
LEMMA CopyStepsReport ==
  ASSUME TypeInv, ReportInv,
         \/ SyncBackups \/ Crash
         \/ \E b \in Backups : StartPass(b) \/ PatchStatus(b) \/ PatchFails(b)
  PROVE  ReportInv'
<1>1. UNCHANGED <<jobs, command>>
  BY DEF SyncBackups, Crash, StartPass, PatchStatus, PatchFails, objects, caches, bounds
<1>2. CASE SyncBackups \/ Crash
  BY <1>1, <1>2, CopiesReport DEF SyncBackups, Crash, objects
<1>3. ASSUME NEW a \in Backups, StartPass(a) PROVE ReportInv'
  <2> DEFINE n == [Idle EXCEPT !.pc = "check", !.obj = cache[a], !.base = cache[a]]
  <2>1. n.obj = cache[a] /\ n.base = cache[a]
    BY DEF Idle
  <2>2. UNCHANGED worker \/ worker' = [worker EXCEPT ![a] = n]
    BY <1>3 DEF StartPass, Goto
  <2> HIDE DEF n
  <2> QED  BY <1>1, <1>3, <2>1, <2>2, CopiesReport
           DEF StartPass, objects, caches, TypeInv, WorkersTyped
<1>4. ASSUME NEW a \in Backups, PatchStatus(a) \/ PatchFails(a) PROVE ReportInv'
  <2>1. worker' = [worker EXCEPT ![a] = Idle] /\ UNCHANGED cache
    BY <1>4 DEF PatchStatus, PatchFails, Goto, caches
  <2>2. \/ UNCHANGED live
        \/ live' = [live EXCEPT ![a] = Patched(live[a], worker[a].base, worker[a].obj)]
    BY <1>4 DEF PatchStatus, PatchFails, objects
  <2> QED  BY <1>1, <2>1, <2>2, CopiesReport DEF TypeInv, WorkersTyped, ObjectsTyped
<1> QED  BY <1>2, <1>3, <1>4

\* Jobs come and go beside the commands.
LEMMA JobsReport ==
  ASSUME TypeInv, ReportInv,
         \/ \E j \in jobs : ExpireJob(j) \/ \E result \in JobState : FinishJob(j, result)
         \/ CollectJobs
         \/ \E b \in Backups : Cancel(b) \/ FireCronJob(b)
  PROVE  ReportInv'
<1>1. UNCHANGED <<live, cache, worker, command>>
  BY DEF ExpireJob, FinishJob, CollectJobs, Cancel, FireCronJob, caches
<1>2. NamedInv'
  BY <1>1 DEF ReportInv, NamedInv, JobNamed
<1>3. ASSUME NEW f, Turned(f) PROVE RunsInv' /\ JobsGo
  <2>1. RunsInv'
    BY <1>3 DEF Turned, ReportInv, RunsInv
  <2>2. JobsGo
    BY <1>3 DEF Turned, JobsGo
  <2> QED  BY <2>1, <2>2
<1>4. ASSUME NEW a \in Backups, FireCronJob(a) PROVE RunsInv' /\ JobsGo
  <2> DEFINE name == [kind |-> "Scheduled", stem |-> a, at |-> clock]
             k == [id |-> Cardinality(jobs), name |-> name, backup |-> a,
                   owner |-> cron[a].uid, start |-> clock, state |-> "Running", gone |-> FALSE]
  <2>1. jobs' = jobs \cup {k}
    BY <1>4 DEF FireCronJob, StartJob
  <2>2. k.name.kind = "Scheduled"
    OBVIOUS
  <2> HIDE DEF k
  <2>3. RunsInv'
    BY <2>1, <2>2 DEF ReportInv, RunsInv
  <2>4. JobsGo
    BY <2>1 DEF JobsGo
  <2> QED  BY <2>3, <2>4
<1>5. CASE \E gone : Remove(gone)
  BY <1>1, <1>2, <1>3, <1>5, RemoveTurns, SuccessKept DEF ReportInv
<1>6. CASE \E j \in jobs, result \in JobState : FinishJob(j, result)
  BY <1>1, <1>2, <1>3, <1>6, FinishTurns, SuccessKept DEF ReportInv
<1>7. CASE \E b \in Backups : FireCronJob(b)
  BY <1>1, <1>2, <1>4, <1>7, SuccessKept DEF ReportInv
<1> QED  BY <1>5, <1>6, <1>7 DEF ExpireJob, CollectJobs, Cancel

\* An object is edited, replaced or triggered: what is recorded stays or goes as a whole.
LEMMA LiveReport ==
  ASSUME TypeInv, ReportInv, NEW a \in Backups, NEW o, live' = [live EXCEPT ![a] = o],
         UNCHANGED <<cache, worker, jobs>>,
         \/ o.lastTime = live[a].lastTime /\ o.lastJob = live[a].lastJob
         \/ o.lastTime = 0 /\ o.lastJob = None
  PROVE  NamedInv' /\ RunsInv' /\ JobsGo
<1>1. live'[a] = o /\ \A b \in Backups \ {a} : live'[b] = live[b]
  BY DEF TypeInv, ObjectsTyped
<1>2. NamedInv'
  BY <1>1 DEF ReportInv, NamedInv, JobNamed
<1>3. RunsInv' /\ JobsGo
  BY DEF ReportInv, RunsInv, JobsGo
<1> QED  BY <1>2, <1>3

\* Administrators change a backup beside the commands.
LEMMA AdministratorReport ==
  ASSUME TypeInv, ReportInv, NEW a \in Backups,
         \/ DeleteBackup(a) \/ EditBackup(a)
         \/ \E slug \in Slugs \cup {None} : CreateBackup(a, slug) \/ EditSlug(a, slug)
  PROVE  ReportInv'
<1>1. live[a] \in Object /\ live \in [Backups -> Object] /\ creations \in Nat /\ clock \in Nat
  BY BackupParts DEF TypeInv, ObjectsTyped
<1>2. UNCHANGED <<cache, worker, jobs, command>>
  BY DEF DeleteBackup, EditBackup, CreateBackup, EditSlug, caches
<1>3. \E o : /\ live' = [live EXCEPT ![a] = o]
             /\ \/ o.lastTime = live[a].lastTime /\ o.lastJob = live[a].lastJob
                \/ o.lastTime = 0 /\ o.lastJob = None
  <2>1. CASE DeleteBackup(a)
    <3>1. NoObject.lastTime = 0 /\ NoObject.lastJob = None
      BY DEF NoObject
    <3> QED  BY <2>1, <3>1 DEF DeleteBackup
  <2>2. CASE \E slug \in Slugs \cup {None} : CreateBackup(a, slug)
    <3>1. PICK slug \in Slugs \cup {None} :
            live' = [live EXCEPT ![a] = NewBackup(creations + 1, clock, slug)]
      BY <2>2 DEF CreateBackup
    <3> DEFINE o == NewBackup(creations + 1, clock, slug)
    <3>2. o.lastTime = 0 /\ o.lastJob = None
      BY <1>1, NewBackupTyped
    <3> HIDE DEF o
    <3> QED  BY <3>1, <3>2 DEF o
  <2>3. CASE \E slug \in Slugs \cup {None} : EditSlug(a, slug)
    <3>1. PICK slug \in Slugs \cup {None} : live' = [live EXCEPT ![a].slug = slug]
      BY <2>3 DEF EditSlug
    <3> DEFINE o == [live[a] EXCEPT !.slug = slug]
    <3>2. o.lastTime = live[a].lastTime /\ o.lastJob = live[a].lastJob
      BY <1>1 DEF Object
    <3>3. live' = [live EXCEPT ![a] = o]
      BY <1>1, <3>1
    <3> HIDE DEF o
    <3> QED  BY <3>2, <3>3
  <2>4. CASE EditBackup(a)
    <3> DEFINE s == [live[a] EXCEPT !.suspend = ~@]  k == [live[a] EXCEPT !.cached = ~@]
    <3>1. /\ s.lastTime = live[a].lastTime /\ s.lastJob = live[a].lastJob
          /\ k.lastTime = live[a].lastTime /\ k.lastJob = live[a].lastJob
      BY <1>1 DEF Object
    <3>2. live' = [live EXCEPT ![a] = s] \/ live' = [live EXCEPT ![a] = k]
      BY <1>1, <2>4 DEF EditBackup
    <3> HIDE DEF s, k
    <3> QED  BY <3>1, <3>2
  <2> QED  BY <2>1, <2>2, <2>3, <2>4
<1> QED  BY <1>2, <1>3, LiveReport, SuccessKept DEF ReportInv

\* The annotation is written: the command has nothing to report yet.
LEMMA TriggerReport ==
  ASSUME TypeInv, ReportInv, NEW c \in Commands, NEW a \in Backups, TriggerBackup(c, a)
  PROVE  ReportInv'
<1>1. /\ live[a] \in Object /\ live \in [Backups -> Object]
      /\ command \in [Commands -> Command]
  BY BackupParts DEF TypeInv, ObjectsTyped, CommandsTyped
<1>2. UNCHANGED <<cache, worker, jobs>>
  BY DEF TriggerBackup, caches
<1> DEFINE o == [live[a] EXCEPT !.trigger = clock]
           n == [NoCommand EXCEPT !.pc = "acknowledge", !.backup = a, !.since = clock]
<1>3. o.lastTime = live[a].lastTime /\ o.lastJob = live[a].lastJob
  BY <1>1 DEF Object
<1>4. live' = [live EXCEPT ![a] = o] /\ command' = [command EXCEPT ![c] = n]
  BY <1>1 DEF TriggerBackup
<1>5. n.pc = "acknowledge" /\ n.result = "none"
  BY DEF NoCommand
<1> HIDE DEF o, n
<1>6. NamedInv' /\ RunsInv'
  BY <1>2, <1>3, <1>4, LiveReport
<1>7. FollowInv'
  BY <1>1, <1>4, <1>5 DEF ReportInv, FollowInv
<1>8. SuccessMeansBackup'
  BY <1>1, <1>2, <1>4, <1>5 DEF ReportInv, SuccessMeansBackup
<1> QED  BY <1>6, <1>7, <1>8 DEF ReportInv

\* The command reads the Job that is recorded with the time, and then that Job.
LEMMA AwaitReport ==
  ASSUME TypeInv, ReportInv, NoneRefused, NEW c \in Commands, AwaitTrigger(c) \/ AwaitJob(c)
  PROVE  ReportInv'
<1>1. command \in [Commands -> Command]
  BY DEF TypeInv, CommandsTyped
<1>2. UNCHANGED <<live, cache, worker, jobs>>
  BY DEF AwaitTrigger, AwaitJob, objects, caches
<1>3. NamedInv' /\ RunsInv'
  BY <1>2 DEF ReportInv, NamedInv, JobNamed, RunsInv
<1>4. CASE AwaitTrigger(c)
  <2> DEFINE last == live[command[c].backup].lastTime
             job == live[command[c].backup].lastJob
             done == [command[c] EXCEPT !.pc = "done", !.result = "skipped"]
             follow == [command[c] EXCEPT !.pc = "follow", !.job = job]
  <2>1. /\ command[c].backup \in Backups /\ last # 0 /\ last >= command[c].since
    BY <1>4 DEF AwaitTrigger, Acknowledged, TypeInv, CommandsTyped
  <2>2. last \in Nat /\ job = ManualJobName(command[c].backup, last)
    BY <2>1, BackupParts DEF ReportInv, NamedInv, JobNamed
  <2>3. job # None
    BY <2>1, <2>2, ManualNameTyped
  <2>4. command' = [command EXCEPT ![c] = follow]
    BY <1>1, <1>4, <2>3 DEF AwaitTrigger
  <2>5. /\ follow.pc = "follow" /\ follow.job = job /\ follow.backup = command[c].backup
        /\ follow.since = command[c].since /\ follow.result = command[c].result
    BY <1>1 DEF Command
  <2> HIDE DEF follow, job, last
  <2>6. FollowInv'
    BY <1>1, <2>1, <2>2, <2>4, <2>5 DEF ReportInv, FollowInv
  <2>7. SuccessMeansBackup'
    BY <1>1, <1>2, <2>4, <2>5 DEF ReportInv, SuccessMeansBackup
  <2> QED  BY <1>3, <2>6, <2>7 DEF ReportInv
<1>5. CASE AwaitJob(c)
  <2>1. PICK j \in Visible :
          /\ command[c].pc = "follow" /\ j.name = command[c].job /\ j.state # "Running"
          /\ command' = [command EXCEPT ![c].pc = "done",
                           ![c].result = IF j.state = "Failed" THEN "failed" ELSE "succeeded"]
    BY <1>5 DEF AwaitJob
  <2> DEFINE r == IF j.state = "Failed" THEN "failed" ELSE "succeeded"
             n == [command[c] EXCEPT !.pc = "done", !.result = r]
  <2>2. command' = [command EXCEPT ![c] = n]
    BY <1>1, <2>1
  <2>3. /\ n.pc = "done" /\ n.backup = command[c].backup /\ n.since = command[c].since
        /\ n.result = "succeeded" => j.state # "Failed"
    BY <1>1 DEF Command
  <2>4. PICK at \in Nat : /\ at >= command[c].since /\ command[c].backup \in Backups
                          /\ command[c].job = ManualJobName(command[c].backup, at)
    BY <2>1 DEF ReportInv, FollowInv
  <2>5. /\ j \in jobs /\ j.name.kind = "Manual" /\ j.name.stem = Stem[command[c].backup]
        /\ j.name.at = at
    BY <2>1, <2>4, NamesDiffer DEF Visible
  <2>6. j.backup = command[c].backup /\ j.start >= at
    BY <2>4, <2>5, JobParts DEF ReportInv, RunsInv, NoneRefused
  <2>7. j.state \in {"Succeeded", "Failed"} /\ j.start \in Nat /\ command[c].since \in Nat
    BY <1>1, <2>1, <2>5, JobParts DEF Job, JobState, Command
  <2> HIDE DEF n
  <2>8. FollowInv'
    BY <1>1, <2>2, <2>3 DEF ReportInv, FollowInv
  <2>9. j.start >= command[c].since
    BY <2>4, <2>6, <2>7
  <2>10. SuccessMeansBackup'
    BY <1>1, <1>2, <2>2, <2>3, <2>5, <2>6, <2>7, <2>9 DEF ReportInv, SuccessMeansBackup
  <2> QED  BY <1>3, <2>8, <2>10 DEF ReportInv
<1> QED  BY <1>4, <1>5

\* Every step keeps ReportInv when no trigger can be refused.
LEMMA ReportStep ==
  ASSUME NoneRefused
  PROVE  TypeInv /\ OnceInv /\ ReportInv /\ [Next]_vars => ReportInv'
<1> SUFFICES ASSUME TypeInv, OnceInv, ReportInv, [Next]_vars PROVE ReportInv'
  OBVIOUS
<1>1. ASSUME UNCHANGED <<live, cache, worker, jobs, command>> PROVE ReportInv'
  <2>1. NamedInv' /\ RunsInv' /\ JobsGo
    BY <1>1 DEF ReportInv, NamedInv, JobNamed, RunsInv, JobsGo
  <2> QED  BY <1>1, <2>1, SuccessKept DEF ReportInv
<1>2. CASE UNCHANGED vars
  BY <1>1, <1>2 DEF vars
<1>3. CASE \E b \in Backups : PassWork(b)
  <2>1. PICK b \in Backups : PassMoves(b)
    BY <1>3, PassTyped DEF PassWork
  <2> QED  BY <2>1, PassWorkReport
<1>4. CASE \/ SyncBackups \/ Crash
           \/ \E b \in Backups : StartPass(b) \/ PatchStatus(b) \/ PatchFails(b)
  BY <1>4, CopyStepsReport
<1>5. CASE \E b \in Backups :
             \/ DeleteBackup(b) \/ EditBackup(b)
             \/ \E slug \in Slugs \cup {None} : CreateBackup(b, slug) \/ EditSlug(b, slug)
  BY <1>5, AdministratorReport
<1>6. CASE \/ \E j \in jobs : ExpireJob(j) \/ \E result \in JobState : FinishJob(j, result)
           \/ CollectJobs
           \/ \E b \in Backups : Cancel(b) \/ FireCronJob(b)
  BY <1>6, JobsReport
<1>7. CASE \E c \in Commands, b \in Backups : TriggerBackup(c, b)
  BY <1>7, TriggerReport
<1>8. CASE \E c \in Commands : AwaitTrigger(c) \/ AwaitJob(c)
  BY <1>8, AwaitReport
<1>9. CASE Elsewhere /\ ~ \E c \in Commands : AwaitTrigger(c) \/ AwaitJob(c)
  BY <1>1, <1>9 DEF Elsewhere, SyncCronJobs, SyncJobs, RepositoryEvent, CollectCronJob,
     CollectClaim, ChangeRepository, objects, caches
<1>10. CASE Tick
  BY <1>1, <1>10 DEF Tick, objects, caches
<1> QED  BY <1>2, <1>3, <1>4, <1>5, <1>6, <1>7, <1>8, <1>9, <1>10, StepCases

\* Where no run is refused and no two names are cut to one, corg backup --wait reports
\* success only for a run of its backup that began once the command had asked for one and
\* that succeeded. Under Forbid it does not: see BackupTriggerSkipped.
THEOREM SuccessIsReal ==
  ASSUME NoneRefused
  PROVE  Spec => []SuccessMeansBackup
<1>1. Init => TypeInv /\ OnceInv /\ ReportInv
  BY InitTyped, InitOnce, InitReport
<1>2. TypeInv /\ OnceInv /\ ReportInv /\ [Next]_vars => (TypeInv /\ OnceInv /\ ReportInv)'
  BY TypeStep, OnceStep, ReportStep
<1>3. TypeInv /\ OnceInv /\ ReportInv => SuccessMeansBackup
  BY DEF ReportInv
<1> QED  BY <1>1, <1>2, <1>3, PTL DEF Spec
-------------------------------------------------------------------------------
(* What has been recorded stays *)

\* A history knows of a finished run: it keeps it, or newer ones fill it.
Ended(r) == r.result # "Running"
Covers(y, r) == r \in y \/ (Cardinality(y) = HistoryLimit /\ \A k \in y : k.start >= r.start)
Keeps(x, y) == \A r \in x : Ended(r) => Covers(y, r)
Extends(x, y) == \A r \in Run : Ended(r) /\ Covers(x, r) => Covers(y, r)

\* Two reports of one run, an earlier and a later one.
Became(r, k) == k.name = r.name /\ k.start = r.start /\ (Ended(r) => k = r)
Distinct(x) == \A r, k \in x : r.name = k.name => r = k

\* What a history knows of, it knows of when it has been extended.
LEMMA KeepsExtended ==
  ASSUME NEW x \in SUBSET Run, NEW y, NEW z, Keeps(x, y), Extends(y, z)
  PROVE  Keeps(x, z)
BY DEF Keeps, Extends

\* Of the newest runs none is older than one that was left out.
LEMMA NewestCovers ==
  ASSUME NEW runs \in SUBSET Run, IsFiniteSet(runs), NEW kept \in Newest(runs), NEW r \in runs
  PROVE  Covers(kept, r)
<1>1. CASE r \in kept
  BY <1>1 DEF Covers
<1>2. CASE r \notin kept
  <2>1. kept \subseteq runs /\ IsFiniteSet(kept) /\ kept # runs
    BY <1>2, NewestShort
  <2>2. Cardinality(kept) \in Nat /\ Cardinality(runs) \in Nat /\ HistoryLimit \in Nat
    BY <2>1, FS_CardinalityType, InputAssumption
  <2>3. Cardinality(runs) # Cardinality(kept)
    BY <2>1, FS_Subset
  <2>4. Cardinality(kept) = HistoryLimit
    BY <2>2, <2>3 DEF Newest
  <2>5. \A k \in kept : k.start >= r.start
    BY <1>2 DEF Newest
  <2> QED  BY <2>4, <2>5 DEF Covers
<1> QED  BY <1>1, <1>2

\* Runs that are reported again fill a history as they did before.
LEMMA ReportedAgain ==
  ASSUME NEW base \in SUBSET Run, IsFiniteSet(base), Distinct(base),
         NEW runs \in SUBSET Run, IsFiniteSet(runs), \A r \in base : \E k \in runs : Became(r, k)
  PROVE  \E f \in Injection(base, runs) : \A r \in base : f[r].start = r.start
<1> DEFINE f == [r \in base |-> CHOOSE k \in runs : Became(r, k)]
<1>1. \A r \in base : f[r] \in runs /\ Became(r, f[r])
  BY Zenon
<1>2. f \in [base -> runs]
  BY <1>1
<1> HIDE DEF f
<1>3. \A r, k \in base : f[r] = f[k] => r = k
  BY <1>1 DEF Became, Distinct
<1>4. f \in Injection(base, runs)
  BY <1>2, <1>3 DEF Injection, IsInjective
<1> QED  BY <1>1, <1>4 DEF Became

\* A merge keeps the finished runs of what it began with, as far as they fit.
LEMMA NewestExtends ==
  ASSUME NEW base \in SUBSET Run, IsFiniteSet(base), Distinct(base),
         NEW runs \in SUBSET Run, IsFiniteSet(runs), \A r \in base : \E k \in runs : Became(r, k),
         NEW kept \in Newest(runs)
  PROVE  Extends(base, kept)
<1> SUFFICES ASSUME NEW r \in Run, Ended(r), Covers(base, r)
             PROVE  Covers(kept, r)
  BY DEF Extends
<1>1. CASE r \in base
  <2>1. PICK k \in runs : Became(r, k)
    BY <1>1
  <2>2. r \in runs
    BY <2>1 DEF Became
  <2> QED  BY <2>2, NewestCovers
<1>2. CASE Cardinality(base) = HistoryLimit /\ \A k \in base : k.start >= r.start
  <2>1. PICK f \in Injection(base, runs) : \A k \in base : f[k].start = k.start
    BY ReportedAgain
  <2>2. f \in [base -> runs] /\ \A k, l \in base : f[k] = f[l] => k = l
    BY <2>1 DEF Injection, IsInjective
  <2>3. kept \subseteq runs /\ IsFiniteSet(kept)
    BY NewestShort
  <2>4. /\ Cardinality(kept) \in Nat /\ Cardinality(runs) \in Nat /\ Cardinality(base) \in Nat
        /\ HistoryLimit \in Nat \ {0}
    BY <2>3, FS_CardinalityType, InputAssumption
  <2>5. Cardinality(base) <= Cardinality(runs)
    BY <2>1, FS_Injection
  <2>6. Cardinality(kept) = HistoryLimit
    BY <1>2, <2>4, <2>5 DEF Newest
  <2>7. ASSUME NEW k \in kept, k.start < r.start PROVE FALSE
    <3> DEFINE rest == kept \ {k}
    <3>1. \A d \in runs \ kept : d.start < r.start
      <4> SUFFICES ASSUME NEW d \in runs \ kept PROVE d.start < r.start
        OBVIOUS
      <4>1. k.start >= d.start
        BY DEF Newest
      <4>2. k.start \in Nat /\ d.start \in Nat /\ r.start \in Nat
        BY <2>3 DEF Run
      <4> QED  BY <2>7, <4>1, <4>2
    <3>2. \A s \in base : f[s] \in rest
      <4> SUFFICES ASSUME NEW s \in base PROVE f[s] \in rest
        OBVIOUS
      <4>1. f[s] \in runs /\ f[s].start >= r.start
        BY <1>2, <2>1, <2>2
      <4>2. f[s].start \in Nat /\ r.start \in Nat /\ k.start \in Nat
        BY <2>3, <4>1 DEF Run
      <4>3. f[s] # k
        BY <2>7, <4>1, <4>2
      <4>4. f[s] \in kept
        BY <3>1, <4>1, <4>2
      <4> QED  BY <4>3, <4>4
    <3>3. f \in Injection(base, rest)
      <4> HIDE DEF rest
      <4> QED  BY <2>2, <3>2 DEF Injection, IsInjective
    <3>4. IsFiniteSet(rest) /\ Cardinality(rest) = Cardinality(kept) - 1
      BY <2>3, FS_RemoveElement
    <3>5. Cardinality(base) <= Cardinality(rest)
      <4> HIDE DEF rest
      <4> QED  BY <3>3, <3>4, FS_Injection
    <3> HIDE DEF rest
    <3> QED  BY <1>2, <2>4, <2>6, <3>4, <3>5
  <2>8. \A k \in kept : k.start >= r.start
    <3>1. \A k \in kept : k.start \in Nat /\ r.start \in Nat
      BY <2>3 DEF Run
    <3> QED  BY <2>7, <3>1
  <2> QED  BY <2>6, <2>8 DEF Covers
<1> QED  BY <1>1, <1>2 DEF Covers

\* The runs a list of Jobs reports of one backup: those the cache shows, and those of
\* them that are still so.
Reports(js, b) == {RunFromJob(j) : j \in {k \in js : k.backup = b}}
Seen(b) == Reports(jobCache, b)
Shown(b) == Seen(b) \cap Reports(Visible, b)

\* A list of runs reports Jobs there have been, each once, and no outcome but theirs.
Sound(x, b) ==
  /\ Distinct(x)
  /\ \A r \in x : \E k \in Reports(jobs, b) : Became(r, k)
  /\ \A r \in x, k \in Seen(b) : Ended(r) /\ r.name = k.name => k = r
SoundInv ==
  \A b \in Backups :
    \A x \in {live[b].history, cache[b].history, worker[b].base.history, worker[b].obj.history,
              Seen(b)} :
      Sound(x, b)

\* The cache lags behind the object, and neither lacks a finished run whose Job may go:
\* it is recorded, or its Job is still seen. A pass knows as much as the cache did when
\* it began, and what it will write has the runs that the object has.
BeforeRuns == {"check", "volume", "cron", "runs"}
Lags(b) ==
  /\ Keeps(cache[b].history, live[b].history)
  /\ Keeps(live[b].history \ Shown(b), cache[b].history)
  /\ Keeps(Seen(b) \ Shown(b), cache[b].history) /\ Keeps(Seen(b) \ Shown(b), live[b].history)
Knows(b) ==
  LET base == worker[b].base.history  new == worker[b].obj.history IN
  /\ cache[b].history \in {base, live[b].history}
  /\ Keeps(base, live[b].history)
  /\ Keeps(live[b].history \ Shown(b), base) /\ Keeps(Seen(b) \ Shown(b), base)
  /\ Extends(base, new)
  /\ Keeps(new \ Shown(b), cache[b].history) /\ Keeps(new \ Shown(b), live[b].history)
  /\ new # base => Keeps(live[b].history, new)
  /\ worker[b].pc \in BeforeRuns => new = base
Retained(b) == Lags(b) /\ (worker[b].pc # "idle" => Knows(b))

\* The same list, when less of it is still seen, as far as that is known.
LEMMA KeepsLess ==
  ASSUME NEW x, NEW y, NEW s, NEW t, Keeps(x \ s, y),
         \A r \in s : Ended(r) => r \in t \/ Covers(y, r)
  PROVE  Keeps(x \ t, y)
BY DEF Keeps

\* A list knows of its own runs.
LEMMA KeepsItself ==
  ASSUME NEW x, NEW s
  PROVE  Keeps(x, x) /\ Keeps(x \ s, x) /\ Extends(x, x)
BY DEF Keeps, Extends, Covers

\* The types of what the invariant compares.
LEMMA HistoriesTyped ==
  ASSUME TypeInv, NEW b \in Backups
  PROVE  /\ live[b].history \in SUBSET Run /\ cache[b].history \in SUBSET Run
         /\ worker[b].base.history \in SUBSET Run /\ worker[b].obj.history \in SUBSET Run
         /\ \A js \in SUBSET Job : Reports(js, b) \in SUBSET Run
<1>1. \A o \in Object : o.history \in SUBSET Run
  BY DEF Object
<1>2. \A j \in Job : RunFromJob(j) \in Run
  BY DEF RunFromJob, Job, Run
<1> QED  BY <1>1, <1>2, BackupParts DEF Reports

\* The histories of a backup and the steps of its pass stay, and the Jobs that go have
\* been recorded.
Stays(b) ==
  /\ live'[b].history = live[b].history /\ cache'[b].history = cache[b].history
  /\ worker'[b].base.history = worker[b].base.history
  /\ worker'[b].obj.history = worker[b].obj.history
  /\ worker'[b].pc # "idle" => worker[b].pc # "idle"
  /\ worker'[b].pc \in BeforeRuns => worker[b].pc \in BeforeRuns
RecordedRun(b, r) ==
  r \in cache[b].history /\ (worker[b].pc # "idle" => r \in worker[b].base.history)

\* Histories that stay are retained while the Jobs move on.
LEMMA StaysRetained ==
  ASSUME TypeInv, NEW b \in Backups, Retained(b), Stays(b), UNCHANGED jobCache,
         \A r \in Shown(b) : Ended(r) => r \in Shown(b)' \/ RecordedRun(b, r)
  PROVE  Retained(b)'
<1> DEFINE l == live[b].history  c == cache[b].history  seen == Seen(b)
           s == Shown(b)  t == Shown(b)'
           base == worker[b].base.history  new == worker[b].obj.history
<1>1. Seen(b)' = seen
  BY DEF Seen
<1>2. s \subseteq Run
  BY HistoriesTyped DEF Shown, Seen, TypeInv, JobsTyped
<1>3. Lags(b)'
  <2>1. Keeps(c, l) /\ Keeps(l \ s, c) /\ Keeps(seen \ s, c) /\ Keeps(seen \ s, l)
    BY DEF Retained, Lags
  <2>2. \A r \in s : Ended(r) => (r \in t \/ Covers(c, r)) /\ (r \in t \/ Covers(l, r))
    BY <2>1 DEF RecordedRun, Covers, Keeps
  <2> HIDE DEF l, c, seen, s, t
  <2>3. Keeps(l \ t, c) /\ Keeps(seen \ t, c) /\ Keeps(seen \ t, l)
    BY <2>1, <2>2, KeepsLess
  <2> QED  BY <1>1, <2>1, <2>3 DEF Lags, Stays, l, c, seen, t
<1>4. ASSUME worker'[b].pc # "idle" PROVE Knows(b)'
  <2>1. Knows(b) /\ worker[b].pc # "idle"
    BY <1>4 DEF Stays, Retained
  <2>2. /\ c \in {base, l} /\ Keeps(base, l) /\ Keeps(l \ s, base) /\ Keeps(seen \ s, base)
        /\ Extends(base, new) /\ Keeps(new \ s, c) /\ Keeps(new \ s, l)
        /\ new # base => Keeps(l, new)
        /\ worker[b].pc \in BeforeRuns => new = base
    BY <2>1 DEF Knows
  <2>3. \A r \in s : Ended(r) => /\ r \in t \/ Covers(base, r)
                                 /\ r \in t \/ Covers(c, r)
                                 /\ r \in t \/ Covers(l, r)
    BY <2>1, <2>2 DEF RecordedRun, Covers, Keeps
  <2> HIDE DEF l, c, seen, s, t, base, new
  <2>4. /\ Keeps(l \ t, base) /\ Keeps(seen \ t, base) /\ Keeps(new \ t, c) /\ Keeps(new \ t, l)
    BY <2>2, <2>3, KeepsLess
  <2> QED  BY <1>1, <2>2, <2>4 DEF Knows, Stays, l, c, seen, t, base, new
<1> QED  BY <1>3, <1>4 DEF Retained

\* The cache of Jobs is listed anew: all it shows is there.
LEMMA ListedRetained ==
  ASSUME TypeInv, NEW b \in Backups, Retained(b), Stays(b), jobCache' = Visible, UNCHANGED jobs
  PROVE  Retained(b)'
<1> DEFINE l == live[b].history  c == cache[b].history  seen == Seen(b)'
           s == Shown(b)  t == Shown(b)'
           base == worker[b].base.history  new == worker[b].obj.history
<1>1. t = seen /\ s \subseteq t
  BY DEF Shown, Seen, Visible
<1>2. \A x : Keeps(seen \ t, x)
  BY <1>1 DEF Keeps
<1>3. Lags(b)'
  <2>1. Keeps(c, l) /\ Keeps(l \ s, c)
    BY DEF Retained, Lags
  <2> HIDE DEF l, c, seen, s, t
  <2>2. Keeps(l \ t, c)
    BY <1>1, <2>1, KeepsLess
  <2> QED  BY <1>2, <2>1, <2>2 DEF Lags, Stays, l, c, seen, t
<1>4. ASSUME worker'[b].pc # "idle" PROVE Knows(b)'
  <2>1. Knows(b)
    BY <1>4 DEF Stays, Retained
  <2>2. /\ c \in {base, l} /\ Keeps(base, l) /\ Keeps(l \ s, base)
        /\ Extends(base, new) /\ Keeps(new \ s, c) /\ Keeps(new \ s, l)
        /\ new # base => Keeps(l, new)
        /\ worker[b].pc \in BeforeRuns => new = base
    BY <2>1 DEF Knows
  <2> HIDE DEF l, c, seen, s, t, base, new
  <2>3. Keeps(l \ t, base) /\ Keeps(new \ t, c) /\ Keeps(new \ t, l)
    BY <1>1, <2>2, KeepsLess
  <2> QED  BY <1>2, <2>2, <2>3 DEF Knows, Stays, l, c, seen, t, base, new
<1> QED  BY <1>3, <1>4 DEF Retained

\* A pass begins with what the cache shows.
LEMMA BeginsRetained ==
  ASSUME TypeInv, NEW b \in Backups, Retained(b), UNCHANGED <<jobs, jobCache>>,
         live'[b].history = live[b].history, cache'[b].history = cache[b].history,
         worker'[b].base.history = cache[b].history, worker'[b].obj.history = cache[b].history
  PROVE  Retained(b)'
<1> DEFINE l == live[b].history  c == cache[b].history  seen == Seen(b)  s == Shown(b)
<1>1. Seen(b)' = seen /\ Shown(b)' = s
  BY DEF Seen, Shown, Visible
<1>2. Keeps(c, l) /\ Keeps(l \ s, c) /\ Keeps(seen \ s, c) /\ Keeps(seen \ s, l)
  BY DEF Retained, Lags
<1>3. Keeps(c \ s, c) /\ Extends(c, c) /\ Keeps(c \ s, l)
  BY <1>2, KeepsItself DEF Keeps
<1> HIDE DEF l, c, seen, s
<1> QED  BY <1>1, <1>2, <1>3 DEF Retained, Lags, Knows, l, c, seen, s

\* The runs of a backup are merged with what the cache of Jobs shows.
Merges(b, runs) ==
  /\ Seen(b) \subseteq runs /\ runs \subseteq Seen(b) \cup worker[b].base.history
  /\ \A r \in worker[b].base.history : \E k \in runs : Became(r, k)
  /\ worker'[b].obj.history \in Newest(runs)

\* What a pass observes is added to what it began with.
LEMMA ObservesRetained ==
  ASSUME TypeInv, NEW b \in Backups, Retained(b), UNCHANGED <<jobs, jobCache>>,
         live'[b].history = live[b].history, cache'[b].history = cache[b].history,
         worker'[b].base.history = worker[b].base.history,
         worker[b].pc # "idle", worker'[b].pc \notin BeforeRuns,
         IsFiniteSet(worker[b].base.history), Distinct(worker[b].base.history),
         NEW runs, IsFiniteSet(runs), Merges(b, runs)
  PROVE  Retained(b)'
<1> DEFINE l == live[b].history  c == cache[b].history  seen == Seen(b)  s == Shown(b)
           base == worker[b].base.history  kept == worker'[b].obj.history
<1>1. Seen(b)' = seen /\ Shown(b)' = s
  BY DEF Seen, Shown, Visible
<1>2. /\ Keeps(c, l) /\ Keeps(l \ s, c) /\ Keeps(seen \ s, c) /\ Keeps(seen \ s, l)
      /\ c \in {base, l} /\ Keeps(base, l) /\ Keeps(l \ s, base) /\ Keeps(seen \ s, base)
  BY DEF Retained, Lags, Knows
<1>3. /\ seen \subseteq runs /\ runs \subseteq seen \cup base
      /\ \A r \in base : \E k \in runs : Became(r, k)
      /\ kept \in Newest(runs)
  BY DEF Merges
<1>4. l \in SUBSET Run /\ base \in SUBSET Run /\ seen \in SUBSET Run /\ s \subseteq seen
  BY HistoriesTyped DEF Shown, Seen, TypeInv, JobsTyped
<1>5. IsFiniteSet(base) /\ Distinct(base)
  OBVIOUS
<1> HIDE DEF l, c, seen, s, base, kept
<1>6. runs \in SUBSET Run /\ kept \subseteq runs
  BY <1>3, <1>4, NewestShort
<1>7. Extends(base, kept)
  BY <1>3, <1>4, <1>5, <1>6, NewestExtends
<1>8. Keeps(kept \ s, c) /\ Keeps(kept \ s, l)
  BY <1>2, <1>3, <1>6 DEF Keeps, Covers
<1>9. Keeps(l, kept)
  <2> SUFFICES ASSUME NEW r \in l, Ended(r) PROVE Covers(kept, r)
    BY DEF Keeps
  <2>1. CASE r \in s
    BY <2>1, <1>3, <1>4, <1>6, NewestCovers
  <2>2. CASE r \notin s
    BY <2>2, <1>2, <1>4, <1>7 DEF Keeps, Extends
  <2> QED  BY <2>1, <2>2
<1> QED  BY <1>1, <1>2, <1>7, <1>8, <1>9 DEF Retained, Lags, Knows, l, c, seen, s, base, kept

\* The pass ends, and the history it has changed is the object's.
Ends(b) ==
  /\ cache'[b].history = cache[b].history /\ worker'[b].pc = "idle"
  /\ \/ live'[b].history = live[b].history
     \/ /\ worker[b].pc # "idle" /\ worker[b].obj.history # worker[b].base.history
        /\ live'[b].history = worker[b].obj.history

\* A pass that ends loses nothing that the object has.
LEMMA EndsRetained ==
  ASSUME TypeInv, NEW b \in Backups, Retained(b), UNCHANGED <<jobs, jobCache>>, Ends(b)
  PROVE  Retained(b)' /\ Keeps(live[b].history, live'[b].history)
<1> DEFINE l == live[b].history  c == cache[b].history  seen == Seen(b)  s == Shown(b)
           base == worker[b].base.history  new == worker[b].obj.history
<1>1. Seen(b)' = seen /\ Shown(b)' = s
  BY DEF Seen, Shown, Visible
<1>2. Keeps(c, l) /\ Keeps(l \ s, c) /\ Keeps(seen \ s, c) /\ Keeps(seen \ s, l)
  BY DEF Retained, Lags
<1>3. CASE live'[b].history = l
  <2>1. Keeps(l, l)
    BY KeepsItself
  <2> HIDE DEF l, c, seen, s
  <2> QED  BY <1>1, <1>2, <1>3, <2>1 DEF Ends, Retained, Lags, l, c, seen, s
<1>4. CASE worker[b].pc # "idle" /\ new # base /\ live'[b].history = new
  <2>1. /\ c \in {base, l} /\ Keeps(seen \ s, base) /\ Extends(base, new)
        /\ Keeps(new \ s, c) /\ Keeps(l, new)
    BY <1>4 DEF Retained, Knows
  <2>2. base \in SUBSET Run /\ seen \in SUBSET Run
    BY HistoriesTyped DEF Seen, TypeInv, JobsTyped
  <2> HIDE DEF l, c, seen, s, base, new
  <2>3. Keeps(seen \ s, new)
    BY <2>1, <2>2, KeepsExtended
  <2>4. Keeps(c, new)
    BY <2>1, <2>2, KeepsItself, KeepsExtended
  <2> QED  BY <1>1, <1>2, <1>4, <2>1, <2>3, <2>4
           DEF Ends, Retained, Lags, l, c, seen, s, base, new
<1> QED  BY <1>3, <1>4 DEF Ends

\* The cache comes up to date.
LEMMA SyncsRetained ==
  ASSUME TypeInv, NEW b \in Backups, Retained(b), UNCHANGED jobs,
         live'[b].history = live[b].history, cache'[b].history = live[b].history,
         \/ UNCHANGED jobCache /\ worker'[b] = worker[b]
         \/ jobCache' = Visible /\ worker'[b].pc = "idle"
  PROVE  Retained(b)'
<1> DEFINE l == live[b].history  seen == Seen(b)  s == Shown(b)
<1>1. Keeps(l, l) /\ \A t : Keeps(l \ t, l)
  BY KeepsItself
<1>2. CASE UNCHANGED jobCache /\ worker'[b] = worker[b]
  <2>1. Seen(b)' = seen /\ Shown(b)' = s
    BY <1>2 DEF Seen, Shown, Visible
  <2>2. Keeps(seen \ s, l)
    BY DEF Retained, Lags
  <2>3. Lags(b)'
    <3> HIDE DEF l, seen, s
    <3> QED  BY <1>1, <2>1, <2>2 DEF Lags, l, seen, s
  <2>4. worker[b].pc # "idle" => Knows(b)'
    <3> HAVE worker[b].pc # "idle"
    <3>1. Knows(b)
      BY DEF Retained
    <3> QED  BY <1>2, <2>1, <3>1 DEF Knows
  <2> QED  BY <1>2, <2>3, <2>4 DEF Retained
<1>3. CASE jobCache' = Visible /\ worker'[b].pc = "idle"
  <2>1. Shown(b)' = Seen(b)'
    BY <1>3 DEF Shown, Seen, Visible
  <2>2. \A x : Keeps(Seen(b)' \ Shown(b)', x)
    BY <2>1 DEF Keeps
  <2> HIDE DEF l
  <2> QED  BY <1>1, <1>3, <2>2 DEF Retained, Lags, l
<1> QED  BY <1>2, <1>3

-------------------------------------------------------------------------------
(* Whose Jobs they are *)

\* While nobody deletes a backup, whatever is made for it is its own: the uid it was
\* created with is that of its copies, its CronJob and its Jobs.
Own(b) ==
  /\ cache[b].uid \in {0, live[b].uid}
  /\ worker[b].pc # "idle" => worker[b].obj.uid = live[b].uid /\ live[b].uid # 0
  /\ worker[b].pc = "runs" => worker[b].cronUid = live[b].uid
  /\ cron[b].exists => /\ cron[b].uid = live[b].uid /\ cron[b].owner = live[b].uid
                       /\ live[b].uid # 0
OwnJob(j) ==
  /\ j.owner = live[j.backup].uid /\ j.owner # 0
  /\ j.name.kind = "Scheduled" => cron[j.backup].exists
OwnInv ==
  /\ \A a, b \in Backups : live[a].uid = live[b].uid /\ live[a].uid # 0 => a = b
  /\ \A b \in Backups : Own(b)
  /\ \A j \in jobs : OwnJob(j)
  /\ \A j \in jobCache : j.owner = live[j.backup].uid /\ j.owner # 0

\* The Jobs of a backup have different names.
LEMMA ReportsDistinct ==
  ASSUME TypeInv, OnceInv, OwnInv, NEW b \in Backups
  PROVE  Distinct(Reports(jobs, b))
<1> SUFFICES ASSUME NEW i \in jobs, NEW j \in jobs, i.backup = b, j.backup = b, i.name = j.name
             PROVE  i = j
  <2> SUFFICES ASSUME NEW r \in Reports(jobs, b), NEW k \in Reports(jobs, b), r.name = k.name
               PROVE  r = k
    BY DEF Distinct
  <2>1. PICK i \in jobs : i.backup = b /\ r = RunFromJob(i)
    BY DEF Reports
  <2>2. PICK j \in jobs : j.backup = b /\ k = RunFromJob(j)
    BY DEF Reports
  <2>3. i.name = j.name
    BY <2>1, <2>2 DEF RunFromJob
  <2> QED  BY <2>1, <2>2, <2>3
<1>1. i.owner = live[b].uid /\ j.owner = live[b].uid
  BY DEF OwnInv, OwnJob
<1>2. i.name.kind \in {"Scheduled", "Manual"}
  BY JobParts
<1> QED  BY <1>1, <1>2 DEF OnceInv, ScheduledOnce, ManualOnce

\* Part of what is sound is.
LEMMA SoundPart ==
  ASSUME NEW b, NEW x, NEW y, y \subseteq x, Sound(x, b)
  PROVE  Sound(y, b)
BY DEF Sound, Distinct

\* No report is lost, and an outcome is final.
Grows(b) == \A r \in Reports(jobs, b) : \E k \in Reports(jobs, b)' : Became(r, k)

\* A list stays sound while the cache of Jobs does.
LEMMA SoundKept ==
  ASSUME NEW b, NEW x, Sound(x, b), Grows(b), UNCHANGED jobCache
  PROVE  Sound(x, b)'
<1>1. Seen(b)' = Seen(b)
  BY DEF Seen
<1>2. ASSUME NEW r \in x PROVE \E k \in Reports(jobs, b)' : Became(r, k)
  <2>1. PICK i \in Reports(jobs, b) : Became(r, i)
    BY DEF Sound
  <2>2. PICK k \in Reports(jobs, b)' : Became(i, k)
    BY DEF Grows
  <2>3. Became(r, k)
    BY <2>1, <2>2 DEF Became
  <2> QED  BY <2>3
<1> QED  BY <1>1, <1>2 DEF Sound

\* It stays sound when the cache of Jobs is listed, and so is what that shows.
LEMMA SoundListed ==
  ASSUME NEW b, NEW x, Sound(x, b), Distinct(Reports(jobs, b)), UNCHANGED jobs,
         jobCache' = Visible
  PROVE  Sound(x, b)' /\ Sound(Seen(b), b)'
<1>1. Reports(jobs, b)' = Reports(jobs, b) /\ Seen(b)' \subseteq Reports(jobs, b)
  BY DEF Seen, Reports, Visible
<1>2. \A r \in Seen(b)' : Became(r, r)
  BY DEF Became
<1>3. Sound(Seen(b), b)'
  BY <1>1, <1>2 DEF Sound, Distinct
<1>4. ASSUME NEW r \in x, NEW k \in Seen(b)', Ended(r), r.name = k.name PROVE k = r
  <2>1. PICK i \in Reports(jobs, b) : Became(r, i)
    BY DEF Sound
  <2>2. i = r
    BY <1>4, <2>1 DEF Became
  <2> QED  BY <1>1, <1>4, <2>2 DEF Distinct
<1> QED  BY <1>1, <1>3, <1>4 DEF Sound

\* A pass observes the cached Jobs of its backup.
LEMMA ObservesOwn ==
  ASSUME TypeInv, OwnInv, NEW b \in Backups, worker[b].pc = "runs"
  PROVE  ObservedRuns(b) = {j \in jobCache : j.backup = b}
<1>1. /\ worker[b].obj.uid = live[b].uid /\ worker[b].cronUid = live[b].uid
      /\ live[b].uid # 0
  BY DEF OwnInv, Own
<1>2. ObservedRuns(b) = {j \in jobCache : j.owner = live[b].uid}
  BY <1>1 DEF ObservedRuns
<1>3. \A j \in jobCache : j.backup \in Backups /\ j.owner = live[j.backup].uid
  BY DEF OwnInv, TypeInv, JobsTyped, Job
<1>4. \A j \in jobCache : j.owner = live[b].uid <=> j.backup = b
  BY <1>1, <1>3 DEF OwnInv
<1> QED  BY <1>2, <1>4

\* A merge of a sound history with what is seen is sound, and reports all of it again.
LEMMA MergedSound ==
  ASSUME NEW b, NEW base, Sound(base, b), Sound(Seen(b), b), Distinct(Reports(jobs, b))
  PROVE  LET runs == Merged(base, {j \in jobCache : j.backup = b}) IN
         /\ Sound(runs, b)
         /\ Seen(b) \subseteq runs /\ runs \subseteq Seen(b) \cup base
         /\ \A r \in base : \E k \in runs : Became(r, k)
<1> DEFINE observed == {j \in jobCache : j.backup = b}
           names == {j.name : j \in observed}
           older == {r \in base : r.name \notin names}
           runs == Merged(base, observed)
           seen == Seen(b)
<1>1. runs = seen \cup older /\ older \subseteq base
  BY DEF Merged, Seen, Reports
<1>2. /\ \A j \in observed : RunFromJob(j) \in seen /\ RunFromJob(j).name = j.name
      /\ \A k \in seen : \E j \in observed : k.name = j.name
  BY DEF Seen, Reports, RunFromJob
<1>3. \A r \in older, k \in seen : r.name # k.name
  BY <1>2
<1>4. \A r \in base \ older : \E k \in seen : r.name = k.name
  BY <1>2
<1>5. Sound(base, b) /\ Sound(seen, b)
  OBVIOUS
<1> HIDE DEF names, older, runs, seen
<1>6. Sound(runs, b)
  BY <1>1, <1>3, <1>5 DEF Sound, Distinct
<1>7. ASSUME NEW r \in base PROVE \E k \in runs : Became(r, k)
  <2>1. CASE r \in older
    BY <1>1, <2>1 DEF Became
  <2>2. CASE r \notin older
    <3>1. PICK k \in seen : r.name = k.name
      BY <1>4, <2>2
    <3>2. Ended(r) => k = r
      BY <1>5, <3>1 DEF Sound, seen
    <3>3. PICK i \in Reports(jobs, b) : Became(r, i)
      BY <1>5 DEF Sound
    <3>4. PICK j \in Reports(jobs, b) : Became(k, j)
      BY <1>5, <3>1 DEF Sound
    <3>5. i = j
      BY <3>1, <3>3, <3>4 DEF Distinct, Became
    <3>6. Became(r, k)
      BY <3>1, <3>2, <3>3, <3>4, <3>5 DEF Became
    <3> QED  BY <1>1, <3>1, <3>6
  <2> QED  BY <2>1, <2>2
<1> QED  BY <1>1, <1>6, <1>7 DEF runs, seen

\* A step of a pass that leaves the history alone, and writes the CronJob of its backup
\* or none.
Carries(b, n) ==
  LET w == worker[b] IN
  /\ Goto(b, n) /\ n \in Worker /\ Copies(w, n) /\ n.obj.history = w.obj.history
  /\ w.pc # "idle" /\ n.pc # "idle"
  /\ n.pc \in BeforeRuns => w.pc \in BeforeRuns
Writes(b, n) ==
  LET w == worker[b] IN
  \/ UNCHANGED cron /\ n.pc # "runs"
  \/ \E uid \in Nat :
       /\ cron' = [cron EXCEPT ![b] = Rendered(w.obj, uid)]
       /\ n.pc = "runs" => n.cronUid = uid
       /\ uid = w.obj.uid \/ (cron[b].exists /\ uid = cron[b].uid)

\* A call was answered, or failed.
LEMMA RepliedCarries ==
  ASSUME TypeInv, NEW b \in Backups, NEW reply, NEW n, Replied(b, reply, n),
         n \in Worker, Copies(worker[b], n), n.obj.history = worker[b].obj.history,
         worker[b].pc # "idle", n.pc # "idle", n.pc \in BeforeRuns => worker[b].pc \in BeforeRuns
  PROVE  \E m : Carries(b, m) /\ (m = n \/ m.pc = "patch")
<1> DEFINE w == worker[b]
<1>1. w \in Worker
  BY DEF TypeInv, WorkersTyped
<1>2. CASE Goto(b, n)
  <2>1. Carries(b, n)
    BY <1>2 DEF Carries
  <2> QED  BY <2>1
<1>3. CASE Goto(b, Failed(w))
  <2>1. /\ Copies(w, Failed(w)) /\ Failed(w).pc = "patch"
        /\ Failed(w).obj.history = w.obj.history
    BY <1>1, FailedTyped
  <2>2. Carries(b, Failed(w))
    BY <1>3, <2>1 DEF Carries, Copies, BeforeRuns
  <2> QED  BY <2>1, <2>2
<1> QED  BY <1>2, <1>3 DEF Replied

\* Every step of a pass between its first and its last, but the one that observes runs.
LEMMA PassCarries ==
  ASSUME TypeInv, NEW b \in Backups, PassWork(b)
  PROVE  Observe(b) \/ \E n : Carries(b, n) /\ Writes(b, n)
<1> DEFINE w == worker[b]
<1>1. w \in Worker /\ w.obj \in Object
  BY BackupParts
<1>2. ASSUME Check(b) PROVE \E n : Carries(b, n) /\ Writes(b, n)
  <2>1. UNCHANGED cron /\ w.pc = "check"
    BY <1>2 DEF Check, objects
  <2>2. ASSUME NEW reason \in Ready, Goto(b, Settle(w, reason))
        PROVE  Carries(b, Settle(w, reason)) /\ Writes(b, Settle(w, reason))
    <3>1. /\ Copies(w, Settle(w, reason)) /\ Settle(w, reason).pc = "patch"
          /\ Settle(w, reason).obj.history = w.obj.history
      BY <1>1, SettleTyped
    <3> QED  BY <2>1, <2>2, <3>1 DEF Carries, Writes, Copies, BeforeRuns
  <2>3. ASSUME Goto(b, At(w, "volume"))
        PROVE  Carries(b, At(w, "volume")) /\ Writes(b, At(w, "volume"))
    <3>1. /\ Copies(w, At(w, "volume")) /\ At(w, "volume").pc = "volume"
          /\ At(w, "volume").obj = w.obj
      BY <1>1, AtTyped DEF Pcs
    <3> QED  BY <2>1, <2>3, <3>1 DEF Carries, Writes, Copies, BeforeRuns
  <2>4. (\E reason \in Ready : Goto(b, Settle(w, reason))) \/ Goto(b, At(w, "volume"))
    BY <1>2 DEF Check, Ready
  <2> QED  BY <2>2, <2>3, <2>4
<1>3. ASSUME NEW reply, Volume(b, reply) PROVE \E n : Carries(b, n) /\ Writes(b, n)
  <2>1. UNCHANGED cron /\ w.pc = "volume" /\ Replied(b, reply, At(w, "cron"))
    BY <1>3 DEF Volume
  <2>2. /\ Copies(w, At(w, "cron")) /\ At(w, "cron").pc = "cron" /\ At(w, "cron").obj = w.obj
    BY <1>1, AtTyped DEF Pcs
  <2>3. PICK n : Carries(b, n) /\ (n = At(w, "cron") \/ n.pc = "patch")
    BY <2>1, <2>2, RepliedCarries DEF Copies, BeforeRuns
  <2> QED  BY <2>1, <2>2, <2>3 DEF Writes
<1>4. ASSUME NEW reply, CreateCronJob(b, reply) \/ UpdateCronJob(b, reply)
      PROVE  \E n : Carries(b, n) /\ Writes(b, n)
  <2>1. w.obj.uid \in Nat /\ cronCache[b] \in Nat
    BY BackupParts DEF TypeInv, ClusterTyped
  <2>2. \E uid \in Nat :
          /\ w.pc = "cron" /\ cron' = [cron EXCEPT ![b] = Rendered(w.obj, uid)]
          /\ Replied(b, reply, Rendering(w, uid))
          /\ uid = w.obj.uid \/ (cron[b].exists /\ uid = cron[b].uid)
    BY <1>4, <2>1, ZenonT(30) DEF CreateCronJob, UpdateCronJob, Rendering
  <2>3. PICK uid \in Nat :
          /\ w.pc = "cron" /\ cron' = [cron EXCEPT ![b] = Rendered(w.obj, uid)]
          /\ Replied(b, reply, Rendering(w, uid))
          /\ uid = w.obj.uid \/ (cron[b].exists /\ uid = cron[b].uid)
    BY <2>2
  <2>4. /\ Copies(w, Rendering(w, uid)) /\ Rendering(w, uid).pc = "runs"
        /\ Rendering(w, uid).obj.history = w.obj.history
    BY <1>1, RenderingTyped
  <2>5. Rendering(w, uid).cronUid = uid
    BY <1>1 DEF Rendering, At, Worker
  <2>6. PICK n : Carries(b, n) /\ (n = Rendering(w, uid) \/ n.pc = "patch")
    BY <2>3, <2>4, RepliedCarries DEF Copies, BeforeRuns
  <2> QED  BY <2>3, <2>5, <2>6 DEF Writes
<1>5. ASSUME StaleCronJob(b) \/ CallFails(b) PROVE \E n : Carries(b, n) /\ Writes(b, n)
  <2>1. UNCHANGED cron /\ w.pc # "idle" /\ Goto(b, Failed(w))
    BY <1>5 DEF StaleCronJob, CallFails, objects
  <2>2. /\ Copies(w, Failed(w)) /\ Failed(w).pc = "patch"
        /\ Failed(w).obj.history = w.obj.history
    BY <1>1, FailedTyped
  <2>3. Carries(b, Failed(w)) /\ Writes(b, Failed(w))
    BY <2>1, <2>2 DEF Carries, Writes, Copies, BeforeRuns
  <2> QED  BY <2>3
<1>6. ASSUME SkipTrigger(b) PROVE \E n : Carries(b, n) /\ Writes(b, n)
  <2>1. UNCHANGED cron /\ w.pc = "trigger" /\ Goto(b, Answered(w, None))
    BY <1>6 DEF SkipTrigger, objects
  <2>2. /\ Copies(w, Answered(w, None)) /\ Answered(w, None).pc = "patch"
        /\ Answered(w, None).obj.history = w.obj.history
    BY <1>1, AnsweredTyped
  <2>3. Carries(b, Answered(w, None)) /\ Writes(b, Answered(w, None))
    BY <2>1, <2>2 DEF Carries, Writes, Copies, BeforeRuns
  <2> QED  BY <2>3
<1>7. ASSUME NEW reply, TriggerJob(b, reply) PROVE \E n : Carries(b, n) /\ Writes(b, n)
  <2> DEFINE name == ManualJobName(b, w.obj.trigger)
  <2>1. UNCHANGED cron /\ w.pc = "trigger" /\ Replied(b, reply, Answered(w, name))
    BY <1>7 DEF TriggerJob
  <2>2. name \in JobName
    BY BackupParts, ManualNameTyped
  <2> HIDE DEF name
  <2>3. /\ Copies(w, Answered(w, name)) /\ Answered(w, name).pc = "patch"
        /\ Answered(w, name).obj.history = w.obj.history
    BY <1>1, <2>2, AnsweredTyped
  <2>4. PICK n : Carries(b, n) /\ (n = Answered(w, name) \/ n.pc = "patch")
    BY <2>1, <2>3, RepliedCarries DEF Copies, BeforeRuns
  <2> QED  BY <2>1, <2>3, <2>4 DEF Writes
<1> QED  BY <1>2, <1>3, <1>4, <1>5, <1>6, <1>7 DEF PassWork

\* What the backups own they keep, and what is made is theirs.
LEMMA OwnKept ==
  ASSUME TypeInv, OwnInv, \A b \in Backups : live'[b].uid = live[b].uid /\ Own(b)',
         \A b \in Backups : cron[b].exists => cron'[b].exists,
         \A j \in jobs' : \/ OwnJob(j)'
                          \/ \E i \in jobs : /\ i.name = j.name /\ i.backup = j.backup
                                             /\ i.owner = j.owner,
         UNCHANGED jobCache \/ jobCache' = Visible
  PROVE  OwnInv'
<1>1. \A j \in jobs : OwnJob(j) /\ j.backup \in Backups
  BY JobParts DEF OwnInv
<1>2. \A j \in jobs' : OwnJob(j)'
  <2> SUFFICES ASSUME NEW j \in jobs', NEW i \in jobs, i.name = j.name, i.backup = j.backup,
                      i.owner = j.owner
               PROVE  OwnJob(j)'
    OBVIOUS
  <2> QED  BY <1>1 DEF OwnJob
<1>3. \A j \in jobCache' : j.owner = live'[j.backup].uid /\ j.owner # 0
  <2>1. \A j \in jobCache : j.backup \in Backups
    BY DEF TypeInv, JobsTyped, Job
  <2> QED  BY <1>1, <2>1 DEF OwnInv, OwnJob, Visible
<1> QED  BY <1>2, <1>3 DEF OwnInv

\* The pass of another backup, or no pass, moves.
LEMMA OwnSame ==
  ASSUME NEW b \in Backups, Own(b), live'[b].uid = live[b].uid,
         cache'[b].uid \in {cache[b].uid, live[b].uid},
         cron'[b] = cron[b], worker'[b] = worker[b] \/ worker'[b] = Idle
  PROVE  Own(b)'
BY DEF Own, Idle

\* A pass writes the CronJob of its own backup, and starts Jobs for it.
LEMMA PassOwn ==
  ASSUME TypeInv, OnceInv, OwnInv, NEW a \in Backups, PassWork(a)
  PROVE  OwnInv'
<1> DEFINE w == worker[a]  name == ManualJobName(a, w.obj.trigger)
<1>1. PassMoves(a)
  BY PassTyped DEF PassWork
<1>2. UNCHANGED <<live, cache, jobCache>>
  BY <1>1 DEF PassMoves, Untouched
<1>3. \A b \in Backups : Own(b)
  BY DEF OwnInv
<1>4. Own(a)' /\ (cron[a].exists => cron'[a].exists) /\ w.pc # "idle"
      /\ \A b \in Backups \ {a} : worker'[b] = worker[b] /\ cron'[b] = cron[b]
  <2>1. CASE Observe(a)
    <3>1. PICK n \in Worker : Goto(a, n) /\ Copies(w, n) /\ n.pc # "idle"
      BY <1>1 DEF PassMoves, Continues
    <3>2. \E kept, active, pc : pc # "runs" /\ Goto(a, Observed(w, pc, kept, active))
      BY <2>1, ZenonT(30) DEF Observe, Observed
    <3>3. UNCHANGED cron /\ w.pc = "runs"
      BY <2>1 DEF Observe, objects
    <3>4. worker'[a] = n /\ \A b \in Backups \ {a} : worker'[b] = worker[b]
      BY <3>1, GotoTyped DEF TypeInv, WorkersTyped
    <3>5. n.pc # "runs"
      <4>1. PICK kept, active, pc : pc # "runs" /\ Goto(a, Observed(w, pc, kept, active))
        BY <3>2
      <4>2. n = Observed(w, pc, kept, active)
        BY <3>4, <4>1 DEF Goto, TypeInv, WorkersTyped
      <4>3. n.pc = pc
        BY <4>2, BackupParts DEF Observed, Worker
      <4> QED  BY <4>1, <4>3
    <3> QED  BY <1>2, <1>3, <3>1, <3>3, <3>4, <3>5 DEF Own, Copies
  <2>2. ASSUME NEW n, Carries(a, n), Writes(a, n)
        PROVE  /\ Own(a)' /\ (cron[a].exists => cron'[a].exists) /\ w.pc # "idle"
               /\ \A b \in Backups \ {a} : worker'[b] = worker[b] /\ cron'[b] = cron[b]
    <3>1. /\ Goto(a, n) /\ n \in Worker /\ n.obj.uid = w.obj.uid /\ w.pc # "idle"
      BY <2>2 DEF Carries, Copies
    <3>2. worker'[a] = n /\ \A b \in Backups \ {a} : worker'[b] = worker[b]
      BY <3>1, GotoTyped DEF TypeInv, WorkersTyped
    <3>3. CASE UNCHANGED cron /\ n.pc # "runs"
      BY <1>2, <1>3, <3>1, <3>2, <3>3 DEF Own
    <3>4. ASSUME NEW uid \in Nat, cron' = [cron EXCEPT ![a] = Rendered(w.obj, uid)],
                 n.pc = "runs" => n.cronUid = uid,
                 uid = w.obj.uid \/ (cron[a].exists /\ uid = cron[a].uid)
          PROVE  Own(a)' /\ cron'[a].exists /\ \A b \in Backups \ {a} : cron'[b] = cron[b]
      <4>1. cron'[a] = Rendered(w.obj, uid) /\ \A b \in Backups \ {a} : cron'[b] = cron[b]
        BY <3>4 DEF TypeInv, ClusterTyped
      <4>2. cron'[a].exists /\ cron'[a].uid = uid /\ cron'[a].owner = w.obj.uid
        BY <4>1 DEF Rendered
      <4>3. uid = live[a].uid /\ w.obj.uid = live[a].uid /\ live[a].uid # 0
        BY <1>3, <3>1, <3>4 DEF Own
      <4> QED  BY <1>2, <1>3, <3>1, <3>2, <3>4, <4>1, <4>2, <4>3 DEF Own
    <3> QED  BY <2>2, <3>1, <3>2, <3>3, <3>4 DEF Writes
  <2> QED  BY <2>1, <2>2, PassCarries
<1>5. \A b \in Backups : Own(b)' /\ (cron[b].exists => cron'[b].exists)
  <2> SUFFICES ASSUME NEW b \in Backups \ {a} PROVE Own(b)' /\ cron'[b] = cron[b]
    BY <1>4
  <2> QED  BY <1>2, <1>3, <1>4, OwnSame
<1>6. \A j \in jobs' : j \in jobs \/ OwnJob(j)'
  <2>1. CASE StartJob(a, name, w.obj.uid)
    <3> DEFINE k == [id |-> Cardinality(jobs), name |-> name, backup |-> a,
                     owner |-> w.obj.uid, start |-> clock, state |-> "Running", gone |-> FALSE]
    <3>1. jobs' = jobs \cup {k} /\ k.name = name /\ k.backup = a /\ k.owner = w.obj.uid
      BY <2>1 DEF StartJob
    <3>2. name.kind = "Manual"
      BY DEF ManualJobName
    <3> HIDE DEF k, name
    <3>3. w.obj.uid = live[a].uid /\ live[a].uid # 0
      BY <1>3, <1>4 DEF Own
    <3> QED  BY <1>2, <3>1, <3>2, <3>3 DEF OwnJob
  <2>2. CASE UNCHANGED jobs
    BY <2>2
  <2> QED  BY <1>1, <2>1, <2>2 DEF PassMoves, StartsManual
<1> QED  BY <1>2, <1>5, <1>6, OwnKept

\* A new backup has a uid of its own, and nothing is there for it.
LEMMA CreateOwn ==
  ASSUME TypeInv, OnceInv, OwnInv, NEW a \in Backups, NEW slug \in Slugs \cup {None},
         CreateBackup(a, slug)
  PROVE  OwnInv'
<1> DEFINE uid == creations + 1
<1>1. /\ \A b \in Backups : Made(live[b]) /\ live[b].uid \in Nat
      /\ creations \in Nat /\ clock \in Nat
  BY BackupParts DEF OnceInv, BackupsInv, UidInv
<1>2. live[a].uid = 0
  BY <1>1 DEF CreateBackup, Made
<1>3. live'[a].uid = uid /\ \A b \in Backups \ {a} : live'[b] = live[b]
  <2>1. live'[a] = NewBackup(uid, clock, slug) /\ \A b \in Backups \ {a} : live'[b] = live[b]
    BY DEF CreateBackup, TypeInv, ObjectsTyped
  <2> HIDE DEF uid
  <2>2. uid \in Nat
    BY <1>1 DEF uid
  <2>3. NewBackup(uid, clock, slug).uid = uid
    BY <1>1, <2>2, NewBackupTyped
  <2> QED  BY <2>1, <2>3
<1>4. UNCHANGED <<cron, jobs, cache, jobCache, worker>>
  BY DEF CreateBackup, caches
<1>5. /\ \A j \in jobs : j.owner = live[j.backup].uid /\ j.owner # 0 /\ j.backup \in Backups
      /\ \A j \in jobCache : j.owner = live[j.backup].uid /\ j.owner # 0 /\ j.backup \in Backups
  BY DEF OwnInv, OwnJob, TypeInv, JobsTyped, Job
<1>6. \A b \in Backups : Own(b)'
  BY <1>2, <1>3, <1>4 DEF OwnInv, Own
<1>7. /\ \A j \in jobs : OwnJob(j)'
      /\ \A j \in jobCache : j.owner = live'[j.backup].uid /\ j.owner # 0
  BY <1>2, <1>3, <1>4, <1>5 DEF OwnInv, OwnJob
<1>8. \A b \in Backups : live[b].uid # uid
  BY <1>1 DEF Made
<1>9. \A b, c \in Backups : live'[b].uid = live'[c].uid /\ live'[b].uid # 0 => b = c
  <2> HIDE DEF uid
  <2> QED  BY <1>3, <1>8 DEF OwnInv
<1> QED  BY <1>4, <1>6, <1>7, <1>9 DEF OwnInv

\* Copies are taken and patched back, and the cache of Jobs is listed.
LEMMA CopiesOwn ==
  ASSUME TypeInv, OnceInv, OwnInv,
         \/ SyncBackups \/ Crash \/ SyncJobs
         \/ \E b \in Backups : StartPass(b) \/ PatchStatus(b) \/ PatchFails(b)
  PROVE  OwnInv'
<1>1. UNCHANGED <<jobs, cron>> /\ (UNCHANGED jobCache \/ jobCache' = Visible)
  BY ZenonT(30)
  DEF SyncBackups, Crash, SyncJobs, StartPass, PatchStatus, PatchFails, objects, caches
<1>2. \A b \in Backups : Own(b)
  BY DEF OwnInv
<1>3. CASE SyncBackups \/ Crash \/ SyncJobs
  <2>1. UNCHANGED live
    BY <1>3 DEF SyncBackups, Crash, SyncJobs, objects
  <2>2. \A b \in Backups : /\ cache'[b] \in {cache[b], live[b]}
                           /\ worker'[b] = worker[b] \/ worker'[b] = Idle
    BY <1>3 DEF SyncBackups, Crash, SyncJobs
  <2>3. \A b \in Backups : Own(b)'
    BY <1>1, <1>2, <2>1, <2>2, OwnSame
  <2> QED  BY <1>1, <2>1, <2>3, OwnKept
<1>4. ASSUME NEW a \in Backups, StartPass(a) PROVE OwnInv'
  <2> DEFINE n == [Idle EXCEPT !.pc = "check", !.obj = cache[a], !.base = cache[a]]
  <2>1. n.obj = cache[a] /\ n.pc = "check"
    BY DEF Idle
  <2>2. UNCHANGED worker \/ (cache[a].exists /\ worker' = [worker EXCEPT ![a] = n])
    BY <1>4, ZenonT(30) DEF StartPass, Goto
  <2>3. UNCHANGED <<live, cache>>
    BY <1>4, ZenonT(30) DEF StartPass, objects, caches
  <2> HIDE DEF n
  <2>4. cache[a].exists => cache[a].uid # 0
    BY DEF OnceInv, BackupsInv, UidInv, Made
  <2>5. \A b \in Backups : Own(b)'
    BY <1>1, <1>2, <2>1, <2>2, <2>3, <2>4 DEF Own, TypeInv, WorkersTyped
  <2> QED  BY <1>1, <2>3, <2>5, OwnKept
<1>5. ASSUME NEW a \in Backups, PatchStatus(a) \/ PatchFails(a) PROVE OwnInv'
  <2>1. worker' = [worker EXCEPT ![a] = Idle] /\ UNCHANGED cache
    BY <1>5 DEF PatchStatus, PatchFails, Goto, caches
  <2>2. \/ UNCHANGED live
        \/ live' = [live EXCEPT ![a] = Patched(live[a], worker[a].base, worker[a].obj)]
    BY <1>5 DEF PatchStatus, PatchFails, objects
  <2>3. Patched(live[a], worker[a].base, worker[a].obj).uid = live[a].uid
    BY BackupParts, PatchedTyped
  <2>4. \A b \in Backups : live'[b].uid = live[b].uid
    BY <2>2, <2>3 DEF TypeInv, ObjectsTyped
  <2>5. \A b \in Backups : Own(b)'
    BY <1>1, <1>2, <2>1, <2>4, OwnSame DEF TypeInv, WorkersTyped
  <2> QED  BY <1>1, <2>4, <2>5, OwnKept
<1> QED  BY <1>3, <1>4, <1>5, SMTT(30)

\* Jobs change in place.
LEMMA JobsStepTurns ==
  ASSUME TypeInv,
         \/ \E j \in jobs : ExpireJob(j) \/ \E result \in JobState : FinishJob(j, result)
         \/ CollectJobs
         \/ \E b \in Backups : Cancel(b)
  PROVE  /\ \E f : Turned(f)
         /\ UNCHANGED <<live, cache, cron, jobCache, worker>>
<1>1. UNCHANGED <<live, cache, cron, jobCache, worker>>
  BY DEF ExpireJob, FinishJob, CollectJobs, Cancel, caches
<1>2. CASE \E gone : Remove(gone)
  BY <1>1, <1>2, RemoveTurns
<1>3. CASE \E j \in jobs, result \in JobState : FinishJob(j, result)
  BY <1>1, <1>3, FinishTurns
<1> QED  BY <1>2, <1>3 DEF ExpireJob, CollectJobs, Cancel

\* The CronJob starts a run of its backup.
LEMMA FireOwn ==
  ASSUME TypeInv, OwnInv, NEW a \in Backups, FireCronJob(a)
  PROVE  /\ \A j \in jobs' : j \in jobs \/ OwnJob(j)'
         /\ UNCHANGED <<live, cache, cron, jobCache, worker>>
<1>1. UNCHANGED <<live, cache, cron, jobCache, worker>> /\ cron[a].exists
  BY DEF FireCronJob, caches
<1> DEFINE name == [kind |-> "Scheduled", stem |-> a, at |-> clock]
           k == [id |-> Cardinality(jobs), name |-> name, backup |-> a,
                 owner |-> cron[a].uid, start |-> clock, state |-> "Running", gone |-> FALSE]
<1>2. jobs' = jobs \cup {k} /\ k.backup = a /\ k.owner = cron[a].uid
  BY DEF FireCronJob, StartJob
<1> HIDE DEF k
<1> QED  BY <1>1, <1>2 DEF OwnInv, Own, OwnJob

\* A user or an administrator changes a field of an object.
LEMMA FieldSteps ==
  ASSUME TypeInv, NEW a \in Backups,
         \/ EditBackup(a) \/ \E slug \in Slugs \cup {None} : EditSlug(a, slug)
         \/ \E c \in Commands : TriggerBackup(c, a)
  PROVE  /\ \A b \in Backups : live'[b].uid = live[b].uid /\ live'[b].history = live[b].history
         /\ UNCHANGED <<cache, cron, jobs, jobCache, worker>>
<1>1. UNCHANGED <<cache, cron, jobs, jobCache, worker>>
  BY DEF EditBackup, EditSlug, TriggerBackup, caches
<1>2. live \in [Backups -> Object] /\ live[a] \in Object
  BY DEF TypeInv, ObjectsTyped
<1>3. \E o : /\ live' = [live EXCEPT ![a] = o]
             /\ o.uid = live[a].uid /\ o.history = live[a].history
  <2>1. CASE EditBackup(a)
    <3> DEFINE s == [live[a] EXCEPT !.suspend = ~@]  k == [live[a] EXCEPT !.cached = ~@]
    <3>1. /\ s.uid = live[a].uid /\ s.history = live[a].history
          /\ k.uid = live[a].uid /\ k.history = live[a].history
      BY <1>2 DEF Object
    <3>2. live' = [live EXCEPT ![a] = s] \/ live' = [live EXCEPT ![a] = k]
      BY <1>2, <2>1 DEF EditBackup
    <3> HIDE DEF s, k
    <3> QED  BY <3>1, <3>2
  <2>2. ASSUME NEW slug, EditSlug(a, slug)
        PROVE  \E o : /\ live' = [live EXCEPT ![a] = o]
                      /\ o.uid = live[a].uid /\ o.history = live[a].history
    <3> DEFINE s == [live[a] EXCEPT !.slug = slug]
    <3>1. s.uid = live[a].uid /\ s.history = live[a].history
      BY <1>2 DEF Object
    <3>2. live' = [live EXCEPT ![a] = s]
      BY <1>2, <2>2 DEF EditSlug
    <3> HIDE DEF s
    <3> QED  BY <3>1, <3>2, ZenonT(30)
  <2>3. ASSUME NEW c, TriggerBackup(c, a)
        PROVE  \E o : /\ live' = [live EXCEPT ![a] = o]
                      /\ o.uid = live[a].uid /\ o.history = live[a].history
    <3> DEFINE s == [live[a] EXCEPT !.trigger = clock]
    <3>1. s.uid = live[a].uid /\ s.history = live[a].history
      BY <1>2 DEF Object
    <3>2. live' = [live EXCEPT ![a] = s]
      BY <1>2, <2>3 DEF TriggerBackup
    <3> HIDE DEF s
    <3> QED  BY <3>1, <3>2, ZenonT(30)
  <2> QED  BY <2>1, <2>2, <2>3
<1> QED  BY <1>1, <1>2, <1>3

\* The steps that change neither objects, passes nor Jobs, and no CronJob that is owned.
LEMMA ElsewhereSteps ==
  ASSUME TypeInv, OwnInv, Elsewhere \/ Tick
  PROVE  /\ UNCHANGED <<live, cache, cron, jobs, worker>>
         /\ UNCHANGED jobCache \/ jobCache' = Visible
<1>1. \A b \in Backups : ~CollectCronJob(b)
  BY DEF CollectCronJob, OwnInv, Own
<1> QED  BY <1>1, ZenonT(30)
     DEF Elsewhere, Tick, SyncCronJobs, SyncJobs, RepositoryEvent, CollectClaim,
         AwaitTrigger, AwaitJob, ChangeRepository, objects, caches

NobodyDeletes == \A b \in Backups : ~DeleteBackup(b)

\* Every step but a deletion keeps OwnInv.
LEMMA OwnStep ==
  ASSUME TypeInv, OnceInv, OwnInv, [Next /\ NobodyDeletes]_vars
  PROVE  OwnInv'
<1>1. ASSUME \A b \in Backups : live'[b].uid = live[b].uid, UNCHANGED <<cache, cron, worker>>,
             UNCHANGED jobCache \/ jobCache' = Visible,
             \A j \in jobs' : \/ OwnJob(j)'
                              \/ \E i \in jobs : /\ i.name = j.name /\ i.backup = j.backup
                                                 /\ i.owner = j.owner
      PROVE  OwnInv'
  <2>1. \A b \in Backups : Own(b)'
    BY <1>1, OwnSame DEF OwnInv
  <2> QED  BY <1>1, <2>1, OwnKept
<1>2. CASE UNCHANGED vars
  BY <1>1, <1>2 DEF vars
<1>3. CASE \E b \in Backups : PassWork(b)
  BY <1>3, PassOwn
<1>4. CASE \/ SyncBackups \/ Crash
           \/ \E b \in Backups : StartPass(b) \/ PatchStatus(b) \/ PatchFails(b)
  BY <1>4, CopiesOwn
<1>5. CASE \E b \in Backups : FireCronJob(b)
  BY <1>1, <1>5, FireOwn
<1>6. CASE \/ \E j \in jobs : ExpireJob(j) \/ \E result \in JobState : FinishJob(j, result)
           \/ CollectJobs
           \/ \E b \in Backups : Cancel(b)
  <2>1. \E f : Turned(f)
    BY <1>6, JobsStepTurns
  <2>2. UNCHANGED <<live, cache, cron, jobCache, worker>>
    BY <1>6, JobsStepTurns
  <2>3. \A j \in jobs' : \E i \in jobs : /\ i.name = j.name /\ i.backup = j.backup
                                         /\ i.owner = j.owner
    BY <2>1 DEF Turned
  <2> QED  BY <1>1, <2>2, <2>3
<1>7. CASE \E b \in Backups :
             \/ EditBackup(b) \/ \E slug \in Slugs \cup {None} : EditSlug(b, slug)
             \/ \E c \in Commands : TriggerBackup(c, b)
  BY <1>1, <1>7, FieldSteps
<1>8. CASE \E b \in Backups, slug \in Slugs \cup {None} : CreateBackup(b, slug)
  BY <1>8, CreateOwn
<1>9. CASE Elsewhere \/ Tick
  BY <1>1, <1>9, ElsewhereSteps
<1> QED  BY <1>2, <1>3, <1>4, <1>5, <1>6, <1>7, <1>8, <1>9, StepCases DEF NobodyDeletes

-------------------------------------------------------------------------------
(* The steps and the history *)

\* A finished run stays in what is seen, or has been recorded.
Stayed(b) == \A r \in Shown(b) : Ended(r) => r \in Shown(b)' \/ RecordedRun(b, r)

\* A Job that is added changes no report.
LEMMA AddedGrows ==
  ASSUME jobs \subseteq jobs', UNCHANGED jobCache, NEW b
  PROVE  Grows(b) /\ Stayed(b)
<1>1. Reports(jobs, b) \subseteq Reports(jobs, b)' /\ Shown(b) \subseteq Shown(b)'
  BY DEF Reports, Shown, Seen, Visible
<1> QED  BY <1>1 DEF Grows, Stayed, Became

\* Jobs that change in place are reported as before, or with an outcome.
LEMMA TurnedGrows ==
  ASSUME TypeInv, NEW f, Turned(f), NEW b
  PROVE  Grows(b)
<1> SUFFICES ASSUME NEW r \in Reports(jobs, b) PROVE \E k \in Reports(jobs, b)' : Became(r, k)
  BY DEF Grows
<1>1. PICK j \in jobs : j.backup = b /\ r = RunFromJob(j)
  BY DEF Reports
<1>2. f[j] \in jobs' /\ f[j].backup = b
  BY <1>1 DEF Turned
<1>3. RunFromJob(f[j]) \in Reports(jobs, b)'
  BY <1>2 DEF Reports
<1>4. /\ f[j].name = j.name /\ f[j].start = j.start
      /\ j.state # "Running" => f[j].state = j.state
  BY DEF Turned
<1>5. Became(r, RunFromJob(f[j]))
  BY <1>1, <1>4 DEF Became, Ended, RunFromJob
<1> QED  BY <1>3, <1>5

\* The Jobs that go are running, or have been recorded.
LEMMA GoneRecorded ==
  ASSUME TypeInv, NEW gone, Remove(gone), UNCHANGED jobCache, NEW b,
         \A j \in gone : j.backup = b /\ j.state # "Running" => RecordedRun(b, RunFromJob(j))
  PROVE  Stayed(b)
<1> SUFFICES ASSUME NEW r \in Shown(b), Ended(r), ~RecordedRun(b, r) PROVE r \in Shown(b)'
  BY DEF Stayed
<1>1. PICK j \in Visible : j.backup = b /\ r = RunFromJob(j)
  BY DEF Shown, Reports
<1>2. j \notin gone
  BY <1>1 DEF Ended, RunFromJob
<1>3. j \in jobs' /\ ~j.gone
  BY <1>2 DEF Remove, Visible
<1>4. r \in Reports(Visible, b)'
  BY <1>1, <1>3 DEF Reports, Visible
<1> QED  BY <1>4 DEF Shown, Seen

\* Jobs finish, expire or are cancelled.
LEMMA JobsStepGrows ==
  ASSUME TypeInv, OwnInv, NEW b \in Backups,
         \/ \E j \in jobs : ExpireJob(j) \/ \E result \in JobState : FinishJob(j, result)
         \/ CollectJobs
         \/ \E a \in Backups : Cancel(a)
  PROVE  Grows(b) /\ Stayed(b)
<1>1. Grows(b) /\ UNCHANGED jobCache
  BY JobsStepTurns, TurnedGrows
<1>2. ASSUME NEW j \in jobs, ExpireJob(j) PROVE Stayed(b)
  <2>1. Remove({j}) /\ Recorded(j)
    BY <1>2 DEF ExpireJob
  <2>2. RecordedRun(j.backup, RunFromJob(j))
    BY <2>1 DEF Recorded, RecordedIn, RecordedRun
  <2> QED  BY <1>1, <2>1, <2>2, GoneRecorded
<1>3. ASSUME NEW j \in jobs, NEW result \in JobState, FinishJob(j, result) PROVE Stayed(b)
  <2> SUFFICES ASSUME NEW r \in Shown(b), Ended(r) PROVE r \in Shown(b)'
    BY DEF Stayed
  <2>1. PICK i \in Visible : i.backup = b /\ r = RunFromJob(i)
    BY DEF Shown, Reports
  <2>2. i # j
    BY <1>3, <2>1 DEF Ended, RunFromJob, FinishJob
  <2>3. i \in jobs' /\ ~i.gone
    BY <1>3, <2>2 DEF FinishJob, Visible
  <2>4. r \in Reports(Visible, b)'
    BY <2>1, <2>3 DEF Reports, Visible
  <2> QED  BY <1>1, <2>4 DEF Shown, Seen
<1>4. ~CollectJobs
  <2>1. \A j \in jobs : ~Orphaned(j)
    BY JobParts DEF OwnInv, OwnJob, Own, Orphaned
  <2> QED  BY <2>1 DEF CollectJobs, Visible
<1>5. ASSUME NEW a \in Backups, Cancel(a) PROVE Stayed(b)
  <2> DEFINE running == {j \in Visible : j.backup = a /\ j.state = "Running"}
  <2>1. Remove(running)
    BY <1>5 DEF Cancel
  <2> QED  BY <1>1, <2>1, GoneRecorded
<1> QED  BY <1>1, <1>2, <1>3, <1>4, <1>5

\* The histories are those there were, or sound.
LEMMA SoundStep ==
  ASSUME SoundInv, \A b \in Backups : Distinct(Reports(jobs, b)) /\ Grows(b),
         UNCHANGED jobCache \/ (jobCache' = Visible /\ UNCHANGED jobs),
         \A b \in Backups :
           \A x \in {live'[b].history, cache'[b].history, worker'[b].base.history,
                     worker'[b].obj.history} :
             \/ x \in {live[b].history, cache[b].history, worker[b].base.history,
                       worker[b].obj.history}
             \/ Sound(x, b)
  PROVE  SoundInv'
<1>1. ASSUME NEW b \in Backups, NEW x, Sound(x, b) PROVE Sound(x, b)'
  BY <1>1, SoundKept, SoundListed
<1>2. ASSUME NEW b \in Backups PROVE Sound(Seen(b), b)'
  <2>1. Sound(Seen(b), b)
    BY DEF SoundInv
  <2>2. CASE UNCHANGED jobCache
    <3>1. PICK x : x = Seen(b)
      OBVIOUS
    <3>2. Seen(b)' = x /\ Sound(x, b)
      BY <2>1, <2>2, <3>1 DEF Seen
    <3>3. Sound(x, b)'
      BY <1>1, <3>2
    <3> QED  BY <3>2, <3>3 DEF Sound
  <2>3. CASE jobCache' = Visible /\ UNCHANGED jobs
    BY <2>1, <2>3, SoundListed
  <2> QED  BY <2>2, <2>3
<1>3. ASSUME NEW b \in Backups,
             NEW x \in {live'[b].history, cache'[b].history, worker'[b].base.history,
                        worker'[b].obj.history}
      PROVE  Sound(x, b)
  BY <1>3 DEF SoundInv
<1>4. ASSUME NEW b \in Backups PROVE \A x : Sound(x, b) => Sound(x, b)'
  BY <1>1
<1>5. ASSUME NEW b \in Backups
      PROVE  /\ Sound(live[b].history, b)' /\ Sound(cache[b].history, b)'
             /\ Sound(worker[b].base.history, b)' /\ Sound(worker[b].obj.history, b)'
  <2> DEFINE l == live'[b].history  c == cache'[b].history
             base == worker'[b].base.history  new == worker'[b].obj.history
  <2>1. Sound(l, b) /\ Sound(c, b) /\ Sound(base, b) /\ Sound(new, b)
    BY <1>3
  <2> QED  BY <2>1, <1>4 DEF Sound
<1> QED  BY <1>2, <1>5 DEF SoundInv

HistoryInv == SoundInv /\ \A b \in Backups : Retained(b)

\* What HistoryKept asks of a step, of every backup.
KeptByStep == \A b \in Backups : Keeps(live[b].history, live'[b].history)

\* No history changes, and the Jobs move on or are listed.
LEMMA StaysStep ==
  ASSUME TypeInv, OnceInv, OwnInv, HistoryInv, \A b \in Backups : Stays(b) /\ Grows(b),
         \/ UNCHANGED jobCache /\ \A b \in Backups : Stayed(b)
         \/ jobCache' = Visible /\ UNCHANGED jobs
  PROVE  HistoryInv' /\ KeptByStep
<1>1. \A b \in Backups : Distinct(Reports(jobs, b))
  BY ReportsDistinct
<1>2. SoundInv'
  BY <1>1, SoundStep DEF HistoryInv, Stays
<1>3. \A b \in Backups : Retained(b)'
  BY StaysRetained, ListedRetained DEF HistoryInv, Stayed
<1>4. KeptByStep
  BY KeepsItself DEF KeptByStep, Stays
<1> QED  BY <1>2, <1>3, <1>4 DEF HistoryInv

\* One pass changes what is recorded, while Jobs and their cache stay.
LEMMA OneStep ==
  ASSUME TypeInv, OnceInv, OwnInv, HistoryInv, UNCHANGED <<jobs, jobCache>>, NEW a \in Backups,
         Retained(a)', \A b \in Backups \ {a} : Stays(b), Keeps(live[a].history, live'[a].history),
         \A x \in {live'[a].history, cache'[a].history, worker'[a].base.history,
                   worker'[a].obj.history} :
           \/ x \in {live[a].history, cache[a].history, worker[a].base.history,
                     worker[a].obj.history}
           \/ Sound(x, a)
  PROVE  HistoryInv' /\ KeptByStep
<1>1. \A b \in Backups : Distinct(Reports(jobs, b))
  BY ReportsDistinct
<1>2. \A b \in Backups : Grows(b) /\ Stayed(b)
  BY AddedGrows, Zenon
<1>3. SoundInv'
  BY <1>1, <1>2, SoundStep, ZenonT(30) DEF HistoryInv, Stays
<1>4. \A b \in Backups : Retained(b)'
  BY <1>2, StaysRetained DEF HistoryInv, Stayed
<1>5. KeptByStep
  BY KeepsItself DEF KeptByStep, Stays
<1> QED  BY <1>3, <1>4, <1>5 DEF HistoryInv

\* Nothing has been recorded of a pass that is not there.
LEMMA NothingSound ==
  ASSUME NEW b
  PROVE  /\ Sound({}, b) /\ Idle.base.history = {} /\ Idle.obj.history = {} /\ Idle.pc = "idle"
BY DEF Sound, Distinct, Idle, NoObject

\* A pass observes its runs: what it will write has them, and those that it began with.
LEMMA ObserveHistory ==
  ASSUME TypeInv, OnceInv, OwnInv, HistoryInv, NEW a \in Backups, Observe(a)
  PROVE  HistoryInv' /\ KeptByStep
<1> DEFINE w == worker[a]  base == w.base.history
           runs == Merged(base, {j \in jobCache : j.backup = a})
<1>1. w.pc = "runs" /\ UNCHANGED <<live, cache, jobs, jobCache>>
  BY DEF Observe, objects, caches
<1>2. w.obj.history = base
  BY <1>1 DEF HistoryInv, Retained, Knows, BeforeRuns
<1>3. Merged(w.obj.history, ObservedRuns(a)) = runs
  BY <1>1, <1>2, ObservesOwn
<1>4. PICK kept \in Newest(Merged(w.obj.history, ObservedRuns(a))),
           active \in ActiveRun(ObservedRuns(a)), pc \in {"trigger", "patch"} :
        Goto(a, Observed(w, pc, kept, active))
  <2>1. PICK kept \in Newest(Merged(w.obj.history, ObservedRuns(a))),
             active \in ActiveRun(ObservedRuns(a)) :
          Goto(a, Observed(w, IF Due(w.obj) THEN "trigger" ELSE "patch", kept, active))
    BY Zenon DEF Observe, Observed
  <2> QED  BY <2>1
<1>5. /\ worker'[a].obj.history = kept /\ worker'[a].base = w.base
      /\ worker'[a].pc \in {"trigger", "patch"}
      /\ \A b \in Backups \ {a} : worker'[b] = worker[b]
  <2>1. /\ worker'[a] = Observed(w, pc, kept, active)
        /\ \A b \in Backups \ {a} : worker'[b] = worker[b]
    BY <1>4 DEF Goto, TypeInv, WorkersTyped
  <2>2. w \in Worker /\ w.obj \in Object
    BY BackupParts
  <2> HIDE DEF w
  <2>3. LET n == Observed(w, pc, kept, active) IN
        n.obj.history = kept /\ n.base = w.base /\ n.pc = pc
    BY <2>2 DEF Observed, Worker, Object
  <2> QED  BY <2>1, <2>3
<1>6. IsFiniteSet(base) /\ base \in SUBSET Run
  BY <1>2, HistoriesTyped DEF TypeInv, WorkersTyped, Short
<1>7. IsFiniteSet(runs)
  <2>1. IsFiniteSet({j \in jobCache : j.backup = a}) /\ jobCache \subseteq Job
    BY FS_Subset DEF TypeInv, JobsTyped
  <2> QED  BY <1>6, <2>1, MergedTyped
<1>8. Sound(base, a) /\ Sound(Seen(a), a) /\ Distinct(Reports(jobs, a))
  BY ReportsDistinct DEF HistoryInv, SoundInv
<1>9. /\ Sound(runs, a) /\ Seen(a) \subseteq runs /\ runs \subseteq Seen(a) \cup base
      /\ \A r \in base : \E k \in runs : Became(r, k)
  BY <1>8, MergedSound
<1> HIDE DEF runs
<1>10. kept \in Newest(runs) /\ Sound(kept, a)
  BY <1>3, <1>7, <1>9, NewestShort, SoundPart
<1>11. Merges(a, runs)
  BY <1>5, <1>9, <1>10 DEF Merges
<1>12. Retained(a)'
  <2>1. Distinct(base)
    BY <1>8 DEF Sound
  <2>2. /\ worker[a].pc # "idle" /\ worker'[a].pc \notin BeforeRuns
        /\ worker'[a].base.history = worker[a].base.history
        /\ live'[a].history = live[a].history /\ cache'[a].history = cache[a].history
    BY <1>1, <1>5 DEF BeforeRuns
  <2>3. Retained(a)
    BY DEF HistoryInv
  <2> QED  BY <1>1, <1>6, <1>7, <1>11, <2>1, <2>2, <2>3, ObservesRetained
<1>13. \A b \in Backups \ {a} : Stays(b)
  BY <1>1, <1>5 DEF Stays
<1>14. Keeps(live[a].history, live'[a].history)
  BY <1>1, KeepsItself
<1> QED  BY <1>1, <1>5, <1>10, <1>12, <1>13, <1>14, OneStep

\* The other calls of a pass carry the history on.
LEMMA PassHistory ==
  ASSUME TypeInv, OnceInv, OwnInv, HistoryInv, NEW a \in Backups, PassWork(a)
  PROVE  HistoryInv' /\ KeptByStep
<1>1. CASE Observe(a)
  BY <1>1, ObserveHistory
<1>2. ASSUME NEW n, Carries(a, n) PROVE HistoryInv' /\ KeptByStep
  <2>1. PassMoves(a)
    BY PassTyped DEF PassWork
  <2>2. UNCHANGED <<live, cache, jobCache>> /\ jobs \subseteq jobs'
    BY <2>1 DEF PassMoves, Untouched, StartsManual, StartJob
  <2>3. worker'[a] = n /\ \A b \in Backups \ {a} : worker'[b] = worker[b]
    BY <1>2, GotoTyped DEF Carries, TypeInv, WorkersTyped
  <2>4. \A b \in Backups : Stays(b)
    BY <1>2, <2>2, <2>3 DEF Stays, Carries, Copies
  <2>5. \A b \in Backups : Grows(b) /\ Stayed(b)
    BY <2>2, AddedGrows, Zenon
  <2> QED  BY <2>2, <2>4, <2>5, StaysStep
<1> QED  BY <1>1, <1>2, PassCarries

\* A pass begins, with the history the cache shows.
LEMMA BeginHistory ==
  ASSUME TypeInv, OnceInv, OwnInv, HistoryInv, NEW a \in Backups, StartPass(a)
  PROVE  HistoryInv' /\ KeptByStep
<1> DEFINE n == [Idle EXCEPT !.pc = "check", !.obj = cache[a], !.base = cache[a]]
<1>1. UNCHANGED <<live, cache, jobs, jobCache>>
  BY DEF StartPass, objects, caches
<1>2. n.obj = cache[a] /\ n.base = cache[a]
  BY DEF Idle
<1>3. UNCHANGED worker \/ worker' = [worker EXCEPT ![a] = n]
  BY DEF StartPass, Goto
<1> HIDE DEF n
<1>4. CASE UNCHANGED worker
  <2>1. \A b \in Backups : Stays(b) /\ Grows(b) /\ Stayed(b)
    BY <1>1, <1>4, AddedGrows DEF Stays
  <2> QED  BY <1>1, <2>1, StaysStep
<1>5. CASE worker' = [worker EXCEPT ![a] = n]
  <2>1. worker'[a] = n /\ \A b \in Backups \ {a} : worker'[b] = worker[b]
    BY <1>5 DEF TypeInv, WorkersTyped
  <2>2. \A b \in Backups \ {a} : Stays(b)
    BY <1>1, <2>1 DEF Stays
  <2>3. Retained(a)'
    BY <1>1, <1>2, <2>1, BeginsRetained DEF HistoryInv
  <2>4. Keeps(live[a].history, live'[a].history)
    BY <1>1, KeepsItself
  <2>5. /\ live'[a].history = live[a].history /\ cache'[a].history = cache[a].history
        /\ worker'[a].base.history = cache[a].history
        /\ worker'[a].obj.history = cache[a].history
    BY <1>1, <1>2, <2>1
  <2> QED  BY <1>1, <2>2, <2>3, <2>4, <2>5, OneStep
<1> QED  BY <1>3, <1>4, <1>5

\* A pass ends: its history is the object's, or has not been written.
LEMMA EndHistory ==
  ASSUME TypeInv, OnceInv, OwnInv, HistoryInv, NEW a \in Backups, PatchStatus(a) \/ PatchFails(a)
  PROVE  HistoryInv' /\ KeptByStep
<1> DEFINE w == worker[a]  p == Patched(live[a], w.base, w.obj)
<1>1. /\ UNCHANGED <<cache, jobs, jobCache>> /\ w.pc = "patch"
      /\ worker' = [worker EXCEPT ![a] = Idle]
  BY DEF PatchStatus, PatchFails, Goto, objects, caches
<1>2. UNCHANGED live \/ live' = [live EXCEPT ![a] = p]
  BY DEF PatchStatus, PatchFails, objects
<1>3. p.history = IF w.obj.history # w.base.history THEN w.obj.history ELSE live[a].history
  BY BackupParts, PatchedTyped
<1>4. worker'[a] = Idle /\ \A b \in Backups \ {a} : worker'[b] = worker[b]
  BY <1>1 DEF TypeInv, WorkersTyped
<1>5. /\ \/ live'[a].history = live[a].history
         \/ w.obj.history # w.base.history /\ live'[a].history = w.obj.history
      /\ \A b \in Backups \ {a} : live'[b] = live[b]
  <2> HIDE DEF p
  <2> QED  BY <1>2, <1>3 DEF TypeInv, ObjectsTyped
<1>6. Ends(a)
  BY <1>1, <1>4, <1>5, NothingSound DEF Ends
<1>7. Retained(a)' /\ Keeps(live[a].history, live'[a].history)
  BY <1>1, <1>6, EndsRetained DEF HistoryInv
<1>8. \A b \in Backups \ {a} : Stays(b)
  BY <1>1, <1>4, <1>5 DEF Stays
<1>9. /\ live'[a].history \in {live[a].history, w.obj.history}
      /\ cache'[a].history = cache[a].history
      /\ Sound(worker'[a].base.history, a) /\ Sound(worker'[a].obj.history, a)
  BY <1>1, <1>4, <1>5, NothingSound
<1> QED  BY <1>1, <1>7, <1>8, <1>9, OneStep

\* The caches come up to date, also after a restart.
LEMMA SyncHistory ==
  ASSUME TypeInv, OnceInv, OwnInv, HistoryInv, SyncBackups \/ Crash
  PROVE  HistoryInv' /\ KeptByStep
<1>1. UNCHANGED <<live, jobs>> /\ cache' = live
  BY DEF SyncBackups, Crash, objects
<1>2. \/ UNCHANGED <<jobCache, worker>>
      \/ jobCache' = Visible /\ worker' = [b \in Backups |-> Idle]
  BY DEF SyncBackups, Crash
<1>3. \A b \in Backups : Retained(b)'
  <2> SUFFICES ASSUME NEW b \in Backups PROVE Retained(b)'
    OBVIOUS
  <2>1. \/ UNCHANGED jobCache /\ worker'[b] = worker[b]
        \/ jobCache' = Visible /\ worker'[b].pc = "idle"
    BY <1>2, NothingSound
  <2> QED  BY <1>1, <2>1, SyncsRetained DEF HistoryInv
<1>4. \A b \in Backups : Distinct(Reports(jobs, b)) /\ Grows(b)
  <2>1. \A b \in Backups : Grows(b)
    BY <1>1 DEF Grows, Reports, Became
  <2> QED  BY <2>1, ReportsDistinct
<1>5. SoundInv'
  <2>1. UNCHANGED jobCache \/ (jobCache' = Visible /\ UNCHANGED jobs)
    BY <1>1, <1>2
  <2>2. ASSUME NEW b \in Backups
        PROVE  /\ live'[b].history = live[b].history /\ cache'[b].history = live[b].history
               /\ \/ worker'[b] = worker[b]
                  \/ Sound(worker'[b].base.history, b) /\ Sound(worker'[b].obj.history, b)
    BY <1>1, <1>2, NothingSound
  <2> QED  BY <1>4, <2>1, <2>2, SoundStep DEF HistoryInv
<1>6. KeptByStep
  BY <1>1, KeepsItself DEF KeptByStep
<1> QED  BY <1>3, <1>5, <1>6 DEF HistoryInv

\* A backup that is new has had no runs.
LEMMA CreateHistory ==
  ASSUME TypeInv, OnceInv, OwnInv, HistoryInv, NEW a \in Backups, NEW slug \in Slugs \cup {None},
         CreateBackup(a, slug)
  PROVE  HistoryInv' /\ KeptByStep
<1>1. UNCHANGED <<cache, jobs, jobCache, worker>>
  BY DEF CreateBackup, caches
<1>2. live[a].uid = 0
  BY DEF CreateBackup, OnceInv, BackupsInv, UidInv, Made
<1>3. live[a].history = {}
  <2>1. Sound(live[a].history, a)
    BY DEF HistoryInv, SoundInv
  <2>2. Reports(jobs, a) = {}
    BY <1>2 DEF Reports, OwnInv, OwnJob
  <2> QED  BY <2>1, <2>2 DEF Sound
<1>4. live'[a].history = {} /\ \A b \in Backups \ {a} : live'[b] = live[b]
  <2>1. creations + 1 \in Nat /\ clock \in Nat
    BY DEF TypeInv, BoundsTyped
  <2>2. NewBackup(creations + 1, clock, slug).history = {}
    BY <2>1, NewBackupTyped
  <2> QED  BY <2>2 DEF CreateBackup, TypeInv, ObjectsTyped
<1>5. \A b \in Backups : Stays(b)
  BY <1>1, <1>3, <1>4 DEF Stays
<1>6. \A b \in Backups : Grows(b) /\ Stayed(b)
  BY <1>1, AddedGrows, Zenon
<1> QED  BY <1>1, <1>5, <1>6, StaysStep

\* Every step but a deletion keeps the invariant, and what has been recorded.
LEMMA HistoryStep ==
  ASSUME TypeInv, OnceInv, OwnInv, HistoryInv, [Next /\ NobodyDeletes]_vars
  PROVE  HistoryInv' /\ KeptByStep
<1>1. ASSUME \A b \in Backups : live'[b].history = live[b].history, UNCHANGED <<cache, worker>>,
             \A b \in Backups : Grows(b),
             \/ UNCHANGED jobCache /\ \A b \in Backups : Stayed(b)
             \/ jobCache' = Visible /\ UNCHANGED jobs
      PROVE  HistoryInv' /\ KeptByStep
  <2>1. \A b \in Backups : Stays(b)
    BY <1>1 DEF Stays
  <2> QED  BY <1>1, <2>1, StaysStep
<1>2. ASSUME \A b \in Backups : live'[b].history = live[b].history, UNCHANGED <<cache, worker>>,
             \/ UNCHANGED jobCache /\ jobs \subseteq jobs'
             \/ UNCHANGED jobs /\ jobCache' = Visible
      PROVE  HistoryInv' /\ KeptByStep
  <2>1. CASE UNCHANGED jobCache /\ jobs \subseteq jobs'
    <3>1. \A b \in Backups : Grows(b) /\ Stayed(b)
      BY <2>1, AddedGrows, Zenon
    <3> QED  BY <1>1, <1>2, <2>1, <3>1
  <2>2. CASE UNCHANGED jobs /\ jobCache' = Visible
    <3>1. \A b \in Backups : Grows(b)
      BY <2>2 DEF Grows, Reports, Became
    <3> QED  BY <1>1, <1>2, <2>2, <3>1
  <2> QED  BY <1>2, <2>1, <2>2
<1>3. CASE UNCHANGED vars
  BY <1>2, <1>3 DEF vars
<1>4. CASE \E b \in Backups : PassWork(b) \/ StartPass(b) \/ PatchStatus(b) \/ PatchFails(b)
  BY <1>4, PassHistory, BeginHistory, EndHistory
<1>5. CASE SyncBackups \/ Crash
  BY <1>5, SyncHistory
<1>6. CASE \E b \in Backups : FireCronJob(b)
  <2>1. UNCHANGED <<live, cache, jobCache, worker>> /\ jobs \subseteq jobs'
    BY <1>6 DEF FireCronJob, StartJob, caches
  <2> QED  BY <1>2, <2>1
<1>7. CASE \/ \E j \in jobs : ExpireJob(j) \/ \E result \in JobState : FinishJob(j, result)
           \/ CollectJobs
           \/ \E b \in Backups : Cancel(b)
  <2>1. UNCHANGED <<live, cache, jobCache, worker>>
    BY <1>7, JobsStepTurns
  <2>2. \A b \in Backups : Grows(b) /\ Stayed(b)
    BY <1>7, JobsStepGrows
  <2> QED  BY <1>1, <2>1, <2>2
<1>8. CASE \E b \in Backups :
             \/ EditBackup(b) \/ \E slug \in Slugs \cup {None} : EditSlug(b, slug)
             \/ \E c \in Commands : TriggerBackup(c, b)
  <2>1. PICK b \in Backups :
             \/ EditBackup(b) \/ \E slug \in Slugs \cup {None} : EditSlug(b, slug)
             \/ \E c \in Commands : TriggerBackup(c, b)
    BY <1>8
  <2>2. /\ \A o \in Backups : live'[o].history = live[o].history
        /\ UNCHANGED <<cache, jobs, jobCache, worker>>
    BY <2>1, FieldSteps
  <2> QED  BY <1>2, <2>2
<1>9. CASE \E b \in Backups, slug \in Slugs \cup {None} : CreateBackup(b, slug)
  BY <1>9, CreateHistory
<1>10. CASE Elsewhere \/ Tick
  BY <1>2, <1>10, ElsewhereSteps
<1> QED  BY <1>3, <1>4, <1>5, <1>6, <1>7, <1>8, <1>9, <1>10, StepCases DEF NobodyDeletes

\* The backups in force have the uids of their CronJobs and of their last runs, which
\* every copy shows.
LEMMA InitHistory == Init => OwnInv /\ HistoryInv
<1> SUFFICES ASSUME Init PROVE OwnInv /\ HistoryInv
  OBVIOUS
<1>1. TypeInv /\ OnceInv
  BY InitTyped, InitOnce
<1>2. /\ \A b \in Backups : worker[b] = Idle /\ cache[b] = live[b]
      /\ jobs = {LastRun(b) : b \in Finished} /\ jobCache = jobs /\ Finished \subseteq Backups
  BY InputAssumption, ZenonT(30) DEF Init
<1>3. PICK slug \in [Backups -> Slugs \cup {None}] :
        live = [o \in Backups |->
                  IF Standing[o] = 0 THEN NoObject
                  ELSE [NewBackup(Standing[o], 0, slug[o]) EXCEPT
                          !.ready = "Ready",
                          !.history = {RunFromJob(LastRun(f)) : f \in Finished \cap {o}}]]
  BY Zenon DEF Init
<1>4. ASSUME NEW b \in Backups
      PROVE  /\ live[b].uid = Standing[b]
             /\ live[b].history \subseteq {RunFromJob(LastRun(f)) : f \in Finished \cap {b}}
  <2> DEFINE n == NewBackup(Standing[b], 0, slug[b])
             runs == {RunFromJob(LastRun(f)) : f \in Finished \cap {b}}
  <2>1. n \in Object /\ n.uid = Standing[b]
    BY LastRunTyped, NewBackupTyped
  <2>2. CASE Standing[b] = 0
    BY <1>3, <2>2, Zenon DEF NoObject
  <2>3. CASE Standing[b] # 0
    <3>1. live[b] = [n EXCEPT !.ready = "Ready", !.history = runs]
      BY <1>3, <2>3, Zenon
    <3> HIDE DEF n, runs
    <3>2. live[b].uid = Standing[b] /\ live[b].history = runs
      BY <2>1, <3>1 DEF Object
    <3> QED  BY <3>2 DEF runs
  <2> QED  BY <2>2, <2>3
<1>5. ASSUME NEW f \in Finished
      PROVE  /\ f \in Backups /\ Standing[f] # 0 /\ ~LastRun(f).gone
             /\ LastRun(f).backup = f /\ LastRun(f).owner = Standing[f]
  BY InputAssumption DEF LastRun
<1>6. OwnInv
  <2>1. ASSUME NEW a \in Backups, NEW b \in Backups, live[a].uid = live[b].uid, live[a].uid # 0
        PROVE  a = b
    BY <1>4, <2>1, InputAssumption
  <2>2. ASSUME NEW b \in Backups PROVE Own(b)
    <3>1. cron[b] = IF Standing[b] = 0 THEN NoCronJob ELSE Rendered(live[b], Standing[b])
      BY Zenon DEF Init
    <3>2. cron[b].exists => /\ Standing[b] # 0 /\ cron[b].uid = Standing[b]
                            /\ cron[b].owner = live[b].uid
      BY <3>1 DEF NoCronJob, Rendered
    <3> QED  BY <1>2, <1>4, <3>2, NothingSound DEF Own
  <2>3. ASSUME NEW j \in jobs PROVE OwnJob(j)
    <3>1. PICK f \in Finished : j = LastRun(f)
      BY <1>2
    <3>2. cron[f] = Rendered(live[f], Standing[f])
      BY <1>5, Zenon DEF Init
    <3> QED  BY <1>4, <1>5, <3>1, <3>2 DEF OwnJob, Rendered
  <2> QED  BY <1>2, <2>1, <2>2, <2>3 DEF OwnInv, OwnJob
<1>7. Visible = jobs
  BY <1>2, <1>5 DEF Visible
<1>8. ASSUME NEW b \in Backups
      PROVE  /\ live[b].history \subseteq Seen(b) /\ Seen(b) = Reports(jobs, b)
             /\ Shown(b) = Seen(b)
  <2>1. \A f \in Finished \cap {b} : RunFromJob(LastRun(f)) \in Reports(jobs, b)
    BY <1>2, <1>5 DEF Reports
  <2>2. Seen(b) = Reports(jobs, b) /\ Shown(b) = Seen(b)
    BY <1>2, <1>7 DEF Seen, Shown
  <2> QED  BY <1>4, <2>1, <2>2
<1>9. ASSUME NEW b \in Backups, NEW x, x \subseteq Seen(b) PROVE Sound(x, b)
  <2>1. Distinct(Reports(jobs, b))
    BY <1>1, <1>6, ReportsDistinct
  <2> QED  BY <1>8, <1>9, <2>1 DEF Sound, Distinct, Became
<1>10. SoundInv
  <2> SUFFICES ASSUME NEW b \in Backups
               PROVE  /\ Sound(live[b].history, b) /\ Sound(cache[b].history, b)
                      /\ Sound(worker[b].base.history, b) /\ Sound(worker[b].obj.history, b)
                      /\ Sound(Seen(b), b)
    BY DEF SoundInv
  <2> QED  BY <1>2, <1>8, <1>9, NothingSound
<1>11. \A b \in Backups : Retained(b)
  <2> SUFFICES ASSUME NEW b \in Backups PROVE Retained(b)
    OBVIOUS
  <2>1. Lags(b)
    <3>1. cache[b].history = live[b].history
      BY <1>2
    <3>2. \A x : Keeps(Seen(b) \ Shown(b), x)
      BY <1>8 DEF Keeps
    <3> QED  BY <3>1, <3>2, KeepsItself DEF Lags
  <2> QED  BY <1>2, <2>1, NothingSound DEF Retained
<1> QED  BY <1>6, <1>10, <1>11 DEF HistoryInv

\* While nobody deletes a backup, no pass loses what status.history has recorded, though it
\* writes the whole list over whatever is there from a cached copy that may be behind, and
\* fails or restarts anywhere: a finished run leaves it only when newer ones fill it.
THEOREM HistoryIsKept == Spec /\ [][NobodyDeletes]_vars => HistoryKept
<1> DEFINE I == TypeInv /\ OnceInv /\ OwnInv /\ HistoryInv
           Kept == \A b \in Backups : live'[b].uid = live[b].uid =>
                     \A r \in live[b].history : r.result # "Running" /\ r \notin live'[b].history =>
                       /\ Cardinality(live'[b].history) = HistoryLimit
                       /\ \A k \in live'[b].history : k.start >= r.start
<1>1. Init => I
  BY InitTyped, InitOnce, InitHistory
<1>2. I /\ [Next]_vars /\ [NobodyDeletes]_vars => I'
  BY TypeStep, OnceStep, OwnStep, HistoryStep
<1>3. I /\ [Next]_vars /\ [NobodyDeletes]_vars => [Kept]_vars
  <2> SUFFICES ASSUME I, [Next]_vars, [NobodyDeletes]_vars PROVE Kept
    OBVIOUS
  <2>1. KeptByStep
    BY HistoryStep
  <2> QED  BY <2>1 DEF KeptByStep, Keeps, Covers, Ended
<1>4. HistoryKept <=> [][Kept]_vars
  BY DEF HistoryKept
<1> HIDE DEF I, Kept
<1> QED  BY <1>1, <1>2, <1>3, <1>4, PTL DEF Spec
===============================================================================
