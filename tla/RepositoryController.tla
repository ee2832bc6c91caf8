------------------------- MODULE RepositoryController -------------------------
(***************************************************************************)
(* The Repository reconciler of internal/controller and everything it acts *)
(* on: the Repository objects of the API server and the informer cache     *)
(* that lags them, the credentials Secrets, the init Jobs, and the         *)
(* repositories BorgBase hosts.                                            *)
(*                                                                         *)
(* One pass of Reconcile is a sequence of steps of worker[r], one step per *)
(* call that can fail or that others can run in between.  controller-      *)
(* runtime never runs two passes for the same key, and runs up to four     *)
(* passes for different keys.  The pass works on a copy of the cached      *)
(* object and writes the fields of the status it changed at its end, so    *)
(* everything it knows may be stale.                                       *)
(***************************************************************************)
EXTENDS Naturals, FiniteSets

CONSTANTS
  Repos,        \* Repository resources, by namespace/name
  RemoteIds,    \* the IDs BorgBase may give to a repository
  Passwords,    \* restic passwords: generated ones and those of seed Secrets
  Names,        \* BorgBase repository names
  None,         \* no ID, no password, no name
  RemoteName,   \* [Repos -> Names]: RepositoryName(), the namespace by default
  Existing,     \* [Repos -> RemoteIds or None]: spec.existingRepositoryID
  Seed,         \* [Repos -> Passwords or None]: the value behind passwordSecretRef
  Rank,         \* [Repos -> Nat]: the order of the namespace/name pairs
  Policies,     \* the deletion policies a Repository may be created with
  Preexisting,  \* set of [RemoteIds -> Remote]: BorgBase before the operator starts
  AdminOps,     \* what administrators do in this instance
  Faults,       \* the kinds of failure of this instance
  MaxCreations, \* bound: creations of Repository objects
  MaxAdminOps,  \* bound: other administrative operations
  MaxFaults     \* bound: failures

VARIABLES
  live,      \* [Repos -> Object]: the Repository objects of the API server
  cache,     \* [Repos -> Object]: the operator's informer cache of them
  secret,    \* [Repos -> Secret]: the credentials Secrets (read uncached)
  job,       \* [Repos -> Job]: the init Jobs
  jobCache,  \* [Repos -> JobState]: the operator's informer cache of them
  remote,    \* [RemoteIds -> Remote]: what BorgBase holds
  late,      \* Repositories with an abandoned Add request BorgBase has yet to run
  worker,    \* [Repos -> Worker]: the pass in progress
  creations, clock, adminOps, faults,   \* bounds, and the second of the last creation
  doomed,    \* history: IDs whose destruction a deletion under Delete asked for
  stored     \* history: [RemoteIds -> passwords ever stored in a Secret for it]

apiVars   == <<live, secret, job>>
cacheVars == <<cache, jobCache>>
borgbase  == <<remote, late>>
bounds    == <<creations, clock, adminOps, faults>>
history   == <<doomed, stored>>
vars == <<apiVars, cacheVars, borgbase, worker, bounds, history>>

-------------------------------------------------------------------------------
(* Values *)

Policy == {"Retain", "Delete"}
Ready  == {"Unknown", "Ready", "Suspended", "APITokenUnavailable", "ReconcileFailed",
           "RepositoryConflict", "Initializing"}
JobState == {"None", "Running", "Succeeded", "Failed"}
Pcs == {"idle", "finalizer", "resolve", "add", "claim", "secret", "init", "patch",
        "destroy", "release"}

\* uid tells the incarnations of a name apart; born is the creationTimestamp,
\* whose unit is the second. id, adopted, initialized and ready are the status.
Object == [exists : BOOLEAN, uid : Nat, born : Nat, deleting : BOOLEAN,
           finalizer : BOOLEAN, suspend : BOOLEAN, policy : Policy,
           id : RemoteIds \cup {None}, adopted : BOOLEAN, initialized : BOOLEAN,
           ready : Ready]
\* owner is the uid of the controller reference, 0 when there is none.
Secret == [exists : BOOLEAN, id : RemoteIds \cup {None},
           password : Passwords \cup {None}, owner : Nat]
\* env is what the pod read from the Secret when its container started.
Env == [id : RemoteIds, password : Passwords]
NoEnv == [id |-> None, password |-> None]
Job == [state : JobState, owner : Nat, env : Env \cup {NoEnv}]
\* keys are the passwords that open the restic repository, {} before restic
\* init; used is CurrentUsage > 0. "destroyed" is the operator's doing,
\* "removed" an administrator's on borgbase.com.
Remote == [state : {"unborn", "live", "destroyed", "removed"}, name : Names \cup {None},
           restic : BOOLEAN, keys : SUBSET Passwords, used : BOOLEAN]
Worker == [pc : Pcs, obj : Object, base : Object, target : RemoteIds \cup {None},
           known : BOOLEAN, used : BOOLEAN]

NoObject == [exists |-> FALSE, uid |-> 0, born |-> 0, deleting |-> FALSE,
             finalizer |-> FALSE, suspend |-> FALSE, policy |-> "Retain", id |-> None,
             adopted |-> FALSE, initialized |-> FALSE, ready |-> "Unknown"]
NoSecret == [exists |-> FALSE, id |-> None, password |-> None, owner |-> 0]
NoJob == [state |-> "None", owner |-> 0, env |-> NoEnv]
Idle == [pc |-> "idle", obj |-> NoObject, base |-> NoObject, target |-> None,
         known |-> FALSE, used |-> FALSE]

\* The CRD's validation rule: adopting needs a passwordSecretRef.
ASSUME InputAssumption ==
  /\ RemoteName \in [Repos -> Names]
  /\ Existing \in [Repos -> RemoteIds \cup {None}]
  /\ Seed \in [Repos -> Passwords \cup {None}]
  /\ Rank \in [Repos -> Nat]
  /\ Policies \subseteq Policy
  /\ Preexisting \subseteq [RemoteIds -> Remote]
  /\ \A f \in Preexisting, i \in RemoteIds : f[i].state \in {"unborn", "live"}
  /\ None \notin RemoteIds /\ None \notin Passwords /\ None \notin Names
  /\ \A r \in Repos : Existing[r] # None => Seed[r] # None

Init ==
  /\ live = [r \in Repos |-> NoObject]
  /\ cache = [r \in Repos |-> NoObject]
  /\ secret = [r \in Repos |-> NoSecret]
  /\ job = [r \in Repos |-> NoJob]
  /\ jobCache = [r \in Repos |-> "None"]
  /\ remote \in Preexisting
  /\ late = {}
  /\ worker = [r \in Repos |-> Idle]
  /\ creations = 0 /\ clock = 0 /\ adminOps = 0 /\ faults = 0
  /\ doomed = {}
  /\ stored = [i \in RemoteIds |-> {}]

-------------------------------------------------------------------------------
(* Helpers *)

\* History: the IDs recorded in objects that are being deleted under Delete.
Doomed(objects) ==
  {objects[r].id : r \in {q \in Repos : objects[q].deleting /\ objects[q].policy = "Delete"}}
  \ {None}

NoteDoomed == doomed' = doomed \cup Doomed(live') /\ UNCHANGED stored

Fault(kind) == kind \in Faults /\ faults < MaxFaults /\ faults' = faults + 1

Goto(r, w) == worker' = [worker EXCEPT ![r] = w]

At(w, pc) == [w EXCEPT !.pc = pc]

\* The condition is set on the working copy, and whatever the pass has put in its
\* status so far is patched with it; an error of reconcile ends the same way.
Settle(w, condition) == [w EXCEPT !.pc = "patch", !.obj.ready = condition]
Failed(w) == Settle(w, "ReconcileFailed")

\* A call took effect; its reply reached the operator, or did not.
Replied(r, reply, w) ==
  \/ reply = "ok" /\ Goto(r, w) /\ UNCHANGED faults
  \/ reply = "lost" /\ Fault("lostReply") /\ Goto(r, Failed(worker[r]))

\* The rest of Reconcile once the finalizer is there, on the copy o.
EnterPass(o) ==
  LET w == [pc |-> "resolve", obj |-> o, base |-> o, target |-> None,
            known |-> o.id # None \/ o.initialized, used |-> FALSE]
  IN  IF o.suspend THEN Settle(w, "Suspended") ELSE w

\* finalize calls BorgBase only under Delete, for the ID it has recorded.
DestroysAnyRecorded(o) == o.id # None
DestroysRemote(o) == o.policy = "Delete" /\ o.id # None

\* A pass begins with the cached object.
StartPass(r) ==
  LET o == cache[r]
      w == [Idle EXCEPT !.obj = o, !.base = o]
  IN  /\ worker[r].pc = "idle"
      /\ o.exists
      /\ \/ /\ o.deleting /\ o.finalizer
            /\ Goto(r, At(w, IF DestroysRemote(o) THEN "destroy" ELSE "release"))
         \/ ~o.deleting /\ ~o.finalizer /\ Goto(r, At(w, "finalizer"))
         \/ ~o.deleting /\ o.finalizer /\ Goto(r, EnterPass(o))
      /\ UNCHANGED <<apiVars, cacheVars, borgbase, bounds, history>>

\* The patch's reply replaces the working copy: the pass goes on with the
\* object of the API server, deleted or not. An object that is gone ends it.
AddFinalizer(r) ==
  /\ worker[r].pc = "finalizer"
  /\ IF live[r].exists
     THEN /\ live' = [live EXCEPT ![r].finalizer = TRUE]
          /\ Goto(r, EnterPass(live'[r]))
     ELSE Goto(r, Idle) /\ UNCHANGED live
  /\ UNCHANGED <<secret, job, cacheVars, borgbase, bounds, history>>

-------------------------------------------------------------------------------
(* reconcile: which BorgBase repository *)

Hosted(i) == remote[i].state = "live"

Resolved(w, i, used, adopts) ==
  [w EXCEPT !.pc = "claim", !.target = i, !.used = used, !.obj.adopted = @ \/ adopts]

Found(r, i) == Goto(r, Resolved(worker[r], i, remote[i].used, Existing[r] # None))

ResolveExisting(r) ==
  LET e == Existing[r] IN
  /\ worker[r].pc = "resolve"
  /\ e # None
  /\ IF worker[r].obj.id \in {None, e} /\ Hosted(e)
     THEN Found(r, e) ELSE Goto(r, Failed(worker[r]))
  /\ UNCHANGED <<apiVars, cacheVars, borgbase, bounds, history>>

\* The variant that provisions again what BorgBase does not find.
ResolveRecordedOrAdd(r) ==
  LET i == worker[r].obj.id IN
  /\ worker[r].pc = "resolve"
  /\ Existing[r] = None /\ i # None
  /\ IF Hosted(i) THEN Found(r, i) ELSE Goto(r, At(worker[r], "add"))
  /\ UNCHANGED <<apiVars, cacheVars, borgbase, bounds, history>>

\* A recorded ID that BorgBase no longer knows is an error, never a reason to Add.
ResolveRecorded(r) ==
  LET i == worker[r].obj.id IN
  /\ worker[r].pc = "resolve"
  /\ Existing[r] = None /\ i # None
  /\ IF Hosted(i) THEN Found(r, i) ELSE Goto(r, Failed(worker[r]))
  /\ UNCHANGED <<apiVars, cacheVars, borgbase, bounds, history>>

\* FindByName; the variant never finds anything.
NamedUnseen(n) == {i \in RemoteIds : FALSE}
Named(n) == {i \in RemoteIds : Hosted(i) /\ remote[i].name = n}

ResolveByName(r) ==
  LET named == Named(RemoteName[r]) IN
  /\ worker[r].pc = "resolve"
  /\ Existing[r] = None /\ worker[r].obj.id = None
  /\ \/ named = {} /\ Goto(r, At(worker[r], "add"))
     \/ \E i \in named : named = {i} /\ Found(r, i)
     \/ (\E i, j \in named : i # j) /\ Goto(r, Failed(worker[r]))
  /\ UNCHANGED <<apiVars, cacheVars, borgbase, bounds, history>>

\* BorgBase creates a repository under an ID it never used.
CreateRemote(r, i) ==
  /\ remote[i].state = "unborn"
  /\ remote' = [remote EXCEPT ![i] = [state |-> "live", name |-> RemoteName[r],
                                      restic |-> TRUE, keys |-> {}, used |-> FALSE]]

Add(r, i, reply) ==
  /\ worker[r].pc = "add"
  /\ CreateRemote(r, i)
  /\ Replied(r, reply, Resolved(worker[r], i, FALSE, FALSE))
  /\ UNCHANGED <<apiVars, cacheVars, late, creations, clock, adminOps, history>>

\* The client gives up after 30 seconds on a request BorgBase still runs.
AbandonAdd(r) ==
  /\ worker[r].pc = "add"
  /\ Fault("lateAdd")
  /\ late' = late \cup {r}
  /\ Goto(r, Failed(worker[r]))
  /\ UNCHANGED <<apiVars, cacheVars, remote, creations, clock, adminOps, history>>

LateAdd(r, i) ==
  /\ r \in late
  /\ CreateRemote(r, i)
  /\ late' = late \ {r}
  /\ UNCHANGED <<apiVars, cacheVars, worker, bounds, history>>

\* olderRepository: ties of the creation second go to the smaller namespace/name.
Older(a, ra, b, rb) == a.born < b.born \/ (a.born = b.born /\ Rank[ra] < Rank[rb])

\* managedID; the variant looks at the status only.
RecordedId(o, r) == o.id
ManagedId(o, r) == IF o.id # None THEN o.id ELSE Existing[r]

\* repositoryConflict lists the cache, of every namespace.
ConflictWith(r, i) ==
  {o \in Repos \ {r} : /\ cache[o].exists /\ ~cache[o].deleting
                       /\ ManagedId(cache[o], o) = i
                       /\ Older(cache[o], o, worker[r].obj, r)}

Recorded(w) == [w EXCEPT !.pc = "secret", !.obj.id = w.target]

\* The format, the conflict, the settings (an Edit, whose fields are not
\* modelled) and the ID recorded in the working copy.
Claim(r) ==
  LET w == worker[r]  i == w.target IN
  /\ w.pc = "claim"
  /\ \/ ~remote[i].restic /\ Goto(r, Failed(w))
     \/ /\ remote[i].restic /\ ConflictWith(r, i) # {}
        /\ Goto(r, Settle(w, "RepositoryConflict"))
     \/ /\ remote[i].restic /\ ConflictWith(r, i) = {}
        /\ Goto(r, Recorded(w))
  /\ UNCHANGED <<apiVars, cacheVars, borgbase, bounds, history>>

-------------------------------------------------------------------------------
(* reconcile: the credentials Secret *)

\* GeneratePassword draws 32 random characters: a password nobody has.
Fresh == Passwords \ (UNION {stored[i] : i \in RemoteIds}
                      \cup UNION {remote[i].keys : i \in RemoteIds}
                      \cup {Seed[r] : r \in Repos})

\* A provisioned repository has a password somewhere. The variants forget that
\* this resource provisioned it, and also that it has snapshots.
RefusesForgetful(w) == w.obj.adopted \/ w.used
RefusesAdopted(w) == w.obj.adopted
Refuses(w) == w.obj.adopted \/ w.known \/ w.used

\* The password of the Secret as it is, else the seed, else a new one unless
\* the repository has been provisioned before.
PasswordFor(r) ==
  CASE secret[r].exists -> {secret[r].password}
    [] ~secret[r].exists /\ Seed[r] # None -> {Seed[r]}
    [] ~secret[r].exists /\ Seed[r] = None /\ Refuses(worker[r]) -> {}
    [] OTHER -> Fresh

\* The controller reference is set under Delete and taken away under Retain; the
\* variant always sets it.
OwnerAlways(o) == o.uid
OwnerFor(o) == IF o.policy = "Delete" THEN o.uid ELSE 0

\* Create fails if the Secret exists and Update if it changed since the Get, so
\* reading and writing are one step.
WriteSecret(r, p, reply) ==
  LET w == worker[r] IN
  /\ w.pc = "secret"
  /\ p \in PasswordFor(r)
  /\ secret' = [secret EXCEPT ![r] =
       [exists |-> TRUE, id |-> w.target, password |-> p,
        owner |-> OwnerFor(w.obj)]]
  /\ Replied(r, reply, At(w, "init"))
  /\ stored' = [stored EXCEPT ![w.target] = @ \cup {p}]
  /\ UNCHANGED <<live, job, cacheVars, borgbase, creations, clock, adminOps, doomed>>

RefuseSecret(r) ==
  /\ worker[r].pc = "secret"
  /\ ~secret[r].exists /\ Seed[r] = None /\ Refuses(worker[r])
  /\ Goto(r, Failed(worker[r]))
  /\ UNCHANGED <<apiVars, cacheVars, borgbase, bounds, history>>

-------------------------------------------------------------------------------
(* reconcile: the init Job *)

\* deleteJob names the Job and sends no precondition: it deletes the Job of
\* that name, whichever the cache showed. The variants leave the Job there,
\* untouched or waiting for its pods.
DeleteJobNever(r) == UNCHANGED job
DeleteJobForeground(r) == job' = [job EXCEPT ![r].state = "Deleting"]
DeleteJob(r) == job' = [job EXCEPT ![r] = NoJob]

\* Already initialized: the Job of the last initialization is removed.
CleanupInitJob(r, reply) ==
  LET w == worker[r] IN
  /\ w.pc = "init" /\ w.obj.initialized
  /\ IF jobCache[r] # "None" THEN DeleteJob(r) ELSE reply = "ok" /\ UNCHANGED job
  /\ Replied(r, reply, Settle(w, "Ready"))
  /\ UNCHANGED <<live, secret, cacheVars, borgbase, creations, clock, adminOps, history>>

\* No Job in the cache: Create, which leaves a Job of that name alone.
CreateInitJob(r, reply) ==
  LET w == worker[r] IN
  /\ w.pc = "init" /\ ~w.obj.initialized /\ jobCache[r] = "None"
  /\ IF job[r].state = "None"
     THEN job' = [job EXCEPT ![r] = [state |-> "Running", owner |-> w.obj.uid,
                                     env |-> NoEnv]]
     ELSE UNCHANGED job
  /\ Replied(r, reply, Settle(w, "Initializing"))
  /\ UNCHANGED <<live, secret, cacheVars, borgbase, creations, clock, adminOps, history>>

\* Running, or failed less than five minutes ago.
AwaitInitJob(r) ==
  LET w == worker[r] IN
  /\ w.pc = "init" /\ ~w.obj.initialized /\ jobCache[r] \in {"Running", "Failed"}
  /\ Goto(r, Settle(w, "Initializing"))
  /\ UNCHANGED <<apiVars, cacheVars, borgbase, bounds, history>>

RetryInitJob(r, reply) ==
  LET w == worker[r] IN
  /\ w.pc = "init" /\ ~w.obj.initialized /\ jobCache[r] = "Failed"
  /\ DeleteJob(r)
  /\ Replied(r, reply, Settle(w, "Initializing"))
  /\ UNCHANGED <<live, secret, cacheVars, borgbase, creations, clock, adminOps, history>>

\* The Job is known by its name alone, whoever owns it. The variant takes any
\* finished Job for a successful one.
InitFinished(r) == jobCache[r] \in {"Succeeded", "Failed"}
InitSucceeded(r) == jobCache[r] = "Succeeded"

Initialized(w) == [Settle(w, "Ready") EXCEPT !.obj.initialized = TRUE]

RecordInitialized(r) ==
  LET w == worker[r] IN
  /\ w.pc = "init" /\ ~w.obj.initialized /\ InitSucceeded(r)
  /\ Goto(r, Initialized(w))
  /\ UNCHANGED <<apiVars, cacheVars, borgbase, bounds, history>>

-------------------------------------------------------------------------------
(* The end of a pass *)

\* A JSON merge patch of the fields the pass changed, without a precondition.
Merged(o, base, new) ==
  [o EXCEPT !.id = IF new.id # base.id THEN new.id ELSE @,
            !.adopted = IF new.adopted # base.adopted THEN new.adopted ELSE @,
            !.initialized = IF new.initialized # base.initialized
                            THEN new.initialized ELSE @,
            !.ready = IF new.ready # base.ready THEN new.ready ELSE @]

PatchStatus(r) ==
  LET w == worker[r] IN
  /\ w.pc = "patch"
  /\ live' = IF live[r].exists
             THEN [live EXCEPT ![r] = Merged(@, w.base, w.obj)] ELSE live
  /\ Goto(r, Idle)
  /\ UNCHANGED <<secret, job, cacheVars, borgbase, bounds>>
  /\ NoteDoomed

Destroyed(i) == remote' = [remote EXCEPT ![i].state = "destroyed", ![i].keys = {}, ![i].used = FALSE]

\* The variant takes ErrNotFound for a failure.
DestroyStrict(r, reply) ==
  LET w == worker[r]  i == w.obj.id IN
  /\ w.pc = "destroy"
  /\ IF Hosted(i)
     THEN /\ Destroyed(i)
          /\ \/ reply = "ok" /\ Goto(r, At(w, "release")) /\ UNCHANGED faults
             \/ reply = "lost" /\ Fault("lostReply") /\ Goto(r, Idle)
     ELSE UNCHANGED <<remote, faults>> /\ Goto(r, Idle)
  /\ UNCHANGED <<apiVars, cacheVars, late, creations, clock, adminOps, history>>

\* BorgBase reports the ID gone, or removes it and every snapshot. A finalize
\* that fails leaves the status alone and is tried again.
Destroy(r, reply) ==
  LET w == worker[r]  i == w.obj.id IN
  /\ w.pc = "destroy"
  /\ IF Hosted(i) THEN Destroyed(i) ELSE UNCHANGED remote
  /\ \/ reply = "ok" /\ Goto(r, At(w, "release")) /\ UNCHANGED faults
     \/ reply = "lost" /\ Fault("lostReply") /\ Goto(r, Idle)
  /\ UNCHANGED <<apiVars, cacheVars, late, creations, clock, adminOps, history>>

\* The finalizer goes; the API server removes an object that was only waiting
\* for it. The patch names the object and not its incarnation.
Release(r) ==
  /\ worker[r].pc = "release"
  /\ live' = [live EXCEPT ![r] = IF @.deleting THEN NoObject ELSE [@ EXCEPT !.finalizer = FALSE]]
  /\ Goto(r, Idle)
  /\ UNCHANGED <<secret, job, cacheVars, borgbase, bounds, history>>

-------------------------------------------------------------------------------
(* Failures *)

\* A call of reconcile fails without effect.
CallFails(r) ==
  LET w == worker[r] IN
  /\ \/ w.pc \in {"resolve", "add", "secret"}
     \/ w.pc = "claim" /\ remote[w.target].restic /\ ConflictWith(r, w.target) = {}
     \/ w.pc = "init" /\ jobCache[r] # IF w.obj.initialized THEN "None" ELSE "Running"
  /\ Fault("apiError")
  /\ Goto(r, Failed(w))
  /\ UNCHANGED <<apiVars, cacheVars, borgbase, creations, clock, adminOps, history>>

\* A call outside reconcile fails without effect: the pass ends there.
PassFails(r) ==
  /\ worker[r].pc \in {"finalizer", "patch", "destroy", "release"}
  /\ Fault("apiError")
  /\ Goto(r, Idle)
  /\ UNCHANGED <<apiVars, cacheVars, borgbase, creations, clock, adminOps, history>>

\* apiFor finds no API token, before reconcile or before the destruction.
TokenUnavailable(r) ==
  /\ worker[r].pc \in {"resolve", "destroy"}
  /\ Fault("noToken")
  /\ Goto(r, Settle(worker[r], "APITokenUnavailable"))
  /\ UNCHANGED <<apiVars, cacheVars, borgbase, creations, clock, adminOps, history>>

\* The operator restarts, or another replica becomes the leader: every pass is
\* lost, and the caches are listed anew.
Crash ==
  /\ Fault("crash")
  /\ worker' = [r \in Repos |-> Idle]
  /\ cache' = live
  /\ jobCache' = [r \in Repos |-> job[r].state]
  /\ UNCHANGED <<apiVars, borgbase, creations, clock, adminOps, history>>

-------------------------------------------------------------------------------
(* The cluster around the operator *)

\* One watch per kind delivers its events in order, so a cache is the whole
\* kind as it was at some moment.
SyncRepositories ==
  /\ cache # live
  /\ cache' = live
  /\ UNCHANGED <<apiVars, jobCache, borgbase, worker, bounds, history>>

JobStates == [r \in Repos |-> job[r].state]

SyncJobs ==
  /\ jobCache # JobStates
  /\ jobCache' = JobStates
  /\ UNCHANGED <<apiVars, cache, borgbase, worker, bounds, history>>

\* The container reads the Secret when it starts, and waits for one.
StartPod(r) ==
  /\ job[r].state = "Running" /\ job[r].env = NoEnv
  /\ secret[r].exists
  /\ job' = [job EXCEPT ![r].env = [id |-> secret[r].id, password |-> secret[r].password]]
  /\ UNCHANGED <<live, secret, cacheVars, borgbase, worker, bounds, history>>

\* restic cat config || restic init: an empty repository gets the pod's
\* password as its key, any other must open with it.
RunInit(r) ==
  LET i == job[r].env.id  p == job[r].env.password IN
  /\ job[r].state = "Running" /\ job[r].env # NoEnv
  /\ IF Hosted(i) /\ remote[i].keys \subseteq {p}
     THEN /\ remote' = [remote EXCEPT ![i].keys = {p}]
          /\ job' = [job EXCEPT ![r].state = "Succeeded"]
     ELSE UNCHANGED remote /\ job' = [job EXCEPT ![r].state = "Failed"]
  /\ UNCHANGED <<live, secret, cacheVars, late, worker, bounds, history>>

\* The pods of the Job fail, after restic init or before it.
InitJobFails(r) ==
  LET i == job[r].env.id  p == job[r].env.password IN
  /\ job[r].state = "Running" /\ job[r].env # NoEnv
  /\ Fault("podFailure")
  /\ job' = [job EXCEPT ![r].state = "Failed"]
  /\ \/ UNCHANGED remote
     \/ Hosted(i) /\ remote[i].keys = {} /\ remote' = [remote EXCEPT ![i].keys = {p}]
  /\ UNCHANGED <<live, secret, cacheVars, late, worker, creations, clock, adminOps, history>>

\* A finished Job outlives its TTL of an hour. Until its result is recorded,
\* which takes a pass, that is an outage of the operator.
ExpireJob(r) ==
  /\ job[r].state \in {"Succeeded", "Failed"}
  /\ IF live[r].initialized THEN UNCHANGED faults ELSE Fault("outage")
  /\ DeleteJob(r)
  /\ UNCHANGED <<live, secret, cacheVars, borgbase, worker, creations, clock, adminOps, history>>

\* The garbage collector removes what an owner that is gone leaves behind.
CollectSecret(r) ==
  /\ secret[r].owner \notin {0, live[r].uid}
  /\ secret' = [secret EXCEPT ![r] = NoSecret]
  /\ UNCHANGED <<live, job, cacheVars, borgbase, worker, bounds, history>>

CollectJob(r) ==
  /\ job[r].owner \notin {0, live[r].uid}
  /\ DeleteJob(r)
  /\ UNCHANGED <<live, secret, cacheVars, borgbase, worker, bounds, history>>

\* A backup with a Secret that opens the repository stores the first snapshot.
Backup(r) ==
  LET i == secret[r].id IN
  /\ secret[r].exists /\ Hosted(i) /\ ~remote[i].used
  /\ secret[r].password \in remote[i].keys
  /\ remote' = [remote EXCEPT ![i].used = TRUE]
  /\ UNCHANGED <<apiVars, cacheVars, late, worker, bounds, history>>

-------------------------------------------------------------------------------
(* Administrators *)

Admin(op) == op \in AdminOps /\ adminOps < MaxAdminOps /\ adminOps' = adminOps + 1

Created(uid, born, policy) ==
  [NoObject EXCEPT !.exists = TRUE, !.uid = uid, !.born = born, !.policy = policy]

CreateRepository(r, policy, second) ==
  /\ ~live[r].exists
  /\ creations < MaxCreations /\ creations' = creations + 1
  /\ policy \in Policies
  /\ second \in (IF creations = 0 THEN {clock} ELSE {clock, clock + 1}) /\ clock' = second
  /\ live' = [live EXCEPT ![r] = Created(creations + 1, second, policy)]
  /\ UNCHANGED <<secret, job, cacheVars, borgbase, worker, adminOps, faults, history>>

DeleteRepository(r) ==
  /\ Admin("delete")
  /\ live[r].exists /\ ~live[r].deleting
  /\ live' = [live EXCEPT ![r] = IF @.finalizer THEN [@ EXCEPT !.deleting = TRUE] ELSE NoObject]
  /\ UNCHANGED <<secret, job, cacheVars, borgbase, worker, creations, clock, faults>>
  /\ NoteDoomed

SetPolicy(r, policy) ==
  /\ Admin("policy")
  /\ live[r].exists /\ live[r].policy # policy
  /\ live' = [live EXCEPT ![r].policy = policy]
  /\ UNCHANGED <<secret, job, cacheVars, borgbase, worker, creations, clock, faults>>
  /\ NoteDoomed

ToggleSuspend(r) ==
  /\ Admin("suspend")
  /\ live[r].exists
  /\ live' = [live EXCEPT ![r].suspend = ~@]
  /\ UNCHANGED <<secret, job, cacheVars, borgbase, worker, creations, clock, faults, history>>

\* The operator has seen the recorded ID and no pass is under way: when
\* administrators of these instances take things away behind its back.
Settled(r) == worker[r].pc = "idle" /\ cache[r].id # None /\ cache[r].id = live[r].id

LoseSecret(r) ==
  /\ Admin("loseSecret")
  /\ secret[r].exists /\ Settled(r)
  /\ secret' = [secret EXCEPT ![r] = NoSecret]
  /\ UNCHANGED <<live, job, cacheVars, borgbase, worker, creations, clock, faults, history>>

RemoveRemote(r) ==
  LET i == live[r].id IN
  /\ Admin("removeRemote")
  /\ Settled(r) /\ Hosted(i)
  /\ remote' = [remote EXCEPT ![i].state = "removed", ![i].keys = {}, ![i].used = FALSE]
  /\ UNCHANGED <<apiVars, cacheVars, late, worker, creations, clock, faults, history>>

-------------------------------------------------------------------------------
(* Specification *)

Replies == {"ok", "lost"}

\* The steps of a pass whose calls succeed.
PassStep(r) ==
  \/ StartPass(r) \/ AddFinalizer(r)
  \/ ResolveExisting(r) \/ ResolveRecorded(r) \/ ResolveByName(r)
  \/ \E i \in RemoteIds : Add(r, i, "ok")
  \/ Claim(r)
  \/ \E p \in Passwords : WriteSecret(r, p, "ok")
  \/ RefuseSecret(r)
  \/ CleanupInitJob(r, "ok") \/ CreateInitJob(r, "ok") \/ AwaitInitJob(r)
  \/ RetryInitJob(r, "ok") \/ RecordInitialized(r)
  \/ PatchStatus(r) \/ Destroy(r, "ok") \/ Release(r)

ReplyLost(r) ==
  \/ \E i \in RemoteIds : Add(r, i, "lost")
  \/ \E p \in Passwords : WriteSecret(r, p, "lost")
  \/ CleanupInitJob(r, "lost") \/ CreateInitJob(r, "lost") \/ RetryInitJob(r, "lost")
  \/ Destroy(r, "lost")

Failure(r) == AbandonAdd(r) \/ CallFails(r) \/ PassFails(r) \/ TokenUnavailable(r)

Cluster(r) ==
  \/ StartPod(r) \/ RunInit(r) \/ InitJobFails(r) \/ ExpireJob(r)
  \/ CollectSecret(r) \/ CollectJob(r) \/ Backup(r)
  \/ \E i \in RemoteIds : LateAdd(r, i)

Administrator(r) ==
  \/ \E policy \in Policies, second \in 0..MaxCreations : CreateRepository(r, policy, second)
  \/ DeleteRepository(r)
  \/ \E policy \in Policy : SetPolicy(r, policy)
  \/ ToggleSuspend(r) \/ LoseSecret(r) \/ RemoveRemote(r)

Next ==
  \/ \E r \in Repos : \/ PassStep(r) \/ ReplyLost(r) \/ Failure(r)
                      \/ Cluster(r) \/ Administrator(r)
  \/ SyncRepositories \/ SyncJobs \/ Crash

Spec == Init /\ [][Next]_vars

-------------------------------------------------------------------------------
(* Safety *)

\* Every variable holds the kind of value its comment says.
TypeOK ==
  /\ live \in [Repos -> Object]
  /\ cache \in [Repos -> Object]
  /\ secret \in [Repos -> Secret]
  /\ job \in [Repos -> Job]
  /\ jobCache \in [Repos -> JobState]
  /\ remote \in [RemoteIds -> Remote]
  /\ late \subseteq Repos
  /\ worker \in [Repos -> Worker]
  /\ creations \in Nat /\ clock \in Nat /\ adminOps \in Nat /\ faults \in Nat
  /\ doomed \subseteq RemoteIds
  /\ stored \in [RemoteIds -> SUBSET Passwords]

\* finalize destroys a BorgBase repository only if, at some moment, a
\* Repository that had recorded its ID was being deleted with deletionPolicy
\* Delete: no stale copy, retry or restart destroys snapshots under Retain.
DestroyedOnlyOnRequest ==
  \A i \in RemoteIds : remote[i].state = "destroyed" => i \in doomed

\* resolveRepo retries an Add whose reply was lost, or whose ID was never
\* recorded, without ever leaving two repositories of one name on BorgBase.
NoDuplicateRemote ==
  \A i, j \in RemoteIds :
    Hosted(i) /\ Hosted(j) /\ remote[i].name = remote[j].name => i = j

\* reconcileSecret generates the password of a BorgBase repository exactly
\* once: no two passwords are ever stored for it, whatever is lost or retried.
OnePasswordPerRemote ==
  \A i \in RemoteIds : \A p, q \in stored[i] : p = q

\* What reconcileSecret takes known to say: this resource has completed a pass
\* before, so a password has been stored for its repository.
KnownMeansProvisioned ==
  \A r \in Repos :
    worker[r].pc = "secret" /\ worker[r].known => stored[worker[r].target] # {}

\* A Secret that points at a repository with snapshots opens it.
SnapshotsReadable ==
  \A r \in Repos :
    LET i == secret[r].id IN
    secret[r].exists /\ Hosted(i) /\ remote[i].used => secret[r].password \in remote[i].keys

\* status.initialized is true only if restic init has run in the recorded
\* repository with the password the Secret holds.
InitializedIsUsable ==
  \A r \in Repos :
    LET i == live[r].id IN
    live[r].initialized /\ Hosted(i) /\ secret[r].exists
      => secret[r].id = i /\ secret[r].password \in remote[i].keys

\* status.repositoryID, once recorded, is the repository of this resource for
\* good: a stale pass, a failed lookup or a late Add never moves it to another.
RecordedIdStable ==
  [][\A r \in Repos : live[r].id # None /\ live'[r].uid = live[r].uid
                        => live'[r].id = live[r].id]_vars

\* However far the operator's cache lags, repositoryConflict never lets a resource
\* it holds take as its own the repository that an older resource adopts: a cache
\* that shows the younger one has seen the elder.
ElderNeverOverridden ==
  [][\A r, o \in Repos :
       LET w == worker[r] IN
       /\ w.pc = "claim" /\ worker'[r].pc = "secret" /\ cache[r].uid = w.obj.uid
       /\ live[o].exists /\ ~live[o].deleting /\ live[o].born < w.obj.born
       => w.target # Existing[o]]_vars

-------------------------------------------------------------------------------
(* Refinement *)

\* What the lifecycle sees of BorgBase.
Datum(i) == [state |-> remote[i].state, keys |-> remote[i].keys, used |-> remote[i].used]
DataView == [i \in RemoteIds |-> Datum(i)]

Lifecycle == INSTANCE RemoteLifecycle WITH data <- DataView, requested <- doomed

\* The passes, the init Job and the garbage collector together do to the data on
\* BorgBase only what RemoteLifecycle lets happen: across retries of Add, Delete and
\* restic init, restarts and stale caches, a repository is created and initialized
\* once, keeps its password and its snapshots, and is destroyed only on request.
DataAsPromised == Lifecycle!Spec

-------------------------------------------------------------------------------
(* Liveness *)

\* A pass follows every event, every interval and, with backoff, every error;
\* inside it, calls return. The watches, the kubelet and the garbage collector
\* make progress. Five minutes pass, so a failed Job is retried again and again
\* offered the choice. Failures and administrators owe nothing.
Fairness ==
  /\ \A r \in Repos :
       /\ WF_vars(PassStep(r))
       /\ SF_vars(RetryInitJob(r, "ok"))
       /\ WF_vars(StartPod(r)) /\ WF_vars(RunInit(r))
       /\ WF_vars(CollectSecret(r)) /\ WF_vars(CollectJob(r))
  /\ WF_vars(SyncRepositories) /\ WF_vars(SyncJobs)

FairSpec == Spec /\ Fairness

\* The ID is recorded and no password is at hand: the operator waits for an
\* administrator to restore the Secret.
Wedged(r) == live[r].id # None /\ ~secret[r].exists /\ Seed[r] = None

\* Once failures and administrators rest, a Repository that is wanted and not
\* wedged becomes and stays Ready and initialized, from whatever a lost reply,
\* a restart or a failed Job left behind.
EventuallyReady ==
  <>[](\A r \in Repos :
         live[r].exists /\ ~live[r].deleting /\ ~live[r].suspend /\ ~Wedged(r)
           => live[r].ready = "Ready" /\ live[r].initialized)

\* Once failures and administrators rest, the credentials of a Repository that is
\* there survive it, or go with it, as its deletionPolicy says now (reconcileSecret): when
\* several passes, on copies older than the change, have written the owner reference of
\* the old policy after it, a later one puts it right. A Repository deleted before that
\* takes the Secret with it, or leaves it, by the policy it had.
SecretFollowsPolicy ==
  <>[](\A r \in Repos :
         live[r].exists /\ ~live[r].deleting /\ ~live[r].suspend /\ secret[r].exists
           => secret[r].owner = IF live[r].policy = "Delete" THEN live[r].uid ELSE 0)

\* A Repository being deleted goes: no lost reply of Delete and no restart
\* leaves its finalizer in place for ever.
EventuallyGone == \A r \in Repos : live[r].deleting ~> ~live[r].exists
===============================================================================
