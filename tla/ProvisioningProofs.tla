-------------------------- MODULE ProvisioningProofs --------------------------
(***************************************************************************)
(* Theorems of RepositoryController about the BorgBase repository of a     *)
(* Repository and the credentials for it: that one resource has one        *)
(* repository, one ID and one password, for every set of Repositories, IDs *)
(* and passwords, and every bound.                                         *)
(***************************************************************************)
EXTENDS RepositoryProofs

-------------------------------------------------------------------------------
(* How a pass goes on *)

Reconciling == {"resolve", "add", "claim", "secret", "init"}

\* This resource has its repository created for it, and does not adopt one.
Provisions(r) == Existing[r] = None

\* What a pass keeps of the copy it began with.
Carries(n, w) ==
  n.base = w.base /\ n.known = w.known /\ n.obj.uid = w.obj.uid /\ n.obj.policy = w.obj.policy
\* It records no ID in this step.
CarriesId(n, w) == Carries(n, w) /\ n.obj.id = w.obj.id

\* A pass of o begins with a copy of the object.
Copied(n, o) ==
  n.obj.id = o.id /\ n.base.id = o.id /\ n.obj.uid = o.uid /\ n.obj.policy = o.policy
Enters(n, o) ==
  /\ Copied(n, o) /\ n.pc \in {"resolve", "patch"}
  /\ n.known = (o.id # None \/ o.initialized)
Begins(r, n) ==
  LET c == cache[r] IN
  /\ worker[r].pc = "idle" /\ c.exists
  /\ \/ n.pc \in {"destroy", "release"} /\ c.deleting /\ c.finalizer /\ Copied(n, c)
     \/ n.pc = "finalizer" /\ ~c.deleting /\ ~c.finalizer /\ Copied(n, c)
     \/ ~c.deleting /\ c.finalizer /\ Enters(n, c)

\* The ways to the repository i.
Resolves(r, i) ==
  LET w == worker[r] IN
  /\ i \in RemoteIds
  /\ \/ w.pc = "resolve" /\ ~Provisions(r) /\ i = Existing[r] /\ Hosted(i)
     \/ w.pc = "resolve" /\ Provisions(r) /\ i = w.obj.id /\ Hosted(i)
     \/ w.pc = "resolve" /\ Provisions(r) /\ w.obj.id = None /\ Named(RemoteName[r]) = {i}
     \/ w.pc = "add" /\ CreateRemote(r, i)

Ends(r, n) ==
  LET w == worker[r] IN
  /\ CarriesId(n, w)
  /\ \/ n.pc = "patch" /\ w.pc \in Reconciling \cup {"destroy"}
     \/ n.pc = "release" /\ w.pc = "destroy"

Adds(r, n) ==
  LET w == worker[r] IN
  /\ CarriesId(n, w) /\ n.pc = "add" /\ w.pc = "resolve"
  /\ Provisions(r) /\ w.obj.id = None /\ Named(RemoteName[r]) = {}

ToClaim(r, n) ==
  CarriesId(n, worker[r]) /\ n.pc = "claim" /\ Resolves(r, n.target)

ToSecret(r, n) ==
  LET w == worker[r] IN
  /\ Carries(n, w) /\ n.pc = "secret" /\ w.pc = "claim"
  /\ n.target = w.target /\ n.obj.id = w.target /\ remote[w.target].restic

ToInit(r, n) ==
  LET w == worker[r] IN
  CarriesId(n, w) /\ n.pc = "init" /\ w.pc = "secret" /\ n.target = w.target

\* A step of a pass that touches neither the object nor the cache.
Walk(r, n) ==
  \/ n = Idle \/ Begins(r, n) \/ Ends(r, n) \/ Adds(r, n)
  \/ ToClaim(r, n) \/ ToSecret(r, n) \/ ToInit(r, n)

Walks(r) == UNCHANGED <<live, cache>> /\ \E n \in Worker : Goto(r, n) /\ Walk(r, n)

LEMMA AtCarries ==
  ASSUME NEW w \in Worker, NEW pc \in Pcs
  PROVE  LET n == At(w, pc) IN
         n \in Worker /\ CarriesId(n, w) /\ n.pc = pc /\ n.target = w.target /\ n.obj = w.obj
BY AtTyped DEF At, CarriesId, Carries, Worker

LEMMA SettleCarries ==
  ASSUME NEW w \in Worker, NEW c \in Ready
  PROVE  Settle(w, c) \in Worker /\ CarriesId(Settle(w, c), w) /\ Settle(w, c).pc = "patch"
<1>1. Settle(w, c) \in Worker /\ Settle(w, c).pc = "patch"
  BY SettleTyped
<1>2. CarriesId(Settle(w, c), w)
  BY DEF Settle, CarriesId, Carries, Worker, Object
<1> QED  BY <1>1, <1>2

LEMMA FailedCarries ==
  ASSUME NEW w \in Worker
  PROVE  Failed(w) \in Worker /\ CarriesId(Failed(w), w) /\ Failed(w).pc = "patch"
BY SettleCarries DEF Failed, Ready

LEMMA ResolvedCarries ==
  ASSUME NEW w \in Worker, NEW i \in RemoteIds, NEW u \in BOOLEAN, NEW a \in BOOLEAN
  PROVE  LET n == Resolved(w, i, u, a)
         IN  n \in Worker /\ CarriesId(n, w) /\ n.pc = "claim" /\ n.target = i
<1>1. LET n == Resolved(w, i, u, a) IN n \in Worker /\ n.pc = "claim" /\ n.target = i
  BY ResolvedTyped
<1>2. CarriesId(Resolved(w, i, u, a), w)
  BY DEF Resolved, CarriesId, Carries, Worker, Object
<1> QED  BY <1>1, <1>2

LEMMA RecordedCarries ==
  ASSUME NEW w \in Worker
  PROVE  LET n == Recorded(w)
         IN  /\ n \in Worker /\ Carries(n, w) /\ n.obj.id = w.target
             /\ n.pc = "secret" /\ n.target = w.target
<1>1. LET n == Recorded(w) IN n \in Worker /\ n.pc = "secret" /\ n.target = w.target
  BY RecordedTyped
<1>2. Carries(Recorded(w), w) /\ Recorded(w).obj.id = w.target
  BY DEF Recorded, Carries, Worker, Object
<1> QED  BY <1>1, <1>2

LEMMA InitializedCarries ==
  ASSUME NEW w \in Worker
  PROVE  LET n == Initialized(w) IN n \in Worker /\ CarriesId(n, w) /\ n.pc = "patch"
<1>1. /\ Settle(w, "Ready") \in Worker /\ CarriesId(Settle(w, "Ready"), w)
      /\ Settle(w, "Ready").pc = "patch"
  BY SettleCarries DEF Ready
<1>2. Initialized(w) \in Worker /\ Initialized(w).pc = "patch"
  BY InitializedTyped
<1>3. CarriesId(Initialized(w), w)
  BY <1>1 DEF Initialized, CarriesId, Carries, Worker, Object
<1> QED  BY <1>2, <1>3

LEMMA EnterPassEnters ==
  ASSUME NEW o \in Object
  PROVE  EnterPass(o) \in Worker /\ Enters(EnterPass(o), o)
<1> DEFINE w == [pc |-> "resolve", obj |-> o, base |-> o, target |-> None,
                 known |-> o.id # None \/ o.initialized, used |-> FALSE]
<1>1. w \in Worker /\ w.pc = "resolve" /\ Copied(w, o) /\ w.known = (o.id # None \/ o.initialized)
  BY DEF Worker, Object, Pcs, Copied
<1>2. /\ Settle(w, "Suspended") \in Worker /\ CarriesId(Settle(w, "Suspended"), w)
      /\ Settle(w, "Suspended").pc = "patch"
  <2> HIDE DEF w
  <2> QED  BY <1>1, SettleCarries DEF Ready
<1>3. Enters(w, o) /\ Enters(Settle(w, "Suspended"), o)
  <2> HIDE DEF w
  <2> QED  BY <1>1, <1>2 DEF Enters, Copied, CarriesId, Carries
<1>4. EnterPass(o) = w \/ EnterPass(o) = Settle(w, "Suspended")
  BY DEF EnterPass
<1> HIDE DEF w
<1> QED  BY <1>1, <1>2, <1>3, <1>4

\* The administrators' steps at a resource.
Edits(r) ==
  /\ UNCHANGED <<cache, worker>>
  /\ \/ \E policy \in Policies, second \in 0..MaxCreations : CreateRepository(r, policy, second)
     \/ DeleteRepository(r) \/ ToggleSuspend(r) \/ \E policy \in Policy : SetPolicy(r, policy)

\* The cache comes up to date, with or without a restart.
Refreshes == cache' = live /\ UNCHANGED live /\ \A r \in Repos : worker'[r] \in {worker[r], Idle}

\* A pass ends or goes on, beside the objects.
LEMMA StartWalks ==
  ASSUME Typed, NEW r \in Repos, StartPass(r)
  PROVE  Walks(r)
<1> DEFINE c == cache[r]  v == [Idle EXCEPT !.obj = c, !.base = c]
<1>0. c \in Object
  BY DEF Typed, TypeOK
<1>1. v \in Worker /\ v.obj = c /\ v.base = c
  BY <1>0, NoneTyped DEF Worker
<1>2. ASSUME NEW pc \in Pcs
      PROVE  At(v, pc) \in Worker /\ At(v, pc).pc = pc /\ Copied(At(v, pc), c)
  <2> HIDE DEF v
  <2> QED  BY <1>1, AtCarries DEF CarriesId, Carries, Copied
<1>3. EnterPass(c) \in Worker /\ Enters(EnterPass(c), c)
  BY <1>0, EnterPassEnters
<1>4. /\ worker[r].pc = "idle" /\ c.exists
      /\ \/ /\ c.deleting /\ c.finalizer
            /\ \E pc \in {"destroy", "release"} : Goto(r, At(v, pc))
         \/ ~c.deleting /\ ~c.finalizer /\ Goto(r, At(v, "finalizer"))
         \/ ~c.deleting /\ c.finalizer /\ Goto(r, EnterPass(c))
  BY DEF StartPass
<1>5. \E n \in Worker : Goto(r, n) /\ Begins(r, n)
  <2> HIDE DEF v
  <2>1. {"destroy", "release", "finalizer"} \subseteq Pcs
    BY DEF Pcs
  <2> QED  BY <1>2, <1>3, <1>4, <2>1 DEF Begins
<1>6. UNCHANGED <<live, cache>>
  BY DEF StartPass, apiVars, cacheVars
<1> QED  BY <1>5, <1>6 DEF Walks, Walk

\* The calls of reconcile, answered or not.
LEMMA CallWalks ==
  ASSUME Typed, NEW r \in Repos, PassStep(r) \/ ReplyLost(r),
         ~StartPass(r), ~AddFinalizer(r), ~PatchStatus(r), ~Release(r)
  PROVE  Walks(r)
<1> DEFINE w == worker[r]
<1>0. w \in Worker /\ w.obj \in Object
  BY DEF Typed, TypeOK, Worker
<1>1. /\ \A c \in Ready : Settle(w, c) \in Worker /\ CarriesId(Settle(w, c), w)
                          /\ Settle(w, c).pc = "patch"
      /\ Failed(w) \in Worker /\ CarriesId(Failed(w), w) /\ Failed(w).pc = "patch"
  BY <1>0, SettleCarries, FailedCarries
<1>2. /\ "RepositoryConflict" \in Ready /\ "Ready" \in Ready /\ "Initializing" \in Ready
      /\ "add" \in Pcs /\ "init" \in Pcs /\ "release" \in Pcs
  BY DEF Ready, Pcs
<1>3. CASE ResolveExisting(r) \/ ResolveRecorded(r) \/ ResolveByName(r)
  <2>1. w.pc = "resolve" /\ UNCHANGED <<live, cache>>
    BY <1>3 DEF ResolveExisting, ResolveRecorded, ResolveByName, apiVars, cacheVars
  <2>2. ASSUME NEW i \in RemoteIds, Found(r, i), Resolves(r, i)
        PROVE  \E n \in Worker : Goto(r, n) /\ ToClaim(r, n)
    <3>1. PICK u \in BOOLEAN, a \in BOOLEAN : u = remote[i].used /\ a = (Existing[r] # None)
      BY DEF Typed, TypeOK, Remote
    <3>2. PICK n : n = Resolved(w, i, u, a)
      OBVIOUS
    <3>3. n \in Worker /\ CarriesId(n, w) /\ n.pc = "claim" /\ n.target = i
      BY <1>0, <3>2, ResolvedCarries
    <3>4. Goto(r, n)
      BY <2>2, <3>1, <3>2 DEF Found
    <3> QED  BY <2>2, <3>3, <3>4 DEF ToClaim
  <2>3. CASE Goto(r, Failed(w))
    BY <1>1, <2>1, <2>3 DEF Walks, Walk, Ends, Reconciling
  <2>4. CASE Existing[r] = None /\ w.obj.id = None /\ Named(RemoteName[r]) = {}
             /\ Goto(r, At(w, "add"))
    BY <1>0, <1>2, <2>1, <2>4, AtCarries DEF Walks, Walk, Adds, Provisions
  <2>5. CASE \E i \in RemoteIds : Found(r, i) /\ Resolves(r, i)
    BY <2>1, <2>2, <2>5 DEF Walks, Walk
  <2>6. Existing[r] \in RemoteIds \cup {None} /\ w.obj.id \in RemoteIds \cup {None}
    BY <1>0, InputAssumption DEF Object
  <2>7. \/ Goto(r, Failed(w))
        \/ Existing[r] = None /\ w.obj.id = None /\ Named(RemoteName[r]) = {}
           /\ Goto(r, At(w, "add"))
        \/ \E i \in RemoteIds : Found(r, i) /\ Resolves(r, i)
    <3>1. CASE ResolveExisting(r)
      BY <2>6, <3>1 DEF ResolveExisting, Resolves, Provisions
    <3>2. CASE ResolveRecorded(r)
      BY <2>6, <3>2 DEF ResolveRecorded, Resolves, Provisions
    <3>3. CASE ResolveByName(r)
      <4>1. \A i \in Named(RemoteName[r]) : i \in RemoteIds
        BY DEF Named
      <4> QED  BY <3>3, <4>1 DEF ResolveByName, Resolves, Provisions
    <3> QED  BY <1>3, <3>1, <3>2, <3>3
  <2> QED  BY <2>3, <2>4, <2>5, <2>7
<1>4. CASE \E i \in RemoteIds, reply \in Replies : Add(r, i, reply)
  <2>1. PICK i \in RemoteIds, reply \in Replies : Add(r, i, reply)
    BY <1>4
  <2>2. UNCHANGED <<live, cache>> /\ Resolves(r, i) /\ w.pc = "add"
    BY <2>1 DEF Add, Resolves, apiVars, cacheVars
  <2>3. LET n == Resolved(w, i, FALSE, FALSE)
        IN  n \in Worker /\ CarriesId(n, w) /\ n.pc = "claim" /\ n.target = i
    BY <1>0, ResolvedCarries
  <2>4. Goto(r, Resolved(w, i, FALSE, FALSE)) \/ Goto(r, Failed(w))
    BY <2>1 DEF Add, Replied
  <2> QED  BY <1>1, <2>2, <2>3, <2>4 DEF Walks, Walk, ToClaim, Ends, Reconciling
<1>5. CASE Claim(r)
  <2>1. LET n == Recorded(w)
        IN  n \in Worker /\ Carries(n, w) /\ n.obj.id = w.target /\ n.pc = "secret"
            /\ n.target = w.target
    BY <1>0, RecordedCarries
  <2> QED  BY <1>1, <1>2, <1>5, <2>1
           DEF Claim, Walks, Walk, ToSecret, Ends, Reconciling, apiVars, cacheVars
<1>6. CASE \E p \in Passwords, reply \in Replies : WriteSecret(r, p, reply)
  <2>1. LET n == At(w, "init")
        IN  n \in Worker /\ CarriesId(n, w) /\ n.pc = "init" /\ n.target = w.target
    BY <1>0, <1>2, AtCarries
  <2> QED  BY <1>1, <1>6, <2>1
           DEF WriteSecret, Replied, Walks, Walk, ToInit, Ends, Reconciling, cacheVars
<1>7. CASE RefuseSecret(r) \/ AwaitInitJob(r)
  BY <1>1, <1>2, <1>7
  DEF RefuseSecret, AwaitInitJob, Walks, Walk, Ends, Reconciling, apiVars, cacheVars
<1>8. CASE \E reply \in Replies : CleanupInitJob(r, reply) \/ CreateInitJob(r, reply)
                                  \/ RetryInitJob(r, reply)
  BY <1>1, <1>2, <1>8
  DEF CleanupInitJob, CreateInitJob, RetryInitJob, Replied, Walks, Walk, Ends, Reconciling,
      cacheVars
<1>9. CASE RecordInitialized(r)
  <2>1. LET n == Initialized(w) IN n \in Worker /\ CarriesId(n, w) /\ n.pc = "patch"
    BY <1>0, InitializedCarries
  <2> QED  BY <1>9, <2>1
           DEF RecordInitialized, Walks, Walk, Ends, Reconciling, apiVars, cacheVars
<1>10. CASE \E reply \in Replies : Destroy(r, reply)
  <2>1. LET n == At(w, "release") IN n \in Worker /\ CarriesId(n, w) /\ n.pc = "release"
    BY <1>0, <1>2, AtCarries
  <2> QED  BY <1>10, <2>1, NoneTyped DEF Destroy, Walks, Walk, Ends, apiVars, cacheVars
<1> QED  BY <1>3, <1>4, <1>5, <1>6, <1>7, <1>8, <1>9, <1>10 DEF PassStep, ReplyLost, Replies

\* The calls that fail.
LEMMA FailureWalks ==
  ASSUME Typed, NEW r \in Repos, Failure(r)
  PROVE  Walks(r)
<1> DEFINE w == worker[r]
<1>1. /\ w \in Worker
      /\ "APITokenUnavailable" \in Ready
  BY DEF Typed, TypeOK, Ready
<1>2. UNCHANGED <<live, cache>>
  BY DEF Failure, AbandonAdd, CallFails, PassFails, TokenUnavailable, apiVars, cacheVars
<1>3. \/ Goto(r, Idle)
      \/ /\ w.pc \in Reconciling \cup {"destroy"}
         /\ Goto(r, Failed(w)) \/ Goto(r, Settle(w, "APITokenUnavailable"))
  BY DEF Failure, AbandonAdd, CallFails, PassFails, TokenUnavailable, Reconciling
<1> QED  BY <1>1, <1>2, <1>3, FailedCarries, SettleCarries, NoneTyped DEF Walks, Walk, Ends

\* What a step may do to the objects, the cache and the passes.
LEMMA StepKinds ==
  ASSUME Typed, [Next]_vars
  PROVE  \/ UNCHANGED <<live, cache, worker>>
         \/ \E r \in Repos : Walks(r) \/ AddFinalizer(r) \/ PatchStatus(r) \/ Release(r)
                             \/ Edits(r)
         \/ Refreshes
<1>1. ASSUME NEW r \in Repos, PassStep(r) \/ ReplyLost(r)
      PROVE  Walks(r) \/ AddFinalizer(r) \/ PatchStatus(r) \/ Release(r)
  BY <1>1, StartWalks, CallWalks
<1>2. ASSUME NEW r \in Repos, Cluster(r)
      PROVE  UNCHANGED <<live, cache, worker>>
  BY <1>2 DEF Cluster, StartPod, RunInit, InitJobFails, ExpireJob, CollectSecret, CollectJob,
     Backup, LateAdd, apiVars, cacheVars
<1>3. ASSUME NEW r \in Repos, Administrator(r)
      PROVE  UNCHANGED <<live, cache, worker>> \/ Edits(r)
  BY <1>3 DEF Administrator, CreateRepository, DeleteRepository, SetPolicy, ToggleSuspend,
     LoseSecret, RemoveRemote, Edits, apiVars, cacheVars
<1>4. CASE SyncRepositories \/ Crash
  BY <1>4 DEF SyncRepositories, Crash, Refreshes, apiVars
<1>5. CASE SyncJobs \/ UNCHANGED vars
  BY <1>5 DEF SyncJobs, vars, apiVars, cacheVars
<1> QED  BY <1>1, <1>2, <1>3, <1>4, <1>5, FailureWalks DEF Next

-------------------------------------------------------------------------------
(* A pass works for the incarnation that is there *)

\* An object that has an ID, or is being deleted, has the finalizer.
Whole(o) == (o.id # None \/ o.deleting => o.finalizer) /\ (o.finalizer => o.exists)

\* Only the pass of a resource gives it the finalizer and takes it away. So a cache that
\* shows the finalizer, and no deletion, shows the incarnation that is there; one that
\* shows a deletion is right about it unless the finalizer has gone; and so are the passes
\* that begin with them.
Lineage(r) ==
  LET l == live[r]  c == cache[r]  w == worker[r] IN
  /\ Whole(l) /\ Whole(c)
  /\ c.finalizer /\ ~c.deleting => l.finalizer /\ l.uid = c.uid
  /\ c.deleting => ~l.finalizer \/ (l.deleting /\ l.uid = c.uid)
  /\ w.pc \in {"destroy", "release"} => ~l.finalizer \/ (l.deleting /\ c.deleting)
  /\ w.pc = "finalizer" /\ c.deleting => l.deleting /\ l.uid = c.uid
  /\ w.pc \in Reconciling => l.finalizer /\ l.uid = w.obj.uid
  /\ w.pc = "patch" /\ w.obj.id # w.base.id => l.finalizer /\ l.uid = w.obj.uid
  /\ w.pc \notin {"secret", "init", "patch"} => w.obj.id = w.base.id
  /\ w.obj.id # w.base.id => w.obj.id # None
  /\ w.pc \in {"secret", "init"} => w.obj.id = w.target
LineageInv == \A r \in Repos : Lineage(r)

\* The parts of an object the lineage is about.
SameLife(n, o) ==
  n.exists = o.exists /\ n.uid = o.uid /\ n.deleting = o.deleting /\ n.finalizer = o.finalizer

\* What becomes of the object of r in the steps that change it.
Gone(n) == ~n.exists /\ ~n.deleting /\ ~n.finalizer /\ n.id = None /\ n.uid = 0
EditOf(n, o) ==
  \/ SameLife(n, o) /\ n.id = o.id
  \/ ~o.exists /\ n.exists /\ ~n.deleting /\ ~n.finalizer /\ n.id = None
  \/ o.exists /\ ~o.deleting /\ ~o.finalizer /\ Gone(n)
  \/ /\ o.exists /\ ~o.deleting /\ o.finalizer /\ n.deleting
     /\ n.exists /\ n.uid = o.uid /\ n.finalizer /\ n.id = o.id

\* Administrators.
LEMMA EditShape ==
  ASSUME Typed, NEW r \in Repos, Edits(r)
  PROVE  EditOf(live'[r], live[r]) /\ \A q \in Repos \ {r} : live'[q] = live[q]
<1>0. live \in [Repos -> Object] /\ live[r] \in Object
  BY DEF Typed, TypeOK
<1>1. Gone(NoObject)
  BY DEF Gone, NoObject
<1>2. CASE \E policy \in Policies, second \in 0..MaxCreations : CreateRepository(r, policy, second)
  <2>1. \A uid, born, policy : LET o == Created(uid, born, policy)
                               IN  o.exists /\ ~o.deleting /\ ~o.finalizer /\ o.id = None
    BY DEF Created, NoObject
  <2> QED  BY <1>0, <1>2, <2>1 DEF CreateRepository, EditOf
<1>3. CASE DeleteRepository(r)
  <2>1. live[r].exists /\ ~live[r].deleting
        /\ live' = [live EXCEPT ![r] = IF @.finalizer THEN [@ EXCEPT !.deleting = TRUE]
                                       ELSE NoObject]
    BY <1>3 DEF DeleteRepository
  <2>2. LET n == [live[r] EXCEPT !.deleting = TRUE]
        IN  n.exists = live[r].exists /\ n.uid = live[r].uid /\ n.deleting
            /\ n.finalizer = live[r].finalizer /\ n.id = live[r].id
    BY <1>0 DEF Object
  <2> QED  BY <1>0, <1>1, <2>1, <2>2 DEF EditOf
<1>4. CASE ToggleSuspend(r) \/ \E policy \in Policy : SetPolicy(r, policy)
  <2>1. \/ \E b : live' = [live EXCEPT ![r] = [@ EXCEPT !.suspend = b]]
        \/ \E b : live' = [live EXCEPT ![r] = [@ EXCEPT !.policy = b]]
    BY <1>0, <1>4 DEF ToggleSuspend, SetPolicy
  <2>2. \A b : /\ SameLife([live[r] EXCEPT !.suspend = b], live[r])
               /\ SameLife([live[r] EXCEPT !.policy = b], live[r])
               /\ [live[r] EXCEPT !.suspend = b].id = live[r].id
               /\ [live[r] EXCEPT !.policy = b].id = live[r].id
    BY <1>0 DEF Object, SameLife
  <2>3. \E b : \/ live'[r] = [live[r] EXCEPT !.suspend = b]
               \/ live'[r] = [live[r] EXCEPT !.policy = b]
    BY <1>0, <2>1
  <2>4. SameLife(live'[r], live[r]) /\ live'[r].id = live[r].id
    BY <2>2, <2>3
  <2>5. \A q \in Repos \ {r} : live'[q] = live[q]
    BY <1>0, <2>1
  <2> QED  BY <2>4, <2>5 DEF EditOf
<1> QED  BY <1>2, <1>3, <1>4 DEF Edits

\* The calls of a pass that write the object.
LEMMA FinalizerShape ==
  ASSUME Typed, NEW r \in Repos, AddFinalizer(r)
  PROVE  /\ worker[r].pc = "finalizer" /\ cache' = cache
         /\ \A q \in Repos \ {r} : live'[q] = live[q] /\ worker'[q] = worker[q]
         /\ \/ live' = live /\ worker'[r] = Idle
            \/ LET n == live'[r]  o == live[r] IN
               /\ Enters(worker'[r], n) /\ o.exists
               /\ n.exists /\ n.uid = o.uid /\ n.deleting = o.deleting /\ n.finalizer
               /\ n.id = o.id /\ n.policy = o.policy
<1>0. live \in [Repos -> Object] /\ live[r] \in Object /\ worker \in [Repos -> Worker]
  BY DEF Typed, TypeOK
<1>1. worker[r].pc = "finalizer" /\ cache' = cache
  BY DEF AddFinalizer, cacheVars
<1>2. CASE ~live[r].exists
  BY <1>0, <1>1, <1>2, NoneTyped DEF AddFinalizer, Goto
<1>3. CASE live[r].exists
  <2>1. live' = [live EXCEPT ![r] = [@ EXCEPT !.finalizer = TRUE]]
        /\ worker' = [worker EXCEPT ![r] = EnterPass(live'[r])]
    BY <1>3 DEF AddFinalizer, Goto
  <2>2. LET n == [live[r] EXCEPT !.finalizer = TRUE]
        IN  n \in Object /\ n.exists /\ n.uid = live[r].uid /\ n.deleting = live[r].deleting
            /\ n.finalizer /\ n.id = live[r].id /\ n.policy = live[r].policy
    BY <1>0, <1>3 DEF Object
  <2>3. live'[r] = [live[r] EXCEPT !.finalizer = TRUE]
    BY <1>0, <2>1
  <2>4. worker'[r] = EnterPass(live'[r]) /\ \A q \in Repos \ {r} : worker'[q] = worker[q]
    BY <1>0, <2>1
  <2>5. Enters(worker'[r], live'[r])
    BY <2>2, <2>3, <2>4, EnterPassEnters
  <2>6. \A q \in Repos \ {r} : live'[q] = live[q]
    BY <1>0, <2>1
  <2> QED  BY <1>1, <1>3, <2>2, <2>3, <2>4, <2>5, <2>6
<1> QED  BY <1>2, <1>3

LEMMA ReleaseShape ==
  ASSUME Typed, NEW r \in Repos, Release(r)
  PROVE  /\ worker[r].pc = "release" /\ worker'[r] = Idle /\ cache' = cache
         /\ \A q \in Repos \ {r} : live'[q] = live[q] /\ worker'[q] = worker[q]
         /\ LET n == live'[r]  o == live[r] IN
            \/ o.deleting /\ Gone(n)
            \/ /\ ~o.deleting /\ ~n.deleting /\ n.exists = o.exists /\ n.uid = o.uid
               /\ ~n.finalizer /\ n.id = o.id /\ n.policy = o.policy
<1>0. live \in [Repos -> Object] /\ live[r] \in Object /\ worker \in [Repos -> Worker]
  BY DEF Typed, TypeOK
<1>1. /\ worker[r].pc = "release" /\ cache' = cache /\ Goto(r, Idle)
      /\ live' = [live EXCEPT ![r] =
                   IF @.deleting THEN NoObject ELSE [@ EXCEPT !.finalizer = FALSE]]
  BY DEF Release, cacheVars
<1>2. LET n == [live[r] EXCEPT !.finalizer = FALSE]
      IN  n.exists = live[r].exists /\ n.uid = live[r].uid /\ n.deleting = live[r].deleting
          /\ ~n.finalizer /\ n.id = live[r].id /\ n.policy = live[r].policy
  BY <1>0 DEF Object
<1>3. Gone(NoObject)
  BY DEF Gone, NoObject
<1>4. worker'[r] = Idle /\ \A q \in Repos \ {r} : worker'[q] = worker[q]
  BY <1>0, <1>1, NoneTyped, GotoTyped
<1>5. \A q \in Repos \ {r} : live'[q] = live[q]
  BY <1>0, <1>1
<1>6. live[r].deleting \in BOOLEAN
  BY <1>0 DEF Object
<1>7. IF live[r].deleting THEN live'[r] = NoObject
      ELSE live'[r] = [live[r] EXCEPT !.finalizer = FALSE]
  BY <1>0, <1>1
<1> QED  BY <1>1, <1>2, <1>3, <1>4, <1>5, <1>6, <1>7

\* The status patch writes the ID if the pass has recorded another one.
LEMMA PatchShape ==
  ASSUME Typed, NEW r \in Repos, PatchStatus(r)
  PROVE  /\ worker[r].pc = "patch" /\ worker'[r] = Idle /\ cache' = cache
         /\ \A q \in Repos \ {r} : live'[q] = live[q] /\ worker'[q] = worker[q]
         /\ SameLife(live'[r], live[r]) /\ live'[r].policy = live[r].policy
         /\ live'[r].id = IF live[r].exists /\ worker[r].obj.id # worker[r].base.id
                          THEN worker[r].obj.id ELSE live[r].id
<1> DEFINE w == worker[r]
<1>0. /\ live \in [Repos -> Object] /\ live[r] \in Object /\ worker \in [Repos -> Worker]
      /\ w.obj \in Object /\ w.base \in Object
  BY DEF Typed, TypeOK, Worker
<1>1. /\ w.pc = "patch" /\ cache' = cache /\ Goto(r, Idle)
      /\ live' = IF live[r].exists THEN [live EXCEPT ![r] = Merged(@, w.base, w.obj)] ELSE live
  BY DEF PatchStatus, cacheVars
<1>2. LET n == Merged(live[r], w.base, w.obj)
      IN  SameLife(n, live[r]) /\ n.policy = live[r].policy
          /\ n.id = IF w.obj.id # w.base.id THEN w.obj.id ELSE live[r].id
  BY <1>0 DEF Merged, Object, SameLife
<1>3. worker'[r] = Idle /\ \A q \in Repos \ {r} : worker'[q] = worker[q]
  BY <1>0, <1>1, NoneTyped, GotoTyped
<1>4. \A q \in Repos \ {r} : live'[q] = live[q]
  BY <1>0, <1>1
<1>5. IF live[r].exists THEN live'[r] = Merged(live[r], w.base, w.obj) ELSE live'[r] = live[r]
  BY <1>0, <1>1
<1>6. live[r].exists \in BOOLEAN
  BY <1>0 DEF Object
<1> QED  BY <1>1, <1>2, <1>3, <1>4, <1>5, <1>6 DEF SameLife

LEMMA LineageInit == Init => LineageInv
<1> SUFFICES ASSUME Init, NEW r \in Repos PROVE Lineage(r)
  BY DEF LineageInv
<1>1. live[r] = NoObject /\ cache[r] = NoObject /\ worker[r] = Idle
  BY DEF Init
<1> QED  BY <1>1 DEF Lineage, Whole, NoObject, Idle, Reconciling

\* Every step keeps the lineage: the finalizer comes and goes with the passes of the resource.
LEMMA LineageNext == Typed /\ LineageInv /\ [Next]_vars => LineageInv'
<1> SUFFICES ASSUME Typed, LineageInv, [Next]_vars, NEW q \in Repos PROVE Lineage(q)'
  BY DEF LineageInv
<1>0. /\ Lineage(q) /\ worker \in [Repos -> Worker]
      /\ Idle.pc = "idle" /\ Idle.obj.id = None /\ Idle.base.id = None
  BY DEF LineageInv, Idle, NoObject, Typed, TypeOK
<1>1. CASE UNCHANGED <<live[q], cache[q], worker[q]>>
  BY <1>0, <1>1 DEF Lineage, Whole
<1>2. CASE UNCHANGED <<live[q], cache[q]>> /\ worker'[q] = Idle
  BY <1>0, <1>2 DEF Lineage, Whole, Reconciling
<1>3. ASSUME NEW r \in Repos, Walks(r)
      PROVE  Lineage(q)'
  <2>1. PICK n \in Worker : Goto(r, n) /\ Walk(r, n)
    BY <1>3 DEF Walks
  <2>2. worker'[r] = n /\ (\A o \in Repos \ {r} : worker'[o] = worker[o])
        /\ UNCHANGED <<live, cache>>
    BY <1>0, <1>3, <2>1, GotoTyped DEF Walks
  <2>3. CASE r # q
    BY <1>1, <2>2, <2>3
  <2>4. CASE r = q
    <3>1. CASE n = Idle
      BY <1>2, <2>2, <2>4, <3>1
    <3>2. CASE Begins(r, n)
      BY <1>0, <2>2, <2>4, <3>2 DEF Begins, Enters, Copied, Lineage, Whole, Reconciling
    <3>3. CASE Ends(r, n) \/ Adds(r, n) \/ ToClaim(r, n)
      <4>1. worker[r].pc \in {"resolve", "add"} \/ Ends(r, n)
        BY <3>3 DEF Adds, ToClaim, Resolves
      <4>2. CarriesId(n, worker[r])
        BY <3>3 DEF Ends, Adds, ToClaim
      <4>3. n.pc \in {"add", "claim"} \/ Ends(r, n)
        BY <3>3 DEF Adds, ToClaim
      <4> QED  BY <1>0, <2>2, <2>4, <4>1, <4>2, <4>3
               DEF Ends, CarriesId, Carries, Lineage, Whole, Reconciling
    <3>4. CASE ToSecret(r, n) \/ ToInit(r, n)
      <4>1. \A w : w = worker[r] => (w.pc \in {"claim", "secret"} => w.pc \in Reconciling)
        BY DEF Reconciling
      <4>2. worker[r].pc \in {"claim"} => worker[r].target \in RemoteIds
        BY DEF Typed, TargetResolved
      <4>3. None \notin RemoteIds
        BY InputAssumption
      <4> QED  BY <1>0, <2>2, <2>4, <3>4, <4>1, <4>2, <4>3
               DEF ToSecret, ToInit, CarriesId, Carries, Lineage, Whole, Reconciling
    <3> QED  BY <2>1, <3>1, <3>2, <3>3, <3>4 DEF Walk
  <2> QED  BY <2>3, <2>4
<1>4. ASSUME NEW r \in Repos, AddFinalizer(r)
      PROVE  Lineage(q)'
  <2>1. CASE r # q
    BY <1>1, <1>4, <2>1, FinalizerShape
  <2>2. CASE r = q
    BY <1>0, <1>2, <1>4, <2>2, FinalizerShape DEF Enters, Copied, Lineage, Whole, Reconciling
  <2> QED  BY <2>1, <2>2
<1>5. ASSUME NEW r \in Repos, Release(r)
      PROVE  Lineage(q)'
  <2>1. CASE r # q
    BY <1>1, <1>5, <2>1, ReleaseShape
  <2>2. CASE r = q
    BY <1>0, <1>5, <2>2, ReleaseShape DEF Gone, Lineage, Whole, Reconciling
  <2> QED  BY <2>1, <2>2
<1>6. ASSUME NEW r \in Repos, PatchStatus(r)
      PROVE  Lineage(q)'
  <2>1. CASE r # q
    BY <1>1, <1>6, <2>1, PatchShape
  <2>2. CASE r = q
    BY <1>0, <1>6, <2>2, PatchShape DEF SameLife, Lineage, Whole, Reconciling
  <2> QED  BY <2>1, <2>2
<1>7. ASSUME NEW r \in Repos, Edits(r)
      PROVE  Lineage(q)'
  <2>0. UNCHANGED <<cache, worker>>
    BY <1>7 DEF Edits
  <2>1. CASE r # q
    BY <1>1, <1>7, <2>0, <2>1, EditShape
  <2>2. CASE r = q
    BY <1>0, <1>7, <2>0, <2>2, EditShape
    DEF EditOf, Gone, SameLife, Lineage, Whole, Reconciling
  <2> QED  BY <2>1, <2>2
<1>8. CASE Refreshes
  BY <1>0, <1>8 DEF Refreshes, Lineage, Whole, Reconciling
<1> QED  BY <1>1, <1>3, <1>4, <1>5, <1>6, <1>7, <1>8, StepKinds

-------------------------------------------------------------------------------
(* The Secret, and the policy of its Repository *)

\* Nobody changes the deletionPolicy of a Repository.
PoliciesStay == "policy" \notin AdminOps

\* What a step may do to the Secrets.
Discards(r) == secret' = [secret EXCEPT ![r] = NoSecret] /\ UNCHANGED stored
\* A step leaves the Secrets alone, discards one, or is the write of a pass.
LEMMA SecretKinds ==
  ASSUME [Next]_vars
  PROVE  \/ UNCHANGED <<secret, stored>>
         \/ \E r \in Repos : \/ \E p \in Passwords, reply \in Replies : WriteSecret(r, p, reply)
                             \/ CollectSecret(r) /\ Discards(r)
                             \/ LoseSecret(r) /\ Discards(r)
<1>1. ASSUME NEW r \in Repos, PassStep(r) \/ ReplyLost(r)
      PROVE  \/ UNCHANGED <<secret, stored>>
             \/ \E p \in Passwords, reply \in Replies : WriteSecret(r, p, reply)
  BY <1>1, Zenon
  DEF PassStep, ReplyLost, StartPass, AddFinalizer, ResolveExisting, ResolveRecorded,
     ResolveByName, Add, Claim, RefuseSecret, CleanupInitJob, CreateInitJob, AwaitInitJob,
     RetryInitJob, RecordInitialized, PatchStatus, Destroy, Release, NoteDoomed, Replies,
     apiVars, history
<1>2. ASSUME NEW r \in Repos, Failure(r) \/ Cluster(r) \/ Administrator(r)
      PROVE  \/ UNCHANGED <<secret, stored>>
             \/ CollectSecret(r) /\ Discards(r)
             \/ LoseSecret(r) /\ Discards(r)
  BY <1>2, Zenon
  DEF Failure, AbandonAdd, CallFails, PassFails, TokenUnavailable, Cluster, StartPod,
     RunInit, InitJobFails, ExpireJob, CollectSecret, CollectJob, Backup, LateAdd,
     Administrator, CreateRepository, DeleteRepository, SetPolicy, ToggleSuspend, LoseSecret,
     RemoveRemote, NoteDoomed, Discards, apiVars, history
<1>3. CASE SyncRepositories \/ SyncJobs \/ Crash \/ UNCHANGED vars
  BY <1>3 DEF SyncRepositories, SyncJobs, Crash, vars, apiVars, history
<1> QED  BY <1>1, <1>2, <1>3 DEF Next

\* A Secret is written for the repository the pass has resolved.
LEMMA WriteShape ==
  ASSUME Typed, NEW r \in Repos, NEW p \in Passwords, NEW reply, WriteSecret(r, p, reply)
  PROVE  LET w == worker[r] IN
         /\ w.pc = "secret" /\ p \in PasswordFor(r) /\ w.target \in RemoteIds
         /\ UNCHANGED <<live, cache, remote, job, creations>>
         /\ secret'[r] = [exists |-> TRUE, id |-> w.target, password |-> p,
                          owner |-> OwnerFor(w.obj)]
         /\ \A q \in Repos \ {r} : secret'[q] = secret[q]
         /\ stored'[w.target] = stored[w.target] \cup {p}
         /\ \A i \in RemoteIds \ {w.target} : stored'[i] = stored[i]
         /\ worker'[r].pc \in {"init", "patch"}
         /\ \A q \in Repos \ {r} : worker'[q] = worker[q]
<1>0. secret \in [Repos -> Secret] /\ stored \in [RemoteIds -> SUBSET Passwords]
      /\ worker \in [Repos -> Worker] /\ faults \in Nat
  BY DEF Typed, TypeOK
<1>1. worker[r].target \in RemoteIds /\ worker[r].pc = "secret"
  BY DEF WriteSecret, Typed, TargetResolved
<1>2. LET n == At(worker[r], "init") IN n \in Worker /\ n.pc = "init"
  BY <1>0, AtCarries DEF Pcs
<1>3. /\ worker'[r].pc \in {"init", "patch"}
      /\ \A q \in Repos \ {r} : worker'[q] = worker[q]
  BY <1>0, <1>2, RepliedTyped DEF WriteSecret
<1>4. /\ stored'[worker[r].target] = stored[worker[r].target] \cup {p}
      /\ \A i \in RemoteIds \ {worker[r].target} : stored'[i] = stored[i]
  BY <1>0, <1>1 DEF WriteSecret
<1>5. /\ secret'[r] = [exists |-> TRUE, id |-> worker[r].target, password |-> p,
                       owner |-> OwnerFor(worker[r].obj)]
      /\ \A q \in Repos \ {r} : secret'[q] = secret[q]
  BY <1>0 DEF WriteSecret
<1> QED  BY <1>1, <1>3, <1>4, <1>5 DEF WriteSecret, cacheVars, borgbase

LEMMA DiscardShape ==
  ASSUME Typed, NEW r \in Repos, Discards(r)
  PROVE  secret'[r] = NoSecret /\ stored' = stored /\ \A q \in Repos \ {r} : secret'[q] = secret[q]
BY DEF Discards, Typed, TypeOK

\* Without a change of policy an administrator leaves the policy of a resource alone.
LEMMA EditPolicy ==
  ASSUME Typed, PoliciesStay, NEW r \in Repos, Edits(r)
  PROVE  \/ live'[r] = NoObject
         \/ live'[r].uid = live[r].uid /\ live'[r].policy = live[r].policy
         \/ /\ live'[r].uid = creations + 1 /\ creations' = creations + 1
            /\ live'[r].policy \in Policies
<1>0. live \in [Repos -> Object] /\ live[r] \in Object
  BY DEF Typed, TypeOK
<1>1. CASE \E policy \in Policies, second \in 0..MaxCreations : CreateRepository(r, policy, second)
  BY <1>0, <1>1, CreatedFacts DEF CreateRepository
<1>2. CASE DeleteRepository(r) \/ ToggleSuspend(r)
  <2>1. \/ live' = [live EXCEPT ![r] = NoObject]
        \/ live' = [live EXCEPT ![r] = [@ EXCEPT !.deleting = TRUE]]
        \/ \E b : live' = [live EXCEPT ![r] = [@ EXCEPT !.suspend = b]]
    BY <1>0, <1>2 DEF DeleteRepository, ToggleSuspend
  <2>2. \A b : /\ [live[r] EXCEPT !.deleting = b].uid = live[r].uid
               /\ [live[r] EXCEPT !.deleting = b].policy = live[r].policy
               /\ [live[r] EXCEPT !.suspend = b].uid = live[r].uid
               /\ [live[r] EXCEPT !.suspend = b].policy = live[r].policy
    BY <1>0 DEF Object
  <2>3. live'[r] = NoObject \/ (\E b : \/ live'[r] = [live[r] EXCEPT !.deleting = b]
                                      \/ live'[r] = [live[r] EXCEPT !.suspend = b])
    BY <1>0, <2>1
  <2> QED  BY <2>2, <2>3
<1>3. ~\E policy \in Policy : SetPolicy(r, policy)
  BY DEF PoliciesStay, SetPolicy, Admin
<1> QED  BY <1>1, <1>2, <1>3 DEF Edits

\* A pass takes its policy from a copy, and an object keeps the one it was created with.
LEMMA PassPolicy ==
  ASSUME Typed, [Next]_vars, NEW q \in Repos
  PROVE  LET o == worker'[q].obj
         IN  \/ o.uid = worker[q].obj.uid /\ o.policy = worker[q].obj.policy
             \/ o.uid = cache[q].uid /\ o.policy = cache[q].policy
             \/ o.uid = live'[q].uid /\ o.policy = live'[q].policy
             \/ o = NoObject
<1>0a. /\ live[q] \in Object /\ live \in [Repos -> Object] /\ worker \in [Repos -> Worker]
  BY DEF Typed, TypeOK
<1>0b. NoObject.uid = 0 /\ NoObject.policy = "Retain" /\ Idle.obj = NoObject
  BY DEF NoObject, Idle
<1>1. CASE UNCHANGED worker[q] \/ worker'[q] = Idle
  BY <1>0b, <1>1
<1>2. ASSUME NEW r \in Repos, Walks(r)
      PROVE  \/ UNCHANGED worker[q] \/ worker'[q] = Idle
             \/ Begins(q, worker'[q]) \/ Carries(worker'[q], worker[q])
  <2>1. PICK n \in Worker : Goto(r, n) /\ Walk(r, n)
    BY <1>2 DEF Walks
  <2>2. worker'[r] = n /\ \A o \in Repos \ {r} : worker'[o] = worker[o]
    BY <1>0a, <2>1, GotoTyped
  <2>3. n = Idle \/ Begins(r, n) \/ Carries(n, worker[r])
    BY <2>1 DEF Walk, Ends, Adds, ToClaim, ToSecret, ToInit, CarriesId
  <2> QED  BY <2>2, <2>3
<1>3. CASE Begins(q, worker'[q]) \/ Carries(worker'[q], worker[q])
  BY <1>3 DEF Begins, Enters, Copied, Carries
<1>4. ASSUME NEW r \in Repos, AddFinalizer(r) \/ PatchStatus(r) \/ Release(r) \/ Edits(r)
      PROVE  UNCHANGED worker[q] \/ worker'[q] = Idle \/ Enters(worker'[q], live'[q])
  BY <1>4, FinalizerShape, PatchShape, ReleaseShape DEF Edits
<1>5. CASE Enters(worker'[q], live'[q])
  BY <1>5 DEF Enters, Copied
<1> QED  BY <1>1, <1>2, <1>3, <1>4, <1>5, StepKinds DEF Refreshes

LEMMA LivePolicy ==
  ASSUME Typed, PoliciesStay, [Next]_vars, NEW q \in Repos
  PROVE  \/ live'[q].uid = live[q].uid /\ live'[q].policy = live[q].policy
         \/ /\ live'[q].uid = creations' /\ creations' = creations + 1
            /\ live'[q].policy \in Policies
         \/ live'[q].uid = 0 /\ live'[q].policy = "Retain"
<1>0a. /\ live[q] \in Object /\ live \in [Repos -> Object] /\ worker \in [Repos -> Worker]
  BY DEF Typed, TypeOK
<1>0b. NoObject.uid = 0 /\ NoObject.policy = "Retain" /\ Idle.obj = NoObject
  BY DEF NoObject, Idle
<1>1. CASE live'[q] = live[q]
  BY <1>1
<1>2. ASSUME NEW r \in Repos, AddFinalizer(r) \/ PatchStatus(r)
      PROVE  live'[q].uid = live[q].uid /\ live'[q].policy = live[q].policy
  BY <1>2, FinalizerShape, PatchShape DEF SameLife
<1>3. ASSUME NEW r \in Repos, Release(r)
      PROVE  \/ live'[q].uid = live[q].uid /\ live'[q].policy = live[q].policy
             \/ live'[q] = NoObject
  <2>1. CASE r # q
    BY <1>3, <2>1, ReleaseShape
  <2>2. CASE r = q
    <3>1. live' = [live EXCEPT ![q] = IF @.deleting THEN NoObject
                                      ELSE [@ EXCEPT !.finalizer = FALSE]]
      BY <1>3, <2>2 DEF Release
    <3>2. [live[q] EXCEPT !.finalizer = FALSE].uid = live[q].uid
          /\ [live[q] EXCEPT !.finalizer = FALSE].policy = live[q].policy
      BY <1>0a DEF Object
    <3> QED  BY <3>1, <3>2 DEF Typed, TypeOK
  <2> QED  BY <2>1, <2>2
<1>4. ASSUME NEW r \in Repos, Edits(r)
      PROVE  \/ live'[q] = live[q] \/ live'[q] = NoObject
             \/ live'[q].uid = live[q].uid /\ live'[q].policy = live[q].policy
             \/ /\ live'[q].uid = creations + 1 /\ creations' = creations + 1
                /\ live'[q].policy \in Policies
  BY <1>4, EditShape, EditPolicy
<1>5. ASSUME NEW r \in Repos, Walks(r)
      PROVE  live' = live
  BY <1>5 DEF Walks
<1> QED  BY <1>0b, <1>1, <1>2, <1>3, <1>4, <1>5, StepKinds DEF Refreshes

-------------------------------------------------------------------------------
(* What a step may do to BorgBase *)

\* The repositories keep their place, their name and their format; an init Job gives one the
\* key of its pod, and a backup adds snapshots to one that has a key.
Kept(i) ==
  LET n == remote'[i]  o == remote[i] IN
  /\ n.state = o.state /\ n.name = o.name /\ n.restic = o.restic
  /\ \/ n.keys = o.keys /\ n.used = o.used
     \/ n.keys = o.keys /\ n.keys # {}
     \/ \E r \in Repos : /\ job[r].env # NoEnv /\ job[r].env.id = i
                         /\ n.keys = {job[r].env.password} /\ n.used = o.used
Places == \A i \in RemoteIds : Kept(i)

\* A repository is created for r, by a request that was answered or lost, or by one that
\* was given up.
Births(r, i) ==
  /\ remote[i].state = "unborn"
  /\ remote'[i] = [state |-> "live", name |-> RemoteName[r], restic |-> TRUE, keys |-> {},
                   used |-> FALSE]
  /\ \A j \in RemoteIds \ {i} : remote'[j] = remote[j]
  /\ \/ /\ worker[r].pc = "add" /\ worker'[r].pc \in {"claim", "patch"}
        /\ \A q \in Repos \ {r} : worker'[q] = worker[q]
     \/ r \in late /\ UNCHANGED worker

\* The operator destroys a repository, or an administrator removes it.
Closes(r, i) ==
  /\ Hosted(i) /\ ~Hosted(i)' /\ UNCHANGED <<live, cache>>
  /\ remote'[i] = [remote[i] EXCEPT !.state = remote'[i].state, !.keys = {}, !.used = FALSE]
  /\ remote'[i].state # "unborn"
  /\ \A j \in RemoteIds \ {i} : remote'[j] = remote[j]
  /\ \/ worker[r].pc = "destroy" /\ worker[r].obj.id = i /\ worker'[r].pc \in {"release", "idle"}
     \/ Settled(r) /\ live[r].id = i /\ UNCHANGED worker

LEMMA CreateShape ==
  ASSUME Typed, NEW r \in Repos, NEW i \in RemoteIds, CreateRemote(r, i)
  PROVE  /\ remote[i].state = "unborn"
         /\ remote'[i] = [state |-> "live", name |-> RemoteName[r], restic |-> TRUE,
                          keys |-> {}, used |-> FALSE]
         /\ \A j \in RemoteIds \ {i} : remote'[j] = remote[j]
BY DEF CreateRemote, Typed, TypeOK

LEMMA AddBirths ==
  ASSUME Typed, NEW r \in Repos, NEW i \in RemoteIds, NEW reply, Add(r, i, reply)
  PROVE  Births(r, i) /\ late' = late
<1>0. worker \in [Repos -> Worker] /\ worker[r] \in Worker /\ faults \in Nat
  BY DEF Typed, TypeOK
<1>1. LET n == Resolved(worker[r], i, FALSE, FALSE) IN n \in Worker /\ n.pc = "claim"
  BY <1>0, ResolvedTyped
<1>2. /\ worker'[r].pc \in {"claim", "patch"}
      /\ \A q \in Repos \ {r} : worker'[q] = worker[q]
  BY <1>0, <1>1, RepliedTyped DEF Add
<1> QED  BY <1>2, CreateShape DEF Add, Births

LEMMA DestroyCloses ==
  ASSUME Typed, Requested, NEW r \in Repos, NEW reply, Destroy(r, reply)
  PROVE  late' = late /\ (remote' = remote \/ \E i \in RemoteIds : Closes(r, i))
<1> DEFINE i == worker[r].obj.id
<1>0. /\ worker \in [Repos -> Worker] /\ worker[r] \in Worker
      /\ remote \in [RemoteIds -> Remote]
      /\ i \in RemoteIds \cup {None}
  BY DEF Typed, TypeOK, Worker, Object
<1>1. i \in RemoteIds
  BY DEF Destroy, Requested, Typed, TypeOK
<1>2. worker[r].pc = "destroy" /\ UNCHANGED <<live, cache, late>>
  BY DEF Destroy, apiVars, cacheVars
<1>3. worker'[r].pc \in {"release", "idle"}
  <2>1. At(worker[r], "release").pc = "release" /\ Idle.pc = "idle"
    BY <1>0, AtTyped DEF Idle, Pcs
  <2> QED  BY <1>0, <2>1 DEF Destroy, Goto
<1>4. CASE Hosted(i)
  <2>1. remote' = [remote EXCEPT ![i] = [@ EXCEPT !.state = "destroyed", !.keys = {},
                                                  !.used = FALSE]]
    BY <1>4 DEF Destroy, Destroyed
  <2>2. /\ remote'[i] = [remote[i] EXCEPT !.state = "destroyed", !.keys = {}, !.used = FALSE]
        /\ \A j \in RemoteIds \ {i} : remote'[j] = remote[j]
    BY <1>0, <1>1, <2>1
  <2>3. remote'[i].state = "destroyed"
    BY <1>0, <1>1, <2>2 DEF Remote
  <2> QED  BY <1>1, <1>2, <1>3, <1>4, <2>2, <2>3, Zenon DEF Closes, Hosted
<1>5. CASE ~Hosted(i)
  BY <1>2, <1>5 DEF Destroy
<1> QED  BY <1>2, <1>4, <1>5

LEMMA RemoveCloses ==
  ASSUME Typed, NEW r \in Repos, RemoveRemote(r)
  PROVE  \E i \in RemoteIds : Closes(r, i)
<1> DEFINE i == live[r].id
<1>0. remote \in [RemoteIds -> Remote] /\ i \in RemoteIds
  BY DEF RemoveRemote, Settled, Typed, TypeOK, Object
<1>1. remote' = [remote EXCEPT ![i] = [@ EXCEPT !.state = "removed", !.keys = {}, !.used = FALSE]]
      /\ Settled(r) /\ Hosted(i) /\ UNCHANGED <<live, cache, worker>>
  BY DEF RemoveRemote, apiVars, cacheVars
<1>2. /\ remote'[i] = [remote[i] EXCEPT !.state = "removed", !.keys = {}, !.used = FALSE]
      /\ \A j \in RemoteIds \ {i} : remote'[j] = remote[j]
  BY <1>0, <1>1
<1>3. remote'[i].state = "removed"
  BY <1>0, <1>2 DEF Remote
<1> QED  BY <1>0, <1>1, <1>2, <1>3, Zenon DEF Closes, Hosted

\* restic writes keys and snapshots.
LEMMA ResticPlaces ==
  ASSUME Typed, NEW r \in Repos, RunInit(r) \/ InitJobFails(r) \/ Backup(r)
  PROVE  Places
<1>0. remote \in [RemoteIds -> Remote] /\ job[r].env \in Env \cup {NoEnv}
  BY DEF Typed, TypeOK, Job
<1>1. CASE remote' = remote
  BY <1>1 DEF Places, Kept
<1>2. CASE Backup(r)
  <2> DEFINE i == secret[r].id
  <2>1. remote' = [remote EXCEPT ![i] = [@ EXCEPT !.used = TRUE]] /\ remote[i].keys # {}
    BY <1>2 DEF Backup
  <2> QED  BY <1>0, <2>1 DEF Places, Kept, Remote
<1>3. ASSUME NEW i, NEW p, job[r].env = [id |-> i, password |-> p], job[r].env # NoEnv,
             remote' = [remote EXCEPT ![i] = [@ EXCEPT !.keys = {p}]]
      PROVE  Places
  <2>1. job[r].env.id = i /\ job[r].env.password = p
    BY <1>3
  <2>2. ASSUME NEW j \in RemoteIds \ {i}
        PROVE  Kept(j)
    BY <1>0, <1>3, <2>2 DEF Kept
  <2>3. ASSUME i \in RemoteIds
        PROVE  Kept(i)
    <3>1. remote'[i] = [remote[i] EXCEPT !.keys = {p}]
      BY <1>0, <1>3, <2>3
    <3>2. /\ remote'[i].state = remote[i].state /\ remote'[i].name = remote[i].name
          /\ remote'[i].restic = remote[i].restic /\ remote'[i].used = remote[i].used
          /\ remote'[i].keys = {p}
      BY <1>0, <2>3, <3>1 DEF Remote
    <3> QED  BY <1>3, <2>1, <3>2 DEF Kept
  <2> QED  BY <2>2, <2>3 DEF Places
<1>4. CASE (RunInit(r) \/ InitJobFails(r)) /\ remote' # remote
  <2>1. /\ job[r].env # NoEnv
        /\ remote' = [remote EXCEPT ![job[r].env.id] = [@ EXCEPT !.keys = {job[r].env.password}]]
    BY <1>4 DEF RunInit, InitJobFails
  <2>2. PICK i, p : job[r].env = [id |-> i, password |-> p]
    BY <1>0, <2>1 DEF Env
  <2> QED  BY <1>3, <2>1, <2>2
<1> QED  BY <1>1, <1>2, <1>4

\* Only a request that is given up is pending.
LEMMA LateFrame ==
  ASSUME [Next]_vars, "lateAdd" \notin Faults
  PROVE  late' \subseteq late
<1>1. ASSUME NEW r \in Repos, PassStep(r) \/ ReplyLost(r)
      PROVE  late' = late
  BY <1>1, Zenon
  DEF PassStep, ReplyLost, StartPass, AddFinalizer, ResolveExisting, ResolveRecorded,
     ResolveByName, Add, Claim, WriteSecret, RefuseSecret, CleanupInitJob, CreateInitJob,
     AwaitInitJob, RetryInitJob, RecordInitialized, PatchStatus, Destroy, Release, borgbase
<1>2. ASSUME NEW r \in Repos, Failure(r) \/ Cluster(r) \/ Administrator(r)
      PROVE  late' \subseteq late
  BY <1>2, Zenon DEF Failure, AbandonAdd, Fault, CallFails, PassFails, TokenUnavailable, Cluster,
     StartPod, RunInit, InitJobFails, ExpireJob, CollectSecret, CollectJob, Backup, LateAdd,
     Administrator, CreateRepository, DeleteRepository, SetPolicy, ToggleSuspend, LoseSecret,
     RemoveRemote, borgbase
<1>3. CASE SyncRepositories \/ SyncJobs \/ Crash \/ UNCHANGED vars
  BY <1>3 DEF SyncRepositories, SyncJobs, Crash, vars, borgbase
<1> QED  BY <1>1, <1>2, <1>3 DEF Next

\* A step keeps what places a repository, creates one, or takes one away.
LEMMA RemoteKinds ==
  ASSUME Typed, Requested, [Next]_vars
  PROVE  Places \/ \E r \in Repos, i \in RemoteIds : Births(r, i) \/ Closes(r, i)
<1>0. remote' = remote => Places
  BY DEF Places, Kept
<1>1. ASSUME NEW r \in Repos, PassStep(r) \/ ReplyLost(r)
      PROVE  Places \/ \E i \in RemoteIds : Births(r, i) \/ Closes(r, i)
  <2>1. \/ remote' = remote
        \/ \E i \in RemoteIds, reply \in Replies : Add(r, i, reply)
        \/ \E reply \in Replies : Destroy(r, reply)
    BY <1>1 DEF PassStep, ReplyLost, StartPass, AddFinalizer, ResolveExisting,
       ResolveRecorded, ResolveByName, Claim, WriteSecret, RefuseSecret, CleanupInitJob,
       CreateInitJob, AwaitInitJob, RetryInitJob, RecordInitialized, PatchStatus, Release,
       borgbase, Replies
  <2> QED  BY <1>0, <2>1, AddBirths, DestroyCloses
<1>2. ASSUME NEW r \in Repos, Failure(r) \/ Cluster(r) \/ Administrator(r)
      PROVE  Places \/ \E i \in RemoteIds : Births(r, i) \/ Closes(r, i)
  <2>1. ASSUME NEW i \in RemoteIds, LateAdd(r, i)
        PROVE  Births(r, i)
    BY <2>1, CreateShape DEF LateAdd, Births
  <2>2. \/ remote' = remote
        \/ RunInit(r) \/ InitJobFails(r) \/ Backup(r) \/ RemoveRemote(r)
        \/ \E i \in RemoteIds : LateAdd(r, i)
    BY <1>2 DEF Failure, AbandonAdd, CallFails, PassFails, TokenUnavailable, Cluster,
       StartPod, ExpireJob, CollectSecret, CollectJob, Administrator, CreateRepository,
       DeleteRepository, SetPolicy, ToggleSuspend, LoseSecret, borgbase
  <2> QED  BY <1>0, <2>1, <2>2, ResticPlaces, RemoveCloses
<1>3. CASE SyncRepositories \/ SyncJobs \/ Crash \/ UNCHANGED vars
  BY <1>0, <1>3 DEF SyncRepositories, SyncJobs, Crash, vars, borgbase
<1> QED  BY <1>1, <1>2, <1>3 DEF Next

-------------------------------------------------------------------------------
(* One repository per name *)

\* The Repositories that are provisioned have names of their own, and BorgBase has no two
\* repositories of one name before the operator starts.
NamesApart ==
  /\ \A r, o \in Repos : Provisions(r) /\ Provisions(o) /\ RemoteName[r] = RemoteName[o]
                         => r = o
  /\ \A f \in Preexisting : \A i, j \in RemoteIds :
       f[i].state = "live" /\ f[j].state = "live" /\ f[i].name = f[j].name => i = j

\* A pass asks for a repository only while BorgBase has none of the name.
NamesInv ==
  /\ late = {} /\ NoDuplicateRemote
  /\ \A r \in Repos : worker[r].pc = "add" => Named(RemoteName[r]) = {}

LEMMA NamesInit == ASSUME NamesApart PROVE Init => NamesInv
<1>1. ASSUME Init PROVE NoDuplicateRemote
  BY <1>1 DEF Init, NamesApart, NoDuplicateRemote, Hosted
<1> QED  BY <1>1 DEF Init, NamesInv, Idle

\* A repository is created only where the lookup by its name has found none.
LEMMA NamesNext ==
  ASSUME NamesApart, "lateAdd" \notin Faults
  PROVE  Typed /\ Requested /\ Elders /\ NamesInv /\ [Next]_vars => NamesInv'
<1> SUFFICES ASSUME Typed, Requested, Elders, NamesInv, [Next]_vars PROVE NamesInv'
  OBVIOUS
<1>1. late' = {}
  BY LateFrame DEF NamesInv
<1>2. ASSUME NEW r \in Repos, worker[r].pc = "add"
      PROVE  Provisions(r)
  BY <1>2 DEF Elders, AdoptsOne, Provisions
<1>3. ASSUME NEW q \in Repos, worker'[q].pc = "add"
      PROVE  Provisions(q) /\ Named(RemoteName[q]) = {} /\ worker[q].pc \in {"add", "resolve"}
  <2>1. CASE worker'[q] = worker[q]
    BY <1>2, <1>3, <2>1 DEF NamesInv
  <2>2. CASE worker'[q] = Idle
    BY <1>3, <2>2 DEF Idle
  <2>3. ASSUME NEW r \in Repos, Walks(r)
        PROVE  worker'[q] = worker[q] \/ worker'[q] = Idle \/ Adds(q, worker'[q])
    <3>1. PICK n \in Worker : Goto(r, n) /\ Walk(r, n)
      BY <2>3 DEF Walks
    <3>2. worker'[r] = n /\ \A o \in Repos \ {r} : worker'[o] = worker[o]
      BY <3>1, GotoTyped DEF Typed, TypeOK
    <3>3. n.pc = "add" => n = Idle \/ Adds(r, n)
      BY <3>1 DEF Walk, Begins, Enters, Ends, ToClaim, ToSecret, ToInit
    <3> QED  BY <1>3, <3>2, <3>3
  <2>4. CASE Adds(q, worker'[q])
    BY <2>4 DEF Adds
  <2>5. ASSUME NEW r \in Repos, AddFinalizer(r) \/ PatchStatus(r) \/ Release(r) \/ Edits(r)
        PROVE  worker'[q] = worker[q] \/ worker'[q] = Idle
    BY <1>3, <2>5, FinalizerShape, PatchShape, ReleaseShape DEF Edits, Enters
  <2> QED  BY <2>1, <2>2, <2>3, <2>4, <2>5, StepKinds DEF Refreshes
<1>4. CASE Places \/ \E r \in Repos, i \in RemoteIds : Closes(r, i)
  <2>1. \A i \in RemoteIds : Hosted(i)' => Hosted(i) /\ remote'[i].name = remote[i].name
    BY <1>4, Zenon DEF Places, Kept, Closes, Hosted
  <2>2. NoDuplicateRemote'
    BY <2>1 DEF NamesInv, NoDuplicateRemote
  <2>3. \A n : Named(n)' \subseteq Named(n)
    BY <2>1 DEF Named
  <2> QED  BY SMTT(30), <1>1, <1>3, <2>2, <2>3 DEF NamesInv
<1>5. ASSUME NEW r \in Repos, NEW i \in RemoteIds, Births(r, i)
      PROVE  NamesInv'
  <2>1. /\ worker[r].pc = "add" /\ worker'[r].pc \in {"claim", "patch"}
        /\ remote'[i].name = RemoteName[r] /\ remote[i].state = "unborn"
        /\ \A j \in RemoteIds \ {i} : remote'[j] = remote[j]
    BY <1>5 DEF Births, NamesInv
  <2>2. Provisions(r) /\ Named(RemoteName[r]) = {}
    BY <1>2, <2>1 DEF NamesInv
  <2>3. NoDuplicateRemote'
    BY <2>1, <2>2 DEF NamesInv, NoDuplicateRemote, Named, Hosted
  <2>4. ASSUME NEW q \in Repos, worker'[q].pc = "add"
        PROVE  Named(RemoteName[q])' = {}
    <3>1. q # r
      BY <2>1, <2>4
    <3>2. RemoteName[q] # RemoteName[r] /\ Named(RemoteName[q]) = {}
      BY <1>3, <2>2, <2>4, <3>1 DEF NamesApart
    <3> QED  BY <2>1, <3>2 DEF Named, Hosted
  <2> QED  BY <1>1, <2>3, <2>4 DEF NamesInv
<1> QED  BY <1>4, <1>5, RemoteKinds

\* Whatever replies are lost and however far the cache lags, the lookup by name that comes
\* before every Add keeps a second repository from being created, for every number of
\* resources with names of their own; an Add that BorgBase runs after the client gave it up
\* is excluded, since nothing the operator does can see it.
THEOREM NeverDuplicated ==
  ASSUME NamesApart, "lateAdd" \notin Faults
  PROVE  Spec => []NoDuplicateRemote
<1>1. NamesInv => NoDuplicateRemote
  BY DEF NamesInv
<1> QED  BY <1>1, AlwaysTyped, RequestedInit, RequestedNext, EldersInit, EldersNext,
            NamesInit, NamesNext, PTL DEF Spec

-------------------------------------------------------------------------------
(* The recorded ID *)

\* The Repositories that are provisioned have names of their own, and those that adopt take
\* repositories that are there under other names.
ResourcesApart ==
  /\ \A r, o \in Repos : Provisions(r) /\ Provisions(o) /\ RemoteName[r] = RemoteName[o]
                         => r = o
  /\ \A f \in Preexisting : \A r \in Repos : ~Provisions(r) =>
       /\ f[Existing[r]].state = "live"
       /\ \A o \in Repos : Provisions(o) => f[Existing[r]].name # RemoteName[o]

\* BorgBase has, or had, the repository i under the name of r.
Own(r, i) == i \in RemoteIds /\ remote[i].state # "unborn" /\ remote[i].name = RemoteName[r]

\* An adopted repository is there, or was, and no provisioned resource has its name.
Adopted ==
  \A r \in Repos : ~Provisions(r) =>
    /\ Existing[r] \in RemoteIds /\ remote[Existing[r]].state # "unborn"
    /\ \A o \in Repos : Provisions(o) => ~Own(o, Existing[r])

\* The IDs a resource has seen are of repositories of its name.
OwnIds(r) ==
  /\ live[r].id # None => Own(r, live[r].id)
  /\ cache[r].id # None => Own(r, cache[r].id)
  /\ worker[r].obj.id # None => Own(r, worker[r].obj.id)
  /\ worker[r].base.id # None => Own(r, worker[r].base.id)

\* The repository a pass has resolved is hosted until the pass has recorded it, and is the
\* one recorded before.
Target(r) ==
  LET w == worker[r] IN
  /\ w.pc \in {"claim", "secret", "init"} => /\ Own(r, w.target) /\ Hosted(w.target)
                                             /\ w.base.id \in {None, w.target}
  /\ w.pc = "patch" /\ w.obj.id # w.base.id => w.base.id = None /\ Hosted(w.obj.id)
  /\ w.pc = "add" => w.base.id = None

\* A pass that began with a copy from before the ID was recorded finds the same repository by
\* its name: nobody takes away a repository whose ID the cache does not show.
StalePass(r) ==
  LET w == worker[r]  i == live[r].id IN
  i # None /\ w.base.id = None =>
    /\ w.pc = "resolve" => Hosted(i)
    /\ w.pc # "add"
    /\ w.pc \in {"claim", "secret", "init"} => w.target = i
    /\ w.pc = "patch" => w.obj.id \in {None, i}
Shown(r) ==
  LET i == live[r].id IN
  i # None /\ ~Hosted(i) => cache[r].deleting \/ cache[r].id = i

Ids(r) == OwnIds(r) /\ Target(r) /\ StalePass(r) /\ Shown(r)
IdsInv == Adopted /\ \A r \in Repos : Provisions(r) => Ids(r)

LEMMA IdsInit == ASSUME ResourcesApart PROVE Init => IdsInv
<1> SUFFICES ASSUME Init PROVE IdsInv
  OBVIOUS
<1>1. Adopted
  BY InputAssumption DEF Init, ResourcesApart, Adopted, Own, Provisions
<1>2. ASSUME NEW r \in Repos
      PROVE  Ids(r)
  <2>1. live[r] = NoObject /\ cache[r] = NoObject /\ worker[r] = Idle
    BY DEF Init
  <2> QED  BY <2>1 DEF Ids, OwnIds, Target, StalePass, Shown, NoObject, Idle
<1> QED  BY <1>1, <1>2 DEF IdsInv

\* A repository keeps its name for good.
LEMMA NamesKept ==
  ASSUME Typed, Requested, [Next]_vars, NEW i \in RemoteIds, remote[i].state # "unborn"
  PROVE  remote'[i].state # "unborn" /\ remote'[i].name = remote[i].name
<1>0. remote[i] \in Remote
  BY DEF Typed, TypeOK
<1>1. ASSUME NEW r \in Repos, NEW j \in RemoteIds, Closes(r, j)
      PROVE  remote'[i].state # "unborn" /\ remote'[i].name = remote[i].name
  <2>1. CASE i # j
    BY <1>1, <2>1 DEF Closes
  <2>2. CASE i = j
    BY <1>0, <1>1, <2>2 DEF Closes, Remote
  <2> QED  BY <2>1, <2>2
<1> QED  BY <1>1, RemoteKinds DEF Places, Kept, Births

LEMMA OwnKept ==
  ASSUME Typed, Requested, [Next]_vars
  PROVE  \A r \in Repos : \A i : Own(r, i) => Own(r, i)'
BY NamesKept DEF Own

LEMMA AdoptedNext == Typed /\ Requested /\ Adopted /\ [Next]_vars => Adopted'
BY NamesKept DEF Adopted, Own

\* Only the pass of a resource that is being deleted, or an administrator once the ID is in
\* the cache, takes a repository of its name away.
LEMMA HostKept ==
  ASSUME ResourcesApart, Typed, Requested, Elders, IdsInv, [Next]_vars,
         NEW q \in Repos, Provisions(q), NEW i, Own(q, i), Hosted(i), ~Hosted(i)'
  PROVE  /\ UNCHANGED <<live, cache>>
         /\ \/ worker[q].pc = "destroy" /\ worker'[q].pc \in {"release", "idle"}
               /\ worker[q].obj.id = i
            \/ worker[q].pc = "idle" /\ worker' = worker
               /\ live[q].id = i /\ cache[q].id = i
<1>1. PICK r \in Repos : Closes(r, i)
  <2>1. i \in RemoteIds /\ ~Places
    BY DEF Own, Places, Kept, Hosted
  <2>2. ASSUME NEW o \in Repos, NEW j \in RemoteIds, Births(o, j) \/ (Closes(o, j) /\ i # j)
        PROVE  FALSE
    BY <2>1, <2>2 DEF Births, Closes, Hosted
  <2> QED  BY <2>1, <2>2, RemoteKinds
<1>2. i \in RemoteIds /\ i # None
  BY InputAssumption DEF Own
<1>3. live[r].id = i \/ worker[r].obj.id = i
  BY <1>1 DEF Closes
<1>4. Provisions(r)
  <2>1. ASSUME ~Provisions(r)
        PROVE  FALSE
    <3>1. Existing[r] = i
      BY <1>2, <1>3, <2>1 DEF Elders, AdoptsOne, Provisions
    <3> QED  BY <2>1, <3>1 DEF IdsInv, Adopted
  <2> QED  BY <2>1
<1>5. Own(r, i)
  BY <1>2, <1>3, <1>4 DEF IdsInv, Ids, OwnIds
<1>6. r = q
  BY <1>4, <1>5 DEF Own, ResourcesApart
<1> QED  BY <1>1, <1>6 DEF Closes, Settled

\* Every step keeps the IDs in line with the names.
LEMMA IdsNext ==
  ASSUME ResourcesApart
  PROVE  Typed /\ Requested /\ Elders /\ LineageInv /\ IdsInv /\ [Next]_vars => IdsInv'
<1> SUFFICES ASSUME Typed, Requested, Elders, LineageInv, IdsInv, [Next]_vars,
                    NEW q \in Repos, Provisions(q)
             PROVE  Ids(q)'
  BY AdoptedNext DEF IdsInv, Provisions
<1> DEFINE w == worker[q]
<1>0. /\ Ids(q) /\ Lineage(q) /\ worker \in [Repos -> Worker]
      /\ Idle.pc = "idle" /\ Idle.obj.id = None /\ Idle.base.id = None
  BY DEF IdsInv, LineageInv, Typed, TypeOK, Idle, NoObject
<1>1. \A i : Own(q, i) => Own(q, i)'
  BY OwnKept
<1>2. ASSUME NEW i, Own(q, i), Hosted(i), w.pc \notin {"destroy", "idle"}
      PROVE  Hosted(i)'
  BY <1>2, HostKept
<1>3. ASSUME live'[q].id = live[q].id, UNCHANGED cache[q]
      PROVE  Shown(q)'
  <2> SUFFICES ASSUME live[q].id # None, remote'[live[q].id].state # "live"
               PROVE  cache[q].deleting \/ cache[q].id = live[q].id
    BY <1>3 DEF Shown, Hosted
  <2>1. CASE ~Hosted(live[q].id)
    BY <1>0, <2>1 DEF Ids, Shown
  <2>2. CASE Hosted(live[q].id)
    <3>1. PICK i : i = live[q].id
      OBVIOUS
    <3>2. Own(q, i) /\ Hosted(i) /\ ~Hosted(i)'
      BY <1>0, <2>2, <3>1 DEF Ids, OwnIds, Hosted
    <3>3. w.pc = "destroy" \/ cache[q].id = i
      BY <3>2, HostKept
    <3> QED  BY <1>0, <3>1, <3>3 DEF Lineage, Whole
  <2> QED  BY <2>1, <2>2
<1>4. CASE UNCHANGED <<live[q], cache[q], worker[q]>>
  <2>1. OwnIds(q)'
    BY <1>0, <1>1, <1>4 DEF Ids, OwnIds
  <2>2. Target(q)' /\ StalePass(q)'
    BY <1>0, <1>1, <1>2, <1>4 DEF Ids, OwnIds, Target, StalePass
  <2> QED  BY <1>3, <1>4, <2>1, <2>2 DEF Ids
<1>5. CASE UNCHANGED <<live[q], cache[q]>> /\ worker'[q] = Idle
  <2>1. OwnIds(q)' /\ Target(q)' /\ StalePass(q)'
    BY <1>0, <1>1, <1>5 DEF Ids, OwnIds, Target, StalePass
  <2> QED  BY <1>3, <1>5, <2>1 DEF Ids
<1>6. ASSUME NEW r \in Repos, Walks(r)
      PROVE  Ids(q)'
  <2>1. PICK n \in Worker : Goto(r, n) /\ Walk(r, n)
    BY <1>6 DEF Walks
  <2>2. worker'[r] = n /\ (\A o \in Repos \ {r} : worker'[o] = worker[o])
        /\ UNCHANGED <<live, cache>>
    BY <1>0, <1>6, <2>1, GotoTyped DEF Walks
  <2>3. CASE r # q
    BY <1>4, <2>2, <2>3
  <2>4. CASE r = q
    <3>0. /\ worker'[q] = n /\ live'[q] = live[q] /\ cache'[q] = cache[q] /\ Shown(q)'
      BY <1>3, <2>2, <2>4
    <3>1. CASE n = Idle
      BY <1>5, <2>2, <2>4, <3>1
    <3>2. CASE Begins(q, n)
      <4>1. n.obj.id = cache[q].id /\ n.base.id = cache[q].id
        BY <3>2 DEF Begins, Enters, Copied
      <4>2. OwnIds(q)'
        BY <1>0, <1>1, <3>0, <4>1 DEF Ids, OwnIds
      <4>3. Target(q)'
        BY <3>0, <3>2, <4>1 DEF Begins, Enters, Target
      <4>4. ASSUME live[q].id # None, n.pc = "resolve", cache[q].id = None
            PROVE  Hosted(live[q].id)'
        <5>1. ~cache[q].deleting /\ w.pc = "idle"
          BY <3>2, <4>4 DEF Begins, Enters
        <5> QED  BY <1>0, <3>0, <4>4, <5>1 DEF Shown
      <4>5. StalePass(q)'
        BY <3>0, <3>2, <4>1, <4>4 DEF Begins, Enters, StalePass
      <4> QED  BY <3>0, <4>2, <4>3, <4>5 DEF Ids
    <3>3. CASE Ends(q, n) \/ Adds(q, n) \/ ToClaim(q, n) \/ ToInit(q, n)
      <4>1. n.obj.id = w.obj.id /\ n.base = w.base
        BY <3>3 DEF Ends, Adds, ToClaim, ToInit, CarriesId, Carries
      <4>2. OwnIds(q)'
        BY <1>0, <1>1, <3>0, <4>1 DEF Ids, OwnIds
      <4>3. CASE Ends(q, n)
        <5>1. /\ n.pc \in {"patch", "release"}
              /\ (n.pc = "patch" => w.pc \in Reconciling \cup {"destroy"})
          BY <4>3 DEF Ends
        <5>2. ASSUME n.pc = "patch", n.obj.id # n.base.id
              PROVE  n.base.id = None /\ Hosted(n.obj.id)' /\ n.obj.id = w.target
                     /\ w.pc \in {"secret", "init"}
          <6>1. w.pc \in {"secret", "init"} /\ w.obj.id = w.target /\ w.obj.id # None
            BY <1>0, <4>1, <5>1, <5>2 DEF Lineage, Reconciling
          <6>2. Own(q, w.target) /\ Hosted(w.target) /\ w.base.id = None
            BY <1>0, <4>1, <5>2, <6>1 DEF Ids, Target
          <6> QED  BY <1>2, <4>1, <6>1, <6>2
        <5>3. Target(q)'
          BY <3>0, <5>1, <5>2 DEF Target
        <5>4. StalePass(q)'
          BY <1>0, <3>0, <4>1, <5>1, <5>2 DEF Ids, StalePass
        <5> QED  BY <3>0, <4>2, <5>3, <5>4 DEF Ids
      <4>4. CASE Adds(q, n)
        <5>1. /\ n.pc = "add" /\ w.pc = "resolve" /\ w.obj.id = None
              /\ Named(RemoteName[q]) = {}
          BY <4>4 DEF Adds
        <5>2. w.base.id = None
          BY <1>0, <5>1 DEF Lineage
        <5>3. live[q].id = None
          BY <1>0, <5>1, <5>2 DEF Ids, OwnIds, StalePass, Own, Named
        <5> QED  BY <3>0, <4>1, <4>2, <5>1, <5>2, <5>3 DEF Ids, Target, StalePass
      <4>5. CASE ToClaim(q, n)
        <5>1. n.pc = "claim" /\ Resolves(q, n.target) /\ w.pc \in {"resolve", "add"}
          BY <4>5 DEF ToClaim, Resolves
        <5>2. w.obj.id = w.base.id
          BY <1>0, <5>1 DEF Lineage
        <5>3. /\ Own(q, n.target)' /\ Hosted(n.target)'
              /\ w.base.id \in {None, n.target}
              /\ live[q].id # None /\ w.base.id = None => n.target = live[q].id
          <6>1. CASE w.pc = "add"
            <7>1. n.target \in RemoteIds /\ CreateRemote(q, n.target)
              BY <5>1, <6>1 DEF Resolves
            <7>2. ASSUME NEW i \in RemoteIds, CreateRemote(q, i)
                  PROVE  remote'[i].state = "live" /\ remote'[i].name = RemoteName[q]
              <8>1. remote'[i] = [state |-> "live", name |-> RemoteName[q], restic |-> TRUE,
                                  keys |-> {}, used |-> FALSE]
                BY <7>2, CreateShape
              <8> QED  BY <8>1
            <7>3. remote'[n.target].state = "live" /\ remote'[n.target].name = RemoteName[q]
              BY <7>1, <7>2
            <7>4. Own(q, n.target)' /\ Hosted(n.target)'
              BY <7>1, <7>3 DEF Own, Hosted
            <7> QED  BY <1>0, <6>1, <7>4 DEF Ids, Target, StalePass
          <6>2. CASE w.pc = "resolve" /\ n.target = w.obj.id
            BY <1>0, <1>1, <1>2, <5>1, <5>2, <6>2, InputAssumption
            DEF Ids, OwnIds, Resolves
          <6>3. CASE w.pc = "resolve" /\ w.obj.id = None /\ Named(RemoteName[q]) = {n.target}
            <7>1. Own(q, n.target) /\ Hosted(n.target)
              BY <6>3 DEF Own, Named, Hosted
            <7>2. live[q].id # None /\ w.base.id = None => n.target = live[q].id
              BY <1>0, <6>3 DEF Ids, OwnIds, StalePass, Own, Named
            <7> QED  BY <1>1, <1>2, <5>2, <6>3, <7>1, <7>2
          <6> QED  BY <5>1, <6>1, <6>2, <6>3 DEF Resolves
        <5> QED  BY <3>0, <4>1, <4>2, <5>1, <5>3 DEF Ids, Target, StalePass
      <4>6. CASE ToInit(q, n)
        <5>1. n.pc = "init" /\ w.pc = "secret" /\ n.target = w.target
          BY <4>6 DEF ToInit
        <5> QED  BY <1>0, <1>1, <1>2, <3>0, <4>1, <4>2, <5>1 DEF Ids, Target, StalePass
      <4> QED  BY <3>3, <4>3, <4>4, <4>5, <4>6
    <3>4. CASE ToSecret(q, n)
      <4>1. /\ n.pc = "secret" /\ w.pc = "claim" /\ n.target = w.target
            /\ n.obj.id = w.target /\ n.base = w.base
        BY <3>4 DEF ToSecret, Carries
      <4>2. Own(q, w.target) /\ Hosted(w.target)
        BY <1>0, <4>1 DEF Ids, Target
      <4>3. OwnIds(q)'
        BY <1>0, <1>1, <3>0, <4>1, <4>2 DEF Ids, OwnIds
      <4> QED  BY <1>0, <1>1, <1>2, <3>0, <4>1, <4>2, <4>3 DEF Ids, Target, StalePass
    <3> QED  BY <2>1, <2>4, <3>1, <3>2, <3>3, <3>4 DEF Walk
  <2> QED  BY <2>3, <2>4
<1>7. ASSUME NEW r \in Repos, AddFinalizer(r)
      PROVE  Ids(q)'
  <2>1. CASE r # q
    BY <1>4, <1>7, <2>1, FinalizerShape
  <2>2. CASE r = q
    <3>1. /\ w.pc = "finalizer" /\ cache' = cache /\ live'[q].id = live[q].id
          /\ worker'[q] = Idle \/ Enters(worker'[q], live'[q])
      BY <1>7, <2>2, FinalizerShape
    <3>2. OwnIds(q)'
      BY <1>0, <1>1, <3>1 DEF Ids, OwnIds, Enters, Copied
    <3>3. Target(q)' /\ StalePass(q)'
      BY <1>0, <3>1 DEF Enters, Copied, Target, StalePass
    <3> QED  BY <1>3, <3>1, <3>2, <3>3 DEF Ids
  <2> QED  BY <2>1, <2>2
<1>8. ASSUME NEW r \in Repos, Release(r) \/ Edits(r)
      PROVE  Ids(q)'
  <2>1. CASE r # q
    BY <1>4, <1>8, <2>1, ReleaseShape, EditShape DEF Edits
  <2>2. CASE r = q
    <3>1. /\ cache' = cache /\ live'[q].id \in {None, live[q].id}
          /\ worker'[q] = Idle \/ worker'[q] = worker[q]
      BY <1>8, <2>2, ReleaseShape, EditShape DEF Edits, EditOf, Gone
    <3>2. OwnIds(q)'
      BY <1>0, <1>1, <3>1 DEF Ids, OwnIds
    <3>3. Target(q)' /\ StalePass(q)'
      BY <1>0, <1>1, <1>2, <3>1 DEF Ids, OwnIds, Target, StalePass
    <3>4. Shown(q)'
      BY <1>3, <3>1 DEF Shown
    <3> QED  BY <3>2, <3>3, <3>4 DEF Ids
  <2> QED  BY <2>1, <2>2
<1>9. ASSUME NEW r \in Repos, PatchStatus(r)
      PROVE  Ids(q)'
  <2>1. CASE r # q
    BY <1>4, <1>9, <2>1, PatchShape
  <2>2. CASE r = q
    <3>1. /\ w.pc = "patch" /\ cache' = cache /\ worker'[q] = Idle
          /\ \/ live'[q].id = live[q].id
             \/ live'[q].id = w.obj.id /\ w.obj.id # w.base.id
      BY <1>9, <2>2, PatchShape
    <3>2. OwnIds(q)'
      BY <1>0, <1>1, <3>1 DEF Ids, OwnIds
    <3>3. Target(q)' /\ StalePass(q)'
      BY <1>0, <3>1 DEF Target, StalePass
    <3>4. Shown(q)'
      <4>1. CASE live'[q].id = w.obj.id /\ w.obj.id # w.base.id
        BY <1>0, <1>2, <3>1, <4>1 DEF Lineage, Ids, OwnIds, Target, Shown
      <4> QED  BY <1>3, <3>1, <4>1
    <3> QED  BY <3>2, <3>3, <3>4 DEF Ids
  <2> QED  BY <2>1, <2>2
<1>10. CASE Refreshes
  <2>1. cache' = live /\ live' = live /\ (worker'[q] = Idle \/ worker'[q] = worker[q])
    BY <1>10 DEF Refreshes
  <2>2. OwnIds(q)'
    BY <1>0, <1>1, <2>1 DEF Ids, OwnIds
  <2>3. Target(q)' /\ StalePass(q)'
    BY <1>0, <1>1, <1>2, <2>1 DEF Ids, OwnIds, Target, StalePass
  <2> QED  BY <2>1, <2>2, <2>3 DEF Ids, Shown
<1> QED  BY <1>4, <1>6, <1>7, <1>8, <1>9, <1>10, StepKinds

\* An ID that is recorded stays while the incarnation lives.
LEMMA IdStays ==
  ASSUME Typed, Elders, LineageInv, IdsInv, [Next]_vars, NEW r \in Repos,
         live[r].id # None, live'[r].uid = live[r].uid
  PROVE  live'[r].id = live[r].id
<1>0. Whole(live[r]) /\ Dated(live[r]) /\ Lineage(r)
  BY DEF LineageInv, Lineage, Elders, Incarnations
<1>1. live[r].exists /\ live[r].uid # 0
  BY <1>0 DEF Whole, Dated
<1>2. ASSUME NEW q \in Repos, Edits(q) \/ Release(q) \/ AddFinalizer(q) \/ Walks(q)
      PROVE  live'[r].id = live[r].id
  BY <1>1, <1>2, EditShape, ReleaseShape, FinalizerShape DEF EditOf, Gone, Walks
<1>3. ASSUME NEW q \in Repos, PatchStatus(q)
      PROVE  live'[r].id = live[r].id
  <2>1. CASE q # r
    BY <1>3, <2>1, PatchShape
  <2>2. CASE q = r
    <3>1. /\ worker[r].pc = "patch"
          /\ live'[r].id = IF live[r].exists /\ worker[r].obj.id # worker[r].base.id
                           THEN worker[r].obj.id ELSE live[r].id
      BY <1>3, <2>2, PatchShape
    <3>2. worker[r].obj.id # worker[r].base.id => worker[r].obj.id # None
      BY <1>0 DEF Lineage
    <3>3. CASE ~Provisions(r)
      BY <3>1, <3>2, <3>3 DEF Elders, AdoptsOne, Provisions
    <3>4. CASE Provisions(r)
      BY <3>1, <3>2, <3>4 DEF IdsInv, Ids, Target, StalePass
    <3> QED  BY <3>3, <3>4
  <2> QED  BY <2>1, <2>2
<1> QED  BY <1>2, <1>3, StepKinds DEF Refreshes

\* status.repositoryID, once recorded, stays as it is while the incarnation lives, for every
\* number of resources that keep out of each other's way on BorgBase: a pass that began with
\* a copy from before it finds the same repository by its name, since a repository whose ID
\* the cache does not show yet is not taken away.
THEOREM IdNeverMoves ==
  ASSUME ResourcesApart
  PROVE  Spec => RecordedIdStable
<1>1. Typed /\ Elders /\ LineageInv /\ IdsInv /\ [Next]_vars
        => [\A r \in Repos : live[r].id # None /\ live'[r].uid = live[r].uid
                               => live'[r].id = live[r].id]_vars
  BY IdStays
<1> QED  BY <1>1, AlwaysTyped, RequestedInit, RequestedNext, EldersInit, EldersNext,
            LineageInit, LineageNext, IdsInit, IdsNext, PTL DEF Spec, RecordedIdStable

-------------------------------------------------------------------------------
(* One password per repository *)

\* The repositories a resource may hold, and those of its name that have a password.
Mine(r, i) == i = Existing[r] \/ (Provisions(r) /\ Own(r, i))
Secured(r, i) == Own(r, i) /\ Hosted(i) /\ stored[i] # {}

\* Resources that adopt one repository were given one password for it.
SeedsAgree ==
  \A r, o \in Repos : ~Provisions(r) /\ Existing[r] = Existing[o] => Seed[r] = Seed[o]

\* This resource has its password generated.
Generates(r) == Provisions(r) /\ Seed[r] = None

\* What a Repository is created with, again: the Secret of the one before it, or a name under
\* which BorgBase has no repository with a password.
Careful ==
  \A r \in Repos : Generates(r) /\ ~live[r].exists /\ live'[r].exists =>
    \/ secret[r].exists /\ secret[r].owner = 0
    \/ \A i \in RemoteIds : Hosted(i) /\ remote[i].name = RemoteName[r] => stored[i] = {}

\* The ID is recorded wherever a pass could begin, so that no pass takes the repository for a
\* new one.
Aware(r) ==
  /\ live[r].exists => live[r].id # None
  /\ cache[r].finalizer /\ ~cache[r].deleting => cache[r].id # None
  /\ worker[r].pc \in {"resolve", "add", "claim", "secret"} => worker[r].known

\* A seed is the only password; a generated one is in the Secret, or can no longer be
\* generated again. The Secret of a resource that is there is not collected.
SeedPass(r) ==
  /\ secret[r].exists => secret[r].password = Seed[r]
  /\ \A i \in RemoteIds : Mine(r, i) => stored[i] \subseteq {Seed[r]}
OnePass(r) ==
  \A i \in RemoteIds : Secured(r, i) =>
    /\ secret[r].exists => stored[i] = {secret[r].password}
    /\ ~secret[r].exists => Aware(r)
    /\ live[r].exists => secret[r].owner \in {0, live[r].uid}
PassInv ==
  /\ \A i \in RemoteIds : remote[i].state = "unborn" => stored[i] = {}
  /\ \A r \in Repos : Seed[r] # None => SeedPass(r)
  /\ \A r \in Repos : Generates(r) => OnePass(r)
  /\ OnePasswordPerRemote

LEMMA PassInit == Init => PassInv
<1> SUFFICES ASSUME Init PROVE PassInv
  OBVIOUS
<1>1. \A i \in RemoteIds : stored[i] = {}
  BY DEF Init
<1>2. \A r \in Repos : ~secret[r].exists
  BY DEF Init, NoSecret
<1> QED  BY <1>1, <1>2 DEF PassInv, SeedPass, OnePass, Secured, OnePasswordPerRemote

\* Who knows of its ID goes on to, until it is created again.
LEMMA AwareNext ==
  ASSUME Typed, Elders, LineageInv, [Next]_vars, NEW q \in Repos, Aware(q),
         live'[q].exists => live[q].exists
  PROVE  Aware(q)'
<1> DEFINE w == worker[q]
<1>0. /\ Lineage(q) /\ Whole(live[q]) /\ worker \in [Repos -> Worker]
      /\ Idle.pc = "idle"
  BY DEF LineageInv, Lineage, Typed, TypeOK, Idle
<1>1. live'[q].exists => live'[q].id # None
  <2>1. ASSUME NEW r \in Repos,
               AddFinalizer(r) \/ Release(r) \/ PatchStatus(r) \/ Edits(r) \/ Walks(r),
               live'[q].exists
        PROVE  live'[q].id # None
    <3>0. live[q].exists /\ live[q].id # None
      BY <2>1 DEF Aware
    <3>1. CASE r # q
      BY <2>1, <3>0, <3>1, FinalizerShape, ReleaseShape, PatchShape, EditShape DEF Walks
    <3>2. CASE r = q /\ PatchStatus(r)
      <4>1. \/ live'[q].id = live[q].id
            \/ live'[q].id = w.obj.id /\ w.obj.id # w.base.id
        BY <3>2, PatchShape
      <4> QED  BY <1>0, <3>0, <4>1 DEF Lineage
    <3>3. CASE r = q /\ ~PatchStatus(r)
      BY <2>1, <3>0, <3>3, FinalizerShape, ReleaseShape, EditShape
      DEF Gone, EditOf, Walks
    <3> QED  BY <3>1, <3>2, <3>3
  <2> QED  BY <2>1, StepKinds DEF Aware, Refreshes
<1>2. cache'[q].finalizer /\ ~cache'[q].deleting => cache'[q].id # None
  BY <1>0, CacheFrame DEF Aware, Whole
<1>3. worker'[q].pc \in {"resolve", "add", "claim", "secret"} => worker'[q].known
  <2> DEFINE n == worker'[q]
  <2>1. CASE n = w \/ n = Idle
    BY <1>0, <2>1 DEF Aware
  <2>2. CASE Begins(q, n)
    BY <2>2 DEF Begins, Enters, Aware
  <2>3. CASE Ends(q, n) \/ ToInit(q, n)
    BY <2>3 DEF Ends, ToInit
  <2>4. CASE Adds(q, n) \/ ToClaim(q, n) \/ ToSecret(q, n)
    <3>1. n.known = w.known /\ w.pc \in {"resolve", "add", "claim"}
      BY <2>4 DEF Adds, ToClaim, ToSecret, CarriesId, Carries, Resolves
    <3> QED  BY <3>1 DEF Aware
  <2>5. CASE Enters(n, live'[q]) /\ live'[q].exists
    BY <1>1, <2>5 DEF Enters
  <2>6. ASSUME NEW r \in Repos, Walks(r)
        PROVE  n = w \/ n = Idle \/ Walk(q, n)
    BY <1>0, <2>6, GotoTyped DEF Walks
  <2>7. ASSUME NEW r \in Repos, AddFinalizer(r) \/ PatchStatus(r) \/ Release(r) \/ Edits(r)
        PROVE  n = w \/ n = Idle \/ (Enters(n, live'[q]) /\ live'[q].exists)
    BY <2>7, FinalizerShape, PatchShape, ReleaseShape DEF Edits
  <2> HIDE DEF n
  <2> QED  BY <2>1, <2>2, <2>3, <2>4, <2>5, <2>6, <2>7, StepKinds DEF Walk, Refreshes, n
<1> QED  BY <1>1, <1>2, <1>3 DEF Aware

\* Without an object no pass begins, and an ID in the cache is seen by every pass.
LEMMA AwareAtRest ==
  ASSUME LineageInv, NEW q \in Repos, ~live[q].exists \/ Settled(q)
  PROVE  Aware(q)
BY DEF LineageInv, Lineage, Whole, Settled, Aware, Reconciling

\* A repository a pass writes a Secret for is its own and there.
LEMMA TargetMine ==
  ASSUME Typed, Elders, IdsInv, NEW r \in Repos, worker[r].pc \in {"claim", "secret", "init"}
  PROVE  LET i == worker[r].target IN
         /\ i \in RemoteIds /\ Mine(r, i) /\ remote[i].state # "unborn"
         /\ Provisions(r) => Own(r, i) /\ Hosted(i)
<1>1. CASE Provisions(r)
  BY <1>1 DEF IdsInv, Ids, Target, Own, Mine
<1>2. CASE ~Provisions(r)
  BY <1>2 DEF Elders, AdoptsOne, IdsInv, Adopted, Mine, Provisions
<1> QED  BY <1>1, <1>2

\* Two resources never share a repository, unless both adopt it.
LEMMA MineOnce ==
  ASSUME ResourcesApart, IdsInv, NEW r \in Repos, NEW o \in Repos, NEW i \in RemoteIds,
         Mine(r, i), Mine(o, i)
  PROVE  r = o \/ (~Provisions(r) /\ ~Provisions(o) /\ Existing[r] = i /\ Existing[o] = i)
<1>1. None \notin RemoteIds
  BY InputAssumption
<1>2. CASE Provisions(r) /\ Provisions(o)
  BY <1>1, <1>2 DEF Mine, Own, ResourcesApart, Provisions
<1>3. CASE Provisions(r) /\ ~Provisions(o)
  BY <1>1, <1>3 DEF Mine, Provisions, IdsInv, Adopted
<1>4. CASE ~Provisions(r) /\ Provisions(o)
  BY <1>1, <1>4 DEF Mine, Provisions, IdsInv, Adopted
<1>5. CASE ~Provisions(r) /\ ~Provisions(o)
  BY <1>1, <1>5 DEF Mine
<1> QED  BY <1>2, <1>3, <1>4, <1>5

\* A resource owns a repository with a password only if it did before, or stores one.
LEMMA MineBefore ==
  ASSUME Typed, Requested, PassInv, [Next]_vars, stored' = stored,
         NEW r \in Repos, NEW i \in RemoteIds
  PROVE  /\ Mine(r, i)' /\ stored[i] # {} => Mine(r, i)
         /\ Secured(r, i)' => Secured(r, i)
<1>1. ASSUME remote[i].state = "unborn"
      PROVE  stored[i] = {}
  BY <1>1 DEF PassInv
<1>2. ASSUME remote[i].state # "unborn"
      PROVE  remote'[i].name = remote[i].name
  BY <1>2, NamesKept
<1>3. ASSUME stored[i] # {}, Own(r, i)'
      PROVE  Own(r, i)
  BY <1>1, <1>2, <1>3 DEF Own
<1>4. ASSUME stored[i] # {}, Hosted(i)'
      PROVE  Hosted(i)
  <2>1. ASSUME NEW q \in Repos, NEW j \in RemoteIds, Births(q, j)
        PROVE  Hosted(i)
    BY <1>1, <1>4, <2>1 DEF Births, Hosted
  <2>2. ASSUME NEW q \in Repos, NEW j \in RemoteIds, Closes(q, j)
        PROVE  Hosted(i)
    BY <1>4, <2>2 DEF Closes, Hosted
  <2>3. CASE Places
    BY <1>4, <2>3 DEF Places, Kept, Hosted
  <2> QED  BY <2>1, <2>2, <2>3, RemoteKinds
<1> QED  BY <1>3, <1>4 DEF Mine, Secured, Provisions

\* Incarnations.
LEMMA UidKept ==
  ASSUME Typed, [Next]_vars, NEW q \in Repos, live[q].exists, live'[q].exists
  PROVE  live'[q].uid = live[q].uid
<1>1. ~NoObject.exists
  BY DEF NoObject
<1> QED  BY <1>1, LiveFrames DEF LiveFrame, Updates, SameIncarnation

\* The steps that leave the Secrets alone.
LEMMA PassKept ==
  ASSUME Typed, Requested, Elders, LineageInv, PassInv, [Next]_vars, Careful,
         secret' = secret, stored' = stored
  PROVE  PassInv'
<1>1. ASSUME NEW i \in RemoteIds, remote'[i].state = "unborn"
      PROVE  stored'[i] = {}
  BY <1>1, NamesKept DEF PassInv
<1>2. ASSUME NEW r \in Repos, Seed[r] # None
      PROVE  SeedPass(r)'
  <2>1. SeedPass(r)
    BY <1>2 DEF PassInv
  <2>2. ASSUME NEW i \in RemoteIds, Mine(r, i)'
        PROVE  stored'[i] \subseteq {Seed[r]}
    BY <2>1, <2>2, MineBefore DEF SeedPass
  <2> QED  BY <2>1, <2>2 DEF SeedPass
<1>3. ASSUME NEW r \in Repos, Generates(r), NEW i \in RemoteIds, Secured(r, i)'
      PROVE  /\ secret[r].exists => stored[i] = {secret[r].password}
             /\ ~secret[r].exists => Aware(r)'
             /\ live'[r].exists => secret[r].owner \in {0, live'[r].uid}
  <2>1. Secured(r, i) /\ OnePass(r)
    BY <1>3, MineBefore DEF PassInv
  <2>2. CASE live'[r].exists /\ ~live[r].exists
    BY <1>3, <2>1, <2>2 DEF Careful, Secured, Own, OnePass
  <2>3. CASE live'[r].exists => live[r].exists
    BY <2>1, <2>3, AwareNext, UidKept DEF OnePass
  <2> QED  BY <2>2, <2>3
<1>4. ASSUME NEW r \in Repos, Generates(r)
      PROVE  OnePass(r)'
  BY <1>3, <1>4 DEF OnePass
<1>5. OnePasswordPerRemote'
  BY DEF PassInv, OnePasswordPerRemote
<1> QED  BY <1>1, <1>2, <1>4, <1>5 DEF PassInv, Generates, Provisions

\* The Secret is written.
LEMMA PassWritten ==
  ASSUME ResourcesApart, SeedsAgree, Typed, Requested, Elders, LineageInv, IdsInv, PassInv,
         [Next]_vars, NEW r \in Repos, NEW p \in Passwords, NEW reply, WriteSecret(r, p, reply)
  PROVE  PassInv'
<1> DEFINE w == worker[r]  i == w.target
<1>0. /\ w.pc = "secret" /\ p \in PasswordFor(r) /\ i \in RemoteIds
      /\ live' = live /\ cache' = cache /\ remote' = remote
      /\ secret'[r] = [exists |-> TRUE, id |-> i, password |-> p, owner |-> OwnerFor(w.obj)]
      /\ \A q \in Repos \ {r} : secret'[q] = secret[q]
      /\ stored'[i] = stored[i] \cup {p}
      /\ \A j \in RemoteIds \ {i} : stored'[j] = stored[j]
  BY WriteShape
<1>1. secret'[r].exists /\ secret'[r].password = p /\ secret'[r].owner = OwnerFor(w.obj)
  BY <1>0
<1>2. Mine(r, i) /\ remote[i].state # "unborn" /\ (Provisions(r) => Own(r, i) /\ Hosted(i))
  BY <1>0, TargetMine
<1>3. \A q \in Repos : \A j : Own(q, j)' = Own(q, j) /\ (Hosted(j)' <=> Hosted(j))
                              /\ (Mine(q, j)' <=> Mine(q, j))
  BY <1>0 DEF Own, Hosted, Mine, Provisions
<1>4. Seed[r] # None => p = Seed[r]
  BY <1>0 DEF PasswordFor, PassInv, SeedPass
<1>5. Seed[r] # None => SeedPass(r)'
  BY <1>0, <1>1, <1>3, <1>4 DEF PassInv, SeedPass
<1>6. ASSUME Generates(r)
      PROVE  stored[i] \subseteq {p} /\ OnePass(r)'
  <2>1. OnePass(r) /\ Seed[r] = None /\ Provisions(r)
    BY <1>6 DEF PassInv, Generates
  <2>2. ASSUME secret[r].exists
        PROVE  stored[i] \subseteq {p} /\ \A j \in RemoteIds : Secured(r, j) => stored[j] = {p}
    <3>1. p = secret[r].password
      BY <1>0, <2>2 DEF PasswordFor
    <3>2. stored[i] \subseteq {p}
      BY <1>0, <1>2, <2>1, <2>2, <3>1 DEF OnePass, Secured
    <3> QED  BY <2>1, <2>2, <3>1, <3>2 DEF OnePass
  <2>3. ASSUME ~secret[r].exists
        PROVE  stored[i] \subseteq {p} /\ \A j \in RemoteIds : Secured(r, j) => stored[j] = {p}
    <3>1. ~w.known
      BY <1>0, <2>1, <2>3 DEF PasswordFor, Refuses
    <3>2. ~Aware(r)
      BY <1>0, <3>1 DEF Aware
    <3>3. \A j \in RemoteIds : ~Secured(r, j)
      BY <2>1, <2>3, <3>2 DEF OnePass
    <3>4. stored[i] = {}
      BY <1>0, <1>2, <2>1, <3>3 DEF Secured
    <3> QED  BY <3>3, <3>4
  <2>4. stored[i] \subseteq {p} /\ \A j \in RemoteIds : Secured(r, j) => stored[j] = {p}
    BY <2>2, <2>3
  <2>5. secret'[r].owner \in {0, live[r].uid}
    <3>1. live[r].uid = w.obj.uid
      BY <1>0 DEF LineageInv, Lineage, Reconciling
    <3> QED  BY <1>1, <3>1 DEF OwnerFor
  <2>6. \A j \in RemoteIds : Secured(r, j)' => stored'[j] = {p}
    BY <1>0, <1>3, <2>4 DEF Secured
  <2> QED  BY <1>0, <1>1, <2>4, <2>5, <2>6 DEF OnePass
<1>7. ASSUME NEW q \in Repos, q # r, Mine(q, i)
      PROVE  ~Provisions(q) /\ ~Provisions(r) /\ Seed[q] = Seed[r]
  BY <1>0, <1>2, <1>7, MineOnce DEF SeedsAgree
<1>8. ASSUME NEW q \in Repos, q # r, Seed[q] # None
      PROVE  SeedPass(q)'
  <2>1. SeedPass(q)
    BY <1>8 DEF PassInv
  <2>2. ASSUME NEW j \in RemoteIds, Mine(q, j)
        PROVE  stored'[j] \subseteq {Seed[q]}
    BY <1>0, <1>4, <1>7, <1>8, <2>1, <2>2 DEF SeedPass
  <2> QED  BY <1>0, <1>3, <1>8, <2>1, <2>2 DEF SeedPass
<1>9. ASSUME NEW q \in Repos, q # r, Generates(q)
      PROVE  OnePass(q)'
  <2>1. OnePass(q) /\ ~Own(q, i)
    BY <1>7, <1>9 DEF PassInv, Generates, Mine
  <2>2. ASSUME Aware(q)
        PROVE  Aware(q)'
    <3>1. worker'[q] = worker[q]
      BY <1>9, WriteShape
    <3> QED  BY <1>0, <2>2, <3>1 DEF Aware
  <2>3. ASSUME NEW j \in RemoteIds, Secured(q, j)'
        PROVE  stored'[j] = stored[j] /\ Secured(q, j)
    BY <1>0, <1>3, <2>1, <2>3 DEF Secured
  <2>4. secret'[q] = secret[q]
    BY <1>0, <1>9
  <2> QED  BY <1>0, <2>1, <2>2, <2>3, <2>4 DEF OnePass
<1>10. stored'[i] \subseteq {p}
  <2>1. CASE Seed[r] # None
    BY <1>0, <1>2, <1>4, <2>1 DEF PassInv, SeedPass
  <2>2. CASE Seed[r] = None
    <3>1. Provisions(r)
      BY <2>2, InputAssumption DEF Provisions
    <3> QED  BY <1>0, <1>6, <2>2, <3>1 DEF Generates
  <2> QED  BY <2>1, <2>2
<1>11. OnePasswordPerRemote'
  BY <1>0, <1>10 DEF PassInv, OnePasswordPerRemote
<1>12. \A j \in RemoteIds : remote'[j].state = "unborn" => stored'[j] = {}
  BY <1>0, <1>2 DEF PassInv
<1> QED  BY <1>5, <1>6, <1>8, <1>9, <1>11, <1>12 DEF PassInv, Generates, Provisions

\* The Secret is collected or lost.
LEMMA PassDiscarded ==
  ASSUME Typed, LineageInv, PassInv, NEW r \in Repos, CollectSecret(r) \/ LoseSecret(r),
         Discards(r)
  PROVE  PassInv'
<1>0. /\ UNCHANGED <<live, cache, worker, remote>> /\ stored' = stored
      /\ secret'[r] = NoSecret /\ \A q \in Repos \ {r} : secret'[q] = secret[q]
  BY DiscardShape DEF CollectSecret, LoseSecret, cacheVars, borgbase
<1>1. NoSecret.owner = 0 /\ ~NoSecret.exists
  BY DEF NoSecret
<1>2. \A q \in Repos : /\ \A j : Secured(q, j)' <=> Secured(q, j)
                       /\ \A j : Mine(q, j)' <=> Mine(q, j)
                       /\ Aware(q)' <=> Aware(q)
  BY <1>0 DEF Own, Hosted, Mine, Secured, Aware, Provisions
<1>3. ASSUME Generates(r), NEW i \in RemoteIds, Secured(r, i)
      PROVE  Aware(r)
  <2>1. CASE CollectSecret(r)
    BY <1>3, <2>1, AwareAtRest DEF CollectSecret, PassInv, OnePass
  <2>2. CASE LoseSecret(r)
    BY <2>2, AwareAtRest DEF LoseSecret
  <2> QED  BY <2>1, <2>2
<1>4. ASSUME NEW q \in Repos, Generates(q)
      PROVE  OnePass(q)'
  <2>1. CASE q = r
    BY <1>0, <1>1, <1>2, <1>3, <1>4, <2>1 DEF OnePass
  <2>2. CASE q # r
    <3>1. OnePass(q) /\ secret'[q] = secret[q]
      BY <1>0, <1>4, <2>2 DEF PassInv
    <3> QED  BY <1>0, <1>2, <3>1 DEF OnePass
  <2> QED  BY <2>1, <2>2
<1>5. ASSUME NEW q \in Repos, Seed[q] # None
      PROVE  SeedPass(q)'
  <2>1. SeedPass(q) /\ secret'[q] \in {NoSecret, secret[q]}
    BY <1>0, <1>5 DEF PassInv
  <2> QED  BY <1>0, <1>1, <1>2, <2>1 DEF SeedPass
<1>6. OnePasswordPerRemote' /\ \A i \in RemoteIds : remote'[i].state = "unborn" => stored'[i] = {}
  BY <1>0 DEF PassInv, OnePasswordPerRemote
<1> QED  BY <1>4, <1>5, <1>6 DEF PassInv, Generates, Provisions

\* Every careful step keeps one password for each repository.
LEMMA PassNext ==
  ASSUME ResourcesApart, SeedsAgree
  PROVE  Typed /\ Requested /\ Elders /\ LineageInv /\ IdsInv /\ PassInv
         /\ [Next]_vars /\ [Careful]_vars => PassInv'
<1> SUFFICES ASSUME Typed, Requested, Elders, LineageInv, IdsInv, PassInv, [Next]_vars,
                    [Careful]_vars
             PROVE  PassInv'
  OBVIOUS
<1>1. Careful
  <2>1. UNCHANGED vars => live' = live
    BY DEF vars, apiVars
  <2> QED  BY <2>1 DEF Careful
<1>2. CASE UNCHANGED <<secret, stored>>
  BY <1>1, <1>2, PassKept
<1> QED  BY <1>2, SecretKinds, PassWritten, PassDiscarded

\* The password of a BorgBase repository is generated exactly once, whatever is lost, retried
\* or restarted and however far the cache lags, as long as a Repository is created only where
\* the Secret of the one before it is kept or no repository with a password has its name:
\* what a resource deleted under Delete before its ID was recorded leaves behind is not that.
THEOREM OnePasswordEver ==
  ASSUME ResourcesApart, SeedsAgree
  PROVE  Spec /\ [][Careful]_vars => []OnePasswordPerRemote
<1>1. PassInv => OnePasswordPerRemote
  BY DEF PassInv
<1> QED  BY <1>1, AlwaysTyped, RequestedInit, RequestedNext, EldersInit, EldersNext,
            LineageInit, LineageNext, IdsInit, IdsNext, PassInit, PassNext, PTL DEF Spec

-------------------------------------------------------------------------------
(* One password per repository under Retain *)

\* Every Repository is created, and stays, under Retain, and nobody deletes a Secret.
AlwaysRetained == Policies \subseteq {"Retain"} /\ PoliciesStay /\ "loseSecret" \notin AdminOps

\* The Secret of a repository with a generated password is there, and belongs to nobody.
KeptInv ==
  \A r \in Repos :
    /\ live[r].policy = "Retain" /\ cache[r].policy = "Retain"
    /\ worker[r].obj.policy = "Retain" /\ secret[r].owner = 0
    /\ Generates(r) => \A i \in RemoteIds : Secured(r, i) => secret[r].exists

LEMMA KeptInit == Init => KeptInv
<1> SUFFICES ASSUME Init, NEW r \in Repos
             PROVE  /\ live[r].policy = "Retain" /\ cache[r].policy = "Retain"
                    /\ worker[r].obj.policy = "Retain" /\ secret[r].owner = 0
                    /\ \A i \in RemoteIds : ~Secured(r, i)
  BY DEF KeptInv
<1>1. /\ live[r] = NoObject /\ cache[r] = NoObject /\ worker[r].obj = NoObject
      /\ secret[r].owner = 0 /\ \A i \in RemoteIds : stored[i] = {}
  BY DEF Init, Idle, NoSecret
<1> QED  BY <1>1 DEF NoObject, Secured

LEMMA KeptIsCareful ==
  ASSUME KeptInv
  PROVE  Careful
BY DEF KeptInv, Careful, Secured, Own, Hosted

\* Under Retain, a Secret that holds the only copy of a password stays.
LEMMA KeptNext ==
  ASSUME ResourcesApart, AlwaysRetained
  PROVE  Typed /\ Requested /\ Elders /\ IdsInv /\ PassInv /\ KeptInv /\ [Next]_vars => KeptInv'
<1> SUFFICES ASSUME Typed, Requested, Elders, IdsInv, PassInv, KeptInv, [Next]_vars,
                    NEW q \in Repos
             PROVE  /\ live'[q].policy = "Retain" /\ cache'[q].policy = "Retain"
                    /\ worker'[q].obj.policy = "Retain" /\ secret'[q].owner = 0
                    /\ Generates(q) => \A i \in RemoteIds : Secured(q, i)' => secret'[q].exists
  BY DEF KeptInv, Generates, Provisions
<1>0. /\ live[q].policy = "Retain" /\ cache[q].policy = "Retain"
      /\ worker[q].obj.policy = "Retain" /\ secret[q].owner = 0
      /\ Generates(q) => \A i \in RemoteIds : Secured(q, i) => secret[q].exists
  BY DEF KeptInv
<1>1. live'[q].policy = "Retain"
  BY <1>0, LivePolicy DEF AlwaysRetained
<1>2. cache'[q].policy = "Retain"
  BY <1>0, CacheFrame
<1>3. worker'[q].obj.policy = "Retain"
  <2>1. NoObject.policy = "Retain"
    BY DEF NoObject
  <2> QED  BY <1>0, <1>1, <2>1, PassPolicy
<1>4. CASE UNCHANGED <<secret, stored>>
  BY <1>0, <1>1, <1>2, <1>3, <1>4, MineBefore
<1>5. ASSUME NEW r \in Repos
      PROVE  ~CollectSecret(r) /\ ~LoseSecret(r)
  <2>1. secret[r].owner = 0
    BY DEF KeptInv
  <2> QED  BY <2>1 DEF CollectSecret, LoseSecret, Admin, AlwaysRetained
<1>6. ASSUME NEW r \in Repos, NEW p \in Passwords, NEW reply \in Replies,
             WriteSecret(r, p, reply)
      PROVE  /\ secret'[q].owner = 0
             /\ Generates(q) => \A i \in RemoteIds : Secured(q, i)' => secret'[q].exists
  <2> DEFINE i == worker[r].target
  <2>1. /\ worker[r].pc = "secret" /\ i \in RemoteIds /\ remote' = remote
        /\ secret'[r] = [exists |-> TRUE, id |-> i, password |-> p,
                         owner |-> OwnerFor(worker[r].obj)]
        /\ \A o \in Repos \ {r} : secret'[o] = secret[o]
        /\ \A j \in RemoteIds \ {i} : stored'[j] = stored[j]
    BY <1>6, WriteShape
  <2>2. secret'[r].exists /\ secret'[r].owner = OwnerFor(worker[r].obj)
    BY <2>1
  <2>3. OwnerFor(worker[r].obj) = 0
    BY DEF KeptInv, OwnerFor
  <2>4. CASE q = r
    BY <2>2, <2>3, <2>4
  <2>5. CASE q # r
    <3>1. Generates(q) => ~Own(q, i)
      BY <2>1, <2>5, TargetMine, MineOnce DEF Mine, Generates
    <3>2. \A j : Own(q, j)' = Own(q, j) /\ (Hosted(j)' <=> Hosted(j))
      BY <2>1 DEF Own, Hosted
    <3>3. secret'[q] = secret[q]
      BY <2>1, <2>5
    <3>4. ASSUME Generates(q), NEW j \in RemoteIds, Secured(q, j)'
          PROVE  Secured(q, j)
      BY <2>1, <3>1, <3>2, <3>4 DEF Secured
    <3> QED  BY <1>0, <3>3, <3>4
  <2> QED  BY <2>4, <2>5
<1> QED  BY <1>1, <1>2, <1>3, <1>4, <1>5, <1>6, SecretKinds

\* So a Repository is always created with care.
LEMMA RetainedIsCareful ==
  ASSUME ResourcesApart, SeedsAgree, AlwaysRetained
  PROVE  Spec => [][Careful]_vars
<1>1. KeptInv => Careful
  BY KeptIsCareful
<1>2. Typed /\ Requested /\ Elders /\ LineageInv /\ IdsInv /\ PassInv /\ KeptInv
      /\ [Next]_vars => PassInv'
  BY <1>1, PassNext
<1> QED  BY <1>1, <1>2, AlwaysTyped, RequestedInit, RequestedNext, EldersInit, EldersNext,
            LineageInit, LineageNext, IdsInit, IdsNext, PassInit, KeptInit, KeptNext, PTL
         DEF Spec

\* Where Repositories are created and stay under Retain, and nobody deletes a Secret, the
\* password of a BorgBase repository is generated once over any number of deletions and
\* creations of its resource, with nothing assumed of the behaviour.
THEOREM OnePasswordUnderRetain ==
  ASSUME ResourcesApart, SeedsAgree, AlwaysRetained
  PROVE  Spec => []OnePasswordPerRemote
BY RetainedIsCareful, OnePasswordEver, PTL

-------------------------------------------------------------------------------
(* Snapshots stay readable *)

\* A restic repository that is there before the operator starts, for a resource, has at most
\* the seed of that resource as its key, and has it if it holds snapshots.
SeedsOpen ==
  \A f \in Preexisting : \A i \in RemoteIds :
    f[i].state = "live" /\ f[i].restic =>
      /\ f[i].used => f[i].keys # {}
      /\ \A r \in Repos : Existing[r] = i \/ (Provisions(r) /\ f[i].name = RemoteName[r])
                            => f[i].keys \subseteq {Seed[r]}

\* A Secret, and the pod that has read it, carry a password that was stored for the repository
\* they name; and no other password becomes a key.
Points(r) ==
  LET i == secret[r].id IN
  secret[r].exists => /\ i \in RemoteIds /\ Mine(r, i) /\ secret[r].password \in stored[i]
                      /\ remote[i].restic /\ remote[i].state # "unborn"
Armed(r) ==
  LET e == job[r].env IN
  e # NoEnv => e.id \in RemoteIds /\ e.password \in stored[e.id]
Opens(i) ==
  Hosted(i) /\ remote[i].restic =>
    /\ remote[i].used => remote[i].keys # {}
    /\ \A r \in Repos : Mine(r, i) => remote[i].keys \subseteq stored[i] \cup {Seed[r]}
KeyInv ==
  /\ \A r \in Repos : /\ Points(r) /\ Armed(r)
                      /\ worker[r].pc = "secret" => remote[worker[r].target].restic
  /\ \A i \in RemoteIds : Opens(i)

LEMMA KeyInit == ASSUME SeedsOpen PROVE Init => KeyInv
<1> SUFFICES ASSUME Init PROVE KeyInv
  OBVIOUS
<1>1. ASSUME NEW r \in Repos
      PROVE  Points(r) /\ Armed(r) /\ worker[r].pc # "secret"
  <2>1. /\ secret[r] = NoSecret /\ job[r] = NoJob /\ worker[r] = Idle
        /\ ~NoSecret.exists /\ NoJob.env = NoEnv /\ Idle.pc = "idle"
    BY DEF Init, NoSecret, NoJob, Idle
  <2> QED  BY <2>1 DEF Points, Armed
<1>2. ASSUME NEW i \in RemoteIds
      PROVE  Opens(i)
  <2>1. remote \in Preexisting
    BY DEF Init
  <2> QED  BY <2>1 DEF SeedsOpen, Opens, Hosted, Mine, Own
<1> QED  BY <1>1, <1>2 DEF KeyInv

\* What is stored stays stored.
LEMMA StoredGrows ==
  ASSUME Typed, [Next]_vars, NEW i \in RemoteIds
  PROVE  stored[i] \subseteq stored'[i]
<1>1. ASSUME NEW r \in Repos, NEW p \in Passwords, NEW reply \in Replies,
             WriteSecret(r, p, reply)
      PROVE  stored[i] \subseteq stored'[i]
  <2>1. /\ stored'[worker[r].target] = stored[worker[r].target] \cup {p}
        /\ \A j \in RemoteIds \ {worker[r].target} : stored'[j] = stored[j]
    BY <1>1, WriteShape
  <2> QED  BY <2>1
<1> QED  BY <1>1, SecretKinds DEF Discards

\* A pod has read the Secret of its resource.
LEMMA JobFrame ==
  ASSUME Typed, [Next]_vars, NEW q \in Repos
  PROVE  \/ job'[q].env = NoEnv \/ job'[q].env = job[q].env
         \/ secret[q].exists /\ stored' = stored
            /\ job'[q].env = [id |-> secret[q].id, password |-> secret[q].password]
<1>0. job \in [Repos -> Job]
  BY DEF Typed, TypeOK
<1>1. NoJob.env = NoEnv
  BY DEF NoJob
<1>2. CASE job' = job
  BY <1>2
<1>3. ASSUME NEW r \in Repos, DeleteJob(r)
      PROVE  job'[q].env = NoEnv \/ job'[q].env = job[q].env
  BY <1>0, <1>1, <1>3 DEF DeleteJob
<1>4. ASSUME NEW r \in Repos, NEW reply, CreateInitJob(r, reply)
      PROVE  job'[q].env = NoEnv \/ job'[q].env = job[q].env
  BY <1>0, <1>4 DEF CreateInitJob
<1>5. ASSUME NEW r \in Repos, StartPod(r)
      PROVE  \/ job'[q].env = job[q].env
             \/ secret[q].exists /\ stored' = stored
                /\ job'[q].env = [id |-> secret[q].id, password |-> secret[q].password]
  <2>1. CASE q = r
    <3>1. /\ secret[q].exists /\ stored' = stored
          /\ job' = [job EXCEPT ![q] = [@ EXCEPT !.env =
                       [id |-> secret[q].id, password |-> secret[q].password]]]
      BY <1>5, <2>1 DEF StartPod, history
    <3> QED  BY <1>0, <3>1 DEF Job
  <2>2. CASE q # r
    BY <1>0, <1>5, <2>2 DEF StartPod
  <2> QED  BY <2>1, <2>2
<1>6. ASSUME NEW r \in Repos, NEW s, job' = [job EXCEPT ![r] = [@ EXCEPT !.state = s]]
      PROVE  job'[q].env = job[q].env
  BY <1>0, <1>6 DEF Job
<1>7. ASSUME NEW r \in Repos, PassStep(r) \/ ReplyLost(r)
      PROVE  \/ job' = job \/ DeleteJob(r) \/ \E reply \in Replies : CreateInitJob(r, reply)
  BY <1>7, Zenon
  DEF PassStep, ReplyLost, StartPass, AddFinalizer, ResolveExisting, ResolveRecorded,
     ResolveByName, Add, Claim, WriteSecret, RefuseSecret, CleanupInitJob, AwaitInitJob,
     RetryInitJob, RecordInitialized, PatchStatus, Destroy, Release, Replies, apiVars
<1>8. ASSUME NEW r \in Repos, Failure(r) \/ Cluster(r) \/ Administrator(r)
      PROVE  \/ job' = job \/ DeleteJob(r) \/ StartPod(r)
             \/ \E s : job' = [job EXCEPT ![r] = [@ EXCEPT !.state = s]]
  BY <1>8, Zenon
  DEF Failure, AbandonAdd, CallFails, PassFails, TokenUnavailable, Cluster, RunInit,
     InitJobFails, ExpireJob, CollectSecret, CollectJob, Backup, LateAdd, Administrator,
     CreateRepository, DeleteRepository, SetPolicy, ToggleSuspend, LoseSecret, RemoveRemote,
     apiVars
<1>9. CASE SyncRepositories \/ SyncJobs \/ Crash \/ UNCHANGED vars
  BY <1>9 DEF SyncRepositories, SyncJobs, Crash, vars, apiVars
<1> QED  BY <1>2, <1>3, <1>4, <1>5, <1>6, <1>7, <1>8, <1>9 DEF Next

\* A repository keeps its format.
LEMMA FormatKept ==
  ASSUME Typed, Requested, [Next]_vars, NEW i \in RemoteIds, remote[i].state # "unborn"
  PROVE  remote'[i].restic = remote[i].restic
<1>0. remote[i] \in Remote
  BY DEF Typed, TypeOK
<1>1. ASSUME NEW r \in Repos, NEW j \in RemoteIds, Closes(r, j)
      PROVE  remote'[i].restic = remote[i].restic
  <2>1. CASE i # j
    BY <1>1, <2>1 DEF Closes
  <2>2. CASE i = j
    BY <1>0, <1>1, <2>2 DEF Closes, Remote
  <2> QED  BY <2>1, <2>2
<1> QED  BY <1>1, RemoteKinds DEF Places, Kept, Births

\* Every step keeps the passwords in Secrets and pods among those stored.
LEMMA KeyNext ==
  Typed /\ Requested /\ Elders /\ IdsInv /\ KeyInv /\ [Next]_vars => KeyInv'
<1> SUFFICES ASSUME Typed, Requested, Elders, IdsInv, KeyInv, [Next]_vars
             PROVE  KeyInv'
  OBVIOUS
<1>1. ASSUME NEW r \in Repos, NEW i \in RemoteIds, Mine(r, i)
      PROVE  Mine(r, i)'
  BY <1>1, OwnKept DEF Mine, Provisions
<1>2. ASSUME NEW q \in Repos
      PROVE  Points(q)'
  <2>0. Points(q)
    BY <1>2 DEF KeyInv
  <2>1. ASSUME secret'[q] = secret[q], secret[q].exists
        PROVE  Points(q)'
    <3>1. PICK i \in RemoteIds : i = secret[q].id
      BY <2>0, <2>1 DEF Points
    <3>2. /\ Mine(q, i) /\ secret[q].password \in stored[i] /\ remote[i].restic
          /\ remote[i].state # "unborn"
      BY <2>0, <2>1, <3>1 DEF Points
    <3>3. /\ Mine(q, i)' /\ secret[q].password \in stored'[i] /\ remote'[i].restic
          /\ remote'[i].state # "unborn"
      BY <1>1, <3>2, StoredGrows, FormatKept, NamesKept
    <3>4. secret'[q].id = i /\ secret'[q].password = secret[q].password
      BY <2>1, <3>1
    <3> QED  BY <3>3, <3>4 DEF Points, Mine, Own, Provisions
  <2>2. ASSUME NEW p \in Passwords, NEW reply \in Replies, WriteSecret(q, p, reply)
        PROVE  Points(q)'
    <3>1. PICK i \in RemoteIds : i = worker[q].target
      BY <2>2, WriteShape
    <3>2. /\ worker[q].pc = "secret" /\ remote' = remote
          /\ secret'[q] = [exists |-> TRUE, id |-> i, password |-> p,
                           owner |-> OwnerFor(worker[q].obj)]
          /\ stored'[i] = stored[i] \cup {p}
      BY <2>2, <3>1, WriteShape
    <3>3. Mine(q, i) /\ remote[i].state # "unborn" /\ remote[i].restic
      BY <1>2, <3>1, <3>2, TargetMine DEF KeyInv
    <3>4. secret'[q].id = i /\ secret'[q].password = p
      BY <3>2
    <3>5. Mine(q, i)'
      BY <1>1, <3>3
    <3> QED  BY <3>2, <3>3, <3>4, <3>5 DEF Points, Mine, Own, Provisions
  <2>3. \/ secret'[q] = secret[q] \/ ~secret'[q].exists
        \/ \E p \in Passwords, reply \in Replies : WriteSecret(q, p, reply)
    <3>1. ~NoSecret.exists
      BY DEF NoSecret
    <3>2. ASSUME NEW r \in Repos, Discards(r)
          PROVE  secret'[q] = secret[q] \/ ~secret'[q].exists
      BY <3>1, <3>2, DiscardShape
    <3>3. ASSUME NEW r \in Repos \ {q}, NEW p \in Passwords, NEW reply \in Replies,
                 WriteSecret(r, p, reply)
          PROVE  secret'[q] = secret[q]
      BY <3>3, WriteShape
    <3> QED  BY <3>2, <3>3, SecretKinds
  <2>4. CASE ~secret'[q].exists
    BY <2>4 DEF Points
  <2> QED  BY <2>1, <2>2, <2>3, <2>4
<1>3. ASSUME NEW q \in Repos
      PROVE  Armed(q)'
  <2>1. CASE job'[q].env = NoEnv
    BY <2>1 DEF Armed
  <2>2. CASE job'[q].env = job[q].env
    BY <1>3, <2>2, StoredGrows DEF KeyInv, Armed
  <2>3. CASE /\ secret[q].exists /\ stored' = stored
             /\ job'[q].env = [id |-> secret[q].id, password |-> secret[q].password]
    BY <1>3, <2>3 DEF KeyInv, Points, Armed
  <2> QED  BY <1>3, <2>1, <2>2, <2>3, JobFrame
<1>4. ASSUME NEW q \in Repos, worker'[q].pc = "secret"
      PROVE  remote'[worker'[q].target].restic
  <2> DEFINE w == worker[q]  n == worker'[q]
  <2>0. Idle.pc = "idle"
    BY DEF Idle
  <2>1. n = w \/ ToSecret(q, n)
    <3>1. ASSUME NEW r \in Repos, Walks(r)
          PROVE  n = w \/ Walk(q, n)
      BY <3>1, GotoTyped DEF Walks, Typed, TypeOK
    <3>2. ASSUME Walk(q, n)
          PROVE  ToSecret(q, n)
      BY <1>4, <2>0, <3>2 DEF Walk, Begins, Enters, Ends, Adds, ToClaim, ToInit
    <3>3. ASSUME NEW r \in Repos, AddFinalizer(r) \/ PatchStatus(r) \/ Release(r) \/ Edits(r)
          PROVE  n = w
      BY <1>4, <2>0, <3>3, FinalizerShape, PatchShape, ReleaseShape DEF Edits, Enters
    <3> HIDE DEF w, n
    <3> QED  BY <1>4, <2>0, <3>1, <3>2, <3>3, StepKinds DEF Refreshes, w, n
  <2>2. w.pc \in {"claim", "secret"} /\ n.target = w.target /\ remote[w.target].restic
    BY <1>4, <2>1 DEF ToSecret, KeyInv
  <2>3. w.target \in RemoteIds /\ remote[w.target].state # "unborn"
    BY <2>2, TargetMine
  <2> QED  BY <2>2, <2>3, FormatKept
<1>5. ASSUME NEW i \in RemoteIds
      PROVE  Opens(i)'
  <2>0. Opens(i)
    BY <1>5 DEF KeyInv
  <2>1. ASSUME NEW r \in Repos, remote[i].state # "unborn", Mine(r, i)'
        PROVE  Mine(r, i)
    BY <2>1, NamesKept DEF Mine, Own, Provisions
  <2>2. CASE remote'[i] = remote[i]
    <3>1. ASSUME Hosted(i)', NEW r \in Repos, Mine(r, i)'
          PROVE  Mine(r, i)
      BY <2>1, <2>2, <3>1 DEF Hosted
    <3> QED  BY <2>0, <2>2, <3>1, StoredGrows DEF Opens, Hosted
  <2>3. CASE Kept(i)
    <3>1. ASSUME Hosted(i)', remote'[i].restic
          PROVE  Hosted(i) /\ remote[i].restic /\ remote[i].state # "unborn"
      BY <2>3, <3>1 DEF Kept, Hosted
    <3>2. ASSUME NEW r \in Repos, job[r].env # NoEnv, job[r].env.id = i
          PROVE  job[r].env.password \in stored'[i]
      BY <3>2, StoredGrows DEF KeyInv, Armed
    <3>3. ASSUME Hosted(i)', remote'[i].restic, remote'[i].used
          PROVE  remote'[i].keys # {}
      BY <2>0, <2>3, <3>1, <3>3 DEF Kept, Opens
    <3>4. ASSUME Hosted(i)', remote'[i].restic, NEW r \in Repos, Mine(r, i)'
          PROVE  remote'[i].keys \subseteq stored'[i] \cup {Seed[r]}
      BY <2>0, <2>1, <2>3, <3>1, <3>2, <3>4, StoredGrows DEF Kept, Opens
    <3> QED  BY <3>3, <3>4 DEF Opens
  <2>4. ASSUME NEW r \in Repos, Births(r, i)
        PROVE  Opens(i)'
    <3>1. remote'[i] = [state |-> "live", name |-> RemoteName[r], restic |-> TRUE,
                        keys |-> {}, used |-> FALSE]
      BY <2>4 DEF Births
    <3>2. remote'[i].keys = {} /\ ~remote'[i].used
      BY <3>1
    <3> QED  BY <3>2 DEF Opens
  <2>5. ASSUME NEW r \in Repos, NEW j \in RemoteIds, Births(r, j) \/ Closes(r, j), j # i
        PROVE  remote'[i] = remote[i]
    BY <2>5 DEF Births, Closes
  <2>6. ASSUME NEW r \in Repos, Closes(r, i)
        PROVE  Opens(i)'
    BY <2>6 DEF Closes, Opens
  <2> QED  BY <1>5, <2>2, <2>3, <2>4, <2>5, <2>6, RemoteKinds DEF Places
<1> QED  BY <1>2, <1>3, <1>4, <1>5 DEF KeyInv

\* A key that is there opens.
LEMMA KeyOpens ==
  ASSUME Typed, PassInv, KeyInv, NEW r \in Repos, secret[r].exists,
         Hosted(secret[r].id), remote[secret[r].id].keys # {}
  PROVE  secret[r].password \in remote[secret[r].id].keys
<1>1. PICK i : i = secret[r].id
  OBVIOUS
<1>2. /\ i \in RemoteIds /\ Mine(r, i) /\ secret[r].password \in stored[i]
      /\ remote[i].restic /\ Opens(i)
  BY <1>1 DEF KeyInv, Points
<1>3. remote[i].keys # {} /\ remote[i].keys \subseteq stored[i] \cup {Seed[r]}
  BY <1>1, <1>2 DEF Opens
<1>4. PICK k \in remote[i].keys : k \in Passwords
  BY <1>2, <1>3 DEF Typed, TypeOK, Remote
<1>5. CASE k \in stored[i]
  BY <1>1, <1>2, <1>4, <1>5 DEF PassInv, OnePasswordPerRemote
<1>6. CASE k = Seed[r]
  <2>1. Seed[r] # None
    BY <1>4, <1>6, InputAssumption
  <2> QED  BY <1>1, <1>4, <1>6, <2>1 DEF PassInv, SeedPass
<1> QED  BY <1>3, <1>4, <1>5, <1>6

\* The Secret of a Repository opens the snapshots of the repository it points at, through lost
\* replies, retried init Jobs, restarts, a Secret that is lost and one that is collected: only
\* a password that was stored for a repository becomes its key, and it is never another one.
THEOREM AlwaysReadable ==
  ASSUME ResourcesApart, SeedsAgree, SeedsOpen
  PROVE  Spec /\ [][Careful]_vars => []SnapshotsReadable
<1>1. ASSUME Typed, PassInv, KeyInv, NEW r \in Repos, secret[r].exists,
             Hosted(secret[r].id), remote[secret[r].id].used
      PROVE  secret[r].password \in remote[secret[r].id].keys
  <2>1. remote[secret[r].id].keys # {}
    BY <1>1 DEF KeyInv, Points, Opens
  <2> QED  BY <1>1, <2>1, KeyOpens
<1>2. Typed /\ PassInv /\ KeyInv => SnapshotsReadable
  BY <1>1 DEF SnapshotsReadable
<1> QED  BY <1>2, AlwaysTyped, RequestedInit, RequestedNext, EldersInit, EldersNext,
            LineageInit, LineageNext, IdsInit, IdsNext, PassInit, PassNext, KeyInit, KeyNext,
            PTL DEF Spec

\* Under Retain the snapshots are readable over any number of deletions and creations, with
\* nothing assumed of the behaviour.
THEOREM ReadableUnderRetain ==
  ASSUME ResourcesApart, SeedsAgree, SeedsOpen, AlwaysRetained
  PROVE  Spec => []SnapshotsReadable
BY RetainedIsCareful, AlwaysReadable, PTL
-------------------------------------------------------------------------------
(* A resource that is initialized can be used *)

\* restic init has run in the repository, which may be gone since.
Done(i) == remote[i].state # "unborn" /\ (Hosted(i) => remote[i].keys # {})

\* An init Job is there, or in the cache, whoever created it; and one that succeeded.
Begun(r) == job[r].state # "None" \/ jobCache[r] # "None"
Succeeded(r) == job[r].state = "Succeeded" \/ jobCache[r] = "Succeeded"

SecretOf(r, i) == secret[r].exists => secret[r].id = i

\* Once the finalizer is there, the copies of the object that carry an ID carry its own.
Steady(r) ==
  LET l == live[r] IN
  l.finalizer => cache[r].id \in {None, l.id} /\ worker[r].base.id \in {None, l.id}

\* The resource is for the repository i: its Secret names no other and every pass it has, or
\* may yet begin, finds i, which is not taken away before its ID is recorded.
Bound(r, i) ==
  LET l == live[r]  w == worker[r] IN
  /\ l.finalizer /\ Mine(r, i) /\ SecretOf(r, i)
  /\ l.id \in {None, i} /\ w.pc # "add"
  /\ w.pc \in {"claim", "secret", "init"} => w.target = i
  /\ w.pc = "patch" /\ w.obj.id # w.base.id => w.obj.id = i
  /\ Provisions(r) /\ (l.id = None \/ (w.pc = "resolve" /\ w.obj.id = None)) => Hosted(i)

\* The init Job of a resource is for the repository the resource is for.
JobOf(r) ==
  live[r].exists /\ Begun(r) =>
    \E i \in RemoteIds : /\ Bound(r, i) /\ (job[r].env # NoEnv => job[r].env.id = i)
                         /\ (Succeeded(r) => Done(i))

\* status.initialized, and the pass that is about to write it, mean the recorded ID.
Inits(r) ==
  LET l == live[r]  w == worker[r] IN
  /\ l.initialized => l.id \in RemoteIds /\ Done(l.id) /\ SecretOf(r, l.id)
  /\ w.pc = "init" => SecretOf(r, w.target)
  /\ w.obj.initialized # w.base.initialized =>
       /\ w.pc = "patch" /\ w.obj.initialized /\ l.finalizer
       /\ w.obj.id \in RemoteIds /\ Done(w.obj.id) /\ SecretOf(r, w.obj.id)
UseInv == \A r \in Repos : Steady(r) /\ JobOf(r) /\ Inits(r)

\* A Repository is created where no init Job of the one before it is to be seen.
CleanStart ==
  \A r \in Repos : ~live[r].exists /\ live'[r].exists =>
    job[r].state = "None" /\ jobCache[r] = "None"

LEMMA UseInit == Init => UseInv
<1> SUFFICES ASSUME Init, NEW r \in Repos PROVE Steady(r) /\ JobOf(r) /\ Inits(r)
  BY DEF UseInv
<1>1. /\ live[r] = NoObject /\ cache[r] = NoObject /\ worker[r] = Idle
  BY DEF Init
<1> QED  BY <1>1 DEF Steady, JobOf, Inits, NoObject, Idle

\* What is done stays done: a repository keeps its key as long as it is hosted.
LEMMA DoneKept ==
  ASSUME Typed, Requested, [Next]_vars, NEW i \in RemoteIds, Done(i)
  PROVE  Done(i)'
<1>1. remote'[i].state # "unborn"
  BY NamesKept DEF Done
<1>2. CASE remote'[i] = remote[i]
  BY <1>2 DEF Done, Hosted
<1>3. CASE Kept(i)
  BY <1>1, <1>3 DEF Kept, Done, Hosted
<1>4. ASSUME NEW r \in Repos, NEW j \in RemoteIds, Births(r, j) \/ Closes(r, j)
      PROVE  Done(i)'
  <2>1. CASE i # j
    BY <1>2, <1>4, <2>1 DEF Births, Closes
  <2>2. CASE i = j
    BY <1>1, <1>4, <2>2 DEF Births, Closes, Done
  <2> QED  BY <2>1, <2>2
<1> QED  BY <1>3, <1>4, RemoteKinds DEF Places

\* A pass that is at the Secret leaves it for the init Job only by writing it.
LEMMA InitEntered ==
  ASSUME Typed, [Next]_vars, NEW q \in Repos, worker[q].pc # "init", worker'[q].pc = "init"
  PROVE  \E p \in Passwords, reply \in Replies : WriteSecret(q, p, reply)
<1>0. /\ worker \in [Repos -> Worker] /\ Idle.pc = "idle"
  BY DEF Typed, TypeOK, Idle
<1>1. worker[q].pc = "secret"
  <2> DEFINE w == worker[q]  n == worker'[q]
  <2>1. ASSUME NEW r \in Repos, Walks(r)
        PROVE  n = w \/ Walk(q, n)
    BY <1>0, <2>1, GotoTyped DEF Walks
  <2>2. ASSUME NEW r \in Repos, AddFinalizer(r) \/ PatchStatus(r) \/ Release(r) \/ Edits(r)
        PROVE  n = w \/ n = Idle \/ Enters(n, live'[q])
    BY <2>2, FinalizerShape, PatchShape, ReleaseShape DEF Edits
  <2>3. ASSUME Walk(q, n)
        PROVE  w.pc = "secret"
    BY <1>0, <2>3 DEF Walk, Begins, Enters, Ends, Adds, ToClaim, ToSecret, ToInit
  <2> HIDE DEF w, n
  <2> QED  BY <1>0, <2>1, <2>2, <2>3, StepKinds DEF Refreshes, Enters, w, n
<1>2. worker[q] \in Worker /\ Failed(worker[q]).pc = "patch"
  BY <1>0, FailedCarries
<1>3. ASSUME NEW r \in Repos, PassStep(r) \/ ReplyLost(r) \/ Failure(r)
      PROVE  r = q
  <2>1. \E n : Goto(r, n)
    BY <1>3, ZenonT(30) DEF PassStep, ReplyLost, Failure, StartPass, AddFinalizer,
       ResolveExisting, ResolveRecorded, ResolveByName, Found, Add, Replied, Claim,
       WriteSecret, RefuseSecret,
       CleanupInitJob, CreateInitJob, AwaitInitJob, RetryInitJob, RecordInitialized,
       PatchStatus, Destroy, Release, AbandonAdd, CallFails, PassFails, TokenUnavailable
  <2> QED  BY <1>0, <1>1, <2>1 DEF Goto
<1>4. ASSUME NEW r \in Repos, Cluster(r) \/ Administrator(r)
      PROVE  worker' = worker
  BY <1>4, Zenon
  DEF Cluster, StartPod, RunInit, InitJobFails, ExpireJob, CollectSecret, CollectJob,
     Backup, LateAdd, Administrator, CreateRepository, DeleteRepository, SetPolicy,
     ToggleSuspend, LoseSecret, RemoveRemote
<1>5. CASE PassStep(q) \/ ReplyLost(q)
  <2>1. \/ \E p \in Passwords, reply \in Replies : WriteSecret(q, p, reply)
        \/ RefuseSecret(q)
    BY <1>1, <1>5 DEF PassStep, ReplyLost, StartPass, AddFinalizer, ResolveExisting,
       ResolveRecorded, ResolveByName, Add, Claim, CleanupInitJob, CreateInitJob,
       AwaitInitJob, RetryInitJob, RecordInitialized, PatchStatus, Destroy, Release, Replies
  <2>2. ~RefuseSecret(q)
    BY <1>0, <1>1, <1>2 DEF RefuseSecret, Goto
  <2> QED  BY <2>1, <2>2
<1>6. ~Failure(q)
  BY <1>0, <1>1, <1>2 DEF Failure, AbandonAdd, CallFails, PassFails, TokenUnavailable, Goto
<1>7. ~(SyncRepositories \/ SyncJobs \/ Crash \/ UNCHANGED vars)
  BY <1>0 DEF SyncRepositories, SyncJobs, Crash, vars
<1> QED  BY <1>0, <1>3, <1>4, <1>5, <1>6, <1>7 DEF Next

\* Of the copy and its base, the flag differs only by what a pass has read from its init Job.
Unmarked(n) == n.obj.initialized = n.base.initialized
KeepsMark(n, w) ==
  w.pc # "patch" /\ n.base = w.base /\ n.obj.initialized = w.obj.initialized

LEMMA AtMark ==
  ASSUME NEW w \in Worker, NEW pc
  PROVE  At(w, pc).base = w.base /\ At(w, pc).obj = w.obj
BY DEF At, Worker

LEMMA SettleMark ==
  ASSUME NEW w \in Worker, NEW c
  PROVE  Settle(w, c).base = w.base /\ Settle(w, c).obj.initialized = w.obj.initialized
BY DEF Settle, Worker, Object

LEMMA ResolvedMark ==
  ASSUME NEW w \in Worker, NEW i, NEW u, NEW a
  PROVE  LET n == Resolved(w, i, u, a)
         IN  n.base = w.base /\ n.obj.initialized = w.obj.initialized
BY DEF Resolved, Worker, Object

LEMMA RecordedMark ==
  ASSUME NEW w \in Worker
  PROVE  Recorded(w).base = w.base /\ Recorded(w).obj.initialized = w.obj.initialized
BY DEF Recorded, Worker, Object

LEMMA EnterMark ==
  ASSUME NEW o \in Object
  PROVE  Unmarked(EnterPass(o))
<1> DEFINE w == [pc |-> "resolve", obj |-> o, base |-> o, target |-> None,
                 known |-> o.id # None \/ o.initialized, used |-> FALSE]
<1>1. w \in Worker /\ w.obj = o /\ w.base = o
  BY DEF Worker, Object, Pcs
<1>2. LET n == Settle(w, "Suspended") IN n.base = o /\ n.obj.initialized = o.initialized
  <2> HIDE DEF w
  <2> QED  BY <1>1, SettleMark
<1>3. EnterPass(o) = w \/ EnterPass(o) = Settle(w, "Suspended")
  BY DEF EnterPass
<1> HIDE DEF w
<1> QED  BY <1>1, <1>2, <1>3 DEF Unmarked

\* The passes.
LEMMA MarkFrame ==
  ASSUME Typed, [Next]_vars, NEW q \in Repos
  PROVE  LET n == worker'[q]  w == worker[q]
         IN  n = w \/ Unmarked(n) \/ KeepsMark(n, w) \/ RecordInitialized(q)
<1> DEFINE n == worker'[q]  w == worker[q]
<1>0. /\ worker \in [Repos -> Worker] /\ w \in Worker /\ cache[q] \in Object
      /\ Unmarked(Idle)
  BY DEF Typed, TypeOK, Idle, Unmarked
<1>1. ASSUME NEW m, m = Failed(w) \/ (\E c \in Ready : m = Settle(w, c))
             \/ (\E pc : m = At(w, pc)) \/ (\E i, u, a : m = Resolved(w, i, u, a))
             \/ m = Recorded(w)
      PROVE  m.base = w.base /\ m.obj.initialized = w.obj.initialized
  BY <1>0, <1>1, AtMark, SettleMark, ResolvedMark, RecordedMark DEF Failed
<1>2. "RepositoryConflict" \in Ready /\ "Ready" \in Ready /\ "Initializing" \in Ready
      /\ "APITokenUnavailable" \in Ready
  BY DEF Ready
<1>3. ASSUME NEW r \in Repos, NEW m, Goto(r, m), r # q
      PROVE  n = w
  BY <1>0, <1>3 DEF Goto
<1>4. ASSUME NEW m, Goto(q, m)
      PROVE  n = m
  BY <1>0, <1>4 DEF Goto
<1>5. ASSUME NEW r \in Repos, StartPass(r)
      PROVE  n = w \/ Unmarked(n)
  <2> DEFINE c == cache[q]  v == [Idle EXCEPT !.obj = c, !.base = c]
  <2>1. v \in Worker /\ v.obj = c /\ v.base = c
    BY <1>0, NoneTyped DEF Worker
  <2>2. \A pc : Unmarked(At(v, pc))
    <3> HIDE DEF v
    <3> QED  BY <2>1, AtMark DEF Unmarked
  <2>3. Unmarked(EnterPass(c))
    BY <1>0, EnterMark
  <2>4. \E m : Goto(r, m) /\ (r = q => (\E pc : m = At(v, pc)) \/ m = EnterPass(c))
    BY <1>5 DEF StartPass
  <2> QED  BY <1>3, <1>4, <2>2, <2>3, <2>4
<1>6. ASSUME NEW r \in Repos, AddFinalizer(r)
      PROVE  n = w \/ Unmarked(n)
  <2>1. CASE r # q
    BY <1>6, <2>1, FinalizerShape
  <2>2. CASE r = q
    <3>1. live'[q] \in Object
      BY TypedNext DEF Typed, TypeOK
    <3>2. n = Idle \/ n = EnterPass(live'[q])
      BY <1>4, <1>6, <2>2 DEF AddFinalizer
    <3> QED  BY <1>0, <3>1, <3>2, EnterMark
  <2> QED  BY <2>1, <2>2
<1>7. ASSUME NEW r \in Repos, PatchStatus(r) \/ Release(r)
      PROVE  n = w \/ Unmarked(n)
  BY <1>0, <1>7, PatchShape, ReleaseShape
<1>8. ASSUME NEW r \in Repos, NEW m, Goto(r, m), r = q => m.base = w.base /\ w.pc # "patch"
             /\ m.obj.initialized = w.obj.initialized
      PROVE  n = w \/ KeepsMark(n, w)
  BY <1>3, <1>4, <1>8 DEF KeepsMark
<1>9. ASSUME NEW r \in Repos,
             ResolveExisting(r) \/ ResolveRecorded(r) \/ ResolveByName(r) \/ Claim(r)
             \/ RefuseSecret(r) \/ AwaitInitJob(r)
      PROVE  n = w \/ KeepsMark(n, w)
  <2>1. \E m : Goto(r, m) /\ (r = q => w.pc # "patch" /\
               (m = Failed(w) \/ (\E c \in Ready : m = Settle(w, c))
                \/ (\E pc : m = At(w, pc)) \/ (\E i, u, a : m = Resolved(w, i, u, a))
                \/ m = Recorded(w)))
    BY <1>2, <1>9 DEF ResolveExisting, ResolveRecorded, ResolveByName, Found, Claim,
       RefuseSecret, AwaitInitJob
  <2> QED  BY <1>1, <1>8, <2>1
<1>10. ASSUME NEW r \in Repos, NEW reply,
              (\E i \in RemoteIds : Add(r, i, reply))
              \/ (\E p \in Passwords : WriteSecret(r, p, reply))
              \/ CleanupInitJob(r, reply) \/ CreateInitJob(r, reply) \/ RetryInitJob(r, reply)
       PROVE  n = w \/ KeepsMark(n, w)
  <2>1. \E m : Goto(r, m) /\ (r = q => w.pc # "patch" /\
               (m = Failed(w) \/ (\E c \in Ready : m = Settle(w, c))
                \/ (\E pc : m = At(w, pc)) \/ (\E i, u, a : m = Resolved(w, i, u, a))))
    BY <1>2, <1>10 DEF Add, WriteSecret, CleanupInitJob, CreateInitJob, RetryInitJob, Replied
  <2> QED  BY <1>1, <1>8, <2>1
<1>11. ASSUME NEW r \in Repos, (\E reply : Destroy(r, reply)) \/ Failure(r)
       PROVE  n = w \/ n = Idle \/ KeepsMark(n, w)
  <2>1. \/ Goto(r, Idle)
        \/ \E m : Goto(r, m) /\ (r = q => w.pc # "patch" /\
               (m = Failed(w) \/ (\E c \in Ready : m = Settle(w, c))
                \/ (\E pc : m = At(w, pc))))
    BY <1>2, <1>11 DEF Destroy, Failure, AbandonAdd, CallFails, PassFails, TokenUnavailable
  <2> QED  BY <1>1, <1>3, <1>4, <1>8, <2>1
<1>12. ASSUME NEW r \in Repos, RecordInitialized(r)
       PROVE  n = w \/ RecordInitialized(q)
  <2>1. \E m : Goto(r, m)
    BY <1>12 DEF RecordInitialized
  <2> QED  BY <1>3, <1>12, <2>1
<1>13. ASSUME NEW r \in Repos, Cluster(r) \/ Administrator(r)
       PROVE  n = w
  BY <1>13, Zenon
  DEF Cluster, StartPod, RunInit, InitJobFails, ExpireJob, CollectSecret, CollectJob,
     Backup, LateAdd, Administrator, CreateRepository, DeleteRepository, SetPolicy,
     ToggleSuspend, LoseSecret, RemoveRemote
<1>14. ASSUME SyncRepositories \/ SyncJobs \/ Crash \/ UNCHANGED vars
       PROVE  n = w \/ n = Idle
  BY <1>0, <1>14 DEF SyncRepositories, SyncJobs, Crash, vars
<1>15. ASSUME NEW r \in Repos, PassStep(r) \/ ReplyLost(r)
       PROVE  n = w \/ Unmarked(n) \/ KeepsMark(n, w) \/ RecordInitialized(q)
  <2> HIDE DEF n, w
  <2> QED  BY <1>0, <1>5, <1>6, <1>7, <1>9, <1>10, <1>11, <1>12, <1>15
           DEF PassStep, ReplyLost
<1> HIDE DEF n, w
<1>16. n = w \/ Unmarked(n) \/ KeepsMark(n, w) \/ RecordInitialized(q)
  BY <1>0, <1>11, <1>13, <1>14, <1>15 DEF Next
<1> QED  BY <1>16 DEF n, w

\* The flag of an object comes from a patch, and goes with the incarnation.
LEMMA LiveMark ==
  ASSUME Typed, [Next]_vars, NEW q \in Repos, live'[q].initialized
  PROVE  \/ live[q].initialized /\ live'[q].uid = live[q].uid
         \/ /\ PatchStatus(q) /\ live[q].exists
            /\ worker[q].obj.initialized # worker[q].base.initialized
<1>0. live \in [Repos -> Object] /\ live[q] \in Object
  BY DEF Typed, TypeOK
<1>1. ~NoObject.initialized
  BY DEF NoObject
<1>2. \A uid, born, policy : ~Created(uid, born, policy).initialized
  BY DEF Created, NoObject
<1>3. ASSUME NEW r \in Repos, AddFinalizer(r) \/ Release(r) \/ Edits(r)
      PROVE  live[q].initialized /\ live'[q].uid = live[q].uid
  <2> DEFINE Blanks(o) == o = NoObject \/ \E uid, born, policy : o = Created(uid, born, policy)
             Edited(o) == \/ o = live[q]
                          \/ \E b : \/ o = [live[q] EXCEPT !.finalizer = b]
                                    \/ o = [live[q] EXCEPT !.deleting = b]
                                    \/ o = [live[q] EXCEPT !.suspend = b]
                                    \/ o = [live[q] EXCEPT !.policy = b]
  <2>1. \E o : live' = [live EXCEPT ![r] = o] /\ (r = q => Blanks(o) \/ Edited(o))
    <3>1. CASE AddFinalizer(r)
      BY <1>0, <3>1 DEF AddFinalizer
    <3>2. CASE Release(r)
      BY <1>0, <3>2 DEF Release
    <3>3. CASE \E policy \in Policies, second \in 0..MaxCreations :
                 CreateRepository(r, policy, second)
      <4>1. PICK uid, born, policy : live' = [live EXCEPT ![r] = Created(uid, born, policy)]
        BY <3>3 DEF CreateRepository
      <4>2. Blanks(Created(uid, born, policy))
        OBVIOUS
      <4> HIDE DEF Blanks, Edited
      <4> QED  BY <4>1, <4>2, Zenon
    <3>4. CASE DeleteRepository(r)
      BY <1>0, <3>4 DEF DeleteRepository
    <3>5. CASE ToggleSuspend(r) \/ \E policy \in Policy : SetPolicy(r, policy)
      BY <1>0, <3>5 DEF ToggleSuspend, SetPolicy
    <3> QED  BY <1>3, <3>1, <3>2, <3>3, <3>4, <3>5 DEF Edits
  <2>2. \A o : Blanks(o) => ~o.initialized
    BY <1>1, <1>2
  <2>3. ASSUME NEW o, Edited(o)
        PROVE  o.initialized = live[q].initialized /\ o.uid = live[q].uid
    <3>1. CASE o = live[q]
      BY <3>1
    <3>2. CASE o # live[q]
      <4>1. PICK b : \/ o = [live[q] EXCEPT !.finalizer = b]
                     \/ o = [live[q] EXCEPT !.deleting = b]
                     \/ o = [live[q] EXCEPT !.suspend = b]
                     \/ o = [live[q] EXCEPT !.policy = b]
        BY <2>3, <3>2, Zenon
      <4> QED  BY <1>0, <4>1 DEF Object
    <3> QED  BY <3>1, <3>2
  <2>4. r # q => live'[q] = live[q]
    BY <1>0, <2>1
  <2>5. r = q => \E o : live'[q] = o /\ (Blanks(o) \/ Edited(o))
    BY <1>0, <2>1
  <2> HIDE DEF Blanks, Edited
  <2> QED  BY <2>2, <2>3, <2>4, <2>5
<1>4. ASSUME NEW r \in Repos, PatchStatus(r)
      PROVE  \/ live[q].initialized /\ live'[q].uid = live[q].uid
             \/ /\ PatchStatus(q) /\ live[q].exists
                /\ worker[q].obj.initialized # worker[q].base.initialized
  <2>1. CASE r # q
    BY <1>4, <2>1, PatchShape
  <2>2. CASE r = q
    <3>1. live'[q].uid = live[q].uid
      BY <1>4, <2>2, PatchShape DEF SameLife
    <3>2. live' = IF live[q].exists
                  THEN [live EXCEPT ![q] = Merged(@, worker[q].base, worker[q].obj)] ELSE live
      BY <1>4, <2>2 DEF PatchStatus
    <3>3. worker[q].obj.initialized = worker[q].base.initialized =>
            Merged(live[q], worker[q].base, worker[q].obj).initialized = live[q].initialized
      BY <1>0 DEF Merged, Object
    <3> QED  BY <1>0, <1>4, <2>2, <3>1, <3>2, <3>3
  <2> QED  BY <2>1, <2>2
<1>5. CASE live' = live
  BY <1>5
<1> QED  BY <1>3, <1>4, <1>5, StepKinds DEF Walks, Refreshes

\* What becomes of an init Job: it goes, a pass creates it, its pod fails, or its pod has run
\* restic init; and the cache sees the Job there is.
LEMMA JobKinds ==
  ASSUME Typed, [Next]_vars, NEW q \in Repos
  PROVE  /\ \/ job'[q].state \in {"None", "Failed"} \/ job'[q].state = job[q].state
            \/ /\ \E reply \in Replies : CreateInitJob(q, reply)
               /\ job[q].state = "None" /\ job'[q].env = NoEnv /\ job'[q].state = "Running"
            \/ /\ job[q].env # NoEnv /\ Done(job[q].env.id)' /\ job'[q].state = "Succeeded"
               /\ job[q].state # "None" /\ job'[q].env = job[q].env
         /\ job[q].state = "None" => job'[q].state \in {"None", "Running"}
         /\ jobCache'[q] = jobCache[q] \/ (jobCache'[q] = job[q].state /\ job' = job)
<1>0. job \in [Repos -> Job] /\ job[q].env \in Env \cup {NoEnv}
  BY DEF Typed, TypeOK, Job
<1>1. NoJob.state = "None"
  BY DEF NoJob
<1>2. ASSUME job' = job
      PROVE  job'[q].state = job[q].state
  BY <1>2
<1>3. ASSUME NEW r \in Repos, DeleteJob(r)
      PROVE  job'[q].state \in {"None", job[q].state}
  BY <1>0, <1>1, <1>3 DEF DeleteJob
<1>4. ASSUME NEW r \in Repos, NEW reply \in Replies, CreateInitJob(r, reply)
      PROVE  \/ job'[q].state = job[q].state
             \/ /\ \E answer \in Replies : CreateInitJob(q, answer)
                /\ job[q].state = "None" /\ job'[q].env = NoEnv /\ job'[q].state = "Running"
  <2>1. CASE job[r].state = "None"
    <3>1. PICK o : /\ job' = [job EXCEPT ![r] = o]
                   /\ o = [state |-> "Running", owner |-> worker[r].obj.uid, env |-> NoEnv]
      BY <1>4, <2>1 DEF CreateInitJob
    <3>2. o.state = "Running" /\ o.env = NoEnv
      BY <3>1
    <3> QED  BY <1>0, <1>4, <2>1, <3>1, <3>2
  <2>2. CASE job[r].state # "None"
    BY <1>4, <2>2 DEF CreateInitJob
  <2> QED  BY <2>1, <2>2
<1>5. ASSUME NEW r \in Repos, NEW s, job' = [job EXCEPT ![r] = [@ EXCEPT !.state = s]]
      PROVE  /\ r # q => job'[q] = job[q]
             /\ r = q => job'[q].state = s /\ job'[q].env = job[q].env
  BY <1>0, <1>5 DEF Job
<1>6. ASSUME NEW r \in Repos, StartPod(r)
      PROVE  job'[q].state = job[q].state
  <2>1. PICK e : job' = [job EXCEPT ![r] = [@ EXCEPT !.env = e]]
    BY <1>6 DEF StartPod
  <2> QED  BY <1>0, <2>1 DEF Job
<1>7. ASSUME NEW r \in Repos, InitJobFails(r) \/ RunInit(r)
      PROVE  \/ job'[q].state = job[q].state
             \/ job'[q].state = "Failed" /\ job[q].state # "None"
             \/ /\ job[q].env # NoEnv /\ Done(job[q].env.id)' /\ job'[q].state = "Succeeded"
                /\ job[q].state # "None" /\ job'[q].env = job[q].env
  <2>1. CASE job' = [job EXCEPT ![r] = [@ EXCEPT !.state = "Failed"]]
    BY <1>5, <1>7, <2>1 DEF InitJobFails, RunInit
  <2>2. CASE job' # [job EXCEPT ![r] = [@ EXCEPT !.state = "Failed"]]
    <3>1. /\ RunInit(r) /\ job[r].state # "None" /\ job[r].env # NoEnv
          /\ Hosted(job[r].env.id)
          /\ remote' = [remote EXCEPT ![job[r].env.id] =
                          [@ EXCEPT !.keys = {job[r].env.password}]]
          /\ job' = [job EXCEPT ![r] = [@ EXCEPT !.state = "Succeeded"]]
      BY <1>7, <2>2 DEF InitJobFails, RunInit
    <3>2. ASSUME r = q
          PROVE  Done(job[q].env.id)'
      <4>1. PICK i, p : job[q].env = [id |-> i, password |-> p] /\ i \in RemoteIds
        BY <1>0, <3>1, <3>2 DEF Env
      <4>2. job[q].env.id = i /\ job[q].env.password = p
        BY <4>1
      <4>3. remote[i] \in Remote /\ remote' = [remote EXCEPT ![i] = [@ EXCEPT !.keys = {p}]]
        BY <3>1, <3>2, <4>1, <4>2 DEF Typed, TypeOK
      <4>4. remote'[i].state = remote[i].state /\ remote'[i].keys = {p}
        BY <4>1, <4>3 DEF Typed, TypeOK, Remote
      <4>5. job'[q].env = job[q].env
        BY <1>5, <3>1, <3>2
      <4> QED  BY <3>1, <3>2, <4>2, <4>4, <4>5 DEF Done, Hosted
    <3> QED  BY SMTT(30), <1>5, <3>1, <3>2
  <2> QED  BY <2>1, <2>2
<1>8. ASSUME NEW r \in Repos, PassStep(r) \/ ReplyLost(r)
      PROVE  /\ jobCache' = jobCache
             /\ \/ job' = job \/ DeleteJob(r) \/ \E reply \in Replies : CreateInitJob(r, reply)
  BY <1>8, Zenon
  DEF PassStep, ReplyLost, StartPass, AddFinalizer, ResolveExisting, ResolveRecorded,
     ResolveByName, Add, Claim, WriteSecret, RefuseSecret, CleanupInitJob, CreateInitJob,
     AwaitInitJob, RetryInitJob, RecordInitialized, PatchStatus, Destroy, Release, Replies,
     apiVars, cacheVars
<1>9. ASSUME NEW r \in Repos, Failure(r) \/ Cluster(r) \/ Administrator(r)
      PROVE  /\ jobCache' = jobCache
             /\ job' = job \/ DeleteJob(r) \/ StartPod(r) \/ InitJobFails(r) \/ RunInit(r)
  BY <1>9, Zenon
  DEF Failure, AbandonAdd, CallFails, PassFails, TokenUnavailable, Cluster, StartPod,
     RunInit, InitJobFails, ExpireJob, CollectSecret, CollectJob, Backup, LateAdd,
     Administrator, CreateRepository, DeleteRepository, SetPolicy, ToggleSuspend, LoseSecret,
     RemoveRemote, apiVars, cacheVars
<1>10. CASE SyncRepositories \/ SyncJobs \/ Crash \/ UNCHANGED vars
  BY <1>10 DEF SyncRepositories, SyncJobs, JobStates, Crash, vars, apiVars, cacheVars
<1>11. ASSUME NEW r \in Repos, PassStep(r) \/ ReplyLost(r) \/ Failure(r) \/ Cluster(r)
              \/ Administrator(r)
       PROVE  /\ jobCache' = jobCache
              /\ \/ job'[q].state \in {"None", job[q].state}
                 \/ job'[q].state = "Failed" /\ job[q].state # "None"
                 \/ /\ \E answer \in Replies : CreateInitJob(q, answer)
                    /\ job[q].state = "None" /\ job'[q].env = NoEnv
                    /\ job'[q].state = "Running"
                 \/ /\ job[q].env # NoEnv /\ Done(job[q].env.id)' /\ job'[q].state = "Succeeded"
                    /\ job[q].state # "None" /\ job'[q].env = job[q].env
  BY <1>2, <1>3, <1>4, <1>6, <1>7, <1>8, <1>9, <1>11
<1> QED  BY <1>10, <1>11 DEF Next

\* A pass that reads the finalizer of the object, or sets it, reads the ID of the object.
LEMMA SteadyNext ==
  ASSUME Typed, Elders, LineageInv, IdsInv, [Next]_vars, NEW q \in Repos, Steady(q)
  PROVE  Steady(q)'
<1> DEFINE w == worker[q]  n == worker'[q]  l == live[q]  m == live'[q]
<1>0. /\ Lineage(q) /\ worker \in [Repos -> Worker] /\ Idle.base.id = None
  BY DEF LineageInv, Typed, TypeOK, Idle, NoObject
<1>1. CASE UNCHANGED <<live[q], cache[q]>> /\ (n = w \/ n = Idle)
  BY <1>0, <1>1 DEF Steady
<1>2. ASSUME NEW r \in Repos, Walks(r)
      PROVE  Steady(q)'
  <2>1. /\ UNCHANGED <<live, cache>> /\ (n = w \/ Walk(q, n))
    BY <1>0, <1>2, GotoTyped DEF Walks
  <2>2. ASSUME Walk(q, n)
        PROVE  n = Idle \/ n.base.id = cache[q].id \/ n.base = w.base
    BY <2>2 DEF Walk, Begins, Enters, Copied, Ends, Adds, ToClaim, ToSecret, ToInit,
       CarriesId, Carries
  <2> HIDE DEF w, n
  <2> QED  BY <1>0, <2>1, <2>2 DEF Steady, w, n
<1>3. ASSUME NEW r \in Repos, AddFinalizer(r)
      PROVE  Steady(q)'
  <2>1. CASE r # q
    BY <1>1, <1>3, <2>1, FinalizerShape
  <2>2. CASE r = q
    <3>1. /\ w.pc = "finalizer" /\ cache' = cache /\ m.id = l.id
          /\ \/ m = l /\ n = Idle
             \/ n.base.id = l.id
      BY <1>3, <2>2, FinalizerShape DEF Enters, Copied
    <3>2. cache[q].id # None => l.finalizer
      BY <1>0, <3>1 DEF Lineage, Whole
    <3> QED  BY <1>0, <3>1, <3>2 DEF Steady
  <2> QED  BY <2>1, <2>2
<1>4. ASSUME NEW r \in Repos, PatchStatus(r)
      PROVE  Steady(q)'
  <2>1. CASE r # q
    BY <1>1, <1>4, <2>1, PatchShape
  <2>2. CASE r = q
    <3>1. cache' = cache /\ n = Idle /\ m.finalizer = l.finalizer /\ m.uid = l.uid
      BY <1>4, <2>2, PatchShape DEF SameLife
    <3>2. l.id # None => m.id = l.id
      BY <3>1, IdStays
    <3> QED  BY <1>0, <3>1, <3>2 DEF Steady
  <2> QED  BY <2>1, <2>2
<1>5. ASSUME NEW r \in Repos, Release(r) \/ Edits(r)
      PROVE  Steady(q)'
  <2>1. CASE r # q
    BY <1>1, <1>5, <2>1, ReleaseShape, EditShape DEF Edits
  <2>2. CASE r = q
    BY <1>0, <1>5, <2>2, ReleaseShape, EditShape
    DEF Edits, EditOf, SameLife, Gone, Steady
  <2> QED  BY <2>1, <2>2
<1>6. CASE Refreshes
  BY <1>0, <1>6 DEF Refreshes, Steady
<1> QED  BY <1>1, <1>2, <1>3, <1>4, <1>5, <1>6, StepKinds

\* The repository a pass has resolved is the one the object has recorded, if it has.
LEMMA TargetIsRecorded ==
  ASSUME Elders, LineageInv, IdsInv, NEW r \in Repos, Steady(r),
         worker[r].pc \in {"claim", "secret", "init"}
  PROVE  live[r].id \in {None, worker[r].target}
<1>1. live[r].finalizer
  BY DEF LineageInv, Lineage, Reconciling
<1>2. CASE Provisions(r)
  BY <1>1, <1>2 DEF IdsInv, Ids, Target, StalePass, Steady
<1>3. CASE ~Provisions(r)
  BY <1>3 DEF Elders, AdoptsOne, Provisions
<1> QED  BY <1>2, <1>3

\* The Secret of a resource changes only for the repository its pass is about.
LEMMA SecretStays ==
  ASSUME Typed, [Next]_vars, NEW r \in Repos, NEW i, SecretOf(r, i),
         worker[r].pc = "secret" => worker[r].target = i
  PROVE  SecretOf(r, i)'
<1>1. ~NoSecret.exists
  BY DEF NoSecret
<1>2. ASSUME NEW q \in Repos, NEW p \in Passwords, NEW reply \in Replies,
             WriteSecret(q, p, reply)
      PROVE  SecretOf(r, i)'
  <2>1. CASE q = r
    <3>1. /\ worker[r].pc = "secret"
          /\ secret'[r] = [exists |-> TRUE, id |-> worker[r].target, password |-> p,
                           owner |-> OwnerFor(worker[r].obj)]
      BY <1>2, <2>1, WriteShape
    <3>2. secret'[r].id = worker[r].target
      BY <3>1
    <3> QED  BY <3>1, <3>2 DEF SecretOf
  <2>2. CASE q # r
    <3>1. secret'[r] = secret[r]
      BY <1>2, <2>2, WriteShape
    <3> QED  BY <3>1 DEF SecretOf
  <2> QED  BY <2>1, <2>2
<1>3. ASSUME NEW q \in Repos, Discards(q)
      PROVE  SecretOf(r, i)'
  BY <1>1, <1>3, DiscardShape DEF SecretOf
<1>4. CASE secret' = secret
  BY <1>4 DEF SecretOf
<1> QED  BY <1>2, <1>3, <1>4, SecretKinds

\* The walk of a pass, or none, is what a step does to a pass that does not end or begin
\* anew with the object of the API server.
LEMMA PassKinds ==
  ASSUME Typed, [Next]_vars, NEW q \in Repos
  PROVE  LET n == worker'[q] IN
         \/ n = worker[q] \/ n = Idle
         \/ Walk(q, n) /\ UNCHANGED <<live, cache>>
         \/ AddFinalizer(q) /\ Enters(n, live'[q]) /\ live'[q].id = live[q].id
<1> DEFINE w == worker[q]  n == worker'[q]
<1>1. ASSUME NEW r \in Repos, Walks(r)
      PROVE  n = w \/ (Walk(q, n) /\ UNCHANGED <<live, cache>>)
  BY <1>1, GotoTyped DEF Walks, Typed, TypeOK
<1>2. ASSUME NEW r \in Repos, AddFinalizer(r)
      PROVE  n = w \/ n = Idle
             \/ (AddFinalizer(q) /\ Enters(n, live'[q]) /\ live'[q].id = live[q].id)
  <2>1. CASE r # q
    BY <1>2, <2>1, FinalizerShape
  <2>2. CASE r = q
    BY <1>2, <2>2, FinalizerShape
  <2> QED  BY <2>1, <2>2
<1>3. ASSUME NEW r \in Repos, PatchStatus(r) \/ Release(r) \/ Edits(r)
      PROVE  n = w \/ n = Idle
  BY <1>3, PatchShape, ReleaseShape DEF Edits
<1> HIDE DEF w, n
<1>4. \/ n = w \/ n = Idle
      \/ Walk(q, n) /\ UNCHANGED <<live, cache>>
      \/ AddFinalizer(q) /\ Enters(n, live'[q]) /\ live'[q].id = live[q].id
  BY <1>1, <1>2, <1>3, StepKinds DEF Refreshes, w, n
<1> QED  BY <1>4 DEF w, n

\* The objects.
LEMMA LiveKinds ==
  ASSUME Typed, [Next]_vars, NEW q \in Repos, live[q].exists, live'[q].exists,
         live[q].finalizer
  PROVE  LET l == live[q]  m == live'[q]  w == worker[q] IN
         /\ m.uid = l.uid
         /\ m.finalizer \/ (Release(q) /\ ~l.deleting)
         /\ m.id = l.id \/ (PatchStatus(q) /\ m.id = w.obj.id /\ w.obj.id # w.base.id)
<1> DEFINE l == live[q]  m == live'[q]
<1>0. m.uid = l.uid
  BY UidKept
<1>1. CASE m = l
  BY <1>0, <1>1
<1>2. ASSUME NEW r \in Repos, r # q, AddFinalizer(r) \/ PatchStatus(r) \/ Release(r) \/ Edits(r)
      PROVE  m = l
  BY <1>2, FinalizerShape, PatchShape, ReleaseShape, EditShape
<1>3. CASE AddFinalizer(q)
  BY <1>0, <1>1, <1>3, FinalizerShape
<1>4. CASE PatchStatus(q)
  BY <1>0, <1>4, PatchShape DEF SameLife
<1>5. CASE Release(q)
  BY <1>0, <1>5, ReleaseShape DEF Gone
<1>6. CASE Edits(q)
  BY <1>0, <1>6, EditShape DEF EditOf, SameLife, Gone
<1>7. ASSUME NEW r \in Repos, Walks(r)
      PROVE  m = l
  BY <1>7 DEF Walks
<1> HIDE DEF l, m
<1> QED  BY <1>1, <1>2, <1>3, <1>4, <1>5, <1>6, <1>7, StepKinds DEF Refreshes, l, m

\* While the ID of a resource is not recorded, or its pass has yet to look it up, its
\* repository is not taken away.
LEMMA UnrecordedStays ==
  ASSUME ResourcesApart, Typed, Requested, Elders, LineageInv, IdsInv, [Next]_vars,
         NEW q \in Repos, Steady(q), live[q].finalizer, Provisions(q),
         NEW i \in RemoteIds, Own(q, i), Hosted(i),
         live[q].id = None \/ worker'[q].pc = "resolve"
  PROVE  Hosted(i)'
<1>0. None \notin RemoteIds /\ Lineage(q)
  BY InputAssumption DEF LineageInv
<1> SUFFICES ASSUME ~Hosted(i)' PROVE FALSE
  OBVIOUS
<1>1. \/ worker[q].pc = "destroy" /\ worker'[q].pc \in {"release", "idle"}
         /\ worker[q].obj.id = i
      \/ worker[q].pc = "idle" /\ worker' = worker /\ live[q].id = i
  BY HostKept
<1>2. worker[q].pc = "destroy" => worker[q].obj.id \in {None, live[q].id}
  BY <1>0 DEF Lineage, Steady
<1> QED  BY <1>0, <1>1, <1>2

\* A resource that is for a repository stays so while its incarnation lives.
LEMMA BoundKept ==
  ASSUME ResourcesApart, Typed, Requested, Elders, LineageInv, IdsInv, [Next]_vars,
         NEW q \in Repos, Steady(q), live[q].exists, live'[q].exists,
         NEW i \in RemoteIds, Bound(q, i)
  PROVE  Bound(q, i)'
<1> DEFINE w == worker[q]  n == worker'[q]  l == live[q]  m == live'[q]
<1>0. /\ Lineage(q) /\ worker \in [Repos -> Worker] /\ None \notin RemoteIds
      /\ Idle.pc = "idle" /\ l.finalizer /\ l.id \in {None, i} /\ Mine(q, i)
      /\ Provisions(q) => Own(q, i)
  BY InputAssumption DEF LineageInv, Typed, TypeOK, Idle, Bound, Mine, Provisions
<1>1. m.finalizer
  <2>1. ~(Release(q) /\ ~l.deleting)
    BY <1>0, ReleaseShape DEF Lineage
  <2> QED  BY <1>0, <2>1, LiveKinds
<1>2. Mine(q, i)'
  BY <1>0, OwnKept DEF Mine, Provisions
<1>3. SecretOf(q, i)'
  BY SecretStays DEF Bound
<1>4. m.id \in {None, i} /\ (m.id = None => l.id = None)
  <2>1. w.obj.id # w.base.id => w.obj.id # None
    BY <1>0 DEF Lineage
  <2>2. PatchStatus(q) => w.pc = "patch"
    BY DEF PatchStatus
  <2> QED  BY <1>0, <2>1, <2>2, LiveKinds DEF Bound
<1>5. CASE n = w \/ n = Idle
  <2>1. Provisions(q) /\ (m.id = None \/ (n.pc = "resolve" /\ n.obj.id = None)) => Hosted(i)'
    BY <1>0, <1>4, <1>5, UnrecordedStays DEF Bound
  <2> QED  BY <1>0, <1>1, <1>2, <1>3, <1>4, <1>5, <2>1 DEF Bound, Provisions
<1>6. CASE AddFinalizer(q) /\ Enters(n, m) /\ m.id = l.id
  <2>1. Provisions(q) /\ m.id = None => Hosted(i)'
    BY <1>0, <1>4, <1>6, UnrecordedStays DEF Bound
  <2> QED  BY <1>0, <1>1, <1>2, <1>3, <1>4, <1>6, <2>1
           DEF Bound, Enters, Copied, Provisions
<1>7. CASE Walk(q, n) /\ n # Idle /\ UNCHANGED <<live, cache>>
  <2>1. m = l
    BY <1>7
  <2>2. n.pc # "add"
    <3>1. ASSUME Adds(q, n)
          PROVE  FALSE
      <4>1. Hosted(i) /\ Own(q, i) /\ Named(RemoteName[q]) = {}
        BY <1>0, <3>1 DEF Adds, Bound
      <4> QED  BY <4>1 DEF Own, Named
    <3> QED  BY <1>7, <3>1 DEF Walk, Begins, Enters, Ends, ToClaim, ToSecret, ToInit
  <2>3. ASSUME ToClaim(q, n)
        PROVE  n.target = i
    <3>1. Resolves(q, n.target) /\ w.pc # "add" /\ n.target \in RemoteIds
      BY <2>3 DEF ToClaim, Resolves, Bound
    <3>2. CASE ~Provisions(q)
      BY <1>0, <3>1, <3>2 DEF Resolves, Mine
    <3>3. CASE w.pc = "resolve" /\ n.target = w.obj.id
      BY <1>0, <3>1, <3>3 DEF Lineage, Steady
    <3>4. CASE Provisions(q) /\ w.pc = "resolve" /\ w.obj.id = None
               /\ Named(RemoteName[q]) = {n.target}
      BY <1>0, <3>4 DEF Bound, Own, Named
    <3> QED  BY <3>1, <3>2, <3>3, <3>4 DEF Resolves
  <2>4. n.pc \in {"claim", "secret", "init"} => n.target = i
    <3>1. CASE ToSecret(q, n) \/ ToInit(q, n)
      BY <3>1 DEF ToSecret, ToInit, Bound
    <3> QED  BY <1>7, <2>3, <3>1 DEF Walk, Begins, Enters, Ends, Adds
  <2>5. n.pc = "patch" /\ n.obj.id # n.base.id => n.obj.id = i
    <3>1. ASSUME Ends(q, n), n.pc = "patch", n.obj.id # n.base.id
          PROVE  n.obj.id = i
      <4>1. /\ w.obj.id # w.base.id /\ n.obj.id = w.obj.id
            /\ w.pc \in Reconciling \cup {"destroy"}
        BY <3>1 DEF Ends, CarriesId, Carries
      <4>2. w.pc \in {"secret", "init"} /\ w.obj.id = w.target
        BY <1>0, <4>1 DEF Lineage, Reconciling
      <4> QED  BY <4>1, <4>2 DEF Bound
    <3> QED  BY <1>7, <3>1 DEF Walk, Begins, Enters, Copied, Adds, ToClaim, ToSecret, ToInit
  <2>6. ASSUME Provisions(q), n.pc = "resolve", n.obj.id = None
        PROVE  Hosted(i)
    <3>1. Begins(q, n)
      BY <1>7, <2>6 DEF Walk, Ends, Adds, ToClaim, ToSecret, ToInit
    <3>2. cache[q].id = None /\ ~cache[q].deleting
      BY <2>6, <3>1 DEF Begins, Enters, Copied
    <3>3. l.id # None => Hosted(i)
      BY <1>0, <2>6, <3>2 DEF IdsInv, Ids, Shown
    <3> QED  BY <2>6, <3>3 DEF Bound
  <2>7. Provisions(q) /\ (m.id = None \/ (n.pc = "resolve" /\ n.obj.id = None)) => Hosted(i)'
    BY <1>0, <2>1, <2>6, UnrecordedStays DEF Bound
  <2> QED  BY <1>1, <1>2, <1>3, <1>4, <2>2, <2>4, <2>5, <2>7 DEF Bound, Provisions
<1> QED  BY <1>5, <1>6, <1>7, PassKinds

\* A pass at the init Job is for the repository it has written the Secret for.
LEMMA BoundAtInit ==
  ASSUME Typed, Elders, LineageInv, IdsInv, NEW q \in Repos, Steady(q), Inits(q),
         worker[q].pc = "init"
  PROVE  worker[q].target \in RemoteIds /\ Bound(q, worker[q].target)
<1> DEFINE i == worker[q].target
<1>1. /\ i \in RemoteIds /\ Mine(q, i) /\ (Provisions(q) => Own(q, i) /\ Hosted(i))
      /\ live[q].id \in {None, i}
  BY TargetMine, TargetIsRecorded
<1>2. live[q].finalizer /\ SecretOf(q, i)
  BY DEF LineageInv, Lineage, Reconciling, Inits
<1> QED  BY <1>1, <1>2 DEF Bound

\* The init Job stays for the repository of its resource, and one is created for it only.
LEMMA JobOfNext ==
  ASSUME ResourcesApart, Typed, Requested, Elders, LineageInv, IdsInv, [Next]_vars, CleanStart,
         NEW q \in Repos, Steady(q), JobOf(q), Inits(q)
  PROVE  JobOf(q)'
<1> SUFFICES ASSUME live'[q].exists, Begun(q)'
             PROVE  \E i \in RemoteIds : /\ Bound(q, i)'
                                         /\ (job'[q].env # NoEnv => job'[q].env.id = i)
                                         /\ (Succeeded(q)' => Done(i)')
  BY DEF JobOf
<1>1. CASE Begun(q)
  <2>1. live[q].exists
    BY <1>1 DEF CleanStart, Begun
  <2>2. PICK i \in RemoteIds : /\ Bound(q, i) /\ (job[q].env # NoEnv => job[q].env.id = i)
                               /\ (Succeeded(q) => Done(i))
    BY <1>1, <2>1 DEF JobOf
  <2>3. Bound(q, i)'
    BY <2>1, <2>2, BoundKept
  <2>4. job'[q].env # NoEnv => job'[q].env.id = i
    <3>1. CASE secret[q].exists /\ job'[q].env = [id |-> secret[q].id,
                                                  password |-> secret[q].password]
      <4>1. job'[q].env.id = secret[q].id
        BY <3>1
      <4> QED  BY <2>2, <3>1, <4>1 DEF Bound, SecretOf
    <3> QED  BY <2>2, <3>1, JobFrame
  <2>5. Succeeded(q)' => Done(i)'
    <3>1. CASE Succeeded(q)
      BY <2>2, <3>1, DoneKept
    <3>2. CASE Succeeded(q)' /\ ~Succeeded(q)
      <4>1. /\ job[q].env # NoEnv /\ Done(job[q].env.id)' /\ job'[q].env = job[q].env
        BY <3>2, JobKinds DEF Succeeded
      <4> QED  BY <2>2, <4>1
    <3> QED  BY <3>1, <3>2
  <2> QED  BY <2>3, <2>4, <2>5
<1>2. CASE ~Begun(q)
  <2>1. job[q].state = "None" /\ jobCache[q] = "None"
    BY <1>2 DEF Begun
  <2>2. /\ \E reply \in Replies : CreateInitJob(q, reply)
        /\ job'[q].env = NoEnv /\ job'[q].state = "Running"
        /\ jobCache'[q] = "None"
    <3>1. jobCache'[q] = "None"
      BY <2>1, JobKinds
    <3>2. job'[q].state \in {"None", "Running"}
      BY <2>1, JobKinds
    <3>3. job'[q].state = "Running"
      BY <3>1, <3>2 DEF Begun
    <3> QED  BY <2>1, <3>1, <3>3, JobKinds
  <2>3. worker[q].pc = "init"
    BY <2>2 DEF CreateInitJob
  <2>4. live[q].exists
    BY <2>3 DEF LineageInv, Lineage, Whole, Reconciling
  <2>5. PICK i \in RemoteIds : i = worker[q].target /\ Bound(q, i)
    BY <2>3, BoundAtInit
  <2>6. Bound(q, i)'
    BY <2>4, <2>5, BoundKept
  <2> QED  BY <2>2, <2>6 DEF Succeeded
<1> QED  BY <1>1, <1>2

\* status.initialized is written, by a pass that has seen the Job succeed, for the repository
\* the Job was for.
LEMMA InitsNext ==
  ASSUME ResourcesApart, Typed, Requested, Elders, LineageInv, IdsInv, [Next]_vars,
         NEW q \in Repos, Steady(q), JobOf(q), Inits(q)
  PROVE  Inits(q)'
<1> DEFINE w == worker[q]  n == worker'[q]  l == live[q]  m == live'[q]
<1>0. Lineage(q) /\ None \notin RemoteIds /\ Whole(l)
  BY InputAssumption DEF LineageInv, Lineage
<1>1. ASSUME m.initialized
      PROVE  m.id \in RemoteIds /\ Done(l.id)' /\ SecretOf(q, l.id)'
  <2>1. CASE l.initialized /\ m.uid = l.uid
    <3>1. PICK i \in RemoteIds : i = l.id /\ Done(i) /\ SecretOf(q, i)
      BY <2>1 DEF Inits
    <3>2. m.id = i
      BY <1>0, <2>1, <3>1, IdStays
    <3>3. w.pc = "secret" => w.target = i
      BY <1>0, <3>1, TargetIsRecorded
    <3>4. Done(i)' /\ SecretOf(q, i)'
      BY <3>1, <3>3, DoneKept, SecretStays
    <3> QED  BY <3>2, <3>4 DEF Done, SecretOf, Hosted
  <2>2. CASE PatchStatus(q) /\ l.exists /\ w.obj.initialized # w.base.initialized
    <3>1. PICK i \in RemoteIds : i = w.obj.id /\ Done(i) /\ SecretOf(q, i)
      BY <2>2 DEF Inits
    <3>2. w.pc = "patch" /\ l.finalizer
      BY <2>2 DEF Inits
    <3>3. m.id = i
      <4>1. m.id = IF w.obj.id # w.base.id THEN w.obj.id ELSE l.id
        BY <2>2, PatchShape
      <4> QED  BY <1>0, <3>1, <3>2, <4>1 DEF Steady
    <3>4. Done(i)' /\ SecretOf(q, i)'
      BY <3>1, <3>2, DoneKept, SecretStays
    <3> QED  BY <3>3, <3>4 DEF Done, SecretOf, Hosted
  <2> QED  BY <1>1, <2>1, <2>2, LiveMark
<1>2. ASSUME n.pc = "init"
      PROVE  SecretOf(q, w.target)'
  <2>1. CASE n = w
    BY <1>2, <2>1, SecretStays DEF Inits, SecretOf
  <2>2. CASE w.pc # "init"
    <3>1. PICK p \in Passwords, reply \in Replies : WriteSecret(q, p, reply)
      BY <1>2, <2>2, InitEntered
    <3>2. /\ w.pc = "secret"
          /\ secret'[q] = [exists |-> TRUE, id |-> w.target, password |-> p,
                           owner |-> OwnerFor(w.obj)]
      BY <3>1, WriteShape
    <3>3. secret'[q].id = w.target
      BY <3>2
    <3>4. n.target = w.target
      <4>1. Walk(q, n)
        BY <1>2, <2>2, PassKinds DEF Idle, Enters
      <4> QED  BY <1>2, <4>1
               DEF Walk, Idle, Begins, Enters, Ends, Adds, ToClaim, ToSecret, ToInit
    <3> QED  BY <3>3, <3>4 DEF SecretOf
  <2>3. n = w \/ w.pc # "init"
    <3>1. ASSUME Walk(q, n)
          PROVE  w.pc # "init"
      BY <1>2, <3>1 DEF Walk, Idle, Begins, Enters, Ends, Adds, ToClaim, ToSecret, ToInit
    <3> QED  BY <1>2, <3>1, PassKinds DEF Idle, Enters
  <2> QED  BY <2>1, <2>2, <2>3
<1>3. ASSUME n.obj.initialized # n.base.initialized
      PROVE  /\ n.pc = "patch" /\ n.obj.initialized /\ m.finalizer
             /\ n.obj.id \in RemoteIds /\ Done(w.obj.id)' /\ SecretOf(q, w.obj.id)'
  <2>1. CASE RecordInitialized(q)
    <3>1. /\ w.pc = "init" /\ jobCache[q] = "Succeeded" /\ n = Initialized(w)
          /\ UNCHANGED <<live, secret, remote>>
      BY <2>1 DEF RecordInitialized, InitSucceeded, Goto, Typed, TypeOK, apiVars, borgbase
    <3>2. /\ n.pc = "patch" /\ n.obj.id = w.obj.id /\ n.obj.initialized
      <4>1. w \in Worker /\ Settle(w, "Ready") \in Worker
        BY SettleCarries DEF Typed, TypeOK, Ready
      <4>2. CarriesId(Initialized(w), w) /\ Initialized(w).pc = "patch"
        BY <4>1, InitializedCarries
      <4>3. Initialized(w).obj.initialized
        BY <4>1 DEF Initialized, Worker, Object
      <4> QED  BY <3>1, <4>2, <4>3 DEF CarriesId
    <3>3. l.finalizer /\ l.exists /\ w.obj.id = w.target
      BY <1>0, <3>1 DEF Lineage, Whole, Reconciling
    <3>4. PICK i \in RemoteIds : Bound(q, i) /\ Done(i)
      BY <3>1, <3>3 DEF JobOf, Begun, Succeeded
    <3>5. n.obj.id = i /\ SecretOf(q, i)
      BY <3>1, <3>2, <3>3, <3>4 DEF Bound
    <3> QED  BY <3>1, <3>2, <3>3, <3>4, <3>5 DEF Done, SecretOf, Hosted
  <2>2. CASE n = w
    <3>1. /\ w.pc = "patch" /\ w.obj.initialized /\ l.finalizer /\ l.exists
      BY <1>0, <1>3, <2>2 DEF Inits, Whole
    <3>2. PICK i \in RemoteIds : i = w.obj.id /\ Done(i) /\ SecretOf(q, i)
      BY <1>3, <2>2 DEF Inits
    <3>3. Done(i)' /\ SecretOf(q, i)'
      BY <3>1, <3>2, DoneKept, SecretStays
    <3>4. m.finalizer
      <4>1. ASSUME NEW r \in Repos, Release(r) \/ Edits(r) \/ AddFinalizer(r) \/ Walks(r)
                   \/ PatchStatus(r)
            PROVE  m.finalizer
        <5>1. Release(r) \/ PatchStatus(r) \/ AddFinalizer(r) => r # q
          <6>1. Idle.pc = "idle" /\ ~Release(q) /\ ~AddFinalizer(q)
            BY <3>1 DEF Idle, Release, AddFinalizer
          <6>2. ~PatchStatus(q)
            BY <2>2, <3>1, <6>1, PatchShape
          <6> QED  BY <6>1, <6>2
        <5>2. Release(r) \/ PatchStatus(r) \/ AddFinalizer(r) => m = l
          BY <5>1, ReleaseShape, PatchShape, FinalizerShape
        <5>3. Edits(r) => m = l \/ EditOf(m, l)
          BY EditShape
        <5> QED  BY <3>1, <4>1, <5>2, <5>3 DEF Walks, EditOf, SameLife
      <4> QED  BY <3>1, <4>1, StepKinds DEF Refreshes
    <3> QED  BY <2>2, <3>1, <3>2, <3>3, <3>4 DEF Done, SecretOf, Hosted
  <2>3. ~Unmarked(n) /\ ~KeepsMark(n, w)
    BY <1>3 DEF Unmarked, KeepsMark, Inits
  <2> QED  BY <2>1, <2>2, <2>3, MarkFrame
<1>4. Inits(q)' <=>
        /\ m.initialized => m.id \in RemoteIds /\ Done(l.id)' /\ SecretOf(q, l.id)'
        /\ n.pc = "init" => SecretOf(q, w.target)'
        /\ n.obj.initialized # n.base.initialized =>
             /\ n.pc = "patch" /\ n.obj.initialized /\ m.finalizer
             /\ n.obj.id \in RemoteIds /\ Done(w.obj.id)' /\ SecretOf(q, w.obj.id)'
  BY DEF Inits
<1> QED  BY <1>1, <1>2, <1>3, <1>4

\* Every step keeps what is initialized usable.
LEMMA UseNext ==
  ASSUME ResourcesApart
  PROVE  Typed /\ Requested /\ Elders /\ LineageInv /\ IdsInv /\ UseInv
         /\ [Next]_vars /\ [CleanStart]_vars => UseInv'
<1> SUFFICES ASSUME Typed, Requested, Elders, LineageInv, IdsInv, UseInv, [Next]_vars,
                    [CleanStart]_vars, NEW r \in Repos
             PROVE  Steady(r)' /\ JobOf(r)' /\ Inits(r)'
  BY DEF UseInv
<1>1. CleanStart
  <2>1. UNCHANGED vars => live' = live
    BY DEF vars, apiVars
  <2> QED  BY <2>1 DEF CleanStart
<1>2. Steady(r) /\ JobOf(r) /\ Inits(r)
  BY DEF UseInv
<1> QED  BY <1>1, <1>2, SteadyNext, JobOfNext, InitsNext

\* A Repository that says it is initialized is: restic init has run in the BorgBase repository
\* it has recorded, and the Secret names that one and opens it. The init Job is known by its
\* name alone, the pass that reads its result works on a stale copy and writes the flag later,
\* and the Secret, the Job and the operator may be lost in between; all of it stays about one
\* repository as long as no Repository is created while a Job of the one before it is to be
\* seen, which is what the deletion and creation of a Repository in quick succession breaks.
THEOREM AlwaysUsable ==
  ASSUME ResourcesApart, SeedsAgree, SeedsOpen
  PROVE  Spec /\ [][Careful]_vars /\ [][CleanStart]_vars => []InitializedIsUsable
<1>1. ASSUME Typed, PassInv, KeyInv, UseInv, NEW r \in Repos, live[r].initialized,
             Hosted(live[r].id), secret[r].exists
      PROVE  secret[r].id = live[r].id /\ secret[r].password \in remote[live[r].id].keys
  <2>1. Done(live[r].id) /\ secret[r].id = live[r].id
    BY <1>1 DEF UseInv, Inits, SecretOf
  <2>2. remote[live[r].id].keys # {}
    BY <1>1, <2>1 DEF Done
  <2> QED  BY <1>1, <2>1, <2>2, KeyOpens
<1>2. Typed /\ PassInv /\ KeyInv /\ UseInv => InitializedIsUsable
  BY <1>1 DEF InitializedIsUsable
<1> QED  BY <1>2, AlwaysTyped, RequestedInit, RequestedNext, EldersInit, EldersNext,
            LineageInit, LineageNext, IdsInit, IdsNext, PassInit, PassNext, KeyInit, KeyNext,
            UseInit, UseNext, PTL DEF Spec

\* Nobody deletes a Repository.
NobodyDeletes == "delete" \notin AdminOps

\* A Repository that is yet to be created has no init Job, and no password was generated for
\* it.
FreshInv ==
  \A r \in Repos :
    /\ ~live[r].deleting
    /\ ~live[r].exists => /\ job[r].state = "None" /\ jobCache[r] = "None"
                          /\ Generates(r) => \A i \in RemoteIds : Own(r, i) => stored[i] = {}

LEMMA FreshInit == Init => FreshInv
<1> SUFFICES ASSUME Init, NEW r \in Repos
             PROVE  /\ ~live[r].deleting /\ job[r].state = "None" /\ jobCache[r] = "None"
                    /\ \A i \in RemoteIds : stored[i] = {}
  BY DEF FreshInv
<1> QED  BY DEF Init, NoObject, NoJob

\* So it is created with care, and cleanly.
LEMMA FreshIsClean ==
  ASSUME FreshInv
  PROVE  Careful /\ CleanStart
<1>1. Careful
  BY DEF FreshInv, Careful, Own, Hosted
<1>2. CleanStart
  BY DEF FreshInv, CleanStart
<1> QED  BY <1>1, <1>2

\* Until a Repository is created, no pass of it writes a Secret or creates a Job.
LEMMA FreshNext ==
  ASSUME ResourcesApart, NobodyDeletes
  PROVE  Typed /\ Requested /\ Elders /\ LineageInv /\ IdsInv /\ PassInv /\ FreshInv
         /\ [Next]_vars => FreshInv'
<1> SUFFICES ASSUME Typed, Requested, Elders, LineageInv, IdsInv, PassInv, FreshInv,
                    [Next]_vars, NEW q \in Repos
             PROVE  /\ ~live'[q].deleting
                    /\ ~live'[q].exists =>
                         /\ job'[q].state = "None" /\ jobCache'[q] = "None"
                         /\ Generates(q) => \A i \in RemoteIds : Own(q, i)' => stored'[i] = {}
  BY DEF FreshInv, Generates, Provisions
<1>0. /\ ~live[q].deleting
      /\ ~live[q].exists => /\ job[q].state = "None" /\ jobCache[q] = "None"
                            /\ Generates(q) => \A i \in RemoteIds : Own(q, i) => stored[i] = {}
  BY DEF FreshInv
<1>1. ~live'[q].deleting /\ (~live'[q].exists => ~live[q].exists)
  <2>1. CASE live'[q] = live[q]
    BY <1>0, <2>1
  <2>2. ASSUME NEW r \in Repos, AddFinalizer(r) \/ PatchStatus(r) \/ Release(r) \/ Walks(r)
        PROVE  ~live'[q].deleting /\ (~live'[q].exists => ~live[q].exists)
    <3>1. CASE r # q
      BY <1>0, <2>2, <3>1, FinalizerShape, PatchShape, ReleaseShape DEF Walks
    <3>2. CASE r = q
      <4>1. CASE AddFinalizer(q)
        BY <1>0, <4>1, FinalizerShape
      <4>2. CASE PatchStatus(q)
        BY <1>0, <4>2, PatchShape DEF SameLife
      <4>3. CASE Release(q)
        BY <1>0, <4>3, ReleaseShape
      <4> QED  BY <1>0, <2>2, <3>2, <4>1, <4>2, <4>3 DEF Walks
    <3> QED  BY <3>1, <3>2
  <2>3. ASSUME NEW r \in Repos, Edits(r)
        PROVE  ~live'[q].deleting /\ (~live'[q].exists => ~live[q].exists)
    <3>1. CASE r # q
      BY <1>0, <2>3, <3>1, EditShape
    <3>2. CASE r = q /\ (ToggleSuspend(r) \/ \E policy \in Policy : SetPolicy(r, policy))
      <4>0. live \in [Repos -> Object] /\ live[q] \in Object
        BY DEF Typed, TypeOK
      <4>1. \/ \E b : live' = [live EXCEPT ![q] = [@ EXCEPT !.suspend = b]]
            \/ \E b : live' = [live EXCEPT ![q] = [@ EXCEPT !.policy = b]]
        BY <3>2, <4>0 DEF ToggleSuspend, SetPolicy
      <4> QED  BY <1>0, <4>0, <4>1 DEF Object
    <3>3. ~DeleteRepository(r)
      BY DEF DeleteRepository, Admin, NobodyDeletes
    <3>4. CASE r = q /\ \E policy \in Policies, second \in 0..MaxCreations :
                          CreateRepository(r, policy, second)
      BY <1>0, <2>3, <3>4, EditShape DEF EditOf, SameLife, Gone, CreateRepository
    <3> QED  BY <2>3, <3>1, <3>2, <3>3, <3>4 DEF Edits
  <2> QED  BY <1>0, <2>1, <2>2, <2>3, StepKinds DEF Refreshes
<1>2. ASSUME ~live'[q].exists
      PROVE  /\ job'[q].state = "None" /\ jobCache'[q] = "None"
             /\ worker[q].pc \notin {"secret", "init"}
  <2>1. job[q].state = "None" /\ jobCache[q] = "None" /\ ~live[q].exists
    BY <1>0, <1>1, <1>2
  <2>2. worker[q].pc \notin {"secret", "init"}
    BY <2>1 DEF LineageInv, Lineage, Whole, Reconciling
  <2>3. \A reply : ~CreateInitJob(q, reply)
    BY <2>2 DEF CreateInitJob
  <2>4. job'[q].state \in {"None", "Running"} /\ jobCache'[q] = "None"
    BY <2>1, JobKinds
  <2>5. job'[q].state # "Running"
    BY <2>1, <2>3, JobKinds
  <2> QED  BY <2>2, <2>4, <2>5
<1>3. ASSUME ~live'[q].exists, Generates(q), NEW i \in RemoteIds, Own(q, i)'
      PROVE  stored'[i] = {}
  <2>1. stored[i] = {}
    <3>1. CASE remote[i].state = "unborn"
      BY <3>1 DEF PassInv
    <3>2. CASE remote[i].state # "unborn"
      BY <1>0, <1>1, <1>3, <3>2, NamesKept DEF Own
    <3> QED  BY <3>1, <3>2
  <2>2. ASSUME NEW r \in Repos, NEW p \in Passwords, NEW reply \in Replies,
               WriteSecret(r, p, reply)
        PROVE  stored'[i] = {}
    <3>1. /\ worker[r].pc = "secret" /\ worker[r].target \in RemoteIds /\ remote' = remote
          /\ \A j \in RemoteIds \ {worker[r].target} : stored'[j] = stored[j]
      BY <2>2, WriteShape
    <3>2. r # q
      BY <1>2, <1>3, <3>1
    <3>3. Own(q, i)
      BY <1>3, <3>1 DEF Own
    <3>4. worker[r].target # i
      BY <1>3, <3>1, <3>2, <3>3, TargetMine, MineOnce DEF Mine, Generates
    <3> QED  BY <2>1, <3>1, <3>4
  <2>3. stored' = stored => stored'[i] = {}
    BY <2>1
  <2> QED  BY <2>2, <2>3, SecretKinds DEF Discards
<1> QED  BY <1>1, <1>2, <1>3

LEMMA NobodyDeletesIsClean ==
  ASSUME ResourcesApart, SeedsAgree, NobodyDeletes
  PROVE  Spec => [][Careful]_vars /\ [][CleanStart]_vars
<1>1. FreshInv => Careful /\ CleanStart
  BY FreshIsClean
<1>2. Typed /\ Requested /\ Elders /\ LineageInv /\ IdsInv /\ PassInv /\ FreshInv
      /\ [Next]_vars => PassInv'
  BY <1>1, PassNext
<1> QED  BY <1>1, <1>2, AlwaysTyped, RequestedInit, RequestedNext, EldersInit, EldersNext,
            LineageInit, LineageNext, IdsInit, IdsNext, PassInit, FreshInit, FreshNext, PTL
         DEF Spec

\* Where nobody deletes a Repository, under whatever policy, with Secrets lost, repositories
\* removed, restarts and failures, nothing is assumed of the behaviour.
THEOREM UsableUnlessDeleted ==
  ASSUME ResourcesApart, SeedsAgree, SeedsOpen, NobodyDeletes
  PROVE  Spec => []InitializedIsUsable
BY NobodyDeletesIsClean, AlwaysUsable, PTL

===============================================================================
