------------------------- MODULE RepositoryRefinement -------------------------
(***************************************************************************)
(* RepositoryController implements RemoteLifecycle, for any number of      *)
(* Repositories, IDs and passwords: every step of the operator, of the     *)
(* cluster and of an administrator is one step of the lifecycle or none.   *)
(***************************************************************************)
EXTENDS RepositoryProofs

\* A change of one ID in remote is the same change in what the lifecycle sees.
LEMMA OneChanges ==
  ASSUME Typed, NEW i \in RemoteIds, NEW new, remote' = [remote EXCEPT ![i] = new]
  PROVE  DataView' = [DataView EXCEPT ![i] = [state |-> new.state, keys |-> new.keys,
                                              used |-> new.used]]
  BY DEF Typed, TypeOK, DataView, Datum

\* The lifecycle starts with what is on BorgBase before the operator.
LEMMA LifecycleInit == Init => Lifecycle!Init
<1> SUFFICES ASSUME Init PROVE Lifecycle!Init
  OBVIOUS
<1>1. remote \in [RemoteIds -> Remote] /\ \A i \in RemoteIds : remote[i].state \in {"unborn", "live"}
  BY InputAssumption DEF Init
<1>2. DataView \in [RemoteIds -> Lifecycle!Data]
  BY <1>1 DEF DataView, Datum, Lifecycle!Data, Remote
<1> QED  BY <1>1, <1>2 DEF Init, Lifecycle!Init, DataView, Datum

\* An Add, in time or late, creates.
LEMMA AddCreates ==
  ASSUME Typed, NEW r \in Repos, NEW i \in RemoteIds, CreateRemote(r, i)
  PROVE  Lifecycle!Create(i)
<1>1. DataView' = [DataView EXCEPT ![i] = [state |-> "live", keys |-> {}, used |-> FALSE]]
  BY OneChanges DEF CreateRemote
<1> QED  BY <1>1 DEF CreateRemote, Lifecycle!Create, Lifecycle!Nothing, DataView, Datum

\* finalize destroys on request, or finds nothing.
LEMMA DestroyDestroys ==
  ASSUME Typed, Requested, NEW r \in Repos, NEW reply, Destroy(r, reply)
  PROVE  \/ Lifecycle!Destroy(worker[r].obj.id) /\ worker[r].obj.id \in RemoteIds
         \/ remote' = remote
<1> DEFINE i == worker[r].obj.id
<1>1. i \in doomed /\ i \in RemoteIds
  BY DEF Destroy, Requested, Typed, TypeOK
<1>2. CASE Hosted(i)
  <2> DEFINE new == [remote[i] EXCEPT !.state = "destroyed", !.keys = {}, !.used = FALSE]
  <2>1. remote' = [remote EXCEPT ![i] = new]
    BY <1>1, <1>2 DEF Destroy, Destroyed, Typed, TypeOK
  <2>2. new.state = "destroyed" /\ new.keys = {} /\ new.used = FALSE
    BY <1>1 DEF Typed, TypeOK, Remote
  <2>3. DataView' = [DataView EXCEPT ![i] = [state |-> "destroyed", keys |-> {}, used |-> FALSE]]
    <3> HIDE DEF new
    <3> QED  BY <1>1, <2>1, <2>2, OneChanges
  <2> QED  BY <1>1, <1>2, <2>3 DEF Hosted, Lifecycle!Destroy, Lifecycle!Nothing, DataView, Datum
<1>3. CASE ~Hosted(i)
  BY <1>3 DEF Destroy
<1> QED  BY <1>1, <1>2, <1>3

\* An administrator removes.
LEMMA RemoveRemoves ==
  ASSUME Typed, NEW r \in Repos, RemoveRemote(r)
  PROVE  live[r].id \in RemoteIds /\ Lifecycle!Remove(live[r].id)
<1> DEFINE i == live[r].id
           new == [remote[i] EXCEPT !.state = "removed", !.keys = {}, !.used = FALSE]
<1>1. i \in RemoteIds
  <2>1. i # None
    BY DEF RemoveRemote, Settled
  <2> QED  BY <2>1 DEF Typed, TypeOK, Object
<1>2. remote' = [remote EXCEPT ![i] = new]
  BY <1>1 DEF RemoveRemote, Typed, TypeOK
<1>3. new.state = "removed" /\ new.keys = {} /\ new.used = FALSE
  BY <1>1 DEF Typed, TypeOK, Remote
<1>4. DataView' = [DataView EXCEPT ![i] = [state |-> "removed", keys |-> {}, used |-> FALSE]]
  <2> HIDE DEF new
  <2> QED  BY <1>1, <1>2, <1>3, OneChanges
<1> QED  BY <1>1, <1>4 DEF RemoveRemote, Hosted, Lifecycle!Remove, Lifecycle!Nothing, DataView, Datum

\* The first snapshot is stored in a repository that has its key.
LEMMA BackupStores ==
  ASSUME Typed, NEW r \in Repos, Backup(r)
  PROVE  secret[r].id \in RemoteIds /\ Lifecycle!Store(secret[r].id)
<1> DEFINE i == secret[r].id
           new == [remote[i] EXCEPT !.used = TRUE]
<1>1. i \in RemoteIds
  BY DEF Backup, Typed, SecretComplete
<1>2. remote' = [remote EXCEPT ![i] = new]
  BY <1>1 DEF Backup, Typed, TypeOK
<1>3. new.state = remote[i].state /\ new.keys = remote[i].keys /\ new.used = TRUE
  BY <1>1 DEF Typed, TypeOK, Remote
<1>4. DataView' = [DataView EXCEPT ![i] = [state |-> remote[i].state, keys |-> remote[i].keys,
                                           used |-> TRUE]]
  <2> HIDE DEF new
  <2> QED  BY <1>1, <1>2, <1>3, OneChanges
<1> QED  BY <1>1, <1>4 DEF Backup, Hosted, Lifecycle!Store, DataView, Datum

\* restic init, of a Job that succeeds or fails after it, gives an empty repository
\* its key; on one that has a key it changes nothing.
LEMMA InitInitializes ==
  ASSUME Typed, NEW r \in Repos, RunInit(r) \/ InitJobFails(r)
  PROVE  \/ remote' = remote
         \/ \E i \in RemoteIds, p \in Passwords : Lifecycle!Initialize(i, p)
<1> DEFINE i == job[r].env.id
           p == job[r].env.password
           new == [remote[i] EXCEPT !.keys = {p}]
<1>1. i \in RemoteIds /\ p \in Passwords
  <2>1. job[r].env # NoEnv
    BY DEF RunInit, InitJobFails
  <2> QED  BY <2>1 DEF Typed, TypeOK, Job, Env
<1>2. remote \in [RemoteIds -> Remote] /\ remote[i] \in Remote
  BY <1>1 DEF Typed, TypeOK
<1>3. \/ remote' = remote
      \/ Hosted(i) /\ remote[i].keys \subseteq {p} /\ remote' = [remote EXCEPT ![i] = new]
  BY <1>1, <1>2 DEF RunInit, InitJobFails
<1>4. CASE remote[i].keys = {p} /\ remote' = [remote EXCEPT ![i] = new]
  <2>1. new = remote[i]
    BY <1>2, <1>4 DEF Remote
  <2> QED  BY <1>2, <1>4, <2>1
<1>5. CASE Hosted(i) /\ remote[i].keys = {} /\ remote' = [remote EXCEPT ![i] = new]
  <2>1. new.state = remote[i].state /\ new.keys = {p} /\ new.used = remote[i].used
    BY <1>2 DEF Remote
  <2>2. DataView' = [DataView EXCEPT ![i] = [state |-> remote[i].state, keys |-> {p},
                                             used |-> remote[i].used]]
    <3> HIDE DEF new
    <3> QED  BY <1>1, <1>5, <2>1, OneChanges
  <2>3. DataView[i] = [state |-> "live", keys |-> {}, used |-> remote[i].used]
    BY <1>1, <1>5 DEF Hosted, DataView, Datum
  <2>4. DataView' = [DataView EXCEPT ![i].keys = {p}]
    <3>1. [DataView[i] EXCEPT !.keys = {p}]
            = [state |-> remote[i].state, keys |-> {p}, used |-> remote[i].used]
      BY <1>5, <2>3 DEF Hosted
    <3> QED  BY <2>2, <3>1
  <2>5. Lifecycle!Initialize(i, p)
    BY <2>3, <2>4 DEF Lifecycle!Initialize
  <2> QED  BY <1>1, <2>5
<1> QED  BY <1>3, <1>4, <1>5

\* What a step of Next does to the data, and that no step touches data and requests
\* at once.
LEMMA DataFrame ==
  ASSUME [Next]_vars
  PROVE  \/ remote' = remote
         \/ /\ doomed' = doomed
            /\ \E r \in Repos :
                 \/ \E i \in RemoteIds : CreateRemote(r, i)
                 \/ \E reply \in Replies : Destroy(r, reply)
                 \/ RunInit(r) \/ InitJobFails(r) \/ Backup(r) \/ RemoveRemote(r)
<1>1. ASSUME NEW r \in Repos, PassStep(r) \/ ReplyLost(r) \/ Failure(r) \/ Cluster(r)
                              \/ Administrator(r)
      PROVE  \/ remote' = remote
             \/ /\ doomed' = doomed
                /\ \/ \E i \in RemoteIds : CreateRemote(r, i)
                   \/ \E reply \in Replies : Destroy(r, reply)
                   \/ RunInit(r) \/ InitJobFails(r) \/ Backup(r) \/ RemoveRemote(r)
  <2>1. CASE PassStep(r) \/ ReplyLost(r) \/ Failure(r)
    BY <2>1 DEF PassStep, ReplyLost, Failure, StartPass, AddFinalizer,
       ResolveExisting, ResolveRecorded, ResolveByName, Add, Claim, WriteSecret,
       RefuseSecret, CleanupInitJob, CreateInitJob, AwaitInitJob, RetryInitJob,
       RecordInitialized, PatchStatus, Destroy, Release, AbandonAdd, CallFails, PassFails,
       TokenUnavailable, borgbase, history, Replies
  <2>2. CASE Cluster(r) \/ Administrator(r)
    BY <2>2 DEF Cluster, Administrator, StartPod, RunInit, InitJobFails, Backup, RemoveRemote,
       ExpireJob, CollectSecret, CollectJob, LateAdd, CreateRepository, DeleteRepository,
       SetPolicy, ToggleSuspend, LoseSecret, borgbase, bounds, history
  <2> QED  BY <1>1, <2>1, <2>2
<1>2. CASE SyncRepositories \/ SyncJobs \/ Crash \/ UNCHANGED vars
  BY <1>2 DEF SyncRepositories, SyncJobs, Crash, vars, borgbase
<1> QED  BY <1>1, <1>2 DEF Next

\* Every step is one of the lifecycle, a request or nothing.
LEMMA LifecycleStep ==
  ASSUME Typed, Requested, [Next]_vars
  PROVE  [Lifecycle!Next]_<<DataView, doomed>>
<1>1. CASE remote' = remote
  <2>1. DataView' = DataView
    BY <1>1 DEF DataView, Datum
  <2>2. doomed \subseteq doomed' /\ doomed' \in SUBSET RemoteIds
    BY LiveNoted, TypedNext DEF Typed, TypeOK
  <2> QED  BY <2>1, <2>2 DEF Lifecycle!Next, Lifecycle!Request
<1>2. ASSUME NEW r \in Repos, doomed' = doomed,
             \/ \E i \in RemoteIds : CreateRemote(r, i)
             \/ \E reply \in Replies : Destroy(r, reply)
             \/ RunInit(r) \/ InitJobFails(r) \/ Backup(r) \/ RemoveRemote(r)
      PROVE  \/ remote' = remote
             \/ Lifecycle!Next
  <2>1. CASE \E i \in RemoteIds : CreateRemote(r, i)
    BY <1>2, <2>1, AddCreates DEF Lifecycle!Next
  <2>2. CASE \E reply \in Replies : Destroy(r, reply)
    BY <1>2, <2>2, DestroyDestroys DEF Lifecycle!Next
  <2>3. CASE RunInit(r) \/ InitJobFails(r)
    BY <1>2, <2>3, InitInitializes DEF Lifecycle!Next
  <2>4. CASE Backup(r) \/ RemoveRemote(r)
    BY <1>2, <2>4, BackupStores, RemoveRemoves DEF Lifecycle!Next
  <2> QED  BY <1>2, <2>1, <2>2, <2>3, <2>4
<1> QED  BY <1>1, <1>2, DataFrame

\* For any number of Repositories and failures, the reconciler, its init Jobs and the
\* garbage collector do to the data on BorgBase only what RemoteLifecycle allows:
\* created once, initialized once, never given another key, destroyed on request.
THEOREM ImplementsLifecycle == Spec => DataAsPromised
<1>1. Spec => []Requested
  BY AlwaysTyped, RequestedInit, RequestedNext, PTL DEF Spec
<1> QED  BY <1>1, AlwaysTyped, LifecycleInit, LifecycleStep, PTL
         DEF Spec, DataAsPromised, Lifecycle!Spec
===============================================================================
