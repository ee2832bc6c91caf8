--------------------------- MODULE RepositoryProofs ---------------------------
(***************************************************************************)
(* Theorems of RepositoryController, for every set of Repositories, of     *)
(* BorgBase IDs and of passwords, and every bound.                         *)
(***************************************************************************)
EXTENDS RepositoryController, TLAPS

-------------------------------------------------------------------------------
(* The values the helpers build *)

LEMMA NoneTyped ==
  NoObject \in Object /\ NoSecret \in Secret /\ NoJob \in Job /\ Idle \in Worker
BY DEF NoObject, NoSecret, NoJob, Idle, Object, Secret, Job, Worker, Policy, Ready,
       JobState, Pcs

LEMMA AtTyped ==
  ASSUME NEW w \in Worker, NEW pc \in Pcs
  PROVE  At(w, pc) \in Worker /\ At(w, pc).pc = pc /\ At(w, pc).target = w.target
BY DEF At, Worker

LEMMA SettleTyped ==
  ASSUME NEW w \in Worker, NEW c \in Ready
  PROVE  Settle(w, c) \in Worker /\ Settle(w, c).pc = "patch"
BY DEF Settle, Worker, Object, Pcs

LEMMA FailedTyped ==
  ASSUME NEW w \in Worker
  PROVE  Failed(w) \in Worker /\ Failed(w).pc = "patch"
BY SettleTyped DEF Failed, Ready

LEMMA ResolvedTyped ==
  ASSUME NEW w \in Worker, NEW i \in RemoteIds, NEW u \in BOOLEAN, NEW a \in BOOLEAN
  PROVE  /\ Resolved(w, i, u, a) \in Worker
         /\ Resolved(w, i, u, a).pc = "claim" /\ Resolved(w, i, u, a).target = i
BY DEF Resolved, Worker, Object, Pcs

LEMMA RecordedTyped ==
  ASSUME NEW w \in Worker
  PROVE  Recorded(w) \in Worker /\ Recorded(w).pc = "secret" /\ Recorded(w).target = w.target
BY DEF Recorded, Worker, Object, Pcs

LEMMA InitializedTyped ==
  ASSUME NEW w \in Worker
  PROVE  Initialized(w) \in Worker /\ Initialized(w).pc = "patch"
<1>1. Settle(w, "Ready") \in Worker /\ Settle(w, "Ready").pc = "patch"
  BY SettleTyped DEF Ready
<1> QED  BY <1>1 DEF Initialized, Worker, Object

LEMMA EnterPassTyped ==
  ASSUME NEW o \in Object
  PROVE  EnterPass(o) \in Worker /\ EnterPass(o).pc \in {"resolve", "patch"}
<1> DEFINE w == [pc |-> "resolve", obj |-> o, base |-> o, target |-> None,
                 known |-> o.id # None \/ o.initialized, used |-> FALSE]
<1>1. w \in Worker /\ w.pc = "resolve"
  BY DEF Worker, Object, Pcs
<1>2. Settle(w, "Suspended") \in Worker /\ Settle(w, "Suspended").pc = "patch"
  BY <1>1, SettleTyped DEF Ready
<1> QED  BY <1>1, <1>2 DEF EnterPass

LEMMA MergedTyped ==
  ASSUME NEW o \in Object, NEW b \in Object, NEW n \in Object
  PROVE  Merged(o, b, n) \in Object
BY DEF Merged, Object

LEMMA CreatedTyped ==
  ASSUME NEW uid \in Nat, NEW born \in Nat, NEW policy \in Policy
  PROVE  Created(uid, born, policy) \in Object
BY NoneTyped DEF Created, NoObject, Object

LEMMA GotoTyped ==
  ASSUME worker \in [Repos -> Worker], NEW r \in Repos, NEW w \in Worker, Goto(r, w)
  PROVE  /\ worker' \in [Repos -> Worker] /\ worker'[r] = w
         /\ \A q \in Repos \ {r} : worker'[q] = worker[q]
BY DEF Goto

\* A step of the pass of r that sets worker[r] to w, and nothing else of worker.
LEMMA RepliedTyped ==
  ASSUME worker \in [Repos -> Worker], faults \in Nat, NEW r \in Repos, NEW w \in Worker,
         NEW reply, Replied(r, reply, w)
  PROVE  /\ worker' \in [Repos -> Worker] /\ faults' \in Nat
         /\ worker'[r] = w \/ worker'[r].pc = "patch"
         /\ \A q \in Repos \ {r} : worker'[q] = worker[q]
<1>1. Failed(worker[r]) \in Worker /\ Failed(worker[r]).pc = "patch"
  BY FailedTyped
<1> QED  BY <1>1, GotoTyped DEF Replied, Fault

LEMMA NoteDoomedTyped ==
  ASSUME live' \in [Repos -> Object], doomed \subseteq RemoteIds, NoteDoomed
  PROVE  doomed' \subseteq RemoteIds /\ stored' = stored
BY DEF NoteDoomed, Doomed, Object

-------------------------------------------------------------------------------
(* Type correctness *)

LEMMA CreateRemoteTyped ==
  ASSUME TypeOK, NEW r \in Repos, NEW i \in RemoteIds, CreateRemote(r, i)
  PROVE  remote' \in [RemoteIds -> Remote]
BY InputAssumption DEF CreateRemote, TypeOK, Remote

LEMMA DestroyedTyped ==
  ASSUME TypeOK, NEW i, Destroyed(i)
  PROVE  remote' \in [RemoteIds -> Remote]
<1> DEFINE f(x) == [x EXCEPT !.state = "destroyed", !.keys = {}, !.used = FALSE]
<1>1. \A x \in Remote : f(x) \in Remote
  BY DEF Remote
<1>2. remote' = [remote EXCEPT ![i] = f(remote[i])]
  BY DEF Destroyed
<1> HIDE DEF f
<1> QED  BY <1>1, <1>2 DEF TypeOK

\* The pass knows its repository once it has resolved it.
TargetResolved ==
  \A r \in Repos : worker[r].pc \in {"claim", "secret", "init"} => worker[r].target \in RemoteIds

\* A credentials Secret that exists names a repository and a password.
SecretComplete ==
  \A r \in Repos : secret[r].exists => secret[r].id \in RemoteIds /\ secret[r].password \in Passwords

Typed == TypeOK /\ TargetResolved /\ SecretComplete

LEMMA TypedInit == Init => Typed
BY InputAssumption, NoneTyped
DEF Init, Typed, TypeOK, TargetResolved, SecretComplete, Idle, NoSecret, JobState

\* The steps that change worker only, and that of r only.
LEMMA TypedGoto ==
  ASSUME Typed, NEW r \in Repos, NEW w \in Worker, Goto(r, w),
         w.pc \in {"claim", "secret", "init"} => w.target \in RemoteIds,
         UNCHANGED <<apiVars, cacheVars, borgbase, bounds, history>>
  PROVE  Typed'
<1>1. /\ worker' \in [Repos -> Worker] /\ worker'[r] = w
      /\ \A q \in Repos \ {r} : worker'[q] = worker[q]
  BY GotoTyped DEF Typed, TypeOK
<1> QED  BY <1>1 DEF Typed, TypeOK, TargetResolved, SecretComplete, apiVars, cacheVars,
                     borgbase, bounds, history

LEMMA TypedFound ==
  ASSUME Typed, NEW r \in Repos, NEW i \in RemoteIds, Found(r, i),
         UNCHANGED <<apiVars, cacheVars, borgbase, bounds, history>>
  PROVE  Typed'
<1> DEFINE w == Resolved(worker[r], i, remote[i].used, Existing[r] # None)
<1>1. worker[r] \in Worker /\ remote[i].used \in BOOLEAN
  BY DEF Typed, TypeOK, Remote
<1>2. w \in Worker /\ w.target = i
  BY <1>1, ResolvedTyped
<1> QED  BY <1>2, TypedGoto DEF Found

\* The steps that end a pass with a change of live.
LEMMA TypedIdle ==
  ASSUME Typed, NEW r \in Repos, Goto(r, Idle), live' \in [Repos -> Object],
         doomed' \subseteq RemoteIds, stored' = stored,
         UNCHANGED <<secret, job, cache, jobCache, remote, late, creations, clock,
                     adminOps, faults>>
  PROVE  Typed'
<1>1. Idle \in Worker /\ Idle.pc = "idle"
  BY NoneTyped DEF Idle
<1>2. /\ worker' \in [Repos -> Worker] /\ worker'[r] = Idle
      /\ \A q \in Repos \ {r} : worker'[q] = worker[q]
  BY <1>1, GotoTyped DEF Typed, TypeOK
<1> QED  BY <1>1, <1>2 DEF Typed, TypeOK, TargetResolved, SecretComplete

\* The deletion, the creation and the result of an init Job.
LEMMA JobTyped ==
  ASSUME Typed, NEW r \in Repos
  PROVE  /\ DeleteJob(r) => job' \in [Repos -> Job]
         /\ \A u \in Nat : [state |-> "Running", owner |-> u, env |-> NoEnv] \in Job
         /\ \A s \in JobState : [job[r] EXCEPT !.state = s] \in Job
<1>1. job[r] \in Job
  BY DEF Typed, TypeOK
<1>2. DeleteJob(r) => job' \in [Repos -> Job]
  BY NoneTyped DEF DeleteJob, Typed, TypeOK
<1> QED  BY <1>1, <1>2 DEF Job, JobState

\* A call of the pass, whether its reply arrives or not.
LEMMA TypedCall ==
  ASSUME Typed, NEW r \in Repos, NEW reply,
         \/ \E i \in RemoteIds : Add(r, i, reply)
         \/ \E p \in Passwords : WriteSecret(r, p, reply)
         \/ CleanupInitJob(r, reply) \/ CreateInitJob(r, reply) \/ RetryInitJob(r, reply)
         \/ Destroy(r, reply)
  PROVE  Typed'
<1>0. /\ worker \in [Repos -> Worker] /\ worker[r] \in Worker /\ faults \in Nat
      /\ worker[r].pc \in {"claim", "secret", "init"} => worker[r].target \in RemoteIds
      /\ \A c \in Ready : Settle(worker[r], c) \in Worker /\ Settle(worker[r], c).pc = "patch"
  BY SettleTyped DEF Typed, TypeOK, TargetResolved
<1>1. ASSUME NEW i \in RemoteIds, Add(r, i, reply)
      PROVE  Typed'
  <2> DEFINE w == Resolved(worker[r], i, FALSE, FALSE)
  <2>1. w \in Worker /\ w.target = i
    BY <1>0, ResolvedTyped
  <2>2. /\ worker' \in [Repos -> Worker] /\ faults' \in Nat
        /\ worker'[r] = w \/ worker'[r].pc = "patch"
        /\ \A q \in Repos \ {r} : worker'[q] = worker[q]
    BY <1>0, <1>1, <2>1, RepliedTyped DEF Add
  <2>3. remote' \in [RemoteIds -> Remote]
    BY <1>1, CreateRemoteTyped DEF Add, Typed
  <2> HIDE DEF w
  <2> QED  BY <1>1, <2>1, <2>2, <2>3 DEF Add, Typed, TypeOK, TargetResolved, SecretComplete,
             apiVars, cacheVars, history
<1>2. ASSUME NEW p \in Passwords, WriteSecret(r, p, reply)
      PROVE  Typed'
  <2> DEFINE w == At(worker[r], "init")
             s == [exists |-> TRUE, id |-> worker[r].target, password |-> p,
                   owner |-> OwnerFor(worker[r].obj)]
  <2>1. w \in Worker /\ w.target = worker[r].target /\ worker[r].target \in RemoteIds
    BY <1>0, <1>2, AtTyped DEF WriteSecret, Pcs
  <2>2. /\ worker' \in [Repos -> Worker] /\ faults' \in Nat
        /\ worker'[r] = w \/ worker'[r].pc = "patch"
        /\ \A q \in Repos \ {r} : worker'[q] = worker[q]
    BY <1>0, <1>2, <2>1, RepliedTyped DEF WriteSecret
  <2>3. s \in Secret
    BY <1>0, <2>1 DEF OwnerFor, Secret, Worker, Object
  <2>4. secret' \in [Repos -> Secret] /\ secret'[r] = s
        /\ \A q \in Repos \ {r} : secret'[q] = secret[q]
    BY <1>2, <2>3 DEF WriteSecret, Typed, TypeOK
  <2>5. stored' \in [RemoteIds -> SUBSET Passwords]
    BY <1>2 DEF WriteSecret, Typed, TypeOK
  <2>6. s.id \in RemoteIds /\ s.password \in Passwords
    BY <2>1
  <2> HIDE DEF w, s
  <2> QED  BY <1>2, <2>1, <2>2, <2>4, <2>5, <2>6 DEF WriteSecret, Typed, TypeOK,
             TargetResolved, SecretComplete, cacheVars, borgbase
<1>3. CASE CleanupInitJob(r, reply) \/ CreateInitJob(r, reply) \/ RetryInitJob(r, reply)
  <2>1. PICK c \in Ready : Replied(r, reply, Settle(worker[r], c))
    BY <1>3 DEF CleanupInitJob, CreateInitJob, RetryInitJob, Ready
  <2>2. /\ worker' \in [Repos -> Worker] /\ faults' \in Nat
        /\ worker'[r].pc = "patch"
        /\ \A q \in Repos \ {r} : worker'[q] = worker[q]
    BY <1>0, <2>1, RepliedTyped
  <2>3. worker[r].obj.uid \in Nat
    BY <1>0 DEF Worker, Object
  <2>4. job' \in [Repos -> Job]
    BY <1>3, <2>3, JobTyped DEF CleanupInitJob, CreateInitJob, RetryInitJob, Typed, TypeOK
  <2> QED  BY <1>3, <2>2, <2>4 DEF CleanupInitJob, CreateInitJob, RetryInitJob, Typed, TypeOK,
             TargetResolved, SecretComplete, cacheVars, borgbase, history
<1>4. CASE Destroy(r, reply)
  <2>1. remote' \in [RemoteIds -> Remote]
    BY <1>4, DestroyedTyped DEF Destroy, Typed, TypeOK
  <2>2. At(worker[r], "release") \in Worker /\ At(worker[r], "release").pc = "release"
    BY <1>0, AtTyped DEF Pcs
  <2>3. Idle \in Worker /\ Idle.pc = "idle"
    BY NoneTyped DEF Idle
  <2>4. PICK w \in Worker : w.pc \in {"release", "idle"} /\ Goto(r, w)
    BY <1>4, <2>2, <2>3 DEF Destroy
  <2>5. /\ worker' \in [Repos -> Worker] /\ worker'[r] = w
        /\ \A q \in Repos \ {r} : worker'[q] = worker[q]
    BY <1>0, <2>4, GotoTyped
  <2>6. faults' \in Nat
    BY <1>0, <1>4 DEF Destroy, Fault
  <2> QED  BY <1>4, <2>1, <2>4, <2>5, <2>6 DEF Destroy, Typed, TypeOK, TargetResolved,
             SecretComplete, apiVars, cacheVars, history
<1> QED  BY <1>1, <1>2, <1>3, <1>4

LEMMA TypedPass ==
  ASSUME Typed, NEW r \in Repos, PassStep(r)
  PROVE  Typed'
<1>0. worker[r] \in Worker /\ live[r] \in Object /\ cache[r] \in Object
  BY DEF Typed, TypeOK
<1>1. CASE StartPass(r)
  <2> DEFINE w == [Idle EXCEPT !.obj = cache[r], !.base = cache[r]]
  <2>1. w \in Worker /\ w.pc = "idle"
    BY <1>0, NoneTyped DEF Worker, Idle
  <2>2. \A pc \in Pcs : At(w, pc) \in Worker /\ At(w, pc).pc = pc
    BY <2>1, AtTyped
  <2>3. EnterPass(cache[r]) \in Worker /\ EnterPass(cache[r]).pc \in {"resolve", "patch"}
    BY <1>0, EnterPassTyped
  <2>4. PICK x \in Worker : x.pc \notin {"claim", "secret", "init"} /\ Goto(r, x)
    <3> HIDE DEF w
    <3> QED  BY <1>1, <2>2, <2>3 DEF StartPass, Pcs, w
  <2> QED  BY <1>1, <2>4, TypedGoto DEF StartPass
<1>2. CASE AddFinalizer(r)
  <2>1. [live[r] EXCEPT !.finalizer = TRUE] \in Object
    BY <1>0 DEF Object
  <2>2. live' \in [Repos -> Object]
    BY <1>2, <2>1 DEF AddFinalizer, Typed, TypeOK
  <2>3. EnterPass(live'[r]) \in Worker /\ EnterPass(live'[r]).pc \in {"resolve", "patch"}
    BY <2>2, EnterPassTyped
  <2>4. Idle \in Worker /\ Idle.pc = "idle"
    BY NoneTyped DEF Idle
  <2>5. PICK x \in Worker : x.pc \notin {"claim", "secret", "init"} /\ Goto(r, x)
    BY <1>2, <2>3, <2>4 DEF AddFinalizer
  <2>6. /\ worker' \in [Repos -> Worker] /\ worker'[r] = x
        /\ \A q \in Repos \ {r} : worker'[q] = worker[q]
    BY <2>5, GotoTyped DEF Typed, TypeOK
  <2> QED  BY <1>2, <2>2, <2>5, <2>6 DEF AddFinalizer, Typed, TypeOK, TargetResolved,
             SecretComplete, cacheVars, borgbase, bounds, history
<1>3. CASE ResolveExisting(r)
  <2>1. Failed(worker[r]) \in Worker /\ Failed(worker[r]).pc = "patch"
    BY <1>0, FailedTyped
  <2>2. CASE Goto(r, Failed(worker[r]))
    BY <1>3, <2>1, <2>2, TypedGoto DEF ResolveExisting
  <2>3. CASE Found(r, Existing[r])
    <3>1. Existing[r] \in RemoteIds
      BY <1>3, InputAssumption DEF ResolveExisting
    <3> QED  BY <1>3, <2>3, <3>1, TypedFound DEF ResolveExisting
  <2> QED  BY <1>3, <2>2, <2>3 DEF ResolveExisting
<1>4. CASE ResolveRecorded(r)
  <2>1. Failed(worker[r]) \in Worker /\ Failed(worker[r]).pc = "patch"
    BY <1>0, FailedTyped
  <2>2. CASE Goto(r, Failed(worker[r]))
    BY <1>4, <2>1, <2>2, TypedGoto DEF ResolveRecorded
  <2>3. CASE Found(r, worker[r].obj.id)
    <3>1. worker[r].obj.id \in RemoteIds
      BY <1>0, <1>4 DEF ResolveRecorded, Worker, Object
    <3> QED  BY <1>4, <2>3, <3>1, TypedFound DEF ResolveRecorded
  <2> QED  BY <1>4, <2>2, <2>3 DEF ResolveRecorded
<1>5. CASE ResolveByName(r)
  <2>1. Failed(worker[r]) \in Worker /\ Failed(worker[r]).pc = "patch"
    BY <1>0, FailedTyped
  <2>2. At(worker[r], "add") \in Worker /\ At(worker[r], "add").pc = "add"
    BY <1>0, AtTyped DEF Pcs
  <2>3. UNCHANGED <<apiVars, cacheVars, borgbase, bounds, history>>
    BY <1>5 DEF ResolveByName
  <2>4. CASE Goto(r, Failed(worker[r])) \/ Goto(r, At(worker[r], "add"))
    BY <2>1, <2>2, <2>3, <2>4, TypedGoto
  <2>5. CASE \E i \in RemoteIds : Found(r, i)
    BY <2>3, <2>5, TypedFound
  <2> QED  BY <1>5, <2>4, <2>5 DEF ResolveByName, Named
<1>6. CASE \E i \in RemoteIds : Add(r, i, "ok")
  BY <1>6, TypedCall
<1>7. CASE Claim(r)
  <2>1. UNCHANGED <<apiVars, cacheVars, borgbase, bounds, history>>
    BY <1>7 DEF Claim
  <2>2. Failed(worker[r]) \in Worker /\ Failed(worker[r]).pc = "patch"
    BY <1>0, FailedTyped
  <2>3. LET s == Settle(worker[r], "RepositoryConflict") IN s \in Worker /\ s.pc = "patch"
    BY <1>0, SettleTyped DEF Ready
  <2>4. /\ Recorded(worker[r]) \in Worker /\ Recorded(worker[r]).pc = "secret"
        /\ Recorded(worker[r]).target \in RemoteIds
    BY <1>0, <1>7, RecordedTyped DEF Claim, Typed, TargetResolved
  <2> QED  BY <1>7, <2>1, <2>2, <2>3, <2>4, TypedGoto DEF Claim
<1>8. CASE \E p \in Passwords : WriteSecret(r, p, "ok")
  BY <1>8, TypedCall
<1>9. CASE RefuseSecret(r)
  BY <1>0, <1>9, FailedTyped, TypedGoto DEF RefuseSecret
<1>10. CASE CleanupInitJob(r, "ok") \/ CreateInitJob(r, "ok") \/ RetryInitJob(r, "ok")
  BY <1>10, TypedCall
<1>11. CASE AwaitInitJob(r)
  BY <1>0, <1>11, SettleTyped, TypedGoto DEF AwaitInitJob, Ready
<1>12. CASE RecordInitialized(r)
  BY <1>0, <1>12, InitializedTyped, TypedGoto DEF RecordInitialized
<1>13. CASE PatchStatus(r)
  <2>1. Merged(live[r], worker[r].base, worker[r].obj) \in Object
    BY <1>0, MergedTyped DEF Worker
  <2>2. live' \in [Repos -> Object]
    BY <1>13, <2>1 DEF PatchStatus, Typed, TypeOK
  <2>3. doomed' \subseteq RemoteIds /\ stored' = stored
    BY <1>13, <2>2, NoteDoomedTyped DEF PatchStatus, Typed, TypeOK
  <2> QED  BY <1>13, <2>2, <2>3, TypedIdle DEF PatchStatus, cacheVars, borgbase, bounds
<1>14. CASE Destroy(r, "ok")
  BY <1>14, TypedCall
<1>15. CASE Release(r)
  <2>1. [live[r] EXCEPT !.finalizer = FALSE] \in Object
    BY <1>0 DEF Object
  <2>2. live' \in [Repos -> Object]
    BY <1>15, <2>1, NoneTyped DEF Release, Typed, TypeOK
  <2> QED  BY <1>15, <2>2, TypedIdle DEF Release, cacheVars, borgbase, bounds, history, Typed, TypeOK
<1> QED
  BY <1>1, <1>2, <1>3, <1>4, <1>5, <1>6, <1>7, <1>8, <1>9, <1>10, <1>11, <1>12, <1>13,
     <1>14, <1>15 DEF PassStep

LEMMA TypedFailure ==
  ASSUME Typed, NEW r \in Repos, Failure(r)
  PROVE  Typed'
<1>0. /\ worker \in [Repos -> Worker] /\ worker[r] \in Worker
      /\ Failed(worker[r]) \in Worker /\ Failed(worker[r]).pc = "patch"
  BY FailedTyped DEF Typed, TypeOK
<1>1. LET s == Settle(worker[r], "APITokenUnavailable") IN s \in Worker /\ s.pc = "patch"
  BY <1>0, SettleTyped DEF Ready
<1>2. Idle \in Worker /\ Idle.pc = "idle"
  BY NoneTyped DEF Idle
<1>3. PICK w \in Worker : w.pc \in {"patch", "idle"} /\ Goto(r, w)
  BY <1>0, <1>1, <1>2 DEF Failure, AbandonAdd, CallFails, PassFails, TokenUnavailable
<1>4. /\ worker' \in [Repos -> Worker] /\ worker'[r] = w
      /\ \A q \in Repos \ {r} : worker'[q] = worker[q]
  BY <1>0, <1>3, GotoTyped
<1>5. faults' \in Nat /\ late' \subseteq Repos
      /\ UNCHANGED <<apiVars, cacheVars, remote, creations, clock, adminOps, history>>
  BY DEF Failure, AbandonAdd, CallFails, PassFails, TokenUnavailable, Fault, Typed, TypeOK,
         borgbase
<1> QED  BY <1>3, <1>4, <1>5 DEF Typed, TypeOK, TargetResolved, SecretComplete, apiVars,
           cacheVars, history

\* The steps of the cluster and of administrators leave worker alone.
LEMMA TypedCluster ==
  ASSUME Typed, NEW r \in Repos, Cluster(r)
  PROVE  Typed'
<1>0. /\ job \in [Repos -> Job] /\ job[r] \in Job /\ remote \in [RemoteIds -> Remote]
      /\ \A s \in JobState : [job[r] EXCEPT !.state = s] \in Job
  BY JobTyped DEF Typed, TypeOK
<1>1. CASE StartPod(r)
  <2> DEFINE e == [id |-> secret[r].id, password |-> secret[r].password]
  <2>1. e \in Env
    BY <1>1 DEF StartPod, Typed, SecretComplete, Env
  <2>2. [job[r] EXCEPT !.env = e] \in Job
    BY <1>0, <2>1 DEF Job
  <2>3. job' \in [Repos -> Job]
    BY <1>0, <1>1, <2>2 DEF StartPod
  <2> QED  BY <1>1, <2>3 DEF StartPod, Typed, TypeOK, TargetResolved, SecretComplete,
             cacheVars, borgbase, bounds, history
<1>2. CASE RunInit(r) \/ InitJobFails(r)
  <2> DEFINE i == job[r].env.id  p == job[r].env.password
  <2>1. p \in Passwords
    BY <1>0, <1>2 DEF RunInit, InitJobFails, Job, Env
  <2>2. [remote[i] EXCEPT !.keys = {p}] \in Remote \/ i \notin RemoteIds
    BY <1>0, <2>1 DEF Remote
  <2>3. remote' \in [RemoteIds -> Remote]
    BY <1>0, <1>2, <2>2 DEF RunInit, InitJobFails
  <2>4. job' \in [Repos -> Job]
    BY <1>0, <1>2 DEF RunInit, InitJobFails, JobState
  <2>5. faults' \in Nat
    BY <1>2 DEF RunInit, InitJobFails, Fault, bounds, Typed, TypeOK
  <2> QED  BY <1>2, <2>3, <2>4, <2>5 DEF RunInit, InitJobFails, Typed, TypeOK,
             TargetResolved, SecretComplete, cacheVars, borgbase, bounds, history
<1>3. CASE ExpireJob(r)
  <2>1. faults' \in Nat
    BY <1>3 DEF ExpireJob, Fault, Typed, TypeOK
  <2>2. job' \in [Repos -> Job]
    BY <1>3, JobTyped DEF ExpireJob
  <2> QED  BY <1>3, <2>1, <2>2 DEF ExpireJob, Typed, TypeOK, TargetResolved,
             SecretComplete, cacheVars, borgbase, history
<1>4. CASE CollectSecret(r)
  <2>1. secret' \in [Repos -> Secret] /\ secret'[r] = NoSecret
        /\ \A q \in Repos \ {r} : secret'[q] = secret[q]
    BY <1>4, NoneTyped DEF CollectSecret, Typed, TypeOK
  <2> QED  BY <1>4, <2>1 DEF CollectSecret, NoSecret, Typed, TypeOK, TargetResolved,
             SecretComplete, cacheVars, borgbase, bounds, history
<1>5. CASE CollectJob(r)
  BY <1>5, JobTyped DEF CollectJob, Typed, TypeOK, TargetResolved, SecretComplete,
     cacheVars, borgbase, bounds, history
<1>6. CASE Backup(r)
  <2>1. \A x \in Remote : [x EXCEPT !.used = TRUE] \in Remote
    BY DEF Remote
  <2>2. remote' \in [RemoteIds -> Remote]
    BY <1>0, <1>6, <2>1 DEF Backup
  <2> QED  BY <1>6, <2>2 DEF Backup, Typed, TypeOK, TargetResolved, SecretComplete,
             apiVars, cacheVars, bounds, history
<1>7. CASE \E i \in RemoteIds : LateAdd(r, i)
  <2>1. remote' \in [RemoteIds -> Remote]
    BY <1>7, CreateRemoteTyped DEF LateAdd, Typed
  <2> QED  BY <1>7, <2>1 DEF LateAdd, Typed, TypeOK, TargetResolved, SecretComplete,
             apiVars, cacheVars, bounds, history
<1> QED  BY <1>1, <1>2, <1>3, <1>4, <1>5, <1>6, <1>7 DEF Cluster

LEMMA TypedAdministrator ==
  ASSUME Typed, NEW r \in Repos, Administrator(r)
  PROVE  Typed'
<1>0. live[r] \in Object /\ live \in [Repos -> Object] /\ doomed \subseteq RemoteIds
  BY DEF Typed, TypeOK
<1>1. /\ \A b \in BOOLEAN : [live[r] EXCEPT !.deleting = b] \in Object
      /\ \A b \in BOOLEAN : [live[r] EXCEPT !.suspend = b] \in Object
      /\ \A p \in Policy : [live[r] EXCEPT !.policy = p] \in Object
  BY <1>0 DEF Object
<1>2. CASE \E policy \in Policies, second \in 0..MaxCreations : CreateRepository(r, policy, second)
  <2>1. PICK policy \in Policy, second \in 0..MaxCreations : CreateRepository(r, policy, second)
    BY <1>2, InputAssumption
  <2>2. second \in Nat /\ creations + 1 \in Nat
    BY <2>1 DEF CreateRepository, Typed, TypeOK
  <2>3. Created(creations + 1, second, policy) \in Object
    BY <2>2, CreatedTyped
  <2>4. live' \in [Repos -> Object]
    BY <1>0, <2>1, <2>3 DEF CreateRepository
  <2> QED  BY <2>1, <2>2, <2>4 DEF CreateRepository, Typed, TypeOK, TargetResolved,
             SecretComplete, cacheVars, borgbase, history
<1>3. CASE DeleteRepository(r) \/ \E policy \in Policy : SetPolicy(r, policy)
  <2>1. live' \in [Repos -> Object]
    BY <1>0, <1>1, <1>3, NoneTyped DEF DeleteRepository, SetPolicy
  <2>2. doomed' \subseteq RemoteIds /\ stored' = stored
    BY <1>0, <1>3, <2>1, NoteDoomedTyped DEF DeleteRepository, SetPolicy
  <2> QED  BY <1>3, <2>1, <2>2 DEF DeleteRepository, SetPolicy, Admin, Typed, TypeOK,
             TargetResolved, SecretComplete, cacheVars, borgbase
<1>4. CASE ToggleSuspend(r)
  <2>1. live' \in [Repos -> Object]
    BY <1>0, <1>1, <1>4 DEF ToggleSuspend, Object
  <2> QED  BY <1>4, <2>1 DEF ToggleSuspend, Admin, Typed, TypeOK, TargetResolved,
             SecretComplete, cacheVars, borgbase, history
<1>5. CASE LoseSecret(r)
  <2>1. secret' \in [Repos -> Secret] /\ secret'[r] = NoSecret
        /\ \A q \in Repos \ {r} : secret'[q] = secret[q]
    BY <1>5, NoneTyped DEF LoseSecret, Typed, TypeOK
  <2> QED  BY <1>5, <2>1 DEF LoseSecret, Admin, NoSecret, Typed, TypeOK, TargetResolved,
             SecretComplete, cacheVars, borgbase, history
<1>6. CASE RemoveRemote(r)
  <2> DEFINE f(x) == [x EXCEPT !.state = "removed", !.keys = {}, !.used = FALSE]
  <2>1. \A x \in Remote : f(x) \in Remote
    BY DEF Remote
  <2>2. remote' = [remote EXCEPT ![live[r].id] = f(remote[live[r].id])]
    BY <1>6 DEF RemoveRemote
  <2>3. remote' \in [RemoteIds -> Remote]
    <3> HIDE DEF f
    <3> QED  BY <2>1, <2>2 DEF Typed, TypeOK
  <2> QED  BY <1>6, <2>3 DEF RemoveRemote, Admin, Typed, TypeOK, TargetResolved,
             SecretComplete, apiVars, cacheVars, history
<1> QED  BY <1>2, <1>3, <1>4, <1>5, <1>6 DEF Administrator

LEMMA TypedNext == Typed /\ [Next]_vars => Typed'
<1> SUFFICES ASSUME Typed, [Next]_vars PROVE Typed'
  OBVIOUS
<1>1. ASSUME NEW r \in Repos, PassStep(r) \/ ReplyLost(r) \/ Failure(r) \/ Cluster(r)
                              \/ Administrator(r)
      PROVE  Typed'
  BY <1>1, TypedPass, TypedCall, TypedFailure, TypedCluster, TypedAdministrator DEF ReplyLost
<1>2. CASE SyncRepositories
  BY <1>2 DEF SyncRepositories, Typed, TypeOK, TargetResolved, SecretComplete, apiVars,
     borgbase, bounds, history
<1>3. CASE SyncJobs
  <2>1. JobStates \in [Repos -> JobState]
    BY DEF JobStates, Typed, TypeOK, Job
  <2> QED  BY <1>3, <2>1 DEF SyncJobs, Typed, TypeOK, TargetResolved, SecretComplete, apiVars,
             borgbase, bounds, history
<1>4. CASE Crash
  <2>1. [r \in Repos |-> job[r].state] \in [Repos -> JobState]
    BY DEF Typed, TypeOK, Job
  <2>2. [r \in Repos |-> Idle] \in [Repos -> Worker] /\ Idle.pc = "idle"
    BY NoneTyped DEF Idle
  <2> QED  BY <1>4, <2>1, <2>2 DEF Crash, Fault, Typed, TypeOK, TargetResolved,
             SecretComplete, apiVars, borgbase, history
<1>5. CASE UNCHANGED vars
  BY <1>5 DEF Typed, TypeOK, TargetResolved, SecretComplete, vars, apiVars, cacheVars,
     borgbase, bounds, history
<1> QED  BY <1>1, <1>2, <1>3, <1>4, <1>5 DEF Next

LEMMA AlwaysTyped == Spec => []Typed
BY TypedInit, TypedNext, PTL DEF Spec

\* Every state the controller and the cluster around it reach is well typed:
\* in particular a pod never starts with an incomplete Secret, and no pass reaches
\* reconcileSecret without a repository.
THEOREM TypeCorrect == Spec => []TypeOK
<1>1. Typed => TypeOK
  BY DEF Typed
<1> QED  BY <1>1, AlwaysTyped, PTL

-------------------------------------------------------------------------------
(* What a step may do to a pass: the one place where the steps are opened, for *)
(* the invariants that relate the pass, the objects and BorgBase.              *)

\* The part of an object that no step of a pass changes in its working copy,
\* with and without the recorded ID.
SameIncarnation(o, p) ==
  o.exists = p.exists /\ o.uid = p.uid /\ o.born = p.born
SameObject(o, p) == SameIncarnation(o, p) /\ o.id = p.id

Continues(r, n) ==
  LET w == worker[r] IN
  /\ SameObject(n.obj, w.obj)
  /\ n.pc \in {"add", "claim", "init", "patch", "release"}
  /\ n.pc = "add" => w.pc = "resolve" /\ Existing[r] = None
  /\ n.pc = "claim" => \/ w.pc = "add"
                       \/ w.pc = "resolve" /\ Existing[r] \in {None, n.target}
  /\ n.pc = "init" => w.pc = "secret" /\ n.target = w.target

Claims(r, n) ==
  /\ worker[r].pc = "claim" /\ ConflictWith(r, worker[r].target) = {}
  /\ SameIncarnation(n.obj, worker[r].obj) /\ n.obj.id = worker[r].target
  /\ n.pc = "secret" /\ n.target = worker[r].target

Starts(r, n) ==
  /\ SameObject(n.obj, cache[r])
  /\ n.pc \in {"finalizer", "resolve", "patch", "destroy", "release"}
  /\ n.pc = "destroy" => cache[r].deleting /\ DestroysRemote(cache[r])

Rereads(r, n) == SameObject(n.obj, live'[r]) /\ n.pc \in {"resolve", "patch"}

PassFrame(r) ==
  LET n == worker'[r] IN
  n = worker[r] \/ n = Idle \/ Continues(r, n) \/ Claims(r, n) \/ Starts(r, n) \/ Rereads(r, n)

LEMMA AtKeeps ==
  ASSUME NEW w \in Worker, NEW pc
  PROVE  SameObject(At(w, pc).obj, w.obj) /\ At(w, pc).pc = pc /\ At(w, pc).target = w.target
BY DEF At, SameObject, SameIncarnation, Worker

LEMMA SettleKeeps ==
  ASSUME NEW w \in Worker, NEW c
  PROVE  SameObject(Settle(w, c).obj, w.obj) /\ Settle(w, c).pc = "patch"
BY DEF Settle, SameObject, SameIncarnation, Worker, Object

LEMMA FailedKeeps ==
  ASSUME NEW w \in Worker
  PROVE  SameObject(Failed(w).obj, w.obj) /\ Failed(w).pc = "patch"
BY SettleKeeps DEF Failed

LEMMA ResolvedKeeps ==
  ASSUME NEW w \in Worker, NEW i, NEW u, NEW a
  PROVE  LET n == Resolved(w, i, u, a)
         IN  SameObject(n.obj, w.obj) /\ n.pc = "claim" /\ n.target = i
BY DEF Resolved, SameObject, SameIncarnation, Worker, Object

LEMMA RecordedKeeps ==
  ASSUME NEW w \in Worker
  PROVE  LET n == Recorded(w)
         IN  /\ SameIncarnation(n.obj, w.obj) /\ n.obj.id = w.target
             /\ n.pc = "secret" /\ n.target = w.target
BY DEF Recorded, SameIncarnation, Worker, Object

LEMMA InitializedKeeps ==
  ASSUME NEW w \in Worker
  PROVE  SameObject(Initialized(w).obj, w.obj) /\ Initialized(w).pc = "patch"
<1>1. Settle(w, "Ready") \in Worker
  BY SettleTyped DEF Ready
<1>2. SameObject(Settle(w, "Ready").obj, w.obj) /\ Settle(w, "Ready").pc = "patch"
  BY SettleKeeps
<1> QED  BY <1>1, <1>2 DEF Initialized, SameObject, SameIncarnation, Worker, Object

LEMMA EnterPassKeeps ==
  ASSUME NEW o \in Object
  PROVE  SameObject(EnterPass(o).obj, o) /\ EnterPass(o).pc \in {"resolve", "patch"}
<1> DEFINE w == [pc |-> "resolve", obj |-> o, base |-> o, target |-> None,
                 known |-> o.id # None \/ o.initialized, used |-> FALSE]
<1>1. w \in Worker /\ w.pc = "resolve" /\ SameObject(w.obj, o)
  BY DEF Worker, Object, Pcs, SameObject, SameIncarnation
<1>2. SameObject(Settle(w, "Suspended").obj, w.obj) /\ Settle(w, "Suspended").pc = "patch"
  BY <1>1, SettleKeeps
<1> QED  BY <1>1, <1>2 DEF EnterPass, SameObject, SameIncarnation

\* Every step changes the passes of at most one Repository, as PassFrame says.
LEMMA PassFrames ==
  ASSUME Typed, [Next]_vars, NEW q \in Repos
  PROVE  PassFrame(q)
<1>0. \A r \in Repos : worker[r] \in Worker /\ cache[r] \in Object /\ live'[r] \in Object
  BY TypedNext DEF Typed, TypeOK
<1>1. ASSUME NEW r \in Repos, NEW w, Goto(r, w), PassFrame(r)
      PROVE  PassFrame(q)
  BY <1>1 DEF Goto, PassFrame, Typed, TypeOK
<1>2. ASSUME NEW r \in Repos, NEW w, Goto(r, w)
      PROVE  worker'[r] = w
  BY <1>2 DEF Goto, Typed, TypeOK
<1>3. ASSUME NEW r \in Repos, NEW w, Goto(r, w),
             w = Idle \/ Continues(r, w) \/ Claims(r, w) \/ Starts(r, w) \/ Rereads(r, w)
      PROVE  PassFrame(q)
  BY <1>1, <1>2, <1>3 DEF PassFrame
<1>4. ASSUME NEW r \in Repos, PassStep(r) \/ ReplyLost(r)
      PROVE  PassFrame(q)
  <2> DEFINE w == worker[r]
  <2>0. Continues(r, Failed(w)) /\ \A c : Continues(r, Settle(w, c))
    BY <1>0, FailedKeeps, SettleKeeps DEF Continues
  <2>1. CASE StartPass(r)
    <3> DEFINE v == [Idle EXCEPT !.obj = cache[r], !.base = cache[r]]
    <3>1. v \in Worker /\ v.obj = cache[r]
      BY <1>0, NoneTyped DEF Worker
    <3>2. \A pc : SameObject(At(v, pc).obj, cache[r]) /\ At(v, pc).pc = pc
      BY <3>1, AtKeeps
    <3>3. SameObject(EnterPass(cache[r]).obj, cache[r])
          /\ EnterPass(cache[r]).pc \in {"resolve", "patch"}
      BY <1>0, EnterPassKeeps
    <3>4. PICK n : Goto(r, n) /\ Starts(r, n)
      <4> HIDE DEF v
      <4> QED  BY <2>1, <3>2, <3>3 DEF StartPass, Starts, v
    <3> QED  BY <1>3, <3>4
  <2>2. CASE AddFinalizer(r)
    <3>1. Rereads(r, EnterPass(live'[r]))
      BY <1>0, EnterPassKeeps DEF Rereads
    <3> QED  BY <1>3, <2>2, <3>1 DEF AddFinalizer
  <2>3. CASE ResolveExisting(r) \/ ResolveRecorded(r) \/ ResolveByName(r)
    <3>1. ASSUME NEW i, Found(r, i), Existing[r] \in {None, i}, w.pc = "resolve"
          PROVE  \E n : Goto(r, n) /\ Continues(r, n)
      BY <1>0, <3>1, ResolvedKeeps DEF Found, Continues
    <3>2. w.pc = "resolve" /\ Existing[r] = None => Continues(r, At(w, "add"))
      BY <1>0, AtKeeps DEF Continues
    <3>3. PICK n : Goto(r, n) /\ Continues(r, n)
      BY <2>0, <2>3, <3>1, <3>2 DEF ResolveExisting, ResolveRecorded, ResolveByName
    <3> QED  BY <1>3, <3>3
  <2>4. CASE \E i \in RemoteIds, reply \in Replies : Add(r, i, reply)
    <3>1. ASSUME NEW i, NEW u, u = FALSE, w.pc = "add"
          PROVE  Continues(r, Resolved(w, i, u, u))
      BY <1>0, <3>1, ResolvedKeeps DEF Continues
    <3>2. PICK n : Goto(r, n) /\ Continues(r, n)
      BY <2>0, <2>4, <3>1 DEF Add, Replied
    <3> QED  BY <1>3, <3>2
  <2>5. CASE Claim(r)
    <3>1. w.pc = "claim" /\ ConflictWith(r, w.target) = {} => Claims(r, Recorded(w))
      BY <1>0, RecordedKeeps DEF Claims
    <3>2. PICK n : Goto(r, n) /\ (Continues(r, n) \/ Claims(r, n))
      BY <2>0, <2>5, <3>1 DEF Claim
    <3> QED  BY <1>3, <3>2
  <2>6. CASE \E p \in Passwords, reply \in Replies : WriteSecret(r, p, reply)
    <3>1. w.pc = "secret" => Continues(r, At(w, "init"))
      BY <1>0, AtKeeps DEF Continues
    <3>2. PICK n : Goto(r, n) /\ Continues(r, n)
      BY <2>0, <2>6, <3>1 DEF WriteSecret, Replied
    <3> QED  BY <1>3, <3>2
  <2>7. CASE RefuseSecret(r) \/ AwaitInitJob(r)
    BY <1>3, <2>0, <2>7 DEF RefuseSecret, AwaitInitJob
  <2>8. CASE \E reply \in Replies : CleanupInitJob(r, reply) \/ CreateInitJob(r, reply)
                                    \/ RetryInitJob(r, reply)
    <3>1. PICK n : Goto(r, n) /\ Continues(r, n)
      BY <2>0, <2>8 DEF CleanupInitJob, CreateInitJob, RetryInitJob, Replied
    <3> QED  BY <1>3, <3>1
  <2>9. CASE RecordInitialized(r)
    <3>1. Continues(r, Initialized(w))
      BY <1>0, InitializedKeeps DEF Continues
    <3> QED  BY <1>3, <2>9, <3>1 DEF RecordInitialized
  <2>10. CASE PatchStatus(r) \/ Release(r)
    BY <1>3, <2>10 DEF PatchStatus, Release
  <2>11. CASE \E reply \in Replies : Destroy(r, reply)
    <3>1. Continues(r, At(w, "release"))
      BY <1>0, AtKeeps DEF Continues
    <3>2. PICK n : Goto(r, n) /\ (n = Idle \/ Continues(r, n))
      BY <2>11, <3>1 DEF Destroy
    <3> QED  BY <1>3, <3>2
  <2> QED  BY <1>4, <2>1, <2>2, <2>3, <2>4, <2>5, <2>6, <2>7, <2>8, <2>9, <2>10, <2>11
           DEF PassStep, ReplyLost, Replies
<1>5. ASSUME NEW r \in Repos, Failure(r)
      PROVE  PassFrame(q)
  <2>1. PICK w : Goto(r, w) /\ (w = Idle \/ w = Failed(worker[r])
                                \/ w = Settle(worker[r], "APITokenUnavailable"))
    BY <1>5 DEF Failure, AbandonAdd, CallFails, PassFails, TokenUnavailable
  <2>2. w = Idle \/ Continues(r, w)
    BY <1>0, <2>1, FailedKeeps, SettleKeeps DEF Continues
  <2> QED  BY <1>3, <2>1, <2>2
<1>6. ASSUME NEW r \in Repos, Cluster(r) \/ Administrator(r)
      PROVE  worker' = worker
  BY <1>6 DEF Cluster, StartPod, RunInit, InitJobFails, ExpireJob, CollectSecret, CollectJob,
     Backup, LateAdd, Administrator, CreateRepository, DeleteRepository, SetPolicy,
     ToggleSuspend, LoseSecret, RemoveRemote, bounds
<1>7. CASE SyncRepositories \/ SyncJobs \/ UNCHANGED vars
  BY <1>7 DEF SyncRepositories, SyncJobs, vars, PassFrame
<1>8. CASE Crash
  BY <1>8 DEF Crash, PassFrame
<1> QED  BY <1>4, <1>5, <1>6, <1>7, <1>8 DEF Next, PassFrame

-------------------------------------------------------------------------------
(* What a step may do to the objects, to the cache and to BorgBase *)

\* An object keeps its incarnation until it goes, is never undeleted, and takes
\* an ID only from the pass of its own Repository.
Updates(q, n) ==
  /\ SameIncarnation(n, live[q])
  /\ live[q].deleting => n.deleting
  /\ n.id \in {live[q].id, worker[q].obj.id}

LiveFrame(q) ==
  \/ live'[q] = NoObject
  \/ Updates(q, live'[q])
  \/ /\ ~live[q].exists
     /\ creations' = creations + 1
     /\ \E policy \in Policy : live'[q] = Created(creations', clock', policy)

LEMMA MergedFacts ==
  ASSUME NEW o \in Object, NEW b \in Object, NEW n \in Object
  PROVE  LET m == Merged(o, b, n)
         IN  SameIncarnation(m, o) /\ m.deleting = o.deleting /\ m.id \in {o.id, n.id}
BY DEF Merged, Object, SameIncarnation

LEMMA CreatedFacts ==
  ASSUME NEW uid, NEW born, NEW policy
  PROVE  LET o == Created(uid, born, policy)
         IN  /\ o.exists /\ o.uid = uid /\ o.born = born /\ o.id = None /\ ~o.deleting
             /\ o.policy = policy
BY DEF Created, NoObject

\* The actions that change live, each at one Repository.
ChangesLive(r) ==
  \/ AddFinalizer(r) \/ PatchStatus(r) \/ Release(r)
  \/ \E policy \in Policies, second \in 0..MaxCreations : CreateRepository(r, policy, second)
  \/ DeleteRepository(r) \/ ToggleSuspend(r) \/ \E policy \in Policy : SetPolicy(r, policy)

LEMMA LiveChanges ==
  ASSUME [Next]_vars
  PROVE  \/ \E r \in Repos : ChangesLive(r)
         \/ live' = live /\ doomed' = doomed /\ creations' = creations /\ clock' = clock
<1>1. ASSUME NEW r \in Repos, PassStep(r) \/ ReplyLost(r) \/ Failure(r) \/ Cluster(r)
                              \/ Administrator(r)
      PROVE  \/ ChangesLive(r)
             \/ live' = live /\ doomed' = doomed /\ creations' = creations /\ clock' = clock
  BY <1>1 DEF ChangesLive, PassStep, ReplyLost, Failure, Cluster, Administrator, StartPass,
     ResolveExisting, ResolveRecorded, ResolveByName, Add, Claim, WriteSecret, RefuseSecret,
     CleanupInitJob, CreateInitJob, AwaitInitJob, RetryInitJob, RecordInitialized, Destroy,
     AbandonAdd, CallFails, PassFails, TokenUnavailable, StartPod, RunInit, InitJobFails,
     ExpireJob, CollectSecret, CollectJob, Backup, LateAdd, LoseSecret, RemoveRemote,
     apiVars, bounds, history
<1>2. CASE SyncRepositories \/ SyncJobs \/ Crash \/ UNCHANGED vars
  BY <1>2 DEF SyncRepositories, SyncJobs, Crash, vars, apiVars, bounds, history
<1> QED  BY <1>1, <1>2 DEF Next

LEMMA LiveFrames ==
  ASSUME Typed, [Next]_vars, NEW q \in Repos
  PROVE  LiveFrame(q)
<1>0. /\ live \in [Repos -> Object]
      /\ \A r \in Repos : worker[r] \in Worker /\ live[r] \in Object
  BY DEF Typed, TypeOK
<1>1. CASE live' = live
  BY <1>1 DEF LiveFrame, Updates, SameIncarnation
<1>2. ASSUME NEW r \in Repos, ChangesLive(r)
      PROVE  LiveFrame(q)
  <2>1. CASE r # q
    <3>1. live'[q] = live[q]
      BY <1>0, <1>2, <2>1 DEF ChangesLive, AddFinalizer, PatchStatus, Release,
         CreateRepository, DeleteRepository, ToggleSuspend, SetPolicy
    <3> QED  BY <3>1 DEF LiveFrame, Updates, SameIncarnation
  <2>2. CASE AddFinalizer(r) \/ Release(r) \/ DeleteRepository(r) \/ ToggleSuspend(r)
             \/ \E policy \in Policy : SetPolicy(r, policy)
    <3>1. \/ live'[r] = NoObject \/ live'[r] = live[r]
          \/ \E b : live'[r] = [live[r] EXCEPT !.finalizer = b]
          \/ \E b : live'[r] = [live[r] EXCEPT !.suspend = b]
          \/ \E p : live'[r] = [live[r] EXCEPT !.policy = p]
          \/ live'[r] = [live[r] EXCEPT !.deleting = TRUE]
      BY <1>0, <2>2 DEF AddFinalizer, Release, DeleteRepository, ToggleSuspend, SetPolicy
    <3>2. live'[r] = NoObject \/ (SameObject(live'[r], live[r])
                                  /\ (live[r].deleting => live'[r].deleting))
      <4>1. live[r] \in Object
        BY <1>0
      <4> QED  BY <3>1, <4>1 DEF Object, SameObject, SameIncarnation
    <3> QED  BY <1>1, <2>1, <3>2 DEF LiveFrame, Updates, SameObject
  <2>3. CASE PatchStatus(r)
    <3>1. live'[r] = live[r] \/ live'[r] = Merged(live[r], worker[r].base, worker[r].obj)
      BY <1>0, <2>3 DEF PatchStatus
    <3>2. worker[r].base \in Object /\ worker[r].obj \in Object
      BY <1>0 DEF Worker
    <3>3. Updates(r, live'[r])
      BY <1>0, <3>1, <3>2, MergedFacts DEF Updates, SameIncarnation
    <3> QED  BY <2>1, <3>3 DEF LiveFrame
  <2>4. CASE \E policy \in Policies, second \in 0..MaxCreations : CreateRepository(r, policy, second)
    BY <1>0, <2>1, <2>4, InputAssumption DEF CreateRepository, LiveFrame
  <2> QED  BY <1>2, <2>2, <2>3, <2>4 DEF ChangesLive
<1>3. (\E r \in Repos : ChangesLive(r)) \/ live' = live
  BY LiveChanges
<1> QED  BY <1>1, <1>2, <1>3

LEMMA CacheFrame ==
  ASSUME [Next]_vars
  PROVE  cache' = cache \/ (cache' = live /\ live' = live /\ doomed' = doomed)
<1>1. ASSUME NEW r \in Repos, PassStep(r) \/ ReplyLost(r) \/ Failure(r) \/ Cluster(r)
                              \/ Administrator(r)
      PROVE  cache' = cache
  BY <1>1 DEF PassStep, ReplyLost, Failure, Cluster, Administrator, StartPass, AddFinalizer,
     ResolveExisting, ResolveRecorded, ResolveByName, Add, Claim, WriteSecret, RefuseSecret,
     CleanupInitJob, CreateInitJob, AwaitInitJob, RetryInitJob, RecordInitialized,
     PatchStatus, Destroy, Release, AbandonAdd, CallFails, PassFails, TokenUnavailable,
     StartPod, RunInit, InitJobFails, ExpireJob, CollectSecret, CollectJob, Backup, LateAdd,
     CreateRepository, DeleteRepository, SetPolicy, ToggleSuspend, LoseSecret, RemoveRemote,
     cacheVars
<1>2. CASE SyncRepositories \/ SyncJobs \/ Crash \/ UNCHANGED vars
  BY <1>2 DEF SyncRepositories, SyncJobs, Crash, vars, apiVars, cacheVars, history
<1> QED  BY <1>1, <1>2 DEF Next

LEMMA RemoteFrame ==
  ASSUME Typed, [Next]_vars, NEW i \in RemoteIds, remote'[i].state = "destroyed"
  PROVE  \/ remote[i].state = "destroyed"
         \/ \E r \in Repos : worker[r].pc = "destroy" /\ worker[r].obj.id = i
<1>0. remote \in [RemoteIds -> Remote] /\ remote[i] \in Remote
  BY DEF Typed, TypeOK
<1>1. ASSUME NEW r \in Repos, NEW j \in RemoteIds, CreateRemote(r, j)
      PROVE  remote[i].state = "destroyed"
  BY <1>0, <1>1 DEF CreateRemote
<1>2. ASSUME NEW r \in Repos, NEW reply, Destroy(r, reply)
      PROVE  \/ remote[i].state = "destroyed"
             \/ worker[r].pc = "destroy" /\ worker[r].obj.id = i
  BY <1>0, <1>2 DEF Destroy, Destroyed
<1>3. ASSUME NEW r \in Repos, RunInit(r) \/ InitJobFails(r) \/ Backup(r) \/ RemoveRemote(r)
      PROVE  remote[i].state = "destroyed"
  <2>1. CASE RunInit(r) \/ InitJobFails(r) \/ Backup(r)
    <3>1. PICK j, e : \/ remote' = remote
                      \/ remote' = [remote EXCEPT ![j].keys = e]
                      \/ remote' = [remote EXCEPT ![j].used = TRUE]
      BY <2>1 DEF RunInit, InitJobFails, Backup
    <3> QED  BY <1>0, <3>1 DEF Remote
  <2>2. CASE RemoveRemote(r)
    BY <1>0, <2>2 DEF RemoveRemote, Remote
  <2> QED  BY <1>3, <2>1, <2>2
<1>4. ASSUME NEW r \in Repos, PassStep(r) \/ ReplyLost(r) \/ Failure(r) \/ Cluster(r)
                              \/ Administrator(r)
      PROVE  \/ remote' = remote \/ \E j \in RemoteIds : CreateRemote(r, j)
             \/ \E reply \in Replies : Destroy(r, reply)
             \/ RunInit(r) \/ InitJobFails(r) \/ Backup(r) \/ RemoveRemote(r)
  BY <1>4 DEF PassStep, ReplyLost, Failure, Cluster, Administrator, StartPass, AddFinalizer,
     ResolveExisting, ResolveRecorded, ResolveByName, Add, Claim, WriteSecret, RefuseSecret,
     CleanupInitJob, CreateInitJob, AwaitInitJob, RetryInitJob, RecordInitialized,
     PatchStatus, Release, AbandonAdd, CallFails, PassFails, TokenUnavailable,
     StartPod, ExpireJob, CollectSecret, CollectJob, LateAdd, CreateRepository,
     DeleteRepository, SetPolicy, ToggleSuspend, LoseSecret, borgbase, Replies
<1>5. CASE SyncRepositories \/ SyncJobs \/ Crash \/ UNCHANGED vars
  BY <1>5 DEF SyncRepositories, SyncJobs, Crash, vars, borgbase
<1> QED  BY <1>1, <1>2, <1>3, <1>4, <1>5 DEF Next

-------------------------------------------------------------------------------
(* No destruction without a request *)

\* A deletion under Delete of an object with an ID has been noted.
Noted(o) == o.deleting /\ o.policy = "Delete" /\ o.id # None => o.id \in doomed

\* The inductive invariant: a destruction is decided on the cached copy and done
\* later, so the request has to be known for that copy and for the pass that
\* carries it, not only for the object of the API server.
Requested ==
  /\ \A r \in Repos : Noted(live[r]) /\ Noted(cache[r])
  /\ \A r \in Repos : worker[r].pc = "destroy" => worker[r].obj.id \in doomed
  /\ DestroyedOnlyOnRequest

LEMMA RequestedInit == Init => Requested
<1> SUFFICES ASSUME Init PROVE Requested
  OBVIOUS
<1>1. \A i \in RemoteIds : remote[i].state \in {"unborn", "live"}
  BY InputAssumption DEF Init
<1>2. \A r \in Repos : ~live[r].deleting /\ ~cache[r].deleting /\ worker[r].pc = "idle"
  BY DEF Init, NoObject, Idle
<1> QED  BY <1>1, <1>2 DEF Requested, Noted, DestroyedOnlyOnRequest

LEMMA LiveNoted ==
  ASSUME Typed, Requested, [Next]_vars
  PROVE  doomed \subseteq doomed' /\ \A q \in Repos : Noted(live[q])'
<1>0. live \in [Repos -> Object] /\ live' \in [Repos -> Object]
  BY TypedNext DEF Typed, TypeOK
<1>1. CASE live' = live /\ doomed' = doomed
  BY <1>1 DEF Requested, Noted
<1>2. CASE NoteDoomed
  BY <1>2 DEF NoteDoomed, Doomed, Noted
<1>3. ASSUME NEW r \in Repos,
             \/ AddFinalizer(r) \/ Release(r) \/ ToggleSuspend(r)
             \/ \E policy \in Policies, second \in 0..MaxCreations :
                  CreateRepository(r, policy, second)
      PROVE  doomed' = doomed /\ \A q \in Repos : Noted(live[q])'
  <2>1. doomed' = doomed
    BY <1>3 DEF AddFinalizer, Release, ToggleSuspend, CreateRepository, history
  <2>2. \A q \in Repos \ {r} : live'[q] = live[q]
    BY <1>0, <1>3 DEF AddFinalizer, Release, ToggleSuspend, CreateRepository
  <2>3. \/ live'[r] = live[r] \/ ~live'[r].deleting
        \/ live'[r] = [live[r] EXCEPT !.finalizer = TRUE]
        \/ live'[r] = [live[r] EXCEPT !.finalizer = FALSE]
        \/ live'[r] = [live[r] EXCEPT !.suspend = ~live[r].suspend]
    BY <1>0, <1>3, CreatedFacts, InputAssumption
    DEF AddFinalizer, Release, ToggleSuspend, CreateRepository, NoObject
  <2>4. Noted(live[r])'
    <3>1. live[r] \in Object /\ Noted(live[r])
      BY <1>0 DEF Requested
    <3> QED  BY <2>1, <2>3, <3>1 DEF Noted, Object
  <2> QED  BY <2>1, <2>2, <2>4 DEF Requested, Noted
<1>4. (\E r \in Repos : ChangesLive(r)) \/ (live' = live /\ doomed' = doomed)
  BY LiveChanges
<1>5. ASSUME NEW r \in Repos, ChangesLive(r)
      PROVE  doomed \subseteq doomed' /\ \A q \in Repos : Noted(live[q])'
  BY <1>2, <1>3, <1>5 DEF ChangesLive, PatchStatus, DeleteRepository, SetPolicy, NoteDoomed
<1> QED  BY <1>1, <1>4, <1>5

LEMMA RequestedNext == Typed /\ Requested /\ [Next]_vars => Requested'
<1> SUFFICES ASSUME Typed, Requested, [Next]_vars PROVE Requested'
  OBVIOUS
<1>1. doomed \subseteq doomed' /\ \A q \in Repos : Noted(live[q])'
  BY LiveNoted
<1>2. ASSUME NEW q \in Repos
      PROVE  Noted(cache[q])'
  <2>1. cache' = cache \/ (cache' = live /\ live' = live /\ doomed' = doomed)
    BY CacheFrame
  <2> QED  BY <1>1, <2>1 DEF Requested, Noted
<1>3. ASSUME NEW q \in Repos, worker'[q].pc = "destroy"
      PROVE  worker'[q].obj.id \in doomed'
  <2>1. PassFrame(q)
    BY PassFrames
  <2>2. worker'[q] = worker[q] \/ Starts(q, worker'[q])
    BY <1>3, <2>1 DEF PassFrame, Continues, Claims, Rereads, Idle
  <2>3. CASE Starts(q, worker'[q])
    <3>1. cache[q].deleting /\ DestroysRemote(cache[q]) /\ worker'[q].obj.id = cache[q].id
      BY <1>3, <2>3 DEF Starts, SameObject
    <3> QED  BY <1>1, <3>1 DEF Requested, Noted, DestroysRemote
  <2> QED  BY <1>1, <1>3, <2>2, <2>3 DEF Requested
<1>4. DestroyedOnlyOnRequest'
  <2>1. ASSUME NEW i \in RemoteIds, remote'[i].state = "destroyed"
        PROVE  i \in doomed'
    BY <1>1, <2>1, RemoteFrame DEF Requested, DestroyedOnlyOnRequest
  <2> QED  BY <2>1 DEF DestroyedOnlyOnRequest
<1> QED  BY <1>1, <1>2, <1>3, <1>4 DEF Requested

\* Whatever the number of Repositories, replicas restarts and lost replies, finalize
\* destroys a BorgBase repository only after a deletion under Delete of a resource
\* that had recorded its ID.
THEOREM DestructionRequested == Spec => []DestroyedOnlyOnRequest
<1>1. Spec => []Requested
  BY AlwaysTyped, RequestedInit, RequestedNext, PTL DEF Spec
<1>2. Requested => DestroyedOnlyOnRequest
  BY DEF Requested
<1> QED  BY <1>1, <1>2, PTL

-------------------------------------------------------------------------------
(* The elder is never overridden *)

\* A uid says which incarnation a copy is of, and so when it was created.
Dated(o) ==
  /\ o.uid <= creations /\ o.born <= clock
  /\ IF o.exists THEN o.uid # 0 ELSE o.uid = 0 /\ o.born = 0

OneBirth(o, p) == o.uid = p.uid => o.born = p.born

Incarnations ==
  \A r \in Repos :
    /\ Dated(live[r]) /\ Dated(cache[r]) /\ Dated(worker[r].obj)
    /\ OneBirth(live[r], cache[r])
    /\ OneBirth(live[r], worker[r].obj) /\ OneBirth(cache[r], worker[r].obj)

\* The cache is the past of the API server: a cache that holds an object holds
\* every older object that is still there.
CacheIsPast ==
  \A r, o \in Repos :
    cache[r].exists /\ live[o].exists /\ live[o].born < cache[r].born
      => /\ cache[o].exists /\ cache[o].born = live[o].born
         /\ cache[o].deleting => live[o].deleting

\* A resource that adopts a repository never has another one's ID.
AdoptsOne ==
  \A r \in Repos :
    Existing[r] # None =>
      /\ live[r].id \in {None, Existing[r]} /\ cache[r].id \in {None, Existing[r]}
      /\ worker[r].obj.id \in {None, Existing[r]}
      /\ worker[r].pc # "add"
      /\ worker[r].pc \in {"claim", "secret", "init"} => worker[r].target = Existing[r]

Elders == Incarnations /\ CacheIsPast /\ AdoptsOne

LEMMA EldersInit == Init => Elders
<1> SUFFICES ASSUME Init PROVE Elders
  OBVIOUS
<1>1. \A r \in Repos : live[r] = NoObject /\ cache[r] = NoObject /\ worker[r] = Idle
  BY DEF Init
<1>2. creations = 0 /\ clock = 0
  BY DEF Init
<1> QED  BY <1>1, <1>2 DEF Elders, Incarnations, CacheIsPast, AdoptsOne, Dated, OneBirth,
           NoObject, Idle

LEMMA TimeFrame ==
  ASSUME Typed, [Next]_vars
  PROVE  /\ creations \in Nat /\ creations' \in Nat /\ creations <= creations'
         /\ clock \in Nat /\ clock' \in Nat /\ clock <= clock'
<1>0. creations \in Nat /\ creations' \in Nat /\ clock \in Nat /\ clock' \in Nat
  BY TypedNext DEF Typed, TypeOK
<1>1. \/ creations' = creations /\ clock' = clock
      \/ creations' = creations + 1 /\ clock' \in {clock, clock + 1}
  BY LiveChanges DEF ChangesLive, AddFinalizer, PatchStatus, Release, CreateRepository,
     DeleteRepository, ToggleSuspend, SetPolicy, bounds
<1> QED  BY <1>0, <1>1

LEMMA EldersNext == Typed /\ Elders /\ [Next]_vars => Elders'
<1> SUFFICES ASSUME Typed, Elders, [Next]_vars PROVE Elders'
  OBVIOUS
<1>0. /\ creations \in Nat /\ creations' \in Nat /\ creations <= creations'
      /\ clock \in Nat /\ clock' \in Nat /\ clock <= clock'
  BY TimeFrame
<1>1. \A q \in Repos : /\ live[q] \in Object /\ live'[q] \in Object /\ cache[q] \in Object
                       /\ worker[q].obj \in Object /\ worker[q] \in Worker
  BY TypedNext DEF Typed, TypeOK, Worker
<1>2. \A q \in Repos : PassFrame(q) /\ LiveFrame(q)
  BY PassFrames, LiveFrames
<1>3. cache' = cache \/ (cache' = live /\ live' = live)
  BY CacheFrame
<1>4. Incarnations'
  <2> SUFFICES ASSUME NEW q \in Repos
               PROVE  /\ Dated(live[q])' /\ Dated(cache[q])' /\ Dated(worker[q].obj)'
                      /\ OneBirth(live[q], cache[q])'
                      /\ OneBirth(live[q], worker[q].obj)'
                      /\ OneBirth(cache[q], worker[q].obj)'
    BY DEF Incarnations
  <2>1. /\ Dated(live[q]) /\ Dated(cache[q]) /\ Dated(worker[q].obj)
        /\ OneBirth(live[q], cache[q])
        /\ OneBirth(live[q], worker[q].obj) /\ OneBirth(cache[q], worker[q].obj)
    BY DEF Elders, Incarnations
  <2>2. \/ SameIncarnation(live'[q], NoObject) \/ SameIncarnation(live'[q], live[q])
        \/ creations' = creations + 1 /\ live'[q].exists /\ live'[q].uid = creations'
           /\ live'[q].born = clock'
    BY <1>2, CreatedFacts DEF LiveFrame, Updates, SameIncarnation
  <2>3. LET n == worker'[q].obj
        IN  \/ SameIncarnation(n, NoObject) \/ SameIncarnation(n, worker[q].obj)
            \/ SameIncarnation(n, cache[q]) \/ SameIncarnation(n, live'[q])
    BY <1>2 DEF PassFrame, Continues, Claims, Starts, Rereads, SameObject, SameIncarnation,
       Idle
  <2>4. /\ live[q].uid \in Nat /\ live[q].born \in Nat /\ cache[q].uid \in Nat
        /\ cache[q].born \in Nat /\ worker[q].obj.uid \in Nat /\ worker[q].obj.born \in Nat
    BY <1>1 DEF Object
  <2>5. NoObject.uid = 0 /\ NoObject.born = 0 /\ ~NoObject.exists
    BY DEF NoObject
  <2> QED  BY <1>0, <1>3, <2>1, <2>2, <2>3, <2>4, <2>5 DEF Dated, OneBirth, SameIncarnation
<1>5. CacheIsPast'
  <2> SUFFICES ASSUME NEW q \in Repos, NEW o \in Repos,
                      cache'[q].exists, live'[o].exists, live'[o].born < cache'[q].born
               PROVE  /\ cache'[o].exists /\ cache'[o].born = live'[o].born
                      /\ cache'[o].deleting => live'[o].deleting
    BY DEF CacheIsPast
  <2>1. CASE cache' = live /\ live' = live
    BY <2>1
  <2>2. CASE cache' = cache
    <3>1. cache[q].born <= clock /\ cache[q].born \in Nat
      BY <1>1 DEF Elders, Incarnations, Dated, Object
    <3>2. live'[o] # NoObject
      BY DEF NoObject
    <3>3. live'[o].born # clock'
      BY <1>0, <2>2, <3>1
    <3>4. Updates(o, live'[o])
      BY <1>2, <3>2, <3>3, CreatedFacts DEF LiveFrame
    <3> QED  BY <2>2, <3>4 DEF Updates, SameIncarnation, Elders, CacheIsPast
  <2> QED  BY <1>3, <2>1, <2>2
<1>6. AdoptsOne'
  <2> SUFFICES ASSUME NEW q \in Repos, Existing[q] # None
               PROVE  /\ live'[q].id \in {None, Existing[q]} /\ cache'[q].id \in {None, Existing[q]}
                      /\ worker'[q].obj.id \in {None, Existing[q]}
                      /\ worker'[q].pc # "add"
                      /\ worker'[q].pc \in {"claim", "secret", "init"}
                           => worker'[q].target = Existing[q]
    BY DEF AdoptsOne
  <2>1. /\ live[q].id \in {None, Existing[q]} /\ cache[q].id \in {None, Existing[q]}
        /\ worker[q].obj.id \in {None, Existing[q]}
        /\ worker[q].pc # "add"
        /\ worker[q].pc \in {"claim", "secret", "init"} => worker[q].target = Existing[q]
    BY DEF Elders, AdoptsOne
  <2>2. live'[q].id \in {None, Existing[q]}
    BY <1>2, <2>1, CreatedFacts DEF LiveFrame, Updates, NoObject
  <2> QED  BY <1>2, <1>3, <2>1, <2>2 DEF PassFrame, Continues, Claims, Starts, Rereads,
             SameObject, Idle, NoObject
<1> QED  BY <1>4, <1>5, <1>6 DEF Elders

\* Whatever the lag of the cache and the number of resources that want one BorgBase
\* repository, repositoryConflict stops the younger of two resources the
\* cache holds before it records the repository the elder adopts.
THEOREM ElderPrevails == Spec => ElderNeverOverridden
<1>1. ASSUME Typed, Elders, [Next]_vars, NEW r \in Repos, NEW o \in Repos,
             worker[r].pc = "claim", worker'[r].pc = "secret",
             cache[r].uid = worker[r].obj.uid, live[o].exists, ~live[o].deleting,
             live[o].born < worker[r].obj.born, worker[r].target = Existing[o]
      PROVE  FALSE
  <2>1. ConflictWith(r, worker[r].target) = {}
    BY <1>1, PassFrames DEF PassFrame, Continues, Claims, Starts, Rereads, Idle
  <2>2. cache[r].born = worker[r].obj.born /\ cache[r].exists
    <3>1. Dated(cache[r]) /\ OneBirth(cache[r], worker[r].obj) /\ live[o].born \in Nat
      BY <1>1 DEF Elders, Incarnations, Typed, TypeOK, Object
    <3> QED  BY <1>1, <3>1 DEF Dated, OneBirth
  <2>3. cache[o].exists /\ cache[o].born = live[o].born /\ ~cache[o].deleting
    BY <1>1, <2>2 DEF Elders, CacheIsPast
  <2>4. Existing[o] \in RemoteIds /\ Existing[o] # None
    BY <1>1, InputAssumption DEF Typed, TargetResolved
  <2>5. ManagedId(cache[o], o) = Existing[o]
    BY <1>1, <2>4 DEF Elders, AdoptsOne, ManagedId
  <2>6. o # r
    BY <1>1, <2>2, <2>3 DEF Typed, TypeOK, Object
  <2> QED  BY <1>1, <2>1, <2>3, <2>5, <2>6 DEF ConflictWith, Older
<1>2. Typed /\ Elders /\ [Next]_vars
        => [\A r, o \in Repos :
              LET w == worker[r] IN
              /\ w.pc = "claim" /\ worker'[r].pc = "secret" /\ cache[r].uid = w.obj.uid
              /\ live[o].exists /\ ~live[o].deleting /\ live[o].born < w.obj.born
              => w.target # Existing[o]]_vars
  BY <1>1
<1> QED  BY <1>2, AlwaysTyped, EldersInit, EldersNext, PTL DEF Spec, ElderNeverOverridden

===============================================================================
