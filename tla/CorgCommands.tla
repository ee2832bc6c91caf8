----------------------------- MODULE CorgCommands -----------------------------
(***************************************************************************)
(* The commands of kubectl-corg that change a cluster: restore with its    *)
(* targets, rotate-password, reinit, suspend, resume, exec (as do check,   *)
(* stats, prune and unlock) and shell (as does restore --to), side by side *)
(* on one ScheduledBackup and its Repository.                              *)
(*                                                                         *)
(* A command is a process with steps.  What it defers runs in the opposite *)
(* order when it fails, ends or is interrupted, and not when it is killed. *)
(* Kubernetes, restic and the operator, as far as its init Job goes, are   *)
(* around it.  A rotation is named after the password it generates.        *)
(***************************************************************************)
EXTENDS Naturals, FiniteSets

CONSTANTS
  Commands,   \* invocations of corg, each of one command
  Original,   \* the password the operator generated
  Kinds,      \* the commands the users give
  Faults,     \* what may fail
  MaxFaults   \* bound

VARIABLES
  suspended,   \* spec.suspend of the ScheduledBackup
  held,        \* a user suspended it while no restore in place was under way
  initialized, \* status.initialized of the Repository
  initJob,     \* its init Job: [state, password]
  secret,      \* the password in the Secret
  keys,        \* the passwords that open the restic repository
  claim,       \* the claim of --to-new-pvc exists
  temp,        \* the temporary Secrets of rotations, by command
  job,         \* [Commands -> Job]
  cmd,         \* [Commands -> process]
  faults

vars == <<suspended, held, initialized, initJob, secret, keys, claim, temp, job, cmd, faults>>
cluster == <<suspended, held, initialized, initJob, secret, keys, claim, temp>>

ASSUME InputAssumption ==
  /\ Original \notin Commands /\ MaxFaults \in Nat
  /\ Kinds \subseteq {"in-place", "new-claim", "database", "rotate", "exec", "shell", "suspend",
                      "resume", "reinit"}

Passwords == Commands \cup {Original}

\* The password is what the pod found in the Secret; worked: what it was made for
\* was done.
Job == [state : {"none", "pending", "running", "succeeded", "failed", "terminating", "gone"},
        password : Passwords, worked : BOOLEAN]
NoJob == [state |-> "none", password |-> Original, worked |-> FALSE]

\* sawSuspended, sawInitialized (of reinit) and old are what the command read when it
\* began; created, temp and bracket that a Job, a Secret and a suspension are to be
\* undone; stranded that it could not, or does not know.
Process ==
  [kind : Kinds \cup {"none"},
   pc : {"idle", "confirm", "suspend", "claim", "temp", "create", "wait", "cleanup", "patchSecret",
         "deleteTemp", "resume", "patch", "deleteJobs", "clear", "done"},
   sawSuspended : BOOLEAN, sawInitialized : BOOLEAN, old : Passwords,
   created : BOOLEAN, temp : BOOLEAN, bracket : BOOLEAN, interrupted : BOOLEAN,
   stranded : BOOLEAN, result : {"none", "ok", "failed", "killed"}]
NoProcess ==
  [kind |-> "none", pc |-> "idle", sawSuspended |-> FALSE, sawInitialized |-> FALSE,
   old |-> Original, created |-> FALSE, temp |-> FALSE, bracket |-> FALSE,
   interrupted |-> FALSE, stranded |-> FALSE, result |-> "none"]

Init ==
  /\ suspended \in BOOLEAN /\ held = suspended
  /\ initialized = TRUE
  /\ initJob = [state |-> "succeeded", password |-> Original]
  /\ secret = Original /\ keys = {Original}
  /\ claim = FALSE /\ temp = {}
  /\ job = [c \in Commands |-> NoJob]
  /\ cmd = [c \in Commands |-> NoProcess]
  /\ faults = 0

-------------------------------------------------------------------------------
(* Steps of a command *)

Active(c) == cmd[c].pc \notin {"idle", "done"}
Restoring == \E c \in Commands : cmd[c].kind = "in-place" /\ Active(c)

Fault(kind) == kind \in Faults /\ faults < MaxFaults /\ faults' = faults + 1

\* The deferred step that comes next: the last that was deferred; the variant takes
\* the first.
DeferredInOrder(m) ==
  CASE m.temp -> "deleteTemp"
    [] ~m.temp /\ m.bracket -> "resume"
    [] ~m.temp /\ ~m.bracket /\ m.created -> "cleanup"
    [] OTHER -> "done"
Deferred(m) ==
  CASE m.created -> "cleanup"
    [] ~m.created /\ m.temp -> "deleteTemp"
    [] ~m.created /\ ~m.temp /\ m.bracket -> "resume"
    [] OTHER -> "done"
Unwind(m, result) == [m EXCEPT !.result = result, !.pc = Deferred(m)]

Goto(c, pc) == cmd' = [cmd EXCEPT ![c].pc = pc]
Fail(c) == cmd' = [cmd EXCEPT ![c] = Unwind(@, "failed")]

FirstStep(kind) ==
  CASE kind \in {"in-place", "database"} -> "confirm"
    [] kind = "new-claim" -> "claim"
    [] kind = "rotate" -> "temp"
    [] kind \in {"exec", "shell"} -> "create"
    [] kind = "reinit" -> "deleteJobs"
    [] kind \in {"suspend", "resume"} -> "patch"

\* suspend and resume have nothing to do when the copy they read is as they want it.
Already(kind) == (kind = "suspend" /\ suspended) \/ (kind = "resume" /\ ~suspended)

\* The command reads the ScheduledBackup, the Repository and the Secret.
Begin(c, kind) ==
  /\ cmd[c].pc = "idle"
  /\ LET m == [NoProcess EXCEPT !.kind = kind, !.sawSuspended = suspended, !.old = secret,
                               !.sawInitialized = kind = "reinit" /\ initialized] IN
     cmd' = [cmd EXCEPT ![c] =
       CASE Already(kind) -> [m EXCEPT !.pc = "done", !.result = "ok"]
         [] kind = "rotate" /\ ~initialized -> [m EXCEPT !.pc = "done", !.result = "failed"]
         [] OTHER -> [m EXCEPT !.pc = FirstStep(kind)]]
  /\ held' = (held \/ (kind = "suspend" /\ suspended /\ ~Restoring))
  /\ UNCHANGED <<suspended, initialized, initJob, secret, keys, claim, temp, job, faults>>

\* The name is typed, or something else.
Confirm(c) ==
  /\ cmd[c].pc = "confirm"
  /\ \/ Goto(c, IF cmd[c].kind = "in-place" THEN "suspend" ELSE "create")
     \/ Fail(c)
  /\ UNCHANGED <<cluster, job, faults>>

\* A schedule that is suspended already stays so after the restore; the variant
\* resumes it all the same.
SuspendsAlways(m) == TRUE
Suspends(m) == ~m.sawSuspended

SuspendForRestore(c) ==
  /\ cmd[c].pc = "suspend"
  /\ IF Suspends(cmd[c])
       THEN /\ suspended' = TRUE
            /\ cmd' = [cmd EXCEPT ![c].pc = "create", ![c].bracket = TRUE]
       ELSE Goto(c, "create") /\ UNCHANGED suspended
  /\ UNCHANGED <<held, initialized, initJob, secret, keys, claim, temp, job, faults>>

\* A claim of that name is an error, also one that an earlier restore left.
CreateClaim(c) ==
  /\ cmd[c].pc = "claim"
  /\ IF claim THEN Fail(c) ELSE Goto(c, "create")
  /\ claim' = TRUE
  /\ UNCHANGED <<suspended, held, initialized, initJob, secret, keys, temp, job, faults>>

CreateTemp(c) ==
  /\ cmd[c].pc = "temp"
  /\ temp' = temp \cup {c}
  /\ cmd' = [cmd EXCEPT ![c].pc = "create", ![c].temp = TRUE]
  /\ UNCHANGED <<suspended, held, initialized, initJob, secret, keys, claim, job, faults>>

\* Build, Preflight and Create of Run and Attach.
CreateJob(c) ==
  /\ cmd[c].pc = "create"
  /\ job' = [job EXCEPT ![c].state = "pending"]
  /\ cmd' = [cmd EXCEPT ![c].pc = "wait", ![c].created = TRUE]
  /\ UNCHANGED <<cluster, faults>>

\* A call fails; or it was done and its reply is lost, which the command takes for
\* a failure: only a Job it knows of is deleted.
CallFails(c) ==
  /\ cmd[c].pc \in {"suspend", "claim", "temp", "create", "patchSecret", "patch", "deleteJobs",
                    "clear"}
  /\ cmd[c].pc = "suspend" => Suspends(cmd[c])
  /\ Fault("apiError")
  /\ Fail(c)
  /\ UNCHANGED <<cluster, job>>

ReplyLost(c) ==
  /\ Fault("lostReply")
  /\ cmd' = [cmd EXCEPT ![c] = [Unwind(@, "failed") EXCEPT !.stranded = TRUE]]
  /\ \/ /\ cmd[c].pc = "create"
        /\ job' = [job EXCEPT ![c].state = "pending"]
        /\ UNCHANGED cluster
     \/ /\ cmd[c].pc = "suspend" /\ Suspends(cmd[c])
        /\ suspended' = TRUE
        /\ UNCHANGED <<held, initialized, initJob, secret, keys, claim, temp, job>>
     \/ /\ cmd[c].pc = "temp"
        /\ temp' = temp \cup {c}
        /\ UNCHANGED <<suspended, held, initialized, initJob, secret, keys, claim, job>>
     \/ /\ cmd[c].pc = "patchSecret"
        /\ secret' = c
        /\ UNCHANGED <<suspended, held, initialized, initJob, keys, claim, temp, job>>

\* Wait takes a Job that is not found for one that is not there yet; the variant,
\* for one that has ended.
FinishedOrGone(state) == state \in {"succeeded", "gone"}
Finished(state) == state = "succeeded"

\* WaitForPod, StreamLogs and Wait of Run, which end with the Job or time out when
\* it has gone.
WaitForJob(c) ==
  /\ cmd[c].pc = "wait"
  /\ \/ Finished(job[c].state) /\ cmd' = [cmd EXCEPT ![c] = Unwind(@, "ok")]
     \/ job[c].state = "failed" /\ Fail(c)
     \/ job[c].state = "gone" /\ Fail(c)
  /\ UNCHANGED <<cluster, job, faults>>

\* The user ends the session of the idle pod.
EndSession(c) ==
  /\ cmd[c].pc = "wait" /\ cmd[c].kind = "shell" /\ job[c].state = "running"
  /\ cmd' = [cmd EXCEPT ![c] = Unwind(@, "ok")]
  /\ UNCHANGED <<cluster, job, faults>>

\* No pod in three minutes, or no end in an hour.
WaitTimesOut(c) ==
  /\ cmd[c].pc = "wait" /\ job[c].state \in {"pending", "running"}
  /\ Fault("slow")
  /\ Fail(c)
  /\ UNCHANGED <<cluster, job>>

\* Ctrl-C cancels the context of what the command waits for or calls.
Interrupt(c) ==
  /\ Active(c) /\ cmd[c].pc \notin {"cleanup", "deleteTemp", "resume"}
  /\ Fault("interrupt")
  /\ cmd' = [cmd EXCEPT ![c] = [Unwind(@, "failed") EXCEPT !.interrupted = TRUE]]
  /\ UNCHANGED <<cluster, job>>

Kill(c) ==
  /\ Active(c)
  /\ Fault("kill")
  /\ cmd' = [cmd EXCEPT ![c].pc = "done", ![c].result = "killed", ![c].stranded = TRUE]
  /\ UNCHANGED <<cluster, job>>

-------------------------------------------------------------------------------
(* Deferred steps *)

\* They have a context of their own; with that of the command they would fail
\* after an interrupt.
CleansUpUnlessInterrupted(m) == ~m.interrupted
CleansUp(m) == TRUE

\* Cleanup deletes the Job, and in the background its pod.
Deleted(state) ==
  CASE state = "running" -> "terminating"
    [] state = "terminating" -> "terminating"
    [] OTHER -> "gone"

\* Only when the Job has added the key does the Secret follow; in the variant, always.
AfterAnyCleanup(m) ==
  LET next == [m EXCEPT !.created = FALSE] IN
  IF m.kind = "rotate" THEN [next EXCEPT !.pc = "patchSecret"]
  ELSE [next EXCEPT !.pc = Deferred(next)]
AfterCleanup(m) ==
  LET next == [m EXCEPT !.created = FALSE] IN
  IF m.kind = "rotate" /\ m.result = "ok" THEN [next EXCEPT !.pc = "patchSecret"]
  ELSE [next EXCEPT !.pc = Deferred(next)]

Cleanup(c) ==
  /\ cmd[c].pc = "cleanup"
  /\ job' = IF CleansUp(cmd[c]) THEN [job EXCEPT ![c].state = Deleted(@)] ELSE job
  /\ cmd' = [cmd EXCEPT ![c] = AfterCleanup(@)]
  /\ UNCHANGED <<cluster, faults>>

\* The Secret that was read is patched: another rotation's password is replaced.
PatchSecret(c) ==
  /\ cmd[c].pc = "patchSecret"
  /\ secret' = c
  /\ cmd' = [cmd EXCEPT ![c] = Unwind(@, "ok")]
  /\ UNCHANGED <<suspended, held, initialized, initJob, keys, claim, temp, job, faults>>

DeleteTemp(c) ==
  /\ cmd[c].pc = "deleteTemp"
  /\ temp' = IF CleansUp(cmd[c]) THEN temp \ {c} ELSE temp
  /\ LET m == [cmd[c] EXCEPT !.temp = FALSE] IN
     cmd' = [cmd EXCEPT ![c] = [m EXCEPT !.pc = Deferred(m)]]
  /\ UNCHANGED <<suspended, held, initialized, initJob, secret, keys, claim, job, faults>>

\* The latest copy is read, and resumed whatever it says.
Resume(c) ==
  /\ cmd[c].pc = "resume"
  /\ suspended' = IF CleansUp(cmd[c]) THEN FALSE ELSE suspended
  /\ cmd' = [cmd EXCEPT ![c].pc = "done", ![c].bracket = FALSE]
  /\ UNCHANGED <<held, initialized, initJob, secret, keys, claim, temp, job, faults>>

\* What fails here is reported, and left as it is.
DeferredStepFails(c) ==
  /\ cmd[c].pc \in {"cleanup", "deleteTemp", "resume"}
  /\ Fault("apiError")
  /\ LET m == [cmd[c] EXCEPT !.stranded = TRUE]
         dropped == CASE m.pc = "cleanup" -> AfterCleanup(m)
                      [] m.pc = "deleteTemp" -> [m EXCEPT !.temp = FALSE]
                      [] m.pc = "resume" -> [m EXCEPT !.bracket = FALSE]
     IN cmd' = [cmd EXCEPT ![c] =
                 IF m.pc = "cleanup" THEN dropped ELSE [dropped EXCEPT !.pc = Deferred(dropped)]]
  /\ UNCHANGED <<cluster, job>>

-------------------------------------------------------------------------------
(* suspend, resume and reinit *)

SetSuspend(c) ==
  /\ cmd[c].pc = "patch"
  /\ suspended' = (cmd[c].kind = "suspend")
  /\ held' = IF cmd[c].kind = "resume" THEN FALSE ELSE held \/ ~Restoring
  /\ cmd' = [cmd EXCEPT ![c] = Unwind(@, "ok")]
  /\ UNCHANGED <<initialized, initJob, secret, keys, claim, temp, job, faults>>

DeleteInitJobs(c) ==
  /\ cmd[c].pc = "deleteJobs"
  /\ initJob' = [initJob EXCEPT !.state = "none"]
  /\ Goto(c, "clear")
  /\ UNCHANGED <<suspended, held, initialized, secret, keys, claim, temp, job, faults>>

\* The patch is the difference to what the command read: if that said false already,
\* nothing is written.
ClearInitialized(c) ==
  /\ cmd[c].pc = "clear"
  /\ initialized' = (initialized /\ ~cmd[c].sawInitialized)
  /\ cmd' = [cmd EXCEPT ![c] = Unwind(@, "ok")]
  /\ UNCHANGED <<suspended, held, initJob, secret, keys, claim, temp, job, faults>>

-------------------------------------------------------------------------------
(* The Jobs of the commands: the kubelet, restic and the TTL of ten minutes *)

\* The pod of a rotation needs the temporary Secret to start.
StartPod(c) ==
  /\ job[c].state = "pending" /\ (cmd[c].kind = "rotate" => c \in temp)
  /\ job' = [job EXCEPT ![c].state = "running", ![c].password = secret]
  /\ UNCHANGED <<cluster, cmd, faults>>

\* restic key add.
Worked(c) == keys' = IF cmd[c].kind = "rotate" THEN keys \cup {c} ELSE keys

JobSucceeds(c) ==
  /\ job[c].state = "running" /\ cmd[c].kind # "shell" /\ job[c].password \in keys
  /\ job' = [job EXCEPT ![c].state = "succeeded", ![c].worked = TRUE]
  /\ Worked(c)
  /\ UNCHANGED <<suspended, held, initialized, initJob, secret, claim, temp, cmd, faults>>

JobFails(c) ==
  /\ job[c].state = "running" /\ cmd[c].kind # "shell"
  /\ IF job[c].password \in keys THEN Fault("jobFails") ELSE UNCHANGED faults
  /\ job' = [job EXCEPT ![c].state = "failed"]
  /\ UNCHANGED <<cluster, cmd>>

\* restic dump fails, and restoredb at the end of the pipe does not.
DumpFails(c) ==
  /\ job[c].state = "running" /\ cmd[c].kind = "database"
  /\ Fault("jobFails")
  /\ job' = [job EXCEPT ![c].state = "succeeded"]
  /\ UNCHANGED <<cluster, cmd>>

\* A pod that is told to stop may finish its work first.
PodStops(c) ==
  /\ job[c].state = "terminating"
  /\ job' = [job EXCEPT ![c].state = "gone"]
  /\ \/ job[c].password \in keys /\ Worked(c)
     \/ UNCHANGED keys
  /\ UNCHANGED <<suspended, held, initialized, initJob, secret, claim, temp, cmd, faults>>

Expire(c) ==
  /\ job[c].state \in {"succeeded", "failed"}
  /\ Active(c) => Fault("slow")
  /\ ~Active(c) => UNCHANGED faults
  /\ job' = [job EXCEPT ![c].state = "gone"]
  /\ UNCHANGED <<cluster, cmd>>

\* Another user deletes the Job.
DeletedByOther(c) ==
  /\ job[c].state \in {"pending", "running"}
  /\ Fault("deleteJob")
  /\ job' = [job EXCEPT ![c].state = "gone"]
  /\ UNCHANGED <<cluster, cmd>>

-------------------------------------------------------------------------------
(* The operator's init Job, and the user *)

CreateInitJob ==
  /\ ~initialized /\ initJob.state = "none"
  /\ initJob' = [state |-> "running", password |-> secret]
  /\ UNCHANGED <<suspended, held, initialized, secret, keys, claim, temp, job, cmd, faults>>

\* restic cat config || restic init: the second fails on a repository that is
\* there; the variant runs nothing but the second.
InitsNew(password) == keys = {}
InitSucceeds(password) == password \in keys \/ keys = {}

RunInit ==
  /\ initJob.state = "running"
  /\ initJob' = [initJob EXCEPT !.state = IF InitSucceeds(initJob.password)
                                               THEN "succeeded" ELSE "failed"]
  /\ UNCHANGED <<suspended, held, initialized, secret, keys, claim, temp, job, cmd, faults>>

\* The result is recorded, and a Job that failed deleted for another.
RecordInit ==
  /\ ~initialized /\ initJob.state \in {"succeeded", "failed"}
  /\ initialized' = (initJob.state = "succeeded")
  /\ initJob' = IF initJob.state = "failed" THEN [initJob EXCEPT !.state = "none"] ELSE initJob
  /\ UNCHANGED <<suspended, held, secret, keys, claim, temp, job, cmd, faults>>

\* "The old key still works; remove it": once the rotation has ended well, by the
\* user, who knows it for the one there was before.
RemoveOldKey(c) ==
  /\ cmd[c].kind = "rotate" /\ cmd[c].pc = "done" /\ cmd[c].result = "ok"
  /\ cmd[c].old \in keys
  /\ keys' = keys \ {cmd[c].old}
  /\ UNCHANGED <<suspended, held, initialized, initJob, secret, claim, temp, job, cmd, faults>>

-------------------------------------------------------------------------------

Step(c) ==
  \/ SuspendForRestore(c) \/ CreateClaim(c) \/ CreateTemp(c) \/ CreateJob(c) \/ WaitForJob(c)
  \/ Cleanup(c) \/ PatchSecret(c) \/ DeleteTemp(c) \/ Resume(c)
  \/ SetSuspend(c) \/ DeleteInitJobs(c) \/ ClearInitialized(c)
User(c) ==
  \/ \E kind \in Kinds : Begin(c, kind)
  \/ Confirm(c) \/ EndSession(c) \/ Interrupt(c) \/ RemoveOldKey(c)
Kubernetes(c) ==
  StartPod(c) \/ JobSucceeds(c) \/ JobFails(c) \/ DumpFails(c) \/ PodStops(c) \/ Expire(c)
Trouble(c) ==
  \/ CallFails(c) \/ ReplyLost(c) \/ WaitTimesOut(c) \/ Kill(c) \/ DeferredStepFails(c)
  \/ DeletedByOther(c)
Operator == CreateInitJob \/ RunInit \/ RecordInit

Next ==
  \/ \E c \in Commands : Step(c) \/ User(c) \/ Kubernetes(c) \/ Trouble(c)
  \/ Operator

\* A command that runs goes on, the operator requeues, and a Job ends and expires.
Fairness ==
  /\ \A c \in Commands : WF_vars(Step(c)) /\ WF_vars(Kubernetes(c))
  /\ WF_vars(Operator)

Spec == Init /\ [][Next]_vars /\ Fairness

-------------------------------------------------------------------------------
(* Properties *)

\* Commands, Jobs and passwords are what the steps of internal/cli make them, and a
\* temporary Secret outlives the Job that mounts it (the order of the defers of
\* runRotatePassword and Run).
TypeOK ==
  /\ suspended \in BOOLEAN /\ held \in BOOLEAN /\ initialized \in BOOLEAN /\ claim \in BOOLEAN
  /\ initJob \in [state : {"none", "running", "succeeded", "failed"}, password : Passwords]
  /\ secret \in Passwords /\ keys \subseteq Passwords /\ temp \subseteq Commands
  /\ job \in [Commands -> Job] /\ cmd \in [Commands -> Process]
  /\ faults \in 0..MaxFaults
  /\ \A c \in Commands : cmd[c].kind = "rotate" /\ cmd[c].created => c \in temp

\* "The password is the only thing that can decrypt this repository"
\* (internal/cli/repair.go:109): the one in the Secret opens it at every moment, with
\* rotations side by side, interrupted or killed between the key and the Secret,
\* and old keys removed after them.
SecretOpens == secret \in keys

\* Nobody has suspended or resumed, and no restore has been killed, has lost a reply
\* or failed to resume.
Undisturbed ==
  \A c \in Commands : cmd[c].kind \notin {"suspend", "resume"} /\ ~cmd[c].stranded

\* "Suspends the schedule for the duration" (docs/corg.md:137), and no longer:
\* restores in place, overlapping or one after another and ended in any way, resume no
\* schedule that a user suspended while none of them was under way, until a user
\* does (the check of sb.Spec.Suspend), and leave none suspended that was not.
ScheduleComesBack ==
  /\ held => suspended
  /\ Undisturbed /\ suspended /\ (\A c \in Commands : ~Active(c)) => held

\* A command that reports success has had its Job do the work: Wait takes neither a
\* Job that has gone nor one that is late for one that succeeded, and
\* rotate-password has put its key into the repository before the Secret.
\* --to-database is left out: the exit code of its pipe is that of restoredb.
OkMeansDone ==
  \A c \in Commands :
    cmd[c].result = "ok" /\ cmd[c].kind \in {"in-place", "new-claim", "rotate", "exec"} =>
      job[c].worked

\* A Job with a command that ends by itself goes, however corg itself ended; an idle
\* pod or one that needs its temporary Secret if corg could clean up. No password is
\* left in a temporary Secret then.
LeavesNothing ==
  \A c \in Commands :
    /\ cmd[c].pc = "done" /\ (cmd[c].kind \in {"shell", "rotate"} => ~cmd[c].stranded)
         ~> job[c].state \in {"none", "gone"}
    /\ cmd[c].pc = "done" /\ ~cmd[c].stranded ~> c \notin temp

\* After reinit the operator initializes the repository again, also when the password
\* is rotated and the old key removed meanwhile.
EventuallyInitialized == ~initialized ~> initialized
===============================================================================
