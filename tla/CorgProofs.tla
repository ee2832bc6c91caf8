------------------------------ MODULE CorgProofs ------------------------------
(***************************************************************************)
(* Theorems about CorgCommands, for any number of commands side by side    *)
(* and any number of faults: the Secret opens the repository at every      *)
(* moment of any rotations, and a command that reports success has had its *)
(* Job do the work.                                                        *)
(***************************************************************************)
EXTENDS CorgCommands, TLAPS

-------------------------------------------------------------------------------
(* The inductive invariant *)

\* c will not replace the Secret any more.
Past(c) == cmd[c].pc \in {"deleteTemp", "resume", "done"}
Rotates(c) == cmd[c].kind = "rotate"

\* What the place of a command in its steps says about it.
OrderOf(c) ==
  /\ cmd[c].pc = "idle" => cmd[c] = NoProcess /\ job[c].state = "none"
  /\ cmd[c].pc \in {"wait", "cleanup"} => cmd[c].created
  /\ cmd[c].pc \notin {"wait", "cleanup", "done"} => ~cmd[c].created
  /\ cmd[c].pc = "patchSecret" => Rotates(c) /\ cmd[c].result = "ok"
  /\ cmd[c].pc = "patch" => cmd[c].kind \in {"suspend", "resume"}
  /\ cmd[c].pc \in {"deleteJobs", "clear"} => cmd[c].kind = "reinit"
  /\ Rotates(c) => cmd[c].pc \in {"temp", "create", "wait", "cleanup", "patchSecret"} \/ Past(c)
  /\ Rotates(c) /\ cmd[c].pc = "create" => c \in temp

\* A rotation that may still replace the Secret, and whose Job has succeeded, has
\* its key in the repository; and one that has ended well, and whose user may
\* remove the old key, has seen it go from the Secret for good.
KeyOf(c) ==
  Rotates(c) =>
    /\ \/ cmd[c].pc = "patchSecret"
       \/ cmd[c].pc = "cleanup" /\ cmd[c].result = "ok"
       \/ ~Past(c) /\ job[c].state = "succeeded"
       => c \in keys
    /\ cmd[c].result = "ok" /\ Past(c) => secret # cmd[c].old

\* The commands of OkMeansDone, whose Jobs have done their work if they succeed.
Works(c) == cmd[c].kind \in {"in-place", "new-claim", "rotate", "exec"}
WorkOf(c) == Works(c) /\ (job[c].state = "succeeded" \/ cmd[c].result = "ok") => job[c].worked

\* A password that was ever in the Secret does not return to it.
Replaced == \A c, d \in Commands : secret = d \/ cmd[c].old = d => Past(d)

InOrder == \A c \in Commands : OrderOf(c)
KeyFirst == \A c \in Commands : KeyOf(c)
WorkDone == \A c \in Commands : WorkOf(c)

IInv == TypeOK /\ InOrder /\ Replaced /\ KeyFirst /\ WorkDone /\ SecretOpens

-------------------------------------------------------------------------------
(* Steps that leave the Secret alone *)

\* The conjuncts of TypeOK about variables that do not belong to one command, and
\* the one about temporary Secrets.
ClusterTyped ==
  /\ suspended \in BOOLEAN /\ held \in BOOLEAN /\ initialized \in BOOLEAN /\ claim \in BOOLEAN
  /\ initJob \in [state : {"none", "running", "succeeded", "failed"}, password : Passwords]
  /\ secret \in Passwords /\ keys \subseteq Passwords /\ temp \subseteq Commands
  /\ faults \in 0..MaxFaults
TempOf(c) == Rotates(c) /\ cmd[c].created => c \in temp

\* The other commands and their Jobs stay as they are.
Others(c) ==
  /\ cmd' \in [Commands -> Process] /\ job' \in [Commands -> Job]
  /\ \A d \in Commands \ {c} :
       cmd'[d] = cmd[d] /\ job'[d] = job[d] /\ (d \in temp => d \in temp')

\* c keeps its part of the invariant, and what it read.
Own(c) ==
  /\ cmd'[c].old = cmd[c].old /\ (Past(c) => Past(c)')
  /\ TempOf(c)' /\ OrderOf(c)' /\ KeyOf(c)' /\ WorkOf(c)'

\* A step of c beside the others, which removes no key and leaves the Secret alone.
Aside(c) == Others(c) /\ Own(c) /\ ClusterTyped' /\ secret' = secret /\ keys \subseteq keys'

\* Such a step keeps the invariant.
LEMMA AsideKeeps ==
  ASSUME IInv, NEW c \in Commands, Aside(c)
  PROVE  IInv'
<1>1. ASSUME NEW d \in Commands
      PROVE  /\ OrderOf(d)' /\ KeyOf(d)' /\ WorkOf(d)' /\ TempOf(d)'
             /\ (Past(d) => Past(d)') /\ cmd'[d].old = cmd[d].old
  <2>1. CASE d = c
    BY <2>1 DEF Aside, Own
  <2>2. CASE d # c
    <3>1. /\ cmd'[d] = cmd[d] /\ job'[d] = job[d] /\ (d \in temp => d \in temp')
          /\ secret' = secret /\ keys \subseteq keys'
      BY <2>2 DEF Aside, Others
    <3>2. OrderOf(d) /\ KeyOf(d) /\ WorkOf(d) /\ TempOf(d)
      BY DEF IInv, TypeOK, InOrder, KeyFirst, WorkDone, TempOf, Rotates
    <3> QED  BY <3>1, <3>2 DEF OrderOf, KeyOf, WorkOf, Works, TempOf, Past, Rotates
  <2> QED BY <2>1, <2>2
<1>2. TypeOK'
  BY <1>1 DEF Aside, Others, ClusterTyped, TypeOK, TempOf, Rotates
<1>3. InOrder' /\ KeyFirst' /\ WorkDone'
  BY <1>1 DEF InOrder, KeyFirst, WorkDone
<1>4. Replaced'
  BY <1>1 DEF Aside, IInv, Replaced
<1>5. SecretOpens'
  BY DEF Aside, IInv, SecretOpens
<1> QED BY <1>2, <1>3, <1>4, <1>5 DEF IInv

\* The bound on faults.
LEMMA FaultsBounded ==
  ASSUME IInv, NEW kind, Fault(kind)
  PROVE  faults' \in 0..MaxFaults
BY InputAssumption DEF Fault, IInv, TypeOK

\* The Job of c becomes j.
LEMMA JobTyped ==
  ASSUME IInv, NEW c \in Commands, NEW j \in Job, job' = [job EXCEPT ![c] = j]
  PROVE  job' \in [Commands -> Job] /\ job'[c] = j /\ \A d \in Commands \ {c} : job'[d] = job[d]
BY DEF IInv, TypeOK

\* The process of c becomes n.
LEMMA Moves ==
  ASSUME IInv, NEW c \in Commands, NEW n \in Process, cmd' = [cmd EXCEPT ![c] = n],
         job' \in [Commands -> Job],
         \A d \in Commands \ {c} : job'[d] = job[d] /\ (d \in temp => d \in temp')
  PROVE  Others(c) /\ cmd'[c] = n
BY DEF Others, IInv, TypeOK

-------------------------------------------------------------------------------
(* Ends of a command *)

\* Unwind sets the result and goes to the step that was deferred last.
LEMMA Unwinds ==
  ASSUME NEW m \in Process, NEW result \in {"ok", "failed"}
  PROVE  LET n == Unwind(m, result) IN
         /\ n \in Process /\ n.kind = m.kind /\ n.old = m.old /\ n.created = m.created
         /\ n.result = result
         /\ m.created => n.pc = "cleanup"
         /\ ~m.created => n.pc \in {"deleteTemp", "resume", "done"}
BY DEF Unwind, Deferred, Process

\* c has ended with a result, but for what it deferred.
Ends(c, result) ==
  \E n \in Process :
    /\ cmd' = [cmd EXCEPT ![c] = n]
    /\ n.kind = cmd[c].kind /\ n.old = cmd[c].old /\ n.created = cmd[c].created /\ n.result = result
    /\ IF n.created THEN n.pc = "cleanup" ELSE n.pc \in {"deleteTemp", "resume", "done"}

\* Unwind, and what a command notes beside it.
LEMMA UnwindEnds ==
  ASSUME IInv, NEW c \in Commands, NEW result \in {"ok", "failed"},
         \/ cmd' = [cmd EXCEPT ![c] = Unwind(@, result)]
         \/ cmd' = [cmd EXCEPT ![c] = [Unwind(@, result) EXCEPT !.stranded = TRUE]]
         \/ cmd' = [cmd EXCEPT ![c] = [Unwind(@, result) EXCEPT !.interrupted = TRUE]]
  PROVE  Ends(c, result)
<1> DEFINE u == Unwind(cmd[c], result)
<1>1. cmd[c] \in Process
  BY DEF IInv, TypeOK
<1>2. /\ u \in Process /\ u.kind = cmd[c].kind /\ u.old = cmd[c].old
      /\ u.created = cmd[c].created /\ u.result = result
      /\ IF u.created THEN u.pc = "cleanup" ELSE u.pc \in {"deleteTemp", "resume", "done"}
  BY <1>1, Unwinds
<1>3. \E n \in {u, [u EXCEPT !.stranded = TRUE], [u EXCEPT !.interrupted = TRUE]} :
        cmd' = [cmd EXCEPT ![c] = n]
  BY DEF IInv, TypeOK
<1> HIDE DEF u
<1>4. ASSUME NEW n \in {u, [u EXCEPT !.stranded = TRUE], [u EXCEPT !.interrupted = TRUE]}
      PROVE  /\ n \in Process /\ n.kind = u.kind /\ n.old = u.old /\ n.created = u.created
             /\ n.result = u.result /\ n.pc = u.pc
  BY <1>2, <1>4 DEF Process
<1> QED  BY <1>2, <1>3, <1>4 DEF Ends

\* A command that ends well without its Job, or badly, leaves the Secret alone.
LEMMA EndsAside ==
  ASSUME IInv, NEW c \in Commands, NEW result \in {"ok", "failed"}, Ends(c, result), ~Past(c),
         UNCHANGED <<secret, keys>>, temp \subseteq temp', ClusterTyped',
         job' \in [Commands -> Job],
         \A d \in Commands \ {c} : job'[d] = job[d], cmd[c].created => job'[c] = job[c],
         job'[c].worked = job[c].worked, job'[c].state = "succeeded" => job[c].state = "succeeded",
         result = "ok" /\ Works(c) => cmd[c].created /\ job[c].state = "succeeded"
  PROVE  Aside(c)
<1>1. PICK n \in Process :
        /\ cmd' = [cmd EXCEPT ![c] = n]
        /\ n.kind = cmd[c].kind /\ n.old = cmd[c].old /\ n.created = cmd[c].created
        /\ n.result = result
        /\ IF n.created THEN n.pc = "cleanup" ELSE n.pc \in {"deleteTemp", "resume", "done"}
  BY DEF Ends
<1>2. Others(c) /\ cmd'[c] = n
  BY <1>1, Moves
<1>3. OrderOf(c) /\ KeyOf(c) /\ WorkOf(c) /\ TempOf(c)
  BY DEF IInv, TypeOK, InOrder, KeyFirst, WorkDone, TempOf, Rotates
<1>4. Own(c)
  BY <1>1, <1>2, <1>3 DEF Own, OrderOf, KeyOf, WorkOf, Works, TempOf, Past, Rotates
<1> QED  BY <1>2, <1>4 DEF Aside

\* So does one that fails.
LEMMA FailAside ==
  ASSUME IInv, NEW c \in Commands, ~Past(c), Fail(c), UNCHANGED <<cluster, job>>,
         faults' \in 0..MaxFaults
  PROVE  Aside(c)
<1>1. Ends(c, "failed")
  BY UnwindEnds DEF Fail
<1>2. ClusterTyped' /\ UNCHANGED <<secret, keys, temp, job>> /\ job' \in [Commands -> Job]
  BY DEF cluster, ClusterTyped, IInv, TypeOK
<1> QED  BY <1>1, <1>2, EndsAside

\* Calls that fail and waits that time out.
LEMMA Fails ==
  ASSUME IInv, NEW c \in Commands,
         CallFails(c) \/ WaitTimesOut(c)
  PROVE  Aside(c)
<1>1. ~Past(c) /\ Fail(c) /\ UNCHANGED <<cluster, job>> /\ faults' \in 0..MaxFaults
  BY FaultsBounded DEF CallFails, WaitTimesOut, Past
<1> QED  BY <1>1, FailAside

\* The ends of the commands, but for those with the Secret.
LEMMA EndingAside ==
  ASSUME IInv, NEW c \in Commands,
         WaitForJob(c) \/ EndSession(c) \/ Interrupt(c) \/ SetSuspend(c) \/ ClearInitialized(c)
  PROVE  Aside(c)
<1>1. ~Past(c) /\ UNCHANGED <<secret, keys, temp, job>> /\ faults' \in 0..MaxFaults
  BY FaultsBounded DEF WaitForJob, EndSession, Interrupt, SetSuspend, ClearInitialized, Past,
     cluster,
     IInv, TypeOK, Active, Fail
<1>2. ClusterTyped'
  BY <1>1 DEF WaitForJob, EndSession, Interrupt, SetSuspend, ClearInitialized, cluster,
     ClusterTyped,
     IInv, TypeOK, Restoring, Active
<1>3. cmd[c].pc = "wait" => cmd[c].created
  BY DEF IInv, InOrder, OrderOf
<1>4. Works(c) => cmd[c].pc \notin {"patch", "clear"} /\ cmd[c].kind # "shell"
  BY DEF IInv, InOrder, OrderOf, Works
<1>5. PICK result \in {"ok", "failed"} :
        /\ \/ cmd' = [cmd EXCEPT ![c] = Unwind(@, result)]
           \/ cmd' = [cmd EXCEPT ![c] = [Unwind(@, result) EXCEPT !.interrupted = TRUE]]
        /\ result = "ok" /\ Works(c) => cmd[c].created /\ job[c].state = "succeeded"
  <2>1. CASE WaitForJob(c)
    BY <1>3, <2>1 DEF WaitForJob, Finished, Fail
  <2>2. CASE EndSession(c)
    BY <1>4, <2>2 DEF EndSession
  <2>3. CASE Interrupt(c)
    BY <2>3 DEF Interrupt
  <2>4. CASE SetSuspend(c)
    BY <1>4, <2>4 DEF SetSuspend
  <2>5. CASE ClearInitialized(c)
    BY <1>4, <2>5 DEF ClearInitialized
  <2> QED  BY <2>1, <2>2, <2>3, <2>4, <2>5
<1>6. Ends(c, result)
  BY <1>5, UnwindEnds
<1> QED  BY <1>1, <1>2, <1>5, <1>6, EndsAside DEF IInv, TypeOK

\* A process that is killed.
LEMMA KillAside ==
  ASSUME IInv, NEW c \in Commands, Kill(c)
  PROVE  Aside(c)
<1> DEFINE n == [cmd[c] EXCEPT !.pc = "done", !.result = "killed", !.stranded = TRUE]
<1>1. cmd' = [cmd EXCEPT ![c] = n] /\ UNCHANGED <<cluster, job>> /\ faults' \in 0..MaxFaults
  BY FaultsBounded DEF Kill, IInv, TypeOK
<1> cmd[c] \in Process
  BY DEF IInv, TypeOK
<1>2. /\ n \in Process /\ n.pc = "done" /\ n.result = "killed" /\ n.kind = cmd[c].kind
      /\ n.old = cmd[c].old /\ n.created = cmd[c].created
  BY DEF Process
<1> HIDE DEF n
<1>3. Others(c) /\ cmd'[c] = n
  BY <1>1, <1>2, Moves DEF cluster, IInv, TypeOK
<1>4. Own(c)
  <2>1. TempOf(c) /\ WorkOf(c) /\ temp' = temp /\ job' = job
    BY <1>1 DEF cluster, IInv, TypeOK, WorkDone, TempOf, Rotates
  <2> QED  BY <1>2, <1>3, <2>1 DEF Own, OrderOf, TempOf, KeyOf, WorkOf, Works, Past, Rotates
<1> QED  BY <1>1, <1>3, <1>4 DEF cluster, Aside, ClusterTyped, IInv, TypeOK

-------------------------------------------------------------------------------
(* Calls *)

Pcs == {"idle", "confirm", "suspend", "claim", "temp", "create", "wait", "cleanup", "patchSecret",
        "deleteTemp", "resume", "patch", "deleteJobs", "clear", "done"}

\* c goes on to pc, and remembers what it needs.
Proceeds(c, pc) ==
  \E n \in Process : /\ cmd' = [cmd EXCEPT ![c] = n]
                     /\ n.pc = pc /\ n.kind = cmd[c].kind /\ n.old = cmd[c].old
                     /\ n.created = cmd[c].created /\ n.result = cmd[c].result

\* Goto changes the place only.
LEMMA GotoProceeds ==
  ASSUME IInv, NEW c \in Commands, NEW pc \in Pcs, Goto(c, pc)
  PROVE  Proceeds(c, pc)
<1> DEFINE n == [cmd[c] EXCEPT !.pc = pc]
<1>1. n \in Process
  BY DEF IInv, TypeOK, Process, Pcs
<1>2. cmd' = [cmd EXCEPT ![c] = n]
  BY DEF Goto
<1>3. n.pc = pc /\ n.kind = cmd[c].kind /\ n.old = cmd[c].old /\ n.created = cmd[c].created
      /\ n.result = cmd[c].result
  BY DEF IInv, TypeOK, Process
<1> QED  BY <1>1, <1>2, <1>3 DEF Proceeds

\* A command that goes on to a call leaves the Secret alone.
LEMMA ProceedsAside ==
  ASSUME IInv, NEW c \in Commands, NEW pc \in Pcs, Proceeds(c, pc), UNCHANGED <<job, secret, keys>>,
         ClusterTyped', \A d \in Commands \ {c} : d \in temp => d \in temp',
         ~Past(c), cmd[c].pc \notin {"wait", "cleanup"},
         pc \notin {"idle", "wait", "cleanup", "patchSecret", "done"},
         pc = "patch" => cmd[c].kind \in {"suspend", "resume"},
         pc \in {"deleteJobs", "clear"} => cmd[c].kind = "reinit",
         Rotates(c) => pc \in {"temp", "create"} /\ (pc = "create" => c \in temp')
  PROVE  Aside(c)
<1>1. PICK n \in Process :
        /\ cmd' = [cmd EXCEPT ![c] = n] /\ n.pc = pc /\ n.kind = cmd[c].kind
        /\ n.old = cmd[c].old /\ n.created = cmd[c].created /\ n.result = cmd[c].result
  BY DEF Proceeds
<1>2. Others(c) /\ cmd'[c] = n
  BY <1>1, Moves DEF IInv, TypeOK
<1>3. OrderOf(c) /\ KeyOf(c) /\ WorkOf(c) /\ TempOf(c)
  BY DEF IInv, TypeOK, InOrder, KeyFirst, WorkDone, TempOf, Rotates
<1>4. Own(c)
  BY <1>1, <1>2, <1>3 DEF Own, OrderOf, KeyOf, WorkOf, Works, TempOf, Past, Rotates
<1> QED  BY <1>2, <1>4 DEF Aside

\* The calls before a Job.
LEMMA StepsOn ==
  ASSUME IInv, NEW c \in Commands,
         SuspendForRestore(c) \/ CreateClaim(c) \/ CreateTemp(c) \/ DeleteInitJobs(c)
  PROVE  Aside(c)
<1> USE DEF cluster
<1>1. CASE SuspendForRestore(c)
  <2>1. Proceeds(c, "create")
    <3>1. CASE Suspends(cmd[c])
      <4> DEFINE n == [cmd[c] EXCEPT !.pc = "create", !.bracket = TRUE]
      <4>1. cmd' = [cmd EXCEPT ![c] = n]
        BY <1>1, <3>1 DEF SuspendForRestore, IInv, TypeOK
      <4>2. cmd[c] \in Process
        BY DEF IInv, TypeOK
      <4>3. n \in Process /\ n.pc = "create" /\ n.kind = cmd[c].kind /\ n.old = cmd[c].old
            /\ n.created = cmd[c].created /\ n.result = cmd[c].result
        BY <4>2 DEF Process
      <4> QED BY <4>1, <4>3 DEF Proceeds
    <3>2. CASE ~Suspends(cmd[c])
      BY <1>1, <3>2, GotoProceeds DEF SuspendForRestore, Pcs
    <3> QED BY <3>1, <3>2
  <2>2. ClusterTyped' /\ cmd[c].pc = "suspend" /\ ~Rotates(c)
    BY <1>1 DEF SuspendForRestore, ClusterTyped, IInv, TypeOK, InOrder, OrderOf, Past
  <2> QED BY <1>1, <2>1, <2>2, ProceedsAside DEF SuspendForRestore, Pcs, Past
<1>2. CASE CreateClaim(c)
  <2>1. ClusterTyped' /\ cmd[c].pc = "claim" /\ ~Rotates(c)
    BY <1>2 DEF CreateClaim, ClusterTyped, IInv, TypeOK, InOrder, OrderOf, Past
  <2>2. CASE claim
    BY <1>2, <2>1, <2>2, FailAside DEF CreateClaim, Past, IInv, TypeOK
  <2>3. CASE ~claim
    BY <1>2, <2>1, <2>3, GotoProceeds, ProceedsAside DEF CreateClaim, Past, Pcs
  <2> QED BY <2>2, <2>3
<1>3. CASE CreateTemp(c)
  <2>1. Proceeds(c, "create")
    <3> DEFINE n == [cmd[c] EXCEPT !.pc = "create", !.temp = TRUE]
    <3>1. cmd' = [cmd EXCEPT ![c] = n]
      BY <1>3 DEF CreateTemp, IInv, TypeOK
    <3>2. cmd[c] \in Process
      BY DEF IInv, TypeOK
    <3>3. n \in Process /\ n.pc = "create" /\ n.kind = cmd[c].kind /\ n.old = cmd[c].old
          /\ n.created = cmd[c].created /\ n.result = cmd[c].result
      BY <3>2 DEF Process
    <3> QED BY <3>1, <3>3 DEF Proceeds
  <2>2. ClusterTyped' /\ cmd[c].pc = "temp"
    BY <1>3 DEF CreateTemp, ClusterTyped, IInv, TypeOK
  <2> QED BY <1>3, <2>1, <2>2, ProceedsAside DEF CreateTemp, Pcs, Past
<1>4. CASE DeleteInitJobs(c)
  <2>1. cmd[c].pc = "deleteJobs" /\ ~Rotates(c) /\ cmd[c].kind = "reinit"
    BY <1>4 DEF DeleteInitJobs, IInv, InOrder, OrderOf, Past
  <2>2. initJob' \in [state : {"none", "running", "succeeded", "failed"}, password : Passwords]
    BY <1>4 DEF DeleteInitJobs, IInv, TypeOK
  <2>3. ClusterTyped'
    BY <1>4, <2>2 DEF DeleteInitJobs, ClusterTyped, IInv, TypeOK
  <2> QED BY <1>4, <2>1, <2>3, GotoProceeds, ProceedsAside DEF DeleteInitJobs, Past, Pcs
<1> QED BY <1>1, <1>2, <1>3, <1>4

\* The creation of the Job.
LEMMA CreateJobAside ==
  ASSUME IInv, NEW c \in Commands, CreateJob(c)
  PROVE  Aside(c)
<1> DEFINE n == [cmd[c] EXCEPT !.pc = "wait", !.created = TRUE]
           j == [job[c] EXCEPT !.state = "pending"]
<1>1. cmd' = [cmd EXCEPT ![c] = n] /\ job' = [job EXCEPT ![c] = j]
  BY DEF CreateJob, IInv, TypeOK
<1> cmd[c] \in Process /\ job[c] \in Job
  BY DEF IInv, TypeOK
<1>2. /\ n \in Process /\ n.pc = "wait" /\ n.created /\ n.kind = cmd[c].kind /\ n.old = cmd[c].old
      /\ n.result = cmd[c].result
  BY DEF Process
<1>3. j \in Job /\ j.state = "pending" /\ j.worked = job[c].worked
  BY DEF Job
<1> HIDE DEF n, j
<1>4. Others(c) /\ cmd'[c] = n /\ job'[c] = j
  BY <1>1, <1>2, <1>3, Moves, JobTyped DEF CreateJob, cluster
<1>5. Own(c)
  <2>1. OrderOf(c) /\ WorkOf(c) /\ cmd[c].pc = "create" /\ temp' = temp
    BY DEF CreateJob, cluster, IInv, InOrder, WorkDone
  <2> QED  BY <1>2, <1>3, <1>4, <2>1 DEF Own, OrderOf, TempOf, KeyOf, WorkOf, Works, Past, Rotates
<1> QED  BY <1>4, <1>5 DEF CreateJob, cluster, Aside, ClusterTyped, IInv, TypeOK

\* The confirmation.
LEMMA ConfirmAside ==
  ASSUME IInv, NEW c \in Commands, Confirm(c)
  PROVE  Aside(c)
<1>1. cmd[c].pc = "confirm" /\ UNCHANGED <<cluster, job, faults>> /\ ~Rotates(c)
  BY DEF Confirm, IInv, InOrder, OrderOf, Past
<1>2. CASE Fail(c)
  BY <1>1, <1>2, FailAside DEF Past, IInv, TypeOK
<1>3. CASE ~Fail(c)
  <2> DEFINE pc == IF cmd[c].kind = "in-place" THEN "suspend" ELSE "create"
  <2>1. Goto(c, pc) /\ pc \in Pcs /\ pc \in {"suspend", "create"}
    BY <1>3 DEF Confirm, Pcs
  <2>2. ClusterTyped'
    BY <1>1 DEF cluster, ClusterTyped, IInv, TypeOK
  <2> QED  BY <1>1, <2>1, <2>2, GotoProceeds, ProceedsAside DEF cluster, Past
<1> QED  BY <1>2, <1>3

-------------------------------------------------------------------------------
(* Deferred steps *)

\* After a deferred step, whether it failed or not.
Undone(c) ==
  \E n \in Process :
    /\ cmd' = [cmd EXCEPT ![c] = n]
    /\ n.kind = cmd[c].kind /\ n.old = cmd[c].old /\ ~n.created /\ n.result = cmd[c].result
    /\ \/ n.pc \in {"deleteTemp", "resume", "done"}
       \/ n.pc = "patchSecret" /\ cmd[c].pc = "cleanup" /\ Rotates(c) /\ n.result = "ok"
    /\ cmd[c].pc = "cleanup" /\ Rotates(c) /\ n.result = "ok" => n.pc = "patchSecret"

\* A command without a Job to delete has other deferred steps, or none.
LEMMA DeferredPc ==
  ASSUME NEW m \in Process, ~m.created
  PROVE  Deferred(m) \in {"deleteTemp", "resume", "done"}
BY DEF Deferred, Process

\* It goes on to the next of them.
LEMMA DeferredMoves ==
  ASSUME NEW m \in Process, ~m.created
  PROVE  LET n == [m EXCEPT !.pc = Deferred(m)] IN
         /\ n \in Process /\ n.kind = m.kind /\ n.old = m.old /\ ~n.created /\ n.result = m.result
         /\ n.pc \in {"deleteTemp", "resume", "done"}
<1> DEFINE pc == Deferred(m)
<1>1. pc \in {"deleteTemp", "resume", "done"}
  BY DeferredPc
<1> HIDE DEF pc
<1>2. LET n == [m EXCEPT !.pc = pc] IN
      /\ n \in Process /\ n.kind = m.kind /\ n.old = m.old /\ ~n.created /\ n.result = m.result
      /\ n.pc \in {"deleteTemp", "resume", "done"}
  BY <1>1 DEF Process
<1> QED  BY <1>2 DEF pc

\* From the deletion of its Job a rotation that went well goes to the Secret.
LEMMA AfterCleanupType ==
  ASSUME NEW m \in Process
  PROVE  LET n == AfterCleanup(m) IN
         /\ n \in Process /\ n.kind = m.kind /\ n.old = m.old /\ ~n.created /\ n.result = m.result
         /\ IF m.kind = "rotate" /\ m.result = "ok" THEN n.pc = "patchSecret"
            ELSE n.pc \in {"deleteTemp", "resume", "done"}
<1> DEFINE next == [m EXCEPT !.created = FALSE]
<1>1. /\ next \in Process /\ next.kind = m.kind /\ next.old = m.old /\ ~next.created
      /\ next.result = m.result
  BY DEF Process
<1>2. Deferred(next) \in {"deleteTemp", "resume", "done"}
  BY <1>1, DeferredPc
<1> HIDE DEF next
<1>3. AfterCleanup(m) = IF m.kind = "rotate" /\ m.result = "ok"
                          THEN [next EXCEPT !.pc = "patchSecret"]
                          ELSE [next EXCEPT !.pc = Deferred(next)]
  BY DEF AfterCleanup, next
<1>4. CASE m.kind = "rotate" /\ m.result = "ok"
  BY <1>1, <1>3, <1>4 DEF Process
<1>5. CASE ~(m.kind = "rotate" /\ m.result = "ok")
  <2> DEFINE pc == Deferred(next)
  <2> HIDE DEF pc
  <2>1. pc \in {"deleteTemp", "resume", "done"}
    BY <1>2 DEF pc
  <2>2. AfterCleanup(m) = [next EXCEPT !.pc = pc]
    BY <1>3, <1>5 DEF pc
  <2> QED  BY <1>1, <1>5, <2>1, <2>2 DEF Process
<1> QED  BY <1>4, <1>5

\* A deferred step leaves the Secret alone.
LEMMA UndoneAside ==
  ASSUME IInv, NEW c \in Commands, Undone(c), cmd[c].pc \in {"cleanup", "deleteTemp", "resume"},
         UNCHANGED <<secret, keys>>, temp \ {c} \subseteq temp', ClusterTyped',
         job' \in [Commands -> Job],
         \A d \in Commands \ {c} : job'[d] = job[d],
         job'[c].worked = job[c].worked, job'[c].state = "succeeded" => job[c].state = "succeeded"
  PROVE  Aside(c)
<1>1. PICK n \in Process :
        /\ cmd' = [cmd EXCEPT ![c] = n]
        /\ n.kind = cmd[c].kind /\ n.old = cmd[c].old /\ ~n.created /\ n.result = cmd[c].result
        /\ \/ n.pc \in {"deleteTemp", "resume", "done"}
           \/ n.pc = "patchSecret" /\ cmd[c].pc = "cleanup" /\ Rotates(c) /\ n.result = "ok"
        /\ cmd[c].pc = "cleanup" /\ Rotates(c) /\ n.result = "ok" => n.pc = "patchSecret"
  BY DEF Undone
<1>2. Others(c) /\ cmd'[c] = n
  BY <1>1, Moves
<1>3. OrderOf(c) /\ KeyOf(c) /\ WorkOf(c) /\ TempOf(c)
  BY DEF IInv, TypeOK, InOrder, KeyFirst, WorkDone, TempOf, Rotates
<1>4. Own(c)
  BY <1>1, <1>2, <1>3 DEF Own, OrderOf, KeyOf, WorkOf, Works, TempOf, Past, Rotates
<1> QED  BY <1>2, <1>4 DEF Aside

\* The deferred steps, done or failed.
LEMMA DeferredAside ==
  ASSUME IInv, NEW c \in Commands,
         Cleanup(c) \/ DeleteTemp(c) \/ Resume(c) \/ DeferredStepFails(c)
  PROVE  Aside(c)
<1>1. cmd[c] \in Process /\ cmd[c].pc \in {"cleanup", "deleteTemp", "resume"}
  BY DEF Cleanup, DeleteTemp, Resume, DeferredStepFails, IInv, TypeOK
<1>2. cmd[c].pc # "cleanup" => ~cmd[c].created
  BY <1>1 DEF IInv, InOrder, OrderOf
<1>3. CASE Cleanup(c)
  <2>1. Undone(c)
    <3> DEFINE n == AfterCleanup(cmd[c])
    <3>1. cmd' = [cmd EXCEPT ![c] = n]
      BY <1>3 DEF Cleanup
    <3>2. /\ n \in Process /\ n.kind = cmd[c].kind /\ n.old = cmd[c].old /\ ~n.created
          /\ n.result = cmd[c].result
          /\ IF Rotates(c) /\ n.result = "ok" THEN n.pc = "patchSecret"
             ELSE n.pc \in {"deleteTemp", "resume", "done"}
      BY <1>1, AfterCleanupType DEF Rotates
    <3> HIDE DEF n
    <3> QED  BY <1>3, <3>1, <3>2 DEF Cleanup, Undone
  <2> DEFINE j == IF CleansUp(cmd[c]) THEN [job[c] EXCEPT !.state = Deleted(@)] ELSE job[c]
  <2>2. /\ j \in Job /\ j.worked = job[c].worked
        /\ j.state = "succeeded" => job[c].state = "succeeded"
    <3>1. job[c] \in Job
      BY DEF IInv, TypeOK
    <3> QED  BY <3>1 DEF Deleted, Job
  <2>3. job' = [job EXCEPT ![c] = j]
    BY <1>3 DEF Cleanup, IInv, TypeOK
  <2> HIDE DEF j
  <2>4. job' \in [Commands -> Job] /\ job'[c] = j /\ \A d \in Commands \ {c} : job'[d] = job[d]
    BY <2>2, <2>3, JobTyped
  <2> QED  BY <1>1, <1>3, <2>1, <2>2, <2>4, UndoneAside DEF Cleanup, cluster, ClusterTyped, IInv,
     TypeOK
<1>4. CASE DeleteTemp(c)
  <2> DEFINE m == [cmd[c] EXCEPT !.temp = FALSE]
  <2>1. /\ m \in Process /\ m.kind = cmd[c].kind /\ m.old = cmd[c].old /\ ~m.created
        /\ m.result = cmd[c].result
    BY <1>1, <1>2, <1>4 DEF DeleteTemp, Process
  <2> DEFINE n == [m EXCEPT !.pc = Deferred(m)]
  <2>2. cmd' = [cmd EXCEPT ![c] = n]
    BY <1>4 DEF DeleteTemp
  <2> HIDE DEF m
  <2>3. /\ n \in Process /\ n.kind = m.kind /\ n.old = m.old /\ ~n.created /\ n.result = m.result
        /\ n.pc \in {"deleteTemp", "resume", "done"}
    BY <2>1, DeferredMoves
  <2> HIDE DEF n
  <2>4. Undone(c)
    BY <1>4, <2>1, <2>2, <2>3 DEF DeleteTemp, Undone
  <2> QED  BY <1>1, <1>4, <2>4, UndoneAside DEF DeleteTemp, ClusterTyped, IInv, TypeOK
<1>5. CASE Resume(c)
  <2> DEFINE n == [cmd[c] EXCEPT !.pc = "done", !.bracket = FALSE]
  <2>1. /\ n \in Process /\ n.kind = cmd[c].kind /\ n.old = cmd[c].old /\ ~n.created
        /\ n.result = cmd[c].result /\ n.pc = "done"
    BY <1>1, <1>2, <1>5 DEF Resume, Process
  <2>2. cmd' = [cmd EXCEPT ![c] = n]
    BY <1>5 DEF Resume, IInv, TypeOK
  <2> HIDE DEF n
  <2>3. Undone(c)
    BY <1>5, <2>1, <2>2 DEF Resume, Undone
  <2> QED  BY <1>1, <1>5, <2>3, UndoneAside DEF Resume, ClusterTyped, IInv, TypeOK
<1>6. CASE DeferredStepFails(c)
  <2> DEFINE m == [cmd[c] EXCEPT !.stranded = TRUE]
  <2>1. /\ m \in Process /\ m.pc = cmd[c].pc /\ m.kind = cmd[c].kind /\ m.old = cmd[c].old
        /\ m.created = cmd[c].created /\ m.result = cmd[c].result
    BY <1>1 DEF Process
  <2>2. ASSUME m.pc = "cleanup" PROVE Undone(c)
    <3> DEFINE n == AfterCleanup(m)
    <3>1. cmd' = [cmd EXCEPT ![c] = n]
      BY <1>6, <2>2 DEF DeferredStepFails
    <3> HIDE DEF m
    <3>2. /\ n \in Process /\ n.kind = m.kind /\ n.old = m.old /\ ~n.created /\ n.result = m.result
          /\ IF m.kind = "rotate" /\ m.result = "ok" THEN n.pc = "patchSecret"
             ELSE n.pc \in {"deleteTemp", "resume", "done"}
      BY <2>1, AfterCleanupType
    <3> HIDE DEF n
    <3> QED  BY <2>1, <2>2, <3>1, <3>2 DEF Undone, Rotates
  <2>3. ASSUME m.pc = "deleteTemp" PROVE Undone(c)
    <3> DEFINE k == [m EXCEPT !.temp = FALSE]
               n == [k EXCEPT !.pc = Deferred(k)]
    <3>1. cmd' = [cmd EXCEPT ![c] = n]
      BY <1>6, <2>3 DEF DeferredStepFails
    <3> HIDE DEF m
    <3>2. /\ k \in Process /\ k.kind = m.kind /\ k.old = m.old /\ ~k.created /\ k.result = m.result
      BY <1>2, <2>1, <2>3 DEF Process
    <3> HIDE DEF k
    <3>3. /\ n \in Process /\ n.kind = k.kind /\ n.old = k.old /\ ~n.created /\ n.result = k.result
          /\ n.pc \in {"deleteTemp", "resume", "done"}
      BY <3>2, DeferredMoves
    <3> HIDE DEF n
    <3> QED  BY <2>1, <2>3, <3>1, <3>2, <3>3 DEF Undone
  <2>4. ASSUME m.pc = "resume" PROVE Undone(c)
    <3> DEFINE k == [m EXCEPT !.bracket = FALSE]
               n == [k EXCEPT !.pc = Deferred(k)]
    <3>1. cmd' = [cmd EXCEPT ![c] = n]
      BY <1>6, <2>4 DEF DeferredStepFails
    <3> HIDE DEF m
    <3>2. /\ k \in Process /\ k.kind = m.kind /\ k.old = m.old /\ ~k.created /\ k.result = m.result
      BY <1>2, <2>1, <2>4 DEF Process
    <3> HIDE DEF k
    <3>3. /\ n \in Process /\ n.kind = k.kind /\ n.old = k.old /\ ~n.created /\ n.result = k.result
          /\ n.pc \in {"deleteTemp", "resume", "done"}
      BY <3>2, DeferredMoves
    <3> HIDE DEF n
    <3> QED  BY <2>1, <2>4, <3>1, <3>2, <3>3 DEF Undone
  <2>5. Undone(c)
    BY <1>1, <2>1, <2>2, <2>3, <2>4
  <2>6. faults' \in 0..MaxFaults
    BY <1>6, FaultsBounded DEF DeferredStepFails
  <2>7. UNCHANGED <<cluster, job>> /\ ClusterTyped'
    BY <1>6, <2>6 DEF DeferredStepFails, cluster, ClusterTyped, IInv, TypeOK
  <2>8. job' \in [Commands -> Job]
    BY <2>7 DEF IInv, TypeOK
  <2> QED  BY <1>1, <2>5, <2>7, <2>8, UndoneAside DEF cluster
<1> QED  BY <1>3, <1>4, <1>5, <1>6

-------------------------------------------------------------------------------
(* Jobs *)

\* A change of a Job leaves the Secret alone.
LEMMA JobAside ==
  ASSUME IInv, NEW c \in Commands, NEW j \in Job, job' = [job EXCEPT ![c] = j],
         UNCHANGED <<suspended, held, initialized, initJob, secret, claim, temp, cmd>>,
         keys \subseteq keys', keys' \subseteq Passwords, faults' \in 0..MaxFaults,
         job[c].state # "none", Rotates(c) /\ j.state = "succeeded" => c \in keys',
         job[c].worked => j.worked, Works(c) /\ j.state = "succeeded" => j.worked
  PROVE  Aside(c)
<1>1. Others(c) /\ job'[c] = j
  BY JobTyped DEF Others, IInv, TypeOK
<1>2. OrderOf(c) /\ KeyOf(c) /\ WorkOf(c) /\ TempOf(c)
  BY DEF IInv, TypeOK, InOrder, KeyFirst, WorkDone, TempOf, Rotates
<1>3. Own(c)
  BY <1>1, <1>2 DEF Own, OrderOf, KeyOf, WorkOf, Works, TempOf, Past, Rotates
<1> QED  BY <1>1, <1>3 DEF Aside, ClusterTyped, IInv, TypeOK

\* What Kubernetes, restic and other users do to a Job.
LEMMA KubernetesAside ==
  ASSUME IInv, NEW c \in Commands, Kubernetes(c) \/ DeletedByOther(c)
  PROVE  Aside(c)
<1> USE DEF cluster
<1>1. job[c] \in Job /\ secret \in Passwords /\ c \in Passwords
  BY DEF IInv, TypeOK, Passwords
<1>2. job[c].state # "none" /\ faults' \in 0..MaxFaults
  BY FaultsBounded DEF Kubernetes, StartPod, JobSucceeds, JobFails, DumpFails, PodStops, Expire,
     DeletedByOther, IInv, TypeOK
<1>3. UNCHANGED <<suspended, held, initialized, initJob, secret, claim, temp, cmd>>
  BY DEF Kubernetes, StartPod, JobSucceeds, JobFails, DumpFails, PodStops, Expire, DeletedByOther
<1>4. keys \subseteq keys' /\ keys' \subseteq Passwords
  BY <1>1 DEF Kubernetes, StartPod, JobSucceeds, JobFails, DumpFails, PodStops, Expire,
     DeletedByOther, Worked, IInv, TypeOK
<1> DEFINE Fits(j) == /\ Rotates(c) /\ j.state = "succeeded" => c \in keys'
                      /\ job[c].worked => j.worked
                      /\ Works(c) /\ j.state = "succeeded" => j.worked
<1>5. \E j \in Job : /\ job' = [job EXCEPT ![c] = j]
                     /\ Fits(j)
  <2>1. CASE StartPod(c)
    <3> DEFINE j == [job[c] EXCEPT !.state = "running", !.password = secret]
    <3>1. j \in Job /\ j.state = "running" /\ j.worked = job[c].worked
      BY <1>1 DEF Job
    <3>2. job' = [job EXCEPT ![c] = j]
      BY <2>1 DEF StartPod, IInv, TypeOK
    <3> QED  BY <3>1, <3>2
  <2>2. CASE JobSucceeds(c)
    <3> DEFINE j == [job[c] EXCEPT !.state = "succeeded", !.worked = TRUE]
    <3>1. j \in Job /\ j.worked
      BY <1>1 DEF Job
    <3>2. job' = [job EXCEPT ![c] = j]
      BY <2>2 DEF JobSucceeds, IInv, TypeOK
    <3>3. Rotates(c) => c \in keys'
      BY <2>2 DEF JobSucceeds, Worked, Rotates
    <3> QED  BY <3>1, <3>2, <3>3
  <2>3. ASSUME NEW state \in {"failed", "gone"}, job' = [job EXCEPT ![c].state = state]
        PROVE  \E j \in Job : /\ job' = [job EXCEPT ![c] = j]
                              /\ Fits(j)
    <3> DEFINE j == [job[c] EXCEPT !.state = state]
    <3>1. j \in Job /\ j.state = state /\ j.worked = job[c].worked
      BY <1>1 DEF Job
    <3>2. job' = [job EXCEPT ![c] = j]
      BY <2>3 DEF IInv, TypeOK
    <3> QED  BY <3>1, <3>2
  <2>4. CASE DumpFails(c)
    <3> DEFINE j == [job[c] EXCEPT !.state = "succeeded"]
    <3>1. j \in Job /\ ~Rotates(c) /\ ~Works(c) /\ j.worked = job[c].worked
      BY <1>1, <2>4 DEF Job, DumpFails, Rotates, Works
    <3>2. job' = [job EXCEPT ![c] = j]
      BY <2>4 DEF DumpFails, IInv, TypeOK
    <3> QED  BY <3>1, <3>2
  <2> QED
    BY <2>1, <2>2, <2>3, <2>4 DEF Kubernetes, JobFails, PodStops, Expire, DeletedByOther
<1> QED  BY <1>2, <1>3, <1>4, <1>5, JobAside

-------------------------------------------------------------------------------
(* Steps with the Secret and the keys *)

\* The password of c goes into the Secret, and c has ended.
LEMMA Replaces ==
  ASSUME IInv, NEW c \in Commands, NEW result \in {"ok", "failed"}, Ends(c, result),
         cmd[c].pc = "patchSecret", secret' = c, faults' \in 0..MaxFaults,
         UNCHANGED <<suspended, held, initialized, initJob, keys, claim, temp, job>>
  PROVE  IInv'
<1>1. ~cmd[c].created /\ ~Past(c) /\ Rotates(c) /\ c \in keys
  BY DEF IInv, InOrder, OrderOf, KeyFirst, KeyOf, WorkDone, WorkOf, Works, Past
<1>2. PICK n \in Process :
        /\ cmd' = [cmd EXCEPT ![c] = n]
        /\ n.kind = cmd[c].kind /\ n.old = cmd[c].old /\ ~n.created /\ n.result = result
        /\ n.pc \in {"deleteTemp", "resume", "done"}
  BY <1>1 DEF Ends
<1>3. Others(c) /\ cmd'[c] = n
  BY <1>2, Moves DEF IInv, TypeOK
<1>4. ASSUME NEW d \in Commands PROVE (Past(d) => Past(d)') /\ cmd'[d].old = cmd[d].old
  BY <1>2, <1>3 DEF Others, Past
<1>5. ASSUME NEW d \in Commands PROVE cmd[d].old # c
  BY <1>1 DEF IInv, Replaced
<1>6. TypeOK'
  BY <1>2, <1>3 DEF Others, IInv, TypeOK, Passwords
<1>7. InOrder'
  BY <1>2, <1>3 DEF Others, IInv, InOrder, OrderOf, Past, Rotates
<1>8. Past(c)'
  BY <1>2, <1>3 DEF Past
<1>9. Replaced'
  <2> SUFFICES ASSUME NEW e \in Commands, NEW d \in Commands, secret' = d \/ cmd'[e].old = d
               PROVE  Past(d)'
    BY DEF Replaced
  <2>1. CASE d = c
    BY <1>8, <2>1
  <2>2. CASE cmd[e].old = d
    BY <1>4, <2>2 DEF IInv, Replaced
  <2> QED  BY <1>4, <2>1, <2>2
<1>10. KeyFirst'
  <2> SUFFICES ASSUME NEW d \in Commands PROVE KeyOf(d)'
    BY DEF KeyFirst
  <2>1. secret' # cmd'[d].old
    BY <1>4, <1>5
  <2>2. CASE d = c
    BY <1>1, <1>8, <2>1, <2>2 DEF KeyOf
  <2>3. CASE d # c
    BY <1>3, <2>1, <2>3 DEF Others, IInv, KeyFirst, KeyOf, Past, Rotates
  <2> QED  BY <2>2, <2>3
<1>11. WorkDone'
  <2>1. job[c].worked
    BY <1>1 DEF IInv, InOrder, OrderOf, WorkDone, WorkOf, Works, Rotates
  <2> QED  BY <1>3, <2>1 DEF Others, IInv, WorkDone, WorkOf, Works
<1> QED  BY <1>1, <1>6, <1>7, <1>9, <1>10, <1>11 DEF IInv, SecretOpens

\* The patch of the Secret.
LEMMA PatchSecretKeeps ==
  ASSUME IInv, NEW c \in Commands, PatchSecret(c)
  PROVE  IInv'
<1>1. Ends(c, "ok")
  BY UnwindEnds DEF PatchSecret
<1> QED  BY <1>1, Replaces DEF PatchSecret, IInv, TypeOK

\* A call that was done and whose reply is lost.
LEMMA ReplyLostKeeps ==
  ASSUME IInv, NEW c \in Commands, ReplyLost(c)
  PROVE  IInv'
<1> USE DEF cluster
<1>1. Ends(c, "failed") /\ faults' \in 0..MaxFaults
  BY UnwindEnds, FaultsBounded DEF ReplyLost
<1>2. CASE cmd[c].pc = "create"
  <2> DEFINE j == [job[c] EXCEPT !.state = "pending"]
  <2>1. /\ job' = [job EXCEPT ![c] = j] /\ UNCHANGED cluster
        /\ j \in Job /\ j.state = "pending" /\ j.worked = job[c].worked
    <3>1. job[c] \in Job
      BY DEF IInv, TypeOK
    <3> QED  BY <1>2, <3>1 DEF ReplyLost, Job, IInv, TypeOK
  <2> HIDE DEF j
  <2>2. job' \in [Commands -> Job] /\ job'[c] = j /\ \A d \in Commands \ {c} : job'[d] = job[d]
    BY <2>1, JobTyped
  <2>3. ClusterTyped' /\ ~cmd[c].created /\ ~Past(c)
    BY <1>1, <1>2, <2>1 DEF ClusterTyped, IInv, TypeOK, InOrder, OrderOf, Past
  <2>4. Aside(c)
    BY <1>1, <2>1, <2>2, <2>3, EndsAside
  <2> QED  BY <2>4, AsideKeeps
<1>3. CASE cmd[c].pc \in {"suspend", "temp"}
  <2>1. UNCHANGED <<secret, keys, job>> /\ temp \subseteq temp' /\ ClusterTyped' /\ ~Past(c)
    BY <1>1, <1>3 DEF ReplyLost, ClusterTyped, IInv, TypeOK, Past
  <2>2. Aside(c)
    BY <1>1, <2>1, EndsAside DEF IInv, TypeOK
  <2> QED  BY <2>2, AsideKeeps
<1>4. CASE cmd[c].pc = "patchSecret"
  BY <1>1, <1>4, Replaces DEF ReplyLost
<1> QED  BY <1>2, <1>3, <1>4 DEF ReplyLost

\* A command begins: what it reads from the Secret does not return to it.
LEMMA BeginKeeps ==
  ASSUME IInv, NEW c \in Commands, NEW kind \in Kinds, Begin(c, kind)
  PROVE  IInv'
<1>1. cmd[c].pc = "idle" /\ cmd[c] = NoProcess /\ job[c].state = "none"
  BY DEF Begin, IInv, InOrder, OrderOf
<1>2. PICK n \in Process :
        /\ cmd' = [cmd EXCEPT ![c] = n]
        /\ n.kind = kind /\ n.old = secret /\ ~n.created
        /\ \/ n.pc = "done" /\ (kind = "rotate" => n.result = "failed")
           \/ /\ n.pc \in {"confirm", "claim", "temp", "create", "deleteJobs", "patch"}
              /\ kind = "rotate" => n.pc = "temp"
              /\ n.pc = "patch" => kind \in {"suspend", "resume"}
              /\ n.pc = "deleteJobs" => kind = "reinit"
        /\ n.result = "ok" => kind \in {"suspend", "resume"}
  <2> DEFINE m == [NoProcess EXCEPT !.kind = kind, !.sawSuspended = suspended, !.old = secret,
                                    !.sawInitialized = kind = "reinit" /\ initialized]
  <2>1. m \in Process /\ m.kind = kind /\ m.old = secret /\ ~m.created /\ m.result = "none"
    BY DEF Process, NoProcess, IInv, TypeOK
  <2>2. Already(kind) => kind # "rotate" /\ kind \in {"suspend", "resume"}
    BY DEF Already
  <2>3. CASE Already(kind)
    <3> DEFINE n == [m EXCEPT !.pc = "done", !.result = "ok"]
    <3>1. cmd' = [cmd EXCEPT ![c] = n]
      BY <2>2, <2>3 DEF Begin
    <3> HIDE DEF m
    <3>2. n \in Process /\ n.kind = kind /\ n.old = secret /\ ~n.created /\ n.pc = "done"
      BY <2>1 DEF Process
    <3> QED  BY <2>2, <2>3, <3>1, <3>2
  <2>4. CASE kind = "rotate" /\ ~initialized
    <3> DEFINE n == [m EXCEPT !.pc = "done", !.result = "failed"]
    <3>1. cmd' = [cmd EXCEPT ![c] = n]
      BY <2>2, <2>4 DEF Begin
    <3> HIDE DEF m
    <3>2. /\ n \in Process /\ n.kind = kind /\ n.old = secret /\ ~n.created /\ n.pc = "done"
          /\ n.result = "failed"
      BY <2>1 DEF Process
    <3> QED  BY <3>1, <3>2
  <2>5. CASE ~Already(kind) /\ ~(kind = "rotate" /\ ~initialized)
    <3> DEFINE pc == FirstStep(kind)
               n == [m EXCEPT !.pc = pc]
    <3>1. cmd' = [cmd EXCEPT ![c] = n]
      BY <2>5 DEF Begin
    <3> HIDE DEF m
    <3>2. /\ pc \in {"confirm", "claim", "temp", "create", "deleteJobs", "patch"}
          /\ kind = "rotate" => pc = "temp"
          /\ pc = "patch" => kind \in {"suspend", "resume"}
          /\ pc = "deleteJobs" => kind = "reinit"
      BY InputAssumption DEF FirstStep
    <3> HIDE DEF pc
    <3>3. n \in Process /\ n.kind = kind /\ n.old = secret /\ ~n.created /\ n.pc = pc
          /\ n.result = "none"
      BY <2>1, <3>2 DEF Process
    <3> QED  BY <3>1, <3>2, <3>3
  <2> QED  BY <2>3, <2>4, <2>5
<1>3. Others(c) /\ cmd'[c] = n /\ UNCHANGED <<secret, keys, temp, job>>
  BY <1>2, Moves DEF Begin, IInv, TypeOK
<1>4. TypeOK'
  BY <1>2, <1>3 DEF Begin, Others, IInv, TypeOK, Restoring, Active
<1>5. InOrder' /\ KeyFirst' /\ WorkDone'
  <2> SUFFICES ASSUME NEW d \in Commands PROVE OrderOf(d)' /\ KeyOf(d)' /\ WorkOf(d)'
    BY DEF InOrder, KeyFirst, WorkDone
  <2>1. CASE d = c
    BY <1>1, <1>2, <1>3, <2>1 DEF OrderOf, KeyOf, WorkOf, Works, Past, Rotates
  <2>2. CASE d # c
    <3>1. cmd'[d] = cmd[d] /\ job'[d] = job[d] /\ UNCHANGED <<secret, keys, temp>>
      BY <1>3, <2>2 DEF Others
    <3>2. OrderOf(d) /\ KeyOf(d) /\ WorkOf(d)
      BY DEF IInv, InOrder, KeyFirst, WorkDone
    <3> QED  BY <3>1, <3>2 DEF OrderOf, KeyOf, WorkOf, Works, Past, Rotates
  <2> QED  BY <2>1, <2>2
<1>6. Replaced'
  <2> SUFFICES ASSUME NEW e \in Commands, NEW d \in Commands, secret' = d \/ cmd'[e].old = d
               PROVE  Past(d)'
    BY DEF Replaced
  <2>1. secret = d \/ cmd[e].old = d
    BY <1>2, <1>3 DEF Others
  <2>2. Past(d)
    BY <2>1 DEF IInv, Replaced
  <2>3. d # c
    BY <1>1, <2>2 DEF Past
  <2> QED  BY <1>3, <2>2, <2>3 DEF Others, Past
<1> QED  BY <1>3, <1>4, <1>5, <1>6 DEF IInv, SecretOpens

\* The user removes a key that is not in the Secret.
LEMMA RemoveOldKeyKeeps ==
  ASSUME IInv, NEW c \in Commands, RemoveOldKey(c)
  PROVE  IInv'
<1>1. secret # cmd[c].old
  BY DEF RemoveOldKey, IInv, KeyFirst, KeyOf, WorkDone, WorkOf, Works, Past, Rotates
<1>2. keys' = keys \ {cmd[c].old}
  BY DEF RemoveOldKey
<1>3. TypeOK' /\ InOrder' /\ Replaced' /\ WorkDone'
  BY <1>2 DEF RemoveOldKey, IInv, TypeOK, InOrder, OrderOf, Replaced, WorkDone, WorkOf, Works,
     Past, Rotates
<1>4. KeyFirst'
  <2> SUFFICES ASSUME NEW d \in Commands PROVE KeyOf(d)'
    BY DEF KeyFirst
  <2>1. ~Past(d) => cmd[c].old # d
    BY DEF IInv, Replaced
  <2> QED
    BY <1>2, <2>1 DEF RemoveOldKey, IInv, KeyFirst, KeyOf, Past, Rotates
<1> QED  BY <1>1, <1>2, <1>3, <1>4 DEF RemoveOldKey, IInv, SecretOpens

\* The operator and its init Job.
LEMMA OperatorKeeps ==
  ASSUME IInv, Operator
  PROVE  IInv'
<1>1. UNCHANGED <<suspended, held, secret, keys, claim, temp, job, cmd, faults>>
  BY DEF Operator, CreateInitJob, RunInit, RecordInit
<1>2. /\ initialized' \in BOOLEAN
      /\ initJob' \in [state : {"none", "running", "succeeded", "failed"}, password : Passwords]
  <2> DEFINE InitJobs ==
        [state : {"none", "running", "succeeded", "failed"}, password : Passwords]
  <2>1. initialized \in BOOLEAN /\ initJob \in InitJobs /\ secret \in Passwords
    BY DEF IInv, TypeOK
  <2>2. ASSUME NEW state \in {"none", "running", "succeeded", "failed"}
        PROVE  [initJob EXCEPT !.state = state] \in InitJobs
    BY <2>1
  <2>3. CASE CreateInitJob
    BY <2>1, <2>3 DEF CreateInitJob
  <2>4. CASE RunInit
    BY <2>1, <2>2, <2>4 DEF RunInit
  <2>5. CASE RecordInit
    BY <2>1, <2>2, <2>5 DEF RecordInit
  <2> QED  BY <2>3, <2>4, <2>5 DEF Operator
<1> QED
  BY <1>1, <1>2 DEF IInv, TypeOK, InOrder, OrderOf, KeyFirst, KeyOf, WorkDone, WorkOf, Works,
     Replaced, SecretOpens, Past, Rotates

-------------------------------------------------------------------------------
(* Theorems *)

\* No command has begun.
LEMMA IInvInit == Init => IInv
<1> SUFFICES ASSUME Init PROVE IInv
  OBVIOUS
<1>1. NoJob \in Job /\ NoProcess \in Process
  BY DEF NoJob, Job, NoProcess, Process, Passwords
<1>2. \A c \in Commands : cmd[c] = NoProcess /\ job[c] = NoJob
  BY DEF Init
<1>3. /\ NoProcess.pc = "idle" /\ NoProcess.kind = "none" /\ NoProcess.old = Original
      /\ ~NoProcess.created /\ NoProcess.result = "none" /\ NoJob.state = "none"
  BY DEF NoProcess, NoJob
<1>4. TypeOK
  <2>1. cmd \in [Commands -> Process] /\ job \in [Commands -> Job]
    BY <1>1 DEF Init
  <2>2. initJob \in [state : {"none", "running", "succeeded", "failed"}, password : Passwords]
    BY DEF Init, Passwords
  <2>3. suspended \in BOOLEAN /\ held \in BOOLEAN /\ initialized \in BOOLEAN /\ claim \in BOOLEAN
    BY Zenon DEF Init
  <2>4. /\ secret \in Passwords /\ keys \subseteq Passwords /\ temp \subseteq Commands
        /\ faults \in 0..MaxFaults
    BY InputAssumption DEF Init, Passwords
  <2> QED  BY <1>2, <1>3, <2>1, <2>2, <2>3, <2>4 DEF TypeOK
<1>5. InOrder /\ KeyFirst /\ WorkDone
  BY <1>2, <1>3 DEF InOrder, OrderOf, KeyFirst, KeyOf, WorkDone, WorkOf, Works, Rotates, Past
<1>6. Replaced
  BY <1>2, <1>3, InputAssumption DEF Init, Replaced
<1> QED  BY <1>4, <1>5, <1>6 DEF Init, IInv, SecretOpens

\* Every step keeps the invariant.
LEMMA IInvStep == IInv /\ [Next]_vars => IInv'
<1> SUFFICES ASSUME IInv, [Next]_vars PROVE IInv'
  OBVIOUS
<1>1. CASE UNCHANGED vars
  BY <1>1 DEF vars, IInv, TypeOK, InOrder, OrderOf, KeyFirst, KeyOf, WorkDone, WorkOf, Works,
     Replaced, SecretOpens, Past, Rotates
<1>2. ASSUME NEW c \in Commands, Step(c) PROVE IInv'
  BY <1>2, StepsOn, CreateJobAside, EndingAside, DeferredAside, AsideKeeps,
     PatchSecretKeeps DEF Step
<1>3. ASSUME NEW c \in Commands, User(c) PROVE IInv'
  BY <1>3, BeginKeeps, ConfirmAside, EndingAside, AsideKeeps, RemoveOldKeyKeeps DEF User
<1>4. ASSUME NEW c \in Commands, Kubernetes(c) PROVE IInv'
  BY <1>4, KubernetesAside, AsideKeeps
<1>5. ASSUME NEW c \in Commands, Trouble(c) PROVE IInv'
  BY <1>5, Fails, KillAside, DeferredAside, KubernetesAside, AsideKeeps, ReplyLostKeeps DEF Trouble
<1> QED  BY <1>1, <1>2, <1>3, <1>4, <1>5, OperatorKeeps DEF Next

\* The invariant holds in every behaviour.
THEOREM Invariance == Spec => []IInv
BY IInvInit, IInvStep, PTL DEF Spec

\* Commands, Jobs and passwords are what the steps of internal/cli make them, and
\* the temporary Secret of a rotation outlives the Job that mounts it (the order of
\* the defers of runRotatePassword and Run).
THEOREM TypeCorrect == Spec => []TypeOK
<1>1. IInv => TypeOK
  BY DEF IInv
<1> QED  BY <1>1, Invariance, PTL

\* rotate-password adds the key in a Job before it replaces the Secret, and only a
\* password that has left the Secret for good is removed (runRotatePassword): the
\* Secret opens the repository, however many rotations run side by side, fail, are
\* interrupted or killed.
THEOREM SecretAlwaysOpens == Spec => []SecretOpens
<1>1. IInv => SecretOpens
  BY DEF IInv
<1> QED  BY <1>1, Invariance, PTL

\* Success of a restore, of exec or of a rotation means that its Job has done its
\* work (Wait in internal/cli/runner), though Jobs go, end late or were deleted by
\* others.
THEOREM OkAlwaysMeansDone == Spec => []OkMeansDone
<1>1. IInv => OkMeansDone
  BY DEF IInv, WorkDone, WorkOf, Works, OkMeansDone
<1> QED  BY <1>1, Invariance, PTL
===============================================================================
