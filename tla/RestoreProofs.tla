----------------------------- MODULE RestoreProofs -----------------------------
(***************************************************************************)
(* Theorem about CorgCommands, for any number of commands side by side:    *)
(* restores in place give the schedule back as they found it.              *)
(***************************************************************************)
EXTENDS CorgProofs

-------------------------------------------------------------------------------
(* The inductive invariant, beside IInv *)

InPlace(c) == cmd[c].kind = "in-place"

\* A command resumes only what it has suspended itself, and one that has can tell
\* until it has resumed it or is stranded.
BracketOf(c) ==
  /\ cmd[c].pc = "suspend" => InPlace(c)
  /\ cmd[c].pc = "resume" => cmd[c].bracket
  /\ cmd[c].bracket => InPlace(c) /\ ~cmd[c].sawSuspended
  /\ cmd[c].bracket /\ ~cmd[c].stranded => Active(c)
  /\ InPlace(c) /\ Active(c) /\ ~cmd[c].sawSuspended => ~held

\* Somebody will resume the schedule.
Bracketed == \E c \in Commands : cmd[c].bracket /\ Active(c)

Brackets == \A c \in Commands : BracketOf(c)

RInv ==
  /\ Brackets
  /\ held => suspended
  /\ Undisturbed /\ suspended /\ ~held => Bracketed

-------------------------------------------------------------------------------
(* Steps that leave the schedule alone *)

\* n follows m in a command that is under way: it knows what m knew.
Follows(m, n) ==
  /\ n \in Process /\ n.kind = m.kind /\ n.sawSuspended = m.sawSuspended
  /\ m.stranded => n.stranded
  /\ n.pc = "suspend" => n.kind = "in-place"
  /\ n.pc = "resume" => n.bracket
  /\ n.bracket => m.bracket
  /\ m.bracket /\ ~n.stranded => n.bracket /\ n.pc \notin {"idle", "done"}

Advances(c) == \E n : cmd' = [cmd EXCEPT ![c] = n] /\ Follows(cmd[c], n)

\* A step of a command that leaves the schedule to the others.
LEMMA AdvanceKeeps ==
  ASSUME IInv, RInv, NEW c \in Commands, Active(c), Advances(c), UNCHANGED <<suspended, held>>
  PROVE  RInv'
<1>1. PICK n : cmd' = [cmd EXCEPT ![c] = n] /\ Follows(cmd[c], n)
  BY DEF Advances
<1>2. cmd'[c] = n /\ \A d \in Commands \ {c} : cmd'[d] = cmd[d]
  BY <1>1 DEF IInv, TypeOK
<1>3. ASSUME NEW d \in Commands
      PROVE  /\ BracketOf(d)' /\ cmd'[d].kind = cmd[d].kind
             /\ cmd[d].stranded => cmd'[d].stranded
             /\ cmd[d].bracket /\ Active(d) /\ ~cmd'[d].stranded => cmd'[d].bracket /\ Active(d)'
  <2>1. BracketOf(d)
    BY DEF RInv, Brackets
  <2>2. CASE d = c
    BY <1>1, <1>2, <2>1, <2>2 DEF Follows, BracketOf, InPlace, Active
  <2>3. CASE d # c
    BY <1>2, <2>1, <2>3 DEF BracketOf, InPlace, Active
  <2> QED  BY <2>2, <2>3
<1>4. Undisturbed' => Undisturbed
  BY <1>3 DEF Undisturbed, IInv, TypeOK
<1>5. Undisturbed' /\ Bracketed => Bracketed'
  BY <1>3 DEF Undisturbed, Bracketed
<1> QED  BY <1>3, <1>4, <1>5 DEF RInv, Brackets

\* A step that no command takes.
LEMMA StutterKeeps ==
  ASSUME RInv, UNCHANGED <<suspended, held, cmd>>
  PROVE  RInv'
BY DEF RInv, Brackets, BracketOf, InPlace, Active, Bracketed, Undisturbed

\* What was deferred last comes next; a suspension is not forgotten.
LEMMA Defers ==
  ASSUME NEW m \in Process
  PROVE  /\ Deferred(m) \in {"cleanup", "deleteTemp", "resume", "done"}
         /\ Deferred(m) = "resume" => m.bracket
         /\ m.bracket => Deferred(m) # "done"
BY DEF Deferred, Process

\* A process that goes on to what comes next.
LEMMA NextFollows ==
  ASSUME NEW m \in Process, NEW n \in Process, n.kind = m.kind, n.sawSuspended = m.sawSuspended,
         m.stranded => n.stranded, n.bracket => m.bracket,
         m.bracket /\ ~n.stranded => n.bracket,
         NEW k \in Process, k.bracket = n.bracket, n.pc = Deferred(k)
  PROVE  Follows(m, n)
<1>1. /\ Deferred(k) \in {"cleanup", "deleteTemp", "resume", "done"}
      /\ Deferred(k) = "resume" => k.bracket
      /\ k.bracket => Deferred(k) # "done"
  BY Defers
<1> QED  BY <1>1 DEF Follows

\* Unwind, and what a command notes beside it.
LEMMA UnwindFollows ==
  ASSUME NEW m \in Process, NEW result \in {"ok", "failed"}
  PROVE  LET u == Unwind(m, result) IN
         /\ Follows(m, u)
         /\ Follows(m, [u EXCEPT !.stranded = TRUE])
         /\ Follows(m, [u EXCEPT !.interrupted = TRUE])
<1> DEFINE u == Unwind(m, result)
<1>1. Deferred(m) \in {"cleanup", "deleteTemp", "resume", "done"}
  BY Defers
<1>2. /\ u \in Process /\ u.kind = m.kind /\ u.sawSuspended = m.sawSuspended
      /\ u.stranded = m.stranded /\ u.bracket = m.bracket /\ u.pc = Deferred(m)
  BY <1>1 DEF Unwind, Process
<1> HIDE DEF u
<1>3. ASSUME NEW n \in {u, [u EXCEPT !.stranded = TRUE], [u EXCEPT !.interrupted = TRUE]}
      PROVE  /\ n \in Process /\ n.kind = u.kind /\ n.sawSuspended = u.sawSuspended
             /\ n.bracket = u.bracket /\ n.pc = u.pc /\ (u.stranded => n.stranded)
  BY <1>2, <1>3 DEF Process
<1>4. ASSUME NEW n \in {u, [u EXCEPT !.stranded = TRUE], [u EXCEPT !.interrupted = TRUE]}
      PROVE  Follows(m, n)
  BY <1>2, <1>3, <1>4, NextFollows
<1> QED  BY <1>4 DEF u

\* So it is with the process of c.
LEMMA UnwindAdvances ==
  ASSUME IInv, NEW c \in Commands, NEW result \in {"ok", "failed"},
         \/ cmd' = [cmd EXCEPT ![c] = Unwind(@, result)]
         \/ cmd' = [cmd EXCEPT ![c] = [Unwind(@, result) EXCEPT !.stranded = TRUE]]
         \/ cmd' = [cmd EXCEPT ![c] = [Unwind(@, result) EXCEPT !.interrupted = TRUE]]
  PROVE  Advances(c)
<1> DEFINE u == Unwind(cmd[c], result)
<1>1. cmd[c] \in Process
  BY DEF IInv, TypeOK
<1>2. /\ Follows(cmd[c], u) /\ Follows(cmd[c], [u EXCEPT !.stranded = TRUE])
      /\ Follows(cmd[c], [u EXCEPT !.interrupted = TRUE])
  BY <1>1, UnwindFollows
<1>3. \/ cmd' = [cmd EXCEPT ![c] = u]
      \/ cmd' = [cmd EXCEPT ![c] = [u EXCEPT !.stranded = TRUE]]
      \/ cmd' = [cmd EXCEPT ![c] = [u EXCEPT !.interrupted = TRUE]]
  BY DEF IInv, TypeOK
<1> HIDE DEF u
<1> QED  BY <1>2, <1>3 DEF Advances

\* A command that goes on to a call.
LEMMA GotoAdvances ==
  ASSUME IInv, NEW c \in Commands, NEW pc \in Pcs \ {"idle", "done", "resume"}, Goto(c, pc),
         pc = "suspend" => InPlace(c)
  PROVE  Advances(c)
<1> DEFINE n == [cmd[c] EXCEPT !.pc = pc]
<1>1. cmd' = [cmd EXCEPT ![c] = n]
  BY DEF Goto
<1>2. cmd[c] \in Process
  BY DEF IInv, TypeOK
<1>3. Follows(cmd[c], n)
  BY <1>2 DEF Follows, Process, Pcs, InPlace
<1> QED  BY <1>1, <1>3 DEF Advances

-------------------------------------------------------------------------------
(* The actions *)

\* Commands that end, or fail.
LEMMA EndingBrackets ==
  ASSUME IInv, RInv, NEW c \in Commands,
         \/ WaitForJob(c) \/ EndSession(c) \/ Interrupt(c) \/ ClearInitialized(c) \/ PatchSecret(c)
         \/ CallFails(c) \/ WaitTimesOut(c)
  PROVE  RInv'
<1>1. Active(c) /\ UNCHANGED <<suspended, held>>
  BY DEF WaitForJob, EndSession, Interrupt, ClearInitialized, PatchSecret, CallFails, WaitTimesOut,
     Active, cluster
<1>2. PICK result \in {"ok", "failed"} :
        \/ cmd' = [cmd EXCEPT ![c] = Unwind(@, result)]
        \/ cmd' = [cmd EXCEPT ![c] = [Unwind(@, result) EXCEPT !.interrupted = TRUE]]
  BY DEF WaitForJob, EndSession, Interrupt, ClearInitialized, PatchSecret, CallFails, WaitTimesOut,
     Fail
<1> QED  BY <1>1, <1>2, UnwindAdvances, AdvanceKeeps

\* Commands that go on to a call.
LEMMA CallBrackets ==
  ASSUME IInv, RInv, NEW c \in Commands,
         CreateClaim(c) \/ DeleteInitJobs(c) \/ Confirm(c)
  PROVE  RInv'
<1>1. Active(c) /\ UNCHANGED <<suspended, held>>
  BY DEF CreateClaim, DeleteInitJobs, Confirm, Active, cluster
<1>2. \/ Fail(c)
      \/ \E pc \in Pcs \ {"idle", "done", "resume"} : Goto(c, pc) /\ (pc = "suspend" => InPlace(c))
  BY DEF CreateClaim, DeleteInitJobs, Confirm, Pcs, InPlace
<1> QED  BY <1>1, <1>2, UnwindAdvances, GotoAdvances, AdvanceKeeps DEF Fail

\* Commands that create what they have to delete.
LEMMA CreateBrackets ==
  ASSUME IInv, RInv, NEW c \in Commands, CreateTemp(c) \/ CreateJob(c)
  PROVE  RInv'
<1>1. Active(c) /\ UNCHANGED <<suspended, held>>
  BY DEF CreateTemp, CreateJob, Active, cluster
<1>2. cmd[c] \in Process
  BY DEF IInv, TypeOK
<1>3. /\ Follows(cmd[c], [cmd[c] EXCEPT !.pc = "create", !.temp = TRUE])
      /\ Follows(cmd[c], [cmd[c] EXCEPT !.pc = "wait", !.created = TRUE])
  BY <1>2 DEF Follows, Process
<1>4. Advances(c)
  BY <1>3 DEF CreateTemp, CreateJob, Advances, IInv, TypeOK
<1> QED  BY <1>1, <1>4, AdvanceKeeps

\* A process that is killed knows nothing any more.
LEMMA KillBrackets ==
  ASSUME IInv, RInv, NEW c \in Commands, Kill(c)
  PROVE  RInv'
<1> DEFINE n == [cmd[c] EXCEPT !.pc = "done", !.result = "killed", !.stranded = TRUE]
<1>1. cmd' = [cmd EXCEPT ![c] = n] /\ Active(c) /\ UNCHANGED <<suspended, held>>
  BY DEF Kill, cluster, IInv, TypeOK
<1>2. cmd[c] \in Process
  BY DEF IInv, TypeOK
<1>3. Follows(cmd[c], n)
  BY <1>2 DEF Follows, Process
<1> HIDE DEF n
<1>4. Advances(c)
  BY <1>1, <1>3 DEF Advances
<1> QED  BY <1>1, <1>4, AdvanceKeeps

\* What Cleanup goes on to.
LEMMA CleanupFollows ==
  ASSUME NEW m \in Process
  PROVE  Follows(m, AfterCleanup(m))
<1> DEFINE next == [m EXCEPT !.created = FALSE]
           n == AfterCleanup(m)
<1>1. next \in Process /\ next.bracket = m.bracket
  BY DEF Process
<1>2. Deferred(next) \in {"cleanup", "deleteTemp", "resume", "done"}
  BY <1>1, Defers
<1>3. n = [next EXCEPT !.pc = "patchSecret"] \/ n = [next EXCEPT !.pc = Deferred(next)]
  BY DEF AfterCleanup
<1>4. /\ n \in Process /\ n.kind = m.kind /\ n.sawSuspended = m.sawSuspended
      /\ n.stranded = m.stranded /\ n.bracket = m.bracket
      /\ n.pc = "patchSecret" \/ n.pc = Deferred(next)
  BY <1>2, <1>3 DEF Process
<1> HIDE DEF n, next
<1>5. Follows(m, n)
  <2>1. CASE n.pc = "patchSecret"
    BY <1>4, <2>1 DEF Follows
  <2>2. CASE n.pc = Deferred(next)
    BY <1>1, <1>4, <2>2, NextFollows
  <2> QED  BY <1>4, <2>1, <2>2
<1> QED  BY <1>5 DEF n

\* What a process goes on to that has cleaned up, or could not.
LEMMA DeferredFollows ==
  ASSUME NEW m \in Process, NEW k \in Process, k.kind = m.kind, k.sawSuspended = m.sawSuspended,
         m.stranded => k.stranded, k.bracket => m.bracket, m.bracket /\ ~k.stranded => k.bracket
  PROVE  Follows(m, [k EXCEPT !.pc = Deferred(k)])
<1> DEFINE n == [k EXCEPT !.pc = Deferred(k)]
<1>1. Deferred(k) \in {"cleanup", "deleteTemp", "resume", "done"}
  BY Defers
<1>2. /\ n \in Process /\ n.kind = k.kind /\ n.sawSuspended = k.sawSuspended
      /\ n.stranded = k.stranded /\ n.bracket = k.bracket /\ n.pc = Deferred(k)
  BY <1>1 DEF Process
<1> HIDE DEF n
<1>3. Follows(m, n)
  BY <1>2, NextFollows
<1> QED  BY <1>3 DEF n

\* Follows is transitive, as a command goes on.
LEMMA Stranded ==
  ASSUME NEW m \in Process, NEW n, Follows([m EXCEPT !.stranded = TRUE], n)
  PROVE  Follows(m, n)
BY DEF Follows, Process

\* The Job or the temporary Secret is deleted.
LEMMA CleanupBrackets ==
  ASSUME IInv, RInv, NEW c \in Commands, Cleanup(c) \/ DeleteTemp(c)
  PROVE  RInv'
<1>1. Active(c) /\ UNCHANGED <<suspended, held>>
  BY DEF Cleanup, DeleteTemp, Active, cluster
<1>2. cmd[c] \in Process
  BY DEF IInv, TypeOK
<1>3. CASE Cleanup(c)
  <2>1. cmd' = [cmd EXCEPT ![c] = AfterCleanup(cmd[c])]
    BY <1>3 DEF Cleanup
  <2> QED  BY <1>1, <1>2, <2>1, CleanupFollows, AdvanceKeeps DEF Advances
<1>4. CASE DeleteTemp(c)
  <2> DEFINE m == [cmd[c] EXCEPT !.temp = FALSE]
  <2>1. /\ m \in Process /\ m.kind = cmd[c].kind /\ m.sawSuspended = cmd[c].sawSuspended
        /\ m.stranded = cmd[c].stranded /\ m.bracket = cmd[c].bracket
    BY <1>2 DEF Process
  <2>2. cmd' = [cmd EXCEPT ![c] = [m EXCEPT !.pc = Deferred(m)]]
    BY <1>4 DEF DeleteTemp
  <2> HIDE DEF m
  <2>3. Follows(cmd[c], [m EXCEPT !.pc = Deferred(m)])
    BY <1>2, <2>1, DeferredFollows
  <2> QED  BY <1>1, <2>2, <2>3, AdvanceKeeps DEF Advances
<1> QED  BY <1>3, <1>4

\* A deferred step that fails strands the command.
LEMMA DeferredStepBrackets ==
  ASSUME IInv, RInv, NEW c \in Commands, DeferredStepFails(c)
  PROVE  RInv'
<1> DEFINE m == [cmd[c] EXCEPT !.stranded = TRUE]
           t == [m EXCEPT !.temp = FALSE]
           b == [m EXCEPT !.bracket = FALSE]
<1>1. Active(c) /\ UNCHANGED <<suspended, held>>
  BY DEF DeferredStepFails, Active, cluster
<1>2. cmd[c] \in Process
  BY DEF IInv, TypeOK
<1>3. /\ m \in Process /\ m.pc = cmd[c].pc /\ m.kind = cmd[c].kind
      /\ m.sawSuspended = cmd[c].sawSuspended /\ m.stranded /\ m.bracket = cmd[c].bracket
  BY <1>2 DEF Process
<1>4. /\ t \in Process /\ t.kind = m.kind /\ t.sawSuspended = m.sawSuspended
      /\ t.stranded /\ t.bracket = m.bracket
      /\ b \in Process /\ b.kind = m.kind /\ b.sawSuspended = m.sawSuspended
      /\ b.stranded /\ ~b.bracket
  BY <1>2 DEF Process
<1>5. \/ cmd' = [cmd EXCEPT ![c] = AfterCleanup(m)]
      \/ cmd' = [cmd EXCEPT ![c] = [t EXCEPT !.pc = Deferred(t)]]
      \/ cmd' = [cmd EXCEPT ![c] = [b EXCEPT !.pc = Deferred(b)]]
  BY <1>3 DEF DeferredStepFails
<1>6. Follows(cmd[c], AfterCleanup(m))
  BY <1>2, <1>3, CleanupFollows, Stranded
<1> HIDE DEF m, t, b
<1>7. /\ Follows(cmd[c], [t EXCEPT !.pc = Deferred(t)])
      /\ Follows(cmd[c], [b EXCEPT !.pc = Deferred(b)])
  BY <1>2, <1>3, <1>4, DeferredFollows
<1>8. Advances(c)
  BY <1>5, <1>6, <1>7 DEF Advances
<1> QED  BY <1>1, <1>8, AdvanceKeeps

\* A command that loses a reply; of a suspension it does not know that it has to
\* resume it, and the schedule stays suspended.
LEMMA ReplyLostBrackets ==
  ASSUME IInv, RInv, NEW c \in Commands, ReplyLost(c)
  PROVE  RInv'
<1>1. Active(c) /\ held' = held
  BY DEF ReplyLost, Active, cluster
<1>2. cmd' = [cmd EXCEPT ![c] = [Unwind(@, "failed") EXCEPT !.stranded = TRUE]]
  BY DEF ReplyLost
<1>3. CASE suspended' = suspended
  BY <1>1, <1>2, <1>3, UnwindAdvances, AdvanceKeeps
<1>4. CASE suspended' # suspended
  <2>1. suspended' = TRUE
    BY <1>4 DEF ReplyLost, cluster
  <2>2. Advances(c)
    BY <1>2, UnwindAdvances
  <2>3. PICK n : cmd' = [cmd EXCEPT ![c] = n] /\ Follows(cmd[c], n) /\ n.stranded
    <3>1. cmd[c] \in Process
      BY DEF IInv, TypeOK
    <3>2. [Unwind(cmd[c], "failed") EXCEPT !.stranded = TRUE].stranded
      BY <3>1 DEF Unwind, Process
    <3> QED  BY <1>2, <3>1, <3>2, UnwindFollows
  <2>4. cmd'[c] = n /\ \A d \in Commands \ {c} : cmd'[d] = cmd[d]
    BY <2>3 DEF IInv, TypeOK
  <2>5. ASSUME NEW d \in Commands PROVE BracketOf(d)'
    <3>1. BracketOf(d)
      BY DEF RInv, Brackets
    <3>2. CASE d = c
      BY <1>1, <2>3, <2>4, <3>1, <3>2 DEF Follows, BracketOf, InPlace, Active
    <3>3. CASE d # c
      BY <1>1, <2>4, <3>1, <3>3 DEF BracketOf, InPlace, Active
    <3> QED  BY <3>2, <3>3
  <2>6. ~Undisturbed'
    BY <2>3, <2>4 DEF Undisturbed
  <2> QED  BY <2>1, <2>5, <2>6 DEF RInv, Brackets
<1> QED  BY <1>3, <1>4

\* A command begins: it knows whether the schedule is suspended.
LEMMA BeginBrackets ==
  ASSUME IInv, RInv, NEW c \in Commands, NEW kind \in Kinds, Begin(c, kind)
  PROVE  RInv'
<1> DEFINE n == cmd'[c]
<1>1. /\ n.kind = kind /\ n.sawSuspended = suspended /\ ~n.bracket /\ ~n.stranded
      /\ n.pc # "resume" /\ (n.pc = "suspend" => n.kind = "in-place")
      /\ \A d \in Commands \ {c} : cmd'[d] = cmd[d]
      /\ cmd[c] = NoProcess
  <2>1. cmd[c] = NoProcess
    BY DEF Begin, IInv, InOrder, OrderOf
  <2> QED  BY <2>1, InputAssumption DEF Begin, IInv, TypeOK, NoProcess, FirstStep
<1>2. /\ suspended' = suspended
      /\ held' # held => held' = TRUE /\ suspended /\ kind = "suspend" /\ ~Restoring
  BY DEF Begin, IInv, TypeOK
<1>3. held => suspended
  BY DEF RInv
<1>4. ASSUME NEW d \in Commands PROVE BracketOf(d)'
  <2>1. BracketOf(d)
    BY DEF RInv, Brackets
  <2>2. CASE d = c
    <3> suspended \in BOOLEAN /\ held \in BOOLEAN
      BY DEF IInv, TypeOK
    <3> QED  BY <1>1, <1>2, <1>3, <2>2 DEF BracketOf, InPlace
  <2>3. CASE d # c
    <3>1. ~Restoring => ~(InPlace(d) /\ Active(d))
      BY DEF Restoring, InPlace
    <3> QED  BY <1>1, <1>2, <2>1, <2>3, <3>1 DEF BracketOf, InPlace, Active
  <2> QED  BY <2>2, <2>3
<1>5. Undisturbed' => Undisturbed /\ held' = held
  BY <1>1, <1>2 DEF Undisturbed, NoProcess
<1>6. Bracketed => Bracketed'
  BY <1>1 DEF Bracketed, Active, NoProcess
<1> QED  BY <1>2, <1>3, <1>4, <1>5, <1>6 DEF RInv, Brackets

\* A restore suspends the schedule, and is the one that will resume it.
LEMMA SuspendBrackets ==
  ASSUME IInv, RInv, NEW c \in Commands, SuspendForRestore(c)
  PROVE  RInv'
<1>1. CASE ~Suspends(cmd[c])
  BY <1>1, GotoAdvances, AdvanceKeeps DEF SuspendForRestore, Active, Pcs
<1>2. CASE Suspends(cmd[c])
  <2>1. /\ suspended' = TRUE /\ held' = held
        /\ cmd' = [cmd EXCEPT ![c] = [cmd[c] EXCEPT !.pc = "create", !.bracket = TRUE]]
    BY <1>2 DEF SuspendForRestore, IInv, TypeOK
  <2>2. cmd[c] \in Process
    BY DEF IInv, TypeOK
  <2>3. /\ cmd'[c].kind = cmd[c].kind /\ cmd'[c].sawSuspended = cmd[c].sawSuspended
        /\ cmd'[c].pc = "create" /\ cmd'[c].bracket
        /\ \A d \in Commands \ {c} : cmd'[d] = cmd[d]
    BY <2>1, <2>2 DEF Process, IInv, TypeOK
  <2>4. ASSUME NEW d \in Commands PROVE BracketOf(d)'
    <3>1. BracketOf(d) /\ BracketOf(c)
      BY DEF RInv, Brackets
    <3>2. CASE d = c
      BY <1>2, <2>1, <2>3, <3>1, <3>2 DEF SuspendForRestore, Suspends, BracketOf, InPlace, Active
    <3>3. CASE d # c
      BY <2>1, <2>3, <3>1, <3>3 DEF BracketOf, InPlace, Active
    <3> QED  BY <3>2, <3>3
  <2>5. Bracketed'
    BY <2>3 DEF Bracketed, Active
  <2> QED  BY <2>1, <2>4, <2>5 DEF RInv, Brackets
<1> QED  BY <1>1, <1>2

\* A restore resumes the schedule: nobody has suspended it but restores.
LEMMA ResumeBrackets ==
  ASSUME IInv, RInv, NEW c \in Commands, Resume(c)
  PROVE  RInv'
<1>1. /\ suspended' = FALSE /\ held' = held
      /\ cmd' = [cmd EXCEPT ![c] = [cmd[c] EXCEPT !.pc = "done", !.bracket = FALSE]]
  BY DEF Resume, CleansUp, IInv, TypeOK
<1>2. cmd[c] \in Process
  BY DEF IInv, TypeOK
<1>3. ~held
  <2>1. BracketOf(c) /\ cmd[c].pc = "resume"
    BY DEF RInv, Brackets, Resume
  <2> QED  BY <2>1 DEF BracketOf, InPlace, Active
<1>4. /\ cmd'[c].pc = "done" /\ ~cmd'[c].bracket
      /\ \A d \in Commands \ {c} : cmd'[d] = cmd[d]
  BY <1>1, <1>2 DEF Process, IInv, TypeOK
<1>5. ASSUME NEW d \in Commands PROVE BracketOf(d)'
  <2>1. BracketOf(d)
    BY DEF RInv, Brackets
  <2> QED  BY <1>1, <1>3, <1>4, <2>1 DEF BracketOf, InPlace, Active
<1> QED  BY <1>1, <1>3, <1>5 DEF RInv, Brackets

\* The user suspends or resumes the schedule.
LEMMA SetSuspendBrackets ==
  ASSUME IInv, RInv, NEW c \in Commands, SetSuspend(c)
  PROVE  RInv'
<1>1. cmd[c].kind \in {"suspend", "resume"} /\ cmd[c].pc = "patch"
  BY DEF SetSuspend, IInv, InOrder, OrderOf
<1>2. PICK n : cmd' = [cmd EXCEPT ![c] = n] /\ Follows(cmd[c], n)
  BY UnwindAdvances DEF SetSuspend, Advances
<1>3. cmd'[c] = n /\ n.kind = cmd[c].kind /\ \A d \in Commands \ {c} : cmd'[d] = cmd[d]
  BY <1>2 DEF IInv, TypeOK, Follows
<1>4. (held' => suspended') /\ (held' => held \/ ~Restoring)
  BY <1>1 DEF SetSuspend
<1>5. ASSUME NEW d \in Commands PROVE BracketOf(d)'
  <2>1. BracketOf(d) /\ BracketOf(c)
    BY DEF RInv, Brackets
  <2>2. CASE d = c
    BY <1>1, <1>2, <1>3, <2>1, <2>2 DEF Follows, BracketOf, InPlace, Active
  <2>3. CASE d # c
    <3>1. ~Restoring => ~(InPlace(d) /\ Active(d))
      BY DEF Restoring, InPlace
    <3> QED  BY <1>3, <1>4, <2>1, <2>3, <3>1 DEF BracketOf, InPlace, Active
  <2> QED  BY <2>2, <2>3
<1>6. ~Undisturbed'
  BY <1>1, <1>3 DEF Undisturbed
<1> QED  BY <1>4, <1>5, <1>6 DEF RInv, Brackets

-------------------------------------------------------------------------------
(* The theorem *)

\* At the beginning only a user can have suspended the schedule.
LEMMA Initially == Init => RInv
BY DEF Init, RInv, Brackets, BracketOf, InPlace, Active, NoProcess

\* Every step keeps the invariant.
LEMMA Keeps == IInv /\ RInv /\ [Next]_vars => RInv'
<1> SUFFICES ASSUME IInv, RInv, [Next]_vars PROVE RInv'
  OBVIOUS
<1>1. ASSUME NEW c \in Commands, Step(c) PROVE RInv'
  BY <1>1, SuspendBrackets, CallBrackets, CreateBrackets, EndingBrackets, CleanupBrackets,
     ResumeBrackets,
     SetSuspendBrackets DEF Step
<1>2. ASSUME NEW c \in Commands, User(c) PROVE RInv'
  <2>1. ASSUME NEW kind \in Kinds, Begin(c, kind) PROVE RInv'
    BY <2>1, BeginBrackets
  <2>2. CASE Confirm(c) \/ EndSession(c) \/ Interrupt(c)
    BY <2>2, CallBrackets, EndingBrackets
  <2>3. CASE RemoveOldKey(c)
    BY <2>3, StutterKeeps DEF RemoveOldKey
  <2> QED  BY <1>2, <2>1, <2>2, <2>3 DEF User
<1>3. ASSUME NEW c \in Commands, Kubernetes(c) PROVE RInv'
  BY <1>3, StutterKeeps
     DEF Kubernetes, StartPod, JobSucceeds, JobFails, DumpFails, PodStops, Expire, cluster
<1>4. ASSUME NEW c \in Commands, Trouble(c) PROVE RInv'
  <2>1. CASE DeletedByOther(c)
    BY <2>1, StutterKeeps DEF DeletedByOther, cluster
  <2> QED  BY <1>4, <2>1, EndingBrackets, ReplyLostBrackets, KillBrackets,
     DeferredStepBrackets DEF Trouble
<1>5. CASE Operator
  BY <1>5, StutterKeeps DEF Operator, CreateInitJob, RunInit, RecordInit
<1>6. CASE UNCHANGED vars
  BY <1>6, StutterKeeps DEF vars
<1> QED  BY <1>1, <1>2, <1>3, <1>4, <1>5, <1>6 DEF Next

\* A restore in place resumes no schedule a user suspended while none was under way
\* (cli/restore_targets.go, the check of sb.Spec.Suspend), and undisturbed restores leave
\* none suspended that was not, whatever overlaps, fails or is interrupted.
THEOREM ScheduleReturns == Spec => []ScheduleComesBack
<1>1. Spec => [](IInv /\ RInv)
  <2>1. Init => RInv
    BY Initially
  <2>2. IInv /\ RInv /\ [Next]_vars => RInv'
    BY Keeps
  <2> QED  BY <2>1, <2>2, Invariance, PTL DEF Spec
<1>2. RInv => ScheduleComesBack
  BY DEF RInv, ScheduleComesBack, Bracketed
<1> QED  BY <1>1, <1>2, PTL
===============================================================================
