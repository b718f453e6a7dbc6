------------------------------ MODULE GoalCommands ------------------------------
(***************************************************************************)
(* The commands that processes issue on the goals of one source checkout:  *)
(* run (start or resume), pause, abort, retry and apply.  All of them take *)
(* the workspace lock.  A pause or abort that finds it taken leaves a      *)
(* request on the goal record, which the timer of the goal's controller    *)
(* looks for; a change of the skill policy leaves requests as well.        *)
(*                                                                         *)
(* A handler runs without interruption from one await to the next, and an  *)
(* action is such a stretch: what a command reads before the lock and the  *)
(* lock, or the catch and finally of run.  (Another operating-system       *)
(* process may get in between two statements; that is not modelled.)       *)
(*                                                                         *)
(* ACTIVE stands for every state of a goal that is neither PAUSED nor      *)
(* terminal, and a goal has one task.  Left out: all that Orchestrator and *)
(* CandidateIntegration model, the approvals, a checkout that its user     *)
(* edits, and a git that outlives the process that called it.              *)
(***************************************************************************)
EXTENDS Naturals

CONSTANTS
    Goals,          \* goals created from one source checkout
    Processes,
    NoOne, Dead,    \* the workspace lock: free, left by a dead process
    MaxAttempts,    \* task.maxAttempts
    MaxCommands,    \* bound: commands issued
    MaxCrashes      \* bound: process deaths

ASSUME GoalCommandsAssumption ==
    /\ NoOne \notin Goals
    /\ {NoOne, Dead} \cap Processes = {} /\ NoOne # Dead
    /\ MaxAttempts \in Nat /\ MaxCommands \in Nat /\ MaxCrashes \in Nat

VARIABLES
    (* SQLite *)
    state,          \* state of each goal
    request,        \* its controlRequest
    task,           \* status and attempt of its task
    patch,          \* status of its apply intent
    lock,           \* the row of process_locks for the workspace
    (* the source checkout *)
    applied,        \* how often the patch of each goal reached it
    (* processes *)
    pc,             \* the await at which each process is
    on,             \* the goal it works on
    seen,           \* why the signal of a run is aborted
    (* environment *)
    commands, crashes

goals == <<state, request, task>>
source == <<patch, applied>>
env == <<commands, crashes>>
vars == <<goals, source, lock, pc, on, seen, env>>

Terminal == {"DONE", "FAILED", "ABORTED"}
GoalState == {"ACTIVE", "PAUSED"} \cup Terminal
Controls == {"pause", "abort"}
TaskRecord == [status : {"pending", "running", "failed", "accepted"}, attempt : 0 .. MaxAttempts]

Init ==
    /\ state = [g \in Goals |-> "ACTIVE"]
    /\ request = [g \in Goals |-> "none"]
    /\ task = [g \in Goals |-> [status |-> "pending", attempt |-> 0]]
    /\ patch = [g \in Goals |-> "none"] /\ applied = [g \in Goals |-> 0]
    /\ lock = NoOne
    /\ pc = [p \in Processes |-> "idle"]
    /\ on = [p \in Processes |-> NoOne] /\ seen = [p \in Processes |-> "none"]
    /\ commands = 0 /\ crashes = 0

At(p, step) == pc[p] = step
GoTo(p, step) == pc' = [pc EXCEPT ![p] = step]
SetState(g, s) == state' = [state EXCEPT ![g] = s]
SetTask(g, status) == task' = [task EXCEPT ![g].status = status]

Command == commands < MaxCommands /\ commands' = commands + 1 /\ UNCHANGED crashes

(* Variant: the process that holds the lock is not looked for.             *)
TakeLockAnyway(p) == lock' = p

(* The lock is free, or the process that holds it is gone.                 *)
TakeLock(p) == lock \in {NoOne, Dead} /\ lock' = p

(* A command of process p on goal g: one stretch up to its first await.    *)
Issue(p, g, step) ==
    /\ At(p, "idle") /\ Command
    /\ TakeLock(p)
    /\ on' = [on EXCEPT ![p] = g]
    /\ GoTo(p, step)

(* The end of a command.                                                   *)
Leave(p) ==
    /\ GoTo(p, "idle")
    /\ on' = [on EXCEPT ![p] = NoOne] /\ seen' = [seen EXCEPT ![p] = "none"]

Unlock(p) == lock' = (IF lock = p THEN NoOne ELSE lock) /\ Leave(p)

-------------------------------------------------------------------------------
(* Pause and abort.                                                        *)

Target(a) == IF a = "abort" THEN "ABORTED" ELSE "PAUSED"

(* WORKSPACE_BUSY: the holder is asked.                                    *)
RequestControl(g, a) ==
    /\ state[g] \notin Terminal /\ lock \in Processes
    /\ Command
    /\ request' = [request EXCEPT ![g] = a]
    /\ UNCHANGED <<state, task, source, lock, pc, on, seen>>

LockForControl(p, g, a) ==
    /\ state[g] \notin Terminal
    /\ Issue(p, g, a)
    /\ UNCHANGED <<goals, source, seen>>

(* recoverGoal: a task that was running is pending again.                  *)
RecoveredTask(g) ==
    task' = [task EXCEPT ![g].status = IF @ = "running" THEN "pending" ELSE @]

(* After recovery the goal is moved; when it fails the command does.       *)
Control(p) ==
    /\ pc[p] \in Controls
    /\ \/ RecoveredTask(on[p]) /\ SetState(on[p], Target(pc[p]))
       \/ UNCHANGED <<task, state>>
    /\ Unlock(p)
    /\ UNCHANGED <<request, source, env>>

(* A change of the skill policy pauses the goals that are at work.         *)
PolicyChange ==
    /\ Command
    /\ request' = [g \in Goals |->
                      IF state[g] \in Terminal \cup {"PAUSED"} THEN request[g] ELSE "pause"]
    /\ UNCHANGED <<state, task, source, lock, pc, on, seen>>

-------------------------------------------------------------------------------
(* Retry of the task of a paused goal.                                     *)

LockForRetry(p, g) ==
    /\ state[g] = "PAUSED"
    /\ task[g].status = "failed" /\ task[g].attempt < MaxAttempts
    /\ Issue(p, g, "retry")
    /\ UNCHANGED <<goals, source, seen>>

RetryTask(p) ==
    /\ At(p, "retry")
    /\ \/ SetTask(on[p], "pending")
       \/ UNCHANGED task
    /\ Unlock(p)
    /\ UNCHANGED <<state, request, source, env>>

-------------------------------------------------------------------------------
(* Apply: the patch of a goal that is DONE goes to the source checkout.    *)

Unresolved(g) == patch[g] \in {"started", "uncertain"}

(* Variant: only an apply known to be uncertain stops the next one.        *)
LockForApplyAfterCrash(p, g) ==
    /\ state[g] = "DONE" /\ patch[g] # "uncertain"
    /\ Issue(p, g, "check")
    /\ patch' = [patch EXCEPT ![g] = "started"]
    /\ UNCHANGED <<goals, applied, seen>>

(* The intent is recorded first.                                           *)
LockForApply(p, g) ==
    /\ state[g] = "DONE" /\ ~Unresolved(g)
    /\ Issue(p, g, "check")
    /\ patch' = [patch EXCEPT ![g] = "started"]
    /\ UNCHANGED <<goals, applied, seen>>

SourceChanged == \E g \in Goals : applied[g] > 0

(* CANDIDATE_CHANGED or SOURCE_CHANGED: a known refusal has no effect.     *)
RefuseApply(p) ==
    /\ At(p, "check")
    /\ patch' = [patch EXCEPT ![on[p]] = "completed"]
    /\ Unlock(p)
    /\ UNCHANGED <<goals, applied, env>>

(* Variant: the fingerprint of the source is not compared.                 *)
CheckCandidateOnly(p) ==
    /\ At(p, "check")
    /\ GoTo(p, "patch")
    /\ UNCHANGED <<goals, source, lock, on, seen, env>>

CheckSource(p) ==
    /\ At(p, "check") /\ ~SourceChanged
    /\ GoTo(p, "patch")
    /\ UNCHANGED <<goals, source, lock, on, seen, env>>

(* git apply writes the patch, or does not: it is empty or does not fit.   *)
PatchSource(p) ==
    /\ At(p, "patch")
    /\ \/ applied' = [applied EXCEPT ![on[p]] = @ + 1]
       \/ UNCHANGED applied
    /\ GoTo(p, "patched")
    /\ UNCHANGED <<goals, patch, lock, on, seen, env>>

(* git succeeded, or failed: what it did then is uncertain.                *)
EndApply(p) ==
    /\ At(p, "patched")
    /\ \E outcome \in {"completed", "uncertain"} : patch' = [patch EXCEPT ![on[p]] = outcome]
    /\ Unlock(p)
    /\ UNCHANGED <<goals, applied, env>>

-------------------------------------------------------------------------------
(* The controller: Orchestrator.run.                                       *)

LockForRun(p, g) ==
    /\ state[g] \notin Terminal
    /\ Issue(p, g, "recover")
    /\ UNCHANGED <<goals, source, seen>>

Running(p) == pc[p] \in {"recover", "drive"}

(* Variant: the timer is only armed once the goal is recovered.            *)
PollWhileRecovering(p) ==
    /\ At(p, "recover") /\ request[on[p]] # "none"
    /\ seen' = [seen EXCEPT ![p] = request[on[p]]]
    /\ UNCHANGED <<goals, source, lock, pc, on, env>>

(* The timer finds a request and aborts the signal.                        *)
Poll(p) ==
    /\ Running(p) /\ request[on[p]] # "none"
    /\ seen' = [seen EXCEPT ![p] = request[on[p]]]
    /\ UNCHANGED <<goals, source, lock, pc, on, env>>

(* limits.timeoutPerGoal.                                                  *)
Deadline(p) ==
    /\ Running(p) /\ seen[p] = "none"
    /\ seen' = [seen EXCEPT ![p] = "deadline"]
    /\ UNCHANGED <<goals, source, lock, pc, on, env>>

(* The request is acknowledged, a task blocked by its surroundings is      *)
(* pending again and the goal active.                                      *)
Recovered(p) ==
    LET g == on[p]
    IN  /\ At(p, "recover")
        /\ request' = [request EXCEPT ![g] = "none"]
        /\ \/ RecoveredTask(g)
           \/ task[g].status = "failed" /\ SetTask(g, "pending")
        /\ SetState(g, "ACTIVE")
        /\ GoTo(p, "drive")
        /\ UNCHANGED <<source, lock, on, seen, env>>

(* Variant: attempts are not limited.                                      *)
DriveTaskPastLimit(p) ==
    /\ At(p, "drive") /\ seen[p] = "none"
    /\ task[on[p]].status \in {"pending", "failed"}
    /\ task' = [task EXCEPT ![on[p]] = [status |-> "running", attempt |-> @.attempt + 1]]
    /\ UNCHANGED <<state, request, source, lock, pc, on, seen, env>>

(* A task is started unless the signal is aborted, one that failed is      *)
(* scheduled again.                                                        *)
DriveTask(p) ==
    LET t == task[on[p]]
    IN  /\ At(p, "drive") /\ seen[p] = "none"
        /\ \/ /\ t.status = "pending" /\ t.attempt < MaxAttempts
              /\ task' = [task EXCEPT ![on[p]] = [status |-> "running", attempt |-> t.attempt + 1]]
           \/ t.status = "failed" /\ SetTask(on[p], "pending")
        /\ UNCHANGED <<state, request, source, lock, pc, on, seen, env>>

(* A task ends by itself; the signal ends it.                              *)
EndTask(p) ==
    /\ At(p, "drive") /\ task[on[p]].status = "running"
    /\ \E status \in {"failed", "accepted"} : SetTask(on[p], status)
    /\ UNCHANGED <<state, request, source, lock, pc, on, seen, env>>

(* The finally of run.                                                     *)
Settle(p) == request' = [request EXCEPT ![on[p]] = "none"] /\ Unlock(p)

(* The judge is satisfied; an abort may come too late to prevent it.       *)
Finish(p) ==
    /\ At(p, "drive") /\ task[on[p]].status = "accepted"
    /\ SetState(on[p], "DONE")
    /\ Settle(p)
    /\ UNCHANGED <<task, source, env>>

(* How run catches an error or the reason of its signal.                   *)
Outcome(p) == CASE seen[p] = "abort" -> {"ABORTED"}
                [] seen[p] = "pause" -> {"PAUSED"}
                [] seen[p] = "deadline" -> {"FAILED"}
                [] OTHER -> {"PAUSED", "FAILED"}

Throw(p) ==
    /\ At(p, "recover") \/ (At(p, "drive") /\ task[on[p]].status # "running")
    /\ \E s \in Outcome(p) : SetState(on[p], s)
    /\ Settle(p)
    /\ UNCHANGED <<task, source, env>>

-------------------------------------------------------------------------------
Crash(p) ==
    /\ ~At(p, "idle")
    /\ crashes < MaxCrashes /\ crashes' = crashes + 1
    /\ lock' = IF lock = p THEN Dead ELSE lock
    /\ Leave(p)
    /\ UNCHANGED <<goals, source, commands>>

User(p, g) == \/ LockForRun(p, g) \/ LockForRetry(p, g) \/ LockForApply(p, g)
              \/ \E a \in Controls : LockForControl(p, g, a)

Controller(p) == Poll(p) \/ Deadline(p) \/ Recovered(p) \/ DriveTask(p)
                 \/ EndTask(p) \/ Finish(p) \/ Throw(p)

Handler(p) == Control(p) \/ RetryTask(p) \/ RefuseApply(p) \/ CheckSource(p)
              \/ PatchSource(p) \/ EndApply(p)

Next == \/ \E p \in Processes, g \in Goals : User(p, g)
        \/ \E p \in Processes : Controller(p) \/ Handler(p) \/ Crash(p)
        \/ \E g \in Goals, a \in Controls : RequestControl(g, a)
        \/ PolicyChange

Spec == Init /\ [][Next]_vars

(* The signal ends the task at work, then the run.                         *)
CutOff(p) == seen[p] # "none" /\ (EndTask(p) \/ Throw(p))

(* Recovery, the timer, aborts and git come to an end; agents need not,    *)
(* and users need not do anything.                                         *)
CommandFairness == \A p \in Processes :
    WF_vars(Recovered(p)) /\ WF_vars(Poll(p)) /\ WF_vars(CutOff(p)) /\ WF_vars(Handler(p))

FairSpec == Spec /\ CommandFairness

-------------------------------------------------------------------------------
(* Types of all variables.                                                 *)
TypeOK ==
    /\ state \in [Goals -> GoalState]
    /\ request \in [Goals -> {"none"} \cup Controls]
    /\ task \in [Goals -> TaskRecord]
    /\ patch \in [Goals -> {"none", "started", "completed", "uncertain"}]
    /\ applied \in [Goals -> Nat]
    /\ lock \in Processes \cup {NoOne, Dead}
    /\ pc \in [Processes -> {"idle", "retry", "check", "patch", "patched",
                             "recover", "drive"} \cup Controls]
    /\ on \in [Processes -> Goals \cup {NoOne}]
    /\ seen \in [Processes -> {"none", "deadline"} \cup Controls]
    /\ commands \in 0 .. MaxCommands /\ crashes \in 0 .. MaxCrashes

(* A goal that ended is never moved again, whichever commands and          *)
(* controllers were already on their way when it did.                      *)
TerminalIsFinal ==
    [][\A g \in Goals : state[g] \in Terminal => state'[g] = state[g]]_vars

(* The source checkout receives the patch of one goal, once: every other   *)
(* apply finds it changed, across crashes and goals of the same checkout.  *)
SourcePatchedOnce ==
    /\ \A g \in Goals : applied[g] <= 1
    /\ \A g, h \in Goals : applied[g] > 0 /\ applied[h] > 0 => g = h

Applying(p, g) == pc[p] \in {"check", "patch", "patched"} /\ on[p] = g

(* An apply that was cut short is never repeated: once nobody works on it  *)
(* nobody will, and its intent and the checkout stay as they are.          *)
Abandoned(g) == Unresolved(g) /\ \A p \in Processes : ~Applying(p, g)

UncertainNotReplayed ==
    [][\A g \in Goals : Abandoned(g) => Abandoned(g)' /\ UNCHANGED <<patch[g], applied[g]>>]_vars

(* What has ended stays as it is, be it a goal or an apply.                *)
EndingsStay == TerminalIsFinal /\ UncertainNotReplayed

(* Whoever holds the workspace gives it back: short commands always, a     *)
(* controller once it was asked to stop, even if its agents never end.     *)
StopReleasesLock ==
    \A p \in Processes :
        \/ pc[p] \in Controls \cup {"retry", "check", "patch", "patched"}
        \/ At(p, "drive") /\ request[on[p]] # "none"
        ~> lock # p

(* What the architecture promises of abort: a request another process left *)
(* is only removed when its controller saw it, or from a goal that ended.  *)
AbortNotErased ==
    [][\A g \in Goals : request[g] = "abort" /\ request'[g] = "none"
          => \/ state'[g] \in Terminal
             \/ \E p \in Processes : on[p] = g /\ seen[p] # "none"]_vars
===============================================================================
