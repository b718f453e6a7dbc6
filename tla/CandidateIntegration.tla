------------------------- MODULE CandidateIntegration -------------------------
(***************************************************************************)
(* How the work of accepted tasks reaches the managed candidate repository *)
(* of a goal, and how an interrupted integration is recovered.             *)
(*                                                                         *)
(* Two stores have to agree: the git repository of the candidate (head,    *)
(* author, dirty) and the SQLite state (candidate, status, result,         *)
(* intent).  They cannot change in one transaction, so TaskEngine writes   *)
(* an operation intent first, then commits to git, then records the        *)
(* outcome; recoverGoal reconciles what a dead controller left behind.     *)
(* A controller is a process running Orchestrator.run or controlGoal; it   *)
(* may die between any two of its steps.                                   *)
(*                                                                         *)
(* A revision is the number of commits on the candidate branch: the branch *)
(* only grows, except for the reset that undoes the step in progress.      *)
(*                                                                         *)
(* Left out: what the worker does inside a task, containers (recoverGoal   *)
(* stops them first), runs and attempts (recoverGoal marks them as         *)
(* interrupted), evidence rows and the file system failures of a reset.    *)
(* Apply intents exist only for goals that are DONE, which are never       *)
(* recovered.                                                              *)
(***************************************************************************)
EXTENDS Naturals

CONSTANTS
    Tasks,          \* the tasks of the goal's plan
    Controllers,    \* processes that may take the workspace lock
    Intents,        \* identities of operation intents (bounds their number)
    Manual,         \* author of a commit the harness did not make
    NoOne,          \* free workspace lock
    Dead,           \* workspace lock whose process no longer exists
    MaxRevision,    \* bound: commits on the candidate branch
    MaxAttempts,    \* task.maxAttempts
    MaxCrashes,     \* bound: process deaths
    MaxDrift,       \* bound: manual changes of the candidate
    LiveDrift       \* may the candidate be changed under a live controller?

ASSUME ConstantsAssumption ==
    /\ Manual \notin Tasks
    /\ {NoOne, Dead} \cap Controllers = {}
    /\ NoOne # Dead /\ NoOne \notin Intents
    /\ MaxRevision \in Nat /\ MaxAttempts \in Nat
    /\ MaxCrashes \in Nat /\ MaxDrift \in Nat
    /\ LiveDrift \in BOOLEAN

Revision == 0 .. MaxRevision

VARIABLES
    (* git, the candidate repository *)
    head,           \* number of commits above the baseline
    author,         \* author[r]: the task whose message commit r carries
    dirty,          \* uncommitted changes in the index or the work tree
    (* SQLite *)
    candidate,      \* goals.candidateRevision
    status,         \* tasks.status
    result,         \* tasks.resultRevision of an accepted task
    attempt,        \* tasks.attempt
    intent,         \* operation intents
    lock,           \* the row of process_locks for the workspace
    (* processes *)
    pc,             \* the step each controller takes next
    local,          \* its local variables
    (* environment *)
    crashes, drift  \* how often each happened so far

git == <<head, author, dirty>>
store == <<candidate, status, result, attempt, intent>>
env == <<crashes, drift>>
vars == <<git, store, lock, pc, local, env>>

TaskStatus == {"pending", "running", "produced", "accepted", "failed"}

NoIntent == [status |-> "none", task |-> Manual, before |-> 0]
Intent == [status : {"started", "completed"}, task : Tasks, before : Revision]

Step == {"idle", "opened", "recover", "reconcile", "interrupt", "adopt",
         "drive", "apply", "commit", "committed", "record", "error",
         "failing", "release"}

(* goal is the candidateRevision of the goal record the process read,      *)
(* revision the git revision it read, op the intent it works on.           *)
Local == [goal : Revision, revision : Revision, op : Intents \cup {NoOne}]

Open(i) == intent[i].status = "started"
NoneOpen == \A i \in Intents : ~Open(i)

Init ==
    /\ head = 0 /\ dirty = FALSE
    /\ author = [r \in 1 .. MaxRevision |-> Manual]
    /\ candidate = 0
    /\ status = [t \in Tasks |-> "pending"]
    /\ result = [t \in Tasks |-> 0]
    /\ attempt = [t \in Tasks |-> 0]
    /\ intent = [i \in Intents |-> NoIntent]
    /\ lock = NoOne
    /\ pc = [c \in Controllers |-> "idle"]
    /\ local = [c \in Controllers |-> [goal |-> 0, revision |-> 0, op |-> NoOne]]
    /\ crashes = 0 /\ drift = 0

-------------------------------------------------------------------------------
(* The workspace lock.                                                     *)

At(c, step) == pc[c] = step
GoTo(c, step) == pc' = [pc EXCEPT ![c] = step]

(* A process reads the goal record before it asks for the lock.            *)
OpenGoal(c) ==
    /\ At(c, "idle")
    /\ local' = [local EXCEPT ![c].goal = candidate]
    /\ GoTo(c, "opened")
    /\ UNCHANGED <<git, store, lock, env>>

(* Variant: the lock is taken from a process that is alive.                *)
LockFromTheLiving(c) ==
    /\ At(c, "opened")
    /\ lock' = c
    /\ GoTo(c, "recover")
    /\ UNCHANGED <<git, store, local, env>>

(* The lock is taken when it is free or its process is gone; otherwise the *)
(* call fails with WORKSPACE_BUSY.                                         *)
Lock(c) ==
    /\ At(c, "opened")
    /\ IF lock \in {NoOne, Dead}
         THEN lock' = c /\ GoTo(c, "recover")
         ELSE lock' = lock /\ GoTo(c, "idle")
    /\ UNCHANGED <<git, store, local, env>>

Unlock(c) ==
    /\ At(c, "release")
    /\ lock' = IF lock = c THEN NoOne ELSE lock
    /\ GoTo(c, "idle")
    /\ UNCHANGED <<git, store, local, env>>

-------------------------------------------------------------------------------
(* recoverGoal.                                                            *)

(* Variant: only a dirty tree stops the recovery.                          *)
RefuseOnlyDirty(c) == dirty

(* RECOVERY_DIRTY and RECOVERY_REVISION.                                   *)
RefuseCandidate(c) == dirty \/ (head # local[c].goal /\ NoneOpen)

InspectCandidate(c) ==
    /\ At(c, "recover")
    /\ \/ /\ RefuseCandidate(c)
          /\ GoTo(c, "release")
          /\ UNCHANGED local
       \/ /\ ~RefuseCandidate(c)
          /\ local' = [local EXCEPT ![c].revision = head]
          /\ GoTo(c, "reconcile")
    /\ UNCHANGED <<git, store, lock, env>>

(* The last commit is the one the intent announced: its parent is the      *)
(* revision the intent started from and its message names the task.        *)
Announced(i) == /\ head = intent[i].before + 1
                /\ author[head] = intent[i].task

(* Variant: every intent left behind is closed as not applied.             *)
ReconcileNotApplied(c, i) ==
    /\ At(c, "reconcile")
    /\ Open(i)
    /\ intent' = [intent EXCEPT ![i].status = "completed"]
    /\ UNCHANGED <<git, candidate, status, result, attempt, lock, pc, local, env>>

Reconcile(c, i) ==
    /\ At(c, "reconcile")
    /\ Open(i)
    /\ \/ /\ local[c].revision = intent[i].before
          /\ intent' = [intent EXCEPT ![i].status = "completed"]
          /\ UNCHANGED <<status, result, pc>>
       \/ /\ local[c].revision # intent[i].before
          /\ Announced(i)
          /\ status' = [status EXCEPT ![intent[i].task] = "accepted"]
          /\ result' = [result EXCEPT ![intent[i].task] = local[c].revision]
          /\ intent' = [intent EXCEPT ![i].status = "completed"]
          /\ UNCHANGED pc
       \/ /\ local[c].revision # intent[i].before
          /\ ~Announced(i)
          /\ GoTo(c, "release")
          /\ UNCHANGED <<status, result, intent>>
    /\ UNCHANGED <<git, candidate, attempt, lock, local, env>>

(* Variant: the recovery goes on with an intent that is still open.        *)
ReconcileLater(c) ==
    /\ At(c, "reconcile")
    /\ GoTo(c, "interrupt")
    /\ UNCHANGED <<git, store, lock, local, env>>

Reconciled(c) ==
    /\ At(c, "reconcile")
    /\ NoneOpen
    /\ GoTo(c, "interrupt")
    /\ UNCHANGED <<git, store, lock, local, env>>

(* Variant: every task of the dead controller starts over.                 *)
InterruptEveryTask(c, t) ==
    /\ At(c, "interrupt")
    /\ status[t] \in {"running", "accepted"}
    /\ status' = [status EXCEPT ![t] = "pending"]
    /\ UNCHANGED <<git, candidate, result, attempt, intent, lock, pc, local, env>>

(* A task that was running goes back to pending and keeps its attempt.     *)
InterruptTask(c, t) ==
    /\ At(c, "interrupt")
    /\ status[t] = "running"
    /\ status' = [status EXCEPT ![t] = "pending"]
    /\ UNCHANGED <<git, candidate, result, attempt, intent, lock, pc, local, env>>

Interrupted(c) ==
    /\ At(c, "interrupt")
    /\ \A t \in Tasks : status[t] # "running"
    /\ GoTo(c, "adopt")
    /\ UNCHANGED <<git, store, lock, local, env>>

(* Variant: the goal is written back as it was read before the lock.       *)
AdoptGoalAsRead(c) ==
    /\ At(c, "adopt")
    /\ candidate' = local[c].goal
    /\ GoTo(c, "drive")
    /\ UNCHANGED <<git, status, result, attempt, intent, lock, local, env>>

(* The last write of recoverGoal.                                          *)
AdoptRevision(c) ==
    /\ At(c, "adopt")
    /\ candidate' = local[c].revision
    /\ GoTo(c, "drive")
    /\ UNCHANGED <<git, status, result, attempt, intent, lock, local, env>>

-------------------------------------------------------------------------------
(* The drive loop, as far as it moves tasks to produced and back.          *)

(* Variant: the attempt limit is not looked at.                            *)
AssignPastLimit(c, t) ==
    /\ At(c, "drive")
    /\ status[t] = "pending"
    /\ status' = [status EXCEPT ![t] = "running"]
    /\ attempt' = [attempt EXCEPT ![t] = @ + 1]
    /\ UNCHANGED <<git, candidate, result, intent, lock, pc, local, env>>

Assign(c, t) ==
    /\ At(c, "drive")
    /\ status[t] = "pending"
    /\ attempt[t] < MaxAttempts
    /\ status' = [status EXCEPT ![t] = "running"]
    /\ attempt' = [attempt EXCEPT ![t] = @ + 1]
    /\ UNCHANGED <<git, candidate, result, intent, lock, pc, local, env>>

Finish(c, t) ==
    /\ At(c, "drive")
    /\ status[t] = "running"
    /\ \E outcome \in {"produced", "failed"} :
          status' = [status EXCEPT ![t] = outcome]
    /\ UNCHANGED <<git, candidate, result, attempt, intent, lock, pc, local, env>>

(* taskFailure schedules a failed task again.                              *)
Retry(c, t) ==
    /\ At(c, "drive")
    /\ status[t] = "failed"
    /\ attempt[t] < MaxAttempts
    /\ status' = [status EXCEPT ![t] = "pending"]
    /\ UNCHANGED <<git, candidate, result, attempt, intent, lock, pc, local, env>>

(* The loop ends: paused, failed, aborted or done.                         *)
Stop(c) ==
    /\ At(c, "drive")
    /\ \A t \in Tasks : status[t] # "running"
    /\ GoTo(c, "release")
    /\ UNCHANGED <<git, store, lock, local, env>>

-------------------------------------------------------------------------------
(* TaskEngine.integrate and GitWorkspace.integrate.                        *)

(* The intent is written first; the whole wave has finished by then.       *)
StartIntegration(c, t, i) ==
    /\ At(c, "drive")
    /\ status[t] = "produced"
    /\ \A u \in Tasks : status[u] # "running"
    /\ intent[i] = NoIntent
    /\ intent' = [intent EXCEPT ![i] =
                    [status |-> "started", task |-> t, before |-> candidate]]
    /\ local' = [local EXCEPT ![c].goal = candidate, ![c].op = i]
    /\ GoTo(c, "apply")
    /\ UNCHANGED <<git, candidate, status, result, attempt, lock, env>>

(* A diff outside the task's ownership is refused, an empty patch leaves   *)
(* the revision alone, any other patch goes to the index and work tree.    *)
ApplyPatch(c) ==
    /\ At(c, "apply")
    /\ local' = [local EXCEPT ![c].revision = head]
    /\ \/ GoTo(c, "error") /\ UNCHANGED dirty
       \/ GoTo(c, "record") /\ UNCHANGED dirty
       \/ GoTo(c, "commit") /\ dirty' = TRUE
    /\ UNCHANGED <<head, author, store, lock, env>>

CommitPatch(c) ==
    /\ At(c, "commit")
    /\ head < MaxRevision
    /\ head' = head + 1
    /\ author' = [author EXCEPT ![head + 1] = intent[local[c].op].task]
    /\ dirty' = FALSE
    /\ GoTo(c, "committed")
    /\ UNCHANGED <<store, lock, local, env>>

(* Variant: the reset goes to the parent of HEAD.                          *)
ResetToParent(c) ==
    /\ pc[c] \in {"commit", "committed"}
    /\ head' = IF head = 0 THEN 0 ELSE head - 1
    /\ dirty' = FALSE
    /\ GoTo(c, "error")
    /\ UNCHANGED <<author, store, lock, local, env>>

(* git apply or git commit failed, or git was killed at its time limit,    *)
(* maybe with the commit made: reset --hard to the revision read before.   *)
ResetPatch(c) ==
    /\ pc[c] \in {"commit", "committed"}
    /\ head' = local[c].revision
    /\ dirty' = FALSE
    /\ GoTo(c, "error")
    /\ UNCHANGED <<author, store, lock, local, env>>

ReadCommit(c) ==
    /\ At(c, "committed")
    /\ local' = [local EXCEPT ![c].revision = head]
    /\ GoTo(c, "record")
    /\ UNCHANGED <<git, store, lock, env>>

(* `return this.revision()` is not awaited inside the try: when the final  *)
(* rev-parse fails there is no reset.                                      *)
ReadFails(c) ==
    /\ At(c, "committed")
    /\ GoTo(c, "error")
    /\ UNCHANGED <<git, store, lock, local, env>>

(* Variant: the transaction leaves the goal out.                           *)
RecordTaskOnly(c) ==
    LET i == local[c].op
        t == intent[i].task
    IN  /\ At(c, "record")
        /\ status' = [status EXCEPT ![t] = "accepted"]
        /\ result' = [result EXCEPT ![t] = local[c].revision]
        /\ intent' = [intent EXCEPT ![i].status = "completed"]
        /\ GoTo(c, "drive")
        /\ UNCHANGED <<git, candidate, attempt, lock, local, env>>

(* One transaction: evidence, task, goal and intent.                       *)
RecordAccepted(c) ==
    LET i == local[c].op
        t == intent[i].task
    IN  /\ At(c, "record")
        /\ status' = [status EXCEPT ![t] = "accepted"]
        /\ result' = [result EXCEPT ![t] = local[c].revision]
        /\ candidate' = local[c].revision
        /\ intent' = [intent EXCEPT ![i].status = "completed"]
        /\ GoTo(c, "drive")
        /\ UNCHANGED <<git, attempt, lock, local, env>>

(* The diff artifact could not be written.                                 *)
ArtifactFails(c) ==
    /\ At(c, "record")
    /\ GoTo(c, "error")
    /\ UNCHANGED <<git, store, lock, local, env>>

(* Variant: the intent is rolled back wherever HEAD is.                    *)
RollBackAnyway(c) ==
    /\ At(c, "error")
    /\ intent' = [intent EXCEPT ![local[c].op].status = "completed"]
    /\ GoTo(c, "failing")
    /\ UNCHANGED <<git, candidate, status, result, attempt, lock, local, env>>

(* INTEGRATION_UNCERTAIN when git moved, else the intent is rolled back.   *)
RollBack(c) ==
    /\ At(c, "error")
    /\ IF head # local[c].goal
         THEN GoTo(c, "release") /\ UNCHANGED intent
         ELSE /\ intent' = [intent EXCEPT ![local[c].op].status = "completed"]
              /\ GoTo(c, "failing")
    /\ UNCHANGED <<git, candidate, status, result, attempt, lock, local, env>>

MarkFailed(c) ==
    /\ At(c, "failing")
    /\ status' = [status EXCEPT ![intent[local[c].op].task] = "failed"]
    /\ GoTo(c, "drive")
    /\ UNCHANGED <<git, candidate, result, attempt, intent, lock, local, env>>

-------------------------------------------------------------------------------
(* The environment.                                                        *)

Crash(c) ==
    /\ lock = c
    /\ crashes < MaxCrashes
    /\ crashes' = crashes + 1
    /\ lock' = Dead
    /\ GoTo(c, "idle")
    /\ UNCHANGED <<git, store, local, drift>>

MayDrift == /\ drift < MaxDrift
            /\ LiveDrift \/ lock \notin Controllers

(* Somebody commits to, or edits, the candidate by hand.                   *)
ManualCommit ==
    /\ MayDrift
    /\ ~dirty
    /\ head < MaxRevision
    /\ head' = head + 1
    /\ author' = [author EXCEPT ![head + 1] = Manual]
    /\ drift' = drift + 1
    /\ UNCHANGED <<dirty, store, lock, pc, local, crashes>>

ManualEdit ==
    /\ drift < MaxDrift
    /\ lock \notin Controllers
    /\ dirty' = TRUE
    /\ drift' = drift + 1
    /\ UNCHANGED <<head, author, store, lock, pc, local, crashes>>

(* RECOVERY_DIRTY asks the user to inspect the candidate: uncommitted      *)
(* changes are discarded.                                                  *)
CleanUp ==
    /\ dirty
    /\ lock \notin Controllers
    /\ dirty' = FALSE
    /\ UNCHANGED <<head, author, store, lock, pc, local, env>>

-------------------------------------------------------------------------------
Recovery(c) == \/ InspectCandidate(c)
               \/ \E i \in Intents : Reconcile(c, i)
               \/ Reconciled(c)
               \/ \E t \in Tasks : InterruptTask(c, t)
               \/ Interrupted(c)
               \/ AdoptRevision(c)

Drive(c) == \/ \E t \in Tasks : Assign(c, t) \/ Finish(c, t) \/ Retry(c, t)
            \/ \E t \in Tasks, i \in Intents : StartIntegration(c, t, i)
            \/ Stop(c)

Integrate(c) == \/ ApplyPatch(c) \/ CommitPatch(c) \/ ResetPatch(c)
                \/ ReadCommit(c) \/ ReadFails(c) \/ RecordAccepted(c)
                \/ ArtifactFails(c) \/ RollBack(c) \/ MarkFailed(c)

Controller(c) == Lock(c) \/ Recovery(c) \/ Drive(c) \/ Integrate(c) \/ Unlock(c)

User == ManualCommit \/ ManualEdit \/ CleanUp

Next == \/ \E c \in Controllers : OpenGoal(c) \/ Controller(c) \/ Crash(c)
        \/ User

Spec == Init /\ [][Next]_vars

-------------------------------------------------------------------------------
(* Types of all variables.                                                 *)
TypeOK ==
    /\ head \in Revision
    /\ author \in [1 .. MaxRevision -> Tasks \cup {Manual}]
    /\ dirty \in BOOLEAN
    /\ candidate \in Revision
    /\ status \in [Tasks -> TaskStatus]
    /\ result \in [Tasks -> Revision]
    /\ attempt \in [Tasks -> 0 .. MaxAttempts]
    /\ intent \in [Intents -> {NoIntent} \cup Intent]
    /\ lock \in Controllers \cup {NoOne, Dead}
    /\ pc \in [Controllers -> Step]
    /\ local \in [Controllers -> Local]
    /\ crashes \in 0 .. MaxCrashes
    /\ drift \in 0 .. MaxDrift

(* Only the holder of the workspace lock is past it: store.lock hands a    *)
(* workspace over when its process is gone and never before.               *)
MutualExclusion ==
    \A c \in Controllers : pc[c] \notin {"idle", "opened"} => lock = c

(* At most one integration of a goal is unresolved, however often its      *)
(* controllers die: recoverGoal resolves the old intent before integrate   *)
(* writes a new one.                                                       *)
OneOpenIntent ==
    \A i, j \in Intents : Open(i) /\ Open(j) => i = j

(* What a task record calls accepted is in the candidate: the branch never *)
(* goes back behind the revision an accepted task names.                   *)
AcceptedIsInCandidate ==
    \A t \in Tasks : status[t] = "accepted" => result[t] <= head

(* No checkpoint reaches the candidate twice, although an integration can  *)
(* be interrupted at every step and its task be integrated again.          *)
IntegratedOnce ==
    \A r, s \in 1 .. head :
        author[r] = author[s] /\ author[r] \in Tasks => r = s

(* While nobody works on the goal, a candidate record behind git is        *)
(* explained by the intent of one integration, or is a manual change.      *)
RecordedOrAnnounced ==
    lock \notin Controllers /\ drift = 0 =>
        \/ head = candidate
        \/ \E i \in Intents : /\ intent[i] \in Intent
                              /\ intent[i].before = candidate
                              /\ Announced(i)

(* Work a task record does not call accepted is in git only as the last    *)
(* commit of an integration that is still unresolved: nothing is           *)
(* integrated on top of a step that was not recorded.                      *)
NothingOnTop ==
    drift = 0 =>
        \A r \in 1 .. head :
            \/ status[author[r]] = "accepted"
            \/ r = head /\ \E i \in Intents : Open(i) /\ Announced(i)

(* A manual change of the candidate is never adopted as its revision.      *)
DriftNotAdopted ==
    \A r \in 1 .. candidate : author[r] # Manual

(* The integration of accepted work is safe: one controller, one open      *)
(* intent, and every accepted task in the candidate exactly once.          *)
CandidateSafe ==
    TypeOK /\ MutualExclusion /\ OneOpenIntent /\ AcceptedIsInCandidate /\ IntegratedOnce

(* Every commit of the candidate is accounted for: it is recorded or was   *)
(* announced, nothing is built on an unresolved one, and none is a manual  *)
(* change taken for a result.                                              *)
CommitsAccounted == RecordedOrAnnounced /\ NothingOnTop /\ DriftNotAdopted

(* A candidate that moved during an integration can be resumed: the        *)
(* recorded intent is there until the record has caught up with git.       *)
ResumeCanReconcile ==
    lock \notin Controllers /\ drift = 0 /\ head # candidate
        => \E i \in Intents : Open(i)

(* An accepted task stays accepted and the recorded candidate never moves  *)
(* back, through every crash and recovery.                                 *)
ProgressKept ==
    [][/\ candidate' >= candidate
       /\ \A t \in Tasks : status[t] = "accepted" => status'[t] = "accepted"]_vars

(* The integration of tasks implements the ledger: seen through the tasks  *)
(* with a commit in git and the tasks recorded as accepted, every step,    *)
(* crash and recovery is a step of the ledger or leaves it alone.          *)
Landed == {author[r] : r \in 1 .. head} \ {Manual}
Booked == {t \in Tasks : status[t] = "accepted"}
Ledger == INSTANCE IntegrationLedger WITH landed <- Landed, booked <- Booked
LedgerSpec == Ledger!Spec

-------------------------------------------------------------------------------
(* The inductive invariant behind OneOpenIntent, AcceptedIsInCandidate,    *)
(* IntegratedOnce and the refinement.                                      *)

(* Tasks with a commit at or below revision n are recorded as accepted.    *)
BookedUpTo(n) ==
    \A r \in 1 .. n : author[r] \in Tasks => status[author[r]] = "accepted"

(* Accepted tasks name revisions that are at or below revision n.          *)
ResultsUpTo(n) == \A t \in Tasks : status[t] = "accepted" => result[t] <= n

(* The operation of a controller inside integrate is an open intent for a  *)
(* produced task.                                                          *)
WorkingOn(c) ==
    /\ local[c].op \in Intents
    /\ Open(local[c].op)
    /\ status[intent[local[c].op].task] = "produced"
    /\ local[c].goal = candidate
    /\ intent[local[c].op].before = candidate

StepInv(c) ==
    /\ pc[c] \in {"apply", "commit", "committed", "record", "error"} => WorkingOn(c)
    /\ pc[c] \in {"interrupt", "adopt", "drive", "failing"} => NoneOpen
    /\ pc[c] = "failing" => /\ local[c].op \in Intents
                            /\ intent[local[c].op] \in Intent
                            /\ status[intent[local[c].op].task] = "produced"
    /\ pc[c] \in {"commit", "committed"} =>
           /\ candidate <= local[c].revision /\ local[c].revision <= head
           /\ ResultsUpTo(local[c].revision)
           /\ BookedUpTo(local[c].revision)
    /\ pc[c] \in {"apply", "commit"} => BookedUpTo(head)
    /\ pc[c] \in {"reconcile", "interrupt", "adopt", "record"} =>
           candidate <= local[c].revision /\ local[c].revision <= head
    /\ pc[c] = "reconcile" =>
           \A r \in local[c].revision + 1 .. head : author[r] \notin Tasks

OpenIntentInv ==
    \A i \in Intents : Open(i) =>
        /\ status[intent[i].task] = "produced"
        /\ intent[i].before <= candidate
        /\ BookedUpTo(intent[i].before)

(* Whatever landed is accepted or is the work of the open intent.          *)
LandedInv ==
    \A r \in 1 .. head : author[r] \in Tasks =>
        \/ status[author[r]] = "accepted"
        \/ \E i \in Intents : Open(i) /\ intent[i].task = author[r]

(* The invariants of git and the store, whatever the controllers do.       *)
DataInv ==
    /\ OneOpenIntent
    /\ AcceptedIsInCandidate
    /\ IntegratedOnce
    /\ candidate <= head
    /\ BookedUpTo(candidate)
    /\ LandedInv
    /\ OpenIntentInv

IInv == /\ TypeOK
        /\ MutualExclusion
        /\ DataInv
        /\ \A c \in Controllers : StepInv(c)

(* The commits above the revision an integration started from are its own  *)
(* or a manual change: what the refinement needs of a reset.               *)
SinceStart(c) ==
    pc[c] \in {"commit", "committed"} =>
        \A r \in local[c].revision + 1 .. head :
            author[r] \in {Manual, intent[local[c].op].task}

LedgerInv == IInv /\ \A c \in Controllers : SinceStart(c)

-------------------------------------------------------------------------------
(* The inductive invariant behind CommitsAccounted, when the candidate is  *)
(* not changed by hand under a live controller.                            *)

NoManualUpTo(n) == \A r \in 1 .. n : author[r] # Manual

(* What a controller relies on: the record it read is never ahead of the   *)
(* candidate, git stays where it looked, and at most the commit of the     *)
(* intent at hand is not recorded yet.                                     *)
SettledStep(c) ==
    /\ pc[c] \in {"opened", "recover"} => local[c].goal <= candidate
    /\ pc[c] \in {"reconcile", "interrupt", "adopt", "record"} =>
           local[c].revision = head
    /\ \/ pc[c] \in {"interrupt", "adopt"}
       \/ pc[c] = "reconcile" /\ NoneOpen
       => NoManualUpTo(head)
    /\ pc[c] \in {"drive", "apply", "failing", "commit"} => head = candidate
    /\ pc[c] \in {"commit", "committed"} => local[c].revision = candidate
    /\ pc[c] = "committed" => Announced(local[c].op)
    /\ pc[c] \in {"record", "error"} => head = candidate \/ Announced(local[c].op)

(* Without a manual change, git is at the recorded candidate or one        *)
(* announced commit ahead of it.                                           *)
Settled ==
    /\ DriftNotAdopted
    /\ drift = 0 =>
           /\ NoManualUpTo(head)
           /\ \/ head = candidate
              \/ \E i \in Intents : /\ intent[i] \in Intent
                                     /\ intent[i].before = candidate
                                     /\ Announced(i)
           /\ \A i \in Intents : Open(i) => head <= intent[i].before + 1

AccountInv == IInv /\ Settled /\ \A c \in Controllers : SettledStep(c)
===============================================================================
