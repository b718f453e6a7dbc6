----------------------- MODULE DependencyPreparation -----------------------
(***************************************************************************)
(* `perfect prepare` (adapters/sandbox/dependencies.ts) beside the run of  *)
(* its goal.  A preparation installs the dependencies of a manifest in a   *)
(* container, commits the container as an image, writes the lockfile into  *)
(* the candidate, or the worktree of a paused task, and commits it there.  *)
(* A check runs in an image recorded for exactly the manifest and lockfile *)
(* of its workspace (preparedImage), or is refused.                        *)
(*                                                                         *)
(* The run is reduced to what shares something with a preparation: the     *)
(* workspace lock, recovery, the integration of one task, the last check.  *)
(* A tree is its manifest and its lockfile; a lockfile is named after the  *)
(* manifest it was generated from.  Processes crash, the daemon stops.     *)
(***************************************************************************)
EXTENDS Integers, Sequences

CONSTANTS
    Preparers,              \* calls of `perfect prepare`
    Base(_), ForTask(_),    \* the base image and the target of each
    Bases,                  \* base images the checks of the plan run in
    Manifests, Plain,       \* contents of package.json; the one without dependencies
    NoLockfile,
    Controller, Free,       \* who holds the workspace lock besides Preparers
    DependencyBudgets,      \* crashes and outages of an instance
    DependencyWindows       \* what may go wrong besides: {"stale", "late", "slow"}

ASSUME DependencyAssumption ==
    /\ Controller # Free /\ {Controller, Free} \cap Preparers = {}
    /\ Plain \in Manifests

VARIABLES
    candidate,      \* commits of the candidate, its index
    prepGoal,       \* the goal's record and its intent to integrate
    prepTask,       \* the task's record and worktree
    images,         \* images recorded for the goal
    daemon,         \* Docker: up, containers, creations it may yet make
    started,        \* preparations whose container intent is not completed
    preparations,   \* the call of each preparer
    goalRun,        \* where the run of the goal is
    workspaceLock,  \* the living process that holds it
    prepBudget

prepVars == <<candidate, prepGoal, prepTask, images, daemon, started, preparations, goalRun,
              workspaceLock, prepBudget>>

Trees == [manifest : Manifests, lock : Manifests \cup {NoLockfile}]

(* Who made a commit, and whether it contains what another step had staged.*)
Commit(by, tree, with) == [by |-> by, tree |-> tree, with |-> with]

Last == Len(candidate.commits)
HeadTree == candidate.commits[Last].tree
Dirty == candidate.index # HeadTree

DependencyInit ==
    /\ \E t \in Trees :
           /\ t.lock \in {t.manifest, NoLockfile}
           /\ candidate = [commits |-> <<Commit("start", t, FALSE)>>, index |-> t]
           /\ prepTask = [status |-> "pending", tree |-> t, kept |-> FALSE, base |-> 1]
    /\ prepGoal = [state |-> "RECEIVED", recorded |-> 1, before |-> 0]
    /\ images = {} /\ started = {}
    /\ preparations = [p \in Preparers |-> [pc |-> "off", tree |-> HeadTree, done |-> FALSE]]
    /\ goalRun = "off" /\ workspaceLock = Free
    /\ \E budget \in DependencyBudgets :
           /\ prepBudget = budget
           /\ daemon = [up |-> TRUE, exists |-> {}, requested |-> {}]

Needed(tree) == tree.manifest # Plain

(* preparedImage: the base itself, or the image recorded for this tree.    *)
ImageFor(tree, base) == Needed(tree) => \E i \in images : i.base = base /\ i.key = tree

-----------------------------------------------------------------------------
(* A preparation.                                                          *)

To(p, pc) == preparations' = [preparations EXCEPT ![p].pc = pc]
Preparing(p, pc) == preparations[p].pc = pc

(* Variant: only an aborted goal is refused.                               *)
NotAborted == prepGoal.state # "ABORTED"

MayPrepare == prepGoal.state \in {"PAUSED", "RECEIVED"}

CallPrepare(p) ==
    /\ Preparing(p, "off") /\ MayPrepare /\ To(p, "lock")
    /\ UNCHANGED <<candidate, prepGoal, prepTask, images, daemon, started, goalRun,
                   workspaceLock, prepBudget>>

(* The goal is not read again under the lock.  Without "stale", nothing    *)
(* happens between the two.                                                *)
LockPrepare(p) ==
    /\ Preparing(p, "lock") /\ workspaceLock = Free
    /\ "stale" \in DependencyWindows \/ MayPrepare
    /\ workspaceLock' = p /\ To(p, "read")
    /\ UNCHANGED <<candidate, prepGoal, prepTask, images, daemon, started, goalRun, prepBudget>>

LockRefused(p) ==
    /\ Preparing(p, "lock") /\ To(p, "failed")
    /\ workspaceLock # Free \/ ("stale" \notin DependencyWindows /\ ~MayPrepare)
    /\ UNCHANGED <<candidate, prepGoal, prepTask, images, daemon, started, goalRun,
                   workspaceLock, prepBudget>>

Target(p) == IF ForTask(p) THEN prepTask.tree ELSE candidate.index
MayTarget(p) == ForTask(p) => prepTask.status \in {"pending", "failed"} /\ prepTask.kept

(* The target is chosen and its manifest read; the base image is inspected *)
(* and the intent recorded.                                                *)
ReadManifest(p) ==
    /\ Preparing(p, "read")
    /\ \/ /\ MayTarget(p) /\ Needed(Target(p)) /\ daemon.up
          /\ preparations' = [preparations EXCEPT ![p].pc = "create", ![p].tree = Target(p)]
          /\ started' = started \cup {p}
       \/ To(p, "unlock") /\ UNCHANGED started
    /\ UNCHANGED <<candidate, prepGoal, prepTask, images, daemon, goalRun, workspaceLock, prepBudget>>

(* A command that is cut off may have reached the daemon.                  *)
CreateContainer(p) ==
    /\ Preparing(p, "create")
    /\ \/ daemon.up /\ daemon' = [daemon EXCEPT !.exists = @ \cup {p}] /\ To(p, "install")
       \/ /\ To(p, "finally")
          /\ daemon' = IF "late" \in DependencyWindows
                       THEN [daemon EXCEPT !.requested = @ \cup {p}] ELSE daemon
    /\ UNCHANGED <<candidate, prepGoal, prepTask, images, started, goalRun, workspaceLock, prepBudget>>

(* npm ci refuses a lockfile of another manifest; npm install makes one.   *)
Install(p) ==
    /\ Preparing(p, "install")
    /\ \/ daemon.up /\ preparations[p].tree.lock \in {NoLockfile, preparations[p].tree.manifest}
             /\ To(p, "write")
       \/ To(p, "finally")
    /\ UNCHANGED <<candidate, prepGoal, prepTask, images, daemon, started, goalRun,
                   workspaceLock, prepBudget>>

Installed(p) == [preparations[p].tree EXCEPT !.lock = preparations[p].tree.manifest]

(* The lockfile is written, then committed with whatever the index holds   *)
(* (the candidate) or the worktree holds (checkpoint).                     *)
WriteLockfile(p) ==
    /\ Preparing(p, "write") /\ To(p, "commit")
    /\ IF ForTask(p)
       THEN prepTask' = [prepTask EXCEPT !.tree.lock = Installed(p).lock] /\ UNCHANGED candidate
       ELSE candidate' = [candidate EXCEPT !.index.lock = Installed(p).lock] /\ UNCHANGED prepTask
    /\ UNCHANGED <<prepGoal, images, daemon, started, goalRun, workspaceLock, prepBudget>>

CommitLockfile(p) ==
    /\ Preparing(p, "commit") /\ To(p, "record")
    /\ IF ForTask(p)
       THEN UNCHANGED candidate
       ELSE candidate' = [candidate EXCEPT !.commits =
                Append(@, Commit("prepare", candidate.index,
                                 candidate.index.manifest # HeadTree.manifest))]
    /\ UNCHANGED <<prepGoal, prepTask, images, daemon, started, goalRun, workspaceLock, prepBudget>>

RecordRevision(p) ==
    /\ Preparing(p, "record") /\ To(p, "image")
    /\ IF ForTask(p)
       THEN prepTask' = [prepTask EXCEPT !.kept = TRUE] /\ UNCHANGED prepGoal
       ELSE prepGoal' = [prepGoal EXCEPT !.recorded = Last] /\ UNCHANGED prepTask
    /\ UNCHANGED <<candidate, images, daemon, started, goalRun, workspaceLock, prepBudget>>

(* Variant: the key is the manifest that was read.                         *)
RecordManifestRead(p) ==
    /\ Preparing(p, "image")
    /\ images' = images \cup {[base |-> Base(p), key |-> preparations[p].tree]}
    /\ preparations' = [preparations EXCEPT ![p].pc = "finally", ![p].done = TRUE]
    /\ UNCHANGED <<candidate, prepGoal, prepTask, daemon, started, goalRun, workspaceLock, prepBudget>>

RecordImage(p) ==
    /\ Preparing(p, "image")
    /\ images' = images \cup {[base |-> Base(p), key |-> Installed(p)]}
    /\ preparations' = [preparations EXCEPT ![p].pc = "finally", ![p].done = TRUE]
    /\ UNCHANGED <<candidate, prepGoal, prepTask, daemon, started, goalRun, workspaceLock, prepBudget>>

(* The container is removed and the intent completed.  An inspection that  *)
(* fails is taken for an absent container when the daemon answers          *)
(* `version`.  (Variant of CleanUpContainer: nothing else ends it.)        *)
CleanUpOnly(p) ==
    /\ Preparing(p, "finally") /\ daemon.up
    /\ \/ daemon' = [daemon EXCEPT !.exists = @ \ {p}]
       \/ "slow" \in DependencyWindows /\ UNCHANGED daemon
    /\ started' = started \ {p} /\ To(p, "unlock")
    /\ UNCHANGED <<candidate, prepGoal, prepTask, images, goalRun, workspaceLock, prepBudget>>

(* Docker does not answer: the intent is left to recovery.                 *)
CleanUpFails(p) ==
    /\ Preparing(p, "finally")
    /\ preparations' = [preparations EXCEPT ![p].pc = "unlock", ![p].done = FALSE]
    /\ UNCHANGED <<candidate, prepGoal, prepTask, images, daemon, started, goalRun,
                   workspaceLock, prepBudget>>

(* Variant: the intent is completed although Docker did not answer.        *)
CompleteAnyway(p) ==
    \/ CleanUpOnly(p)
    \/ /\ Preparing(p, "finally") /\ started' = started \ {p} /\ To(p, "unlock")
       /\ UNCHANGED <<candidate, prepGoal, prepTask, images, daemon, goalRun, workspaceLock, prepBudget>>

(* finally, in either way.                                                 *)
CleanUpContainer(p) == CleanUpOnly(p) \/ CleanUpFails(p)

UnlockPrepare(p) ==
    /\ Preparing(p, "unlock") /\ workspaceLock' = Free
    /\ To(p, IF preparations[p].done THEN "done" ELSE "failed")
    /\ UNCHANGED <<candidate, prepGoal, prepTask, images, daemon, started, goalRun, prepBudget>>

-----------------------------------------------------------------------------
(* The run of the goal.                                                    *)

Pause ==
    /\ prepGoal' = [prepGoal EXCEPT !.state = "PAUSED"]
    /\ goalRun' = "off" /\ workspaceLock' = Free

StartRun ==
    /\ goalRun = "off" /\ workspaceLock = Free /\ prepGoal.state # "DONE"
    /\ workspaceLock' = Controller /\ goalRun' = "containers"
    /\ UNCHANGED <<candidate, prepGoal, prepTask, images, daemon, started, preparations, prepBudget>>

RecoverContainers ==
    /\ goalRun = "containers"
    /\ \/ /\ started = {} \/ daemon.up
          /\ daemon' = [daemon EXCEPT !.exists = @ \ started]
          /\ started' = {} /\ goalRun' = "candidate"
          /\ UNCHANGED <<prepGoal, workspaceLock>>
       \/ ~daemon.up /\ started # {} /\ Pause /\ UNCHANGED <<daemon, started>>
    /\ UNCHANGED <<candidate, prepTask, images, preparations, prepBudget>>

Interrupted == prepGoal.before # 0
Integrated == Last = prepGoal.before + 1 /\ candidate.commits[Last].by = "integrate"

(* A dirty or moved candidate pauses; so does an integration that cannot   *)
(* be decided.  Then the head becomes the recorded revision.               *)
Refused ==
    \/ Dirty
    \/ prepGoal.recorded # Last /\ ~Interrupted
    \/ Interrupted /\ Last # prepGoal.before /\ ~Integrated

RecoverCandidate ==
    /\ goalRun = "candidate"
    /\ \/ Refused /\ Pause /\ UNCHANGED prepTask
       \/ /\ ~Refused
          /\ prepGoal' = [prepGoal EXCEPT !.state = "EXECUTE", !.recorded = Last, !.before = 0]
          /\ prepTask' = [prepTask EXCEPT !.status =
                 CASE Interrupted /\ Integrated -> "accepted"
                   [] @ = "failed" -> "pending"
                   [] OTHER -> @]
          /\ goalRun' = "drive" /\ UNCHANGED workspaceLock
    /\ UNCHANGED <<candidate, images, daemon, started, preparations, prepBudget>>

(* The task changes the manifest in its worktree, which starts from its    *)
(* last checkpoint or from the candidate.  A task that fails stands for    *)
(* its retry too.                                                          *)
Work ==
    /\ goalRun = "drive" /\ prepTask.status = "pending"
    /\ \E m \in Manifests, status \in {"produced", "failed"} :
           /\ prepTask' = [status |-> status, kept |-> TRUE,
                           tree |-> [IF prepTask.kept THEN prepTask.tree ELSE HeadTree
                                     EXCEPT !.manifest = m],
                           base |-> IF prepTask.kept THEN prepTask.base ELSE Last]
           /\ IF status = "failed" THEN Pause ELSE UNCHANGED <<prepGoal, goalRun, workspaceLock>>
    /\ UNCHANGED <<candidate, images, daemon, started, preparations, prepBudget>>

BeginIntegration ==
    /\ goalRun = "drive" /\ prepTask.status = "produced"
    /\ prepGoal' = [prepGoal EXCEPT !.before = prepGoal.recorded] /\ goalRun' = "apply"
    /\ UNCHANGED <<candidate, prepTask, images, daemon, started, preparations, workspaceLock, prepBudget>>

(* git apply --3way: a file both sides changed differently is a conflict.  *)
BaseTree == candidate.commits[prepTask.base].tree
Merged(base, ours, theirs) == IF theirs = base THEN ours ELSE theirs
Conflict(base, ours, theirs) == ours # base /\ theirs # base /\ ours # theirs

ApplyPatch ==
    /\ goalRun = "apply"
    /\ IF \/ Conflict(BaseTree.manifest, HeadTree.manifest, prepTask.tree.manifest)
          \/ Conflict(BaseTree.lock, HeadTree.lock, prepTask.tree.lock)
       THEN /\ prepTask' = [prepTask EXCEPT !.status = "failed"]
            /\ prepGoal' = [prepGoal EXCEPT !.before = 0, !.state = "PAUSED"]
            /\ goalRun' = "off" /\ workspaceLock' = Free /\ UNCHANGED candidate
       ELSE /\ candidate' = [candidate EXCEPT !.index =
                   [manifest |-> Merged(BaseTree.manifest, HeadTree.manifest, prepTask.tree.manifest),
                    lock |-> Merged(BaseTree.lock, HeadTree.lock, prepTask.tree.lock)]]
            /\ goalRun' = "commit" /\ UNCHANGED <<prepTask, prepGoal, workspaceLock>>
    /\ UNCHANGED <<images, daemon, started, preparations, prepBudget>>

CommitPatch ==
    /\ goalRun = "commit" /\ goalRun' = "accept"
    /\ candidate' = [candidate EXCEPT !.commits = Append(@, Commit("integrate", candidate.index, FALSE))]
    /\ UNCHANGED <<prepGoal, prepTask, images, daemon, started, preparations, workspaceLock, prepBudget>>

AcceptTask ==
    /\ goalRun = "accept" /\ goalRun' = "drive"
    /\ prepTask' = [prepTask EXCEPT !.status = "accepted"]
    /\ prepGoal' = [prepGoal EXCEPT !.recorded = Last, !.before = 0]
    /\ UNCHANGED <<candidate, images, daemon, started, preparations, workspaceLock, prepBudget>>

(* Every check needs the image of the candidate's files.                   *)
Verify ==
    /\ goalRun = "drive" /\ prepTask.status = "accepted"
    /\ IF \A b \in Bases : ImageFor(candidate.index, b)
       THEN /\ prepGoal' = [prepGoal EXCEPT !.state = "DONE"]
            /\ goalRun' = "off" /\ workspaceLock' = Free
       ELSE Pause
    /\ UNCHANGED <<candidate, prepTask, images, daemon, started, preparations, prepBudget>>

-----------------------------------------------------------------------------
(* Faults: the lock of a dead process is as good as free.                  *)

CrashPrepare(p) ==
    /\ prepBudget.crashes > 0 /\ ~\E pc \in {"off", "done", "failed", "dead"} : Preparing(p, pc)
    /\ prepBudget' = [prepBudget EXCEPT !.crashes = @ - 1] /\ To(p, "dead")
    /\ workspaceLock' = IF workspaceLock = p THEN Free ELSE workspaceLock
    /\ UNCHANGED <<candidate, prepGoal, prepTask, images, daemon, started, goalRun>>

CrashRun ==
    /\ prepBudget.crashes > 0 /\ goalRun # "off"
    /\ prepBudget' = [prepBudget EXCEPT !.crashes = @ - 1] /\ goalRun' = "off"
    /\ workspaceLock' = Free
    /\ UNCHANGED <<candidate, prepGoal, prepTask, images, daemon, started, preparations>>

DaemonStops ==
    /\ daemon.up /\ prepBudget.outages > 0 /\ daemon' = [daemon EXCEPT !.up = FALSE]
    /\ prepBudget' = [prepBudget EXCEPT !.outages = @ - 1]
    /\ UNCHANGED <<candidate, prepGoal, prepTask, images, started, preparations, goalRun, workspaceLock>>

DaemonReturns ==
    /\ ~daemon.up /\ daemon' = [daemon EXCEPT !.up = TRUE]
    /\ UNCHANGED <<candidate, prepGoal, prepTask, images, started, preparations, goalRun,
                   workspaceLock, prepBudget>>

DaemonCreatesLate(p) ==
    /\ p \in daemon.requested
    /\ daemon' = [daemon EXCEPT !.exists = @ \cup {p}, !.requested = @ \ {p}]
    /\ UNCHANGED <<candidate, prepGoal, prepTask, images, started, preparations, goalRun,
                   workspaceLock, prepBudget>>

PrepareStep(p) ==
    \/ LockPrepare(p) \/ LockRefused(p) \/ ReadManifest(p) \/ CreateContainer(p) \/ Install(p)
    \/ WriteLockfile(p) \/ CommitLockfile(p) \/ RecordRevision(p) \/ RecordImage(p)
    \/ CleanUpContainer(p) \/ UnlockPrepare(p)

RunStep ==
    \/ RecoverContainers \/ RecoverCandidate \/ Work \/ BeginIntegration
    \/ ApplyPatch \/ CommitPatch \/ AcceptTask \/ Verify

DependencyNext ==
    \/ \E p \in Preparers : CallPrepare(p) \/ PrepareStep(p) \/ CrashPrepare(p)
                               \/ (p \in daemon.requested /\ DaemonCreatesLate(p))
    \/ StartRun \/ RunStep \/ CrashRun \/ DaemonStops \/ DaemonReturns

DependencyFairness == \A p \in Preparers : WF_prepVars(PrepareStep(p))

(* The daemon and the user owe nothing; a call takes its steps.            *)
DependencySpec == DependencyInit /\ [][DependencyNext]_prepVars /\ DependencyFairness

-----------------------------------------------------------------------------
DependencyTypeOK ==
    /\ candidate.index \in Trees /\ \A i \in DOMAIN candidate.commits : candidate.commits[i].tree \in Trees
    /\ prepGoal.recorded \in DOMAIN candidate.commits
    /\ prepTask.tree \in Trees /\ prepTask.base \in DOMAIN candidate.commits
    /\ images \subseteq [base : {Base(p) : p \in Preparers}, key : Trees]
    /\ started \subseteq Preparers /\ workspaceLock \in Preparers \cup {Controller, Free}

(* A container that exists is one whose intent recovery will find: the     *)
(* intent is recorded before it is created and completed after it is gone, *)
(* whatever fails in between (the finally of prepareDependencies,          *)
(* DockerRunner.recover).                                                  *)
ContainersAccounted == daemon.exists \subseteq started

(* A preparation that succeeded is of use: while the candidate is what it  *)
(* left, a check in its base image finds an image (the key of the image    *)
(* is the manifest with the lockfile that was installed, not the one read).*)
PreparedIsUsable ==
    \A p \in Preparers :
        Preparing(p, "done") /\ ~ForTask(p) /\ HeadTree = Installed(p) => ImageFor(HeadTree, Base(p))

(* What a preparation leaves behind can be found: its containers by        *)
(* recovery, its image by the checks of the goal.                          *)
PreparationInv == ContainersAccounted /\ PreparedIsUsable

(* A goal that is done keeps its record and its candidate, whoever         *)
(* prepares it: what is applied is what was judged.                        *)
DoneStays == [][prepGoal.state = "DONE" => UNCHANGED <<prepGoal, candidate>>]_prepVars

(* A preparation gives the lock back, whatever fails, unless its process   *)
(* dies.                                                                   *)
PreparationEnds ==
    \A p \in Preparers :
        workspaceLock = p ~> workspaceLock # p

(* docs/recovery.md:7: dirty files of the candidate pause the goal "en vez *)
(* de adoptar silenciosamente un baseline".                                *)
NothingAdopted ==
    \A i \in 1..prepGoal.recorded : ~candidate.commits[i].with

(* src/cli/prepare.ts: "Reanudá el objetivo" after a preparation.          *)
ResumesAfterPreparation ==
    [][\A p \in Preparers :
         (~ForTask(p) /\ Preparing(p, "unlock") /\ preparations'[p].pc = "done") => ~Refused]_prepVars
=============================================================================
