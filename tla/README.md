# Perfect Harness in TLA+

Perfect Harness turns a request into a *goal*: a planner proposes a graph of
tasks, agents execute them in worktrees, the harness integrates their work into
a private *candidate* repository, verifies and reviews it, and a judge decides
whether the goal is done. The user may pause, abort, retry and finally apply
the candidate to the source checkout. All state that matters is in SQLite, in
git repositories and in Docker; any process may die at any moment and another
one resumes.

This directory models the parts of that program where order, failure and
concurrency decide whether it is correct. Paths below are relative to the
repository; `PROJECT.json` maps every definition to the lines it stands for.

## 1. Inventory

| Component | State it keeps | Operations | What must hold |
|---|---|---|---|
| Candidate integration (`application/task-engine.ts`, `adapters/git/workspace.ts`) | HEAD and work tree of the candidate, task status, operation intents | `integrate`: intent, apply, commit, transaction; reset and rollback | git and SQLite agree or an intent says why not; nothing is integrated twice or lost |
| Crash recovery (`application/recovery.ts`) | the above, runs, leases, container intents | `recoverGoal` | any crash can be recovered, once, without adopting foreign changes |
| Workspace lock and records (`adapters/sqlite/store.ts`) | `process_locks`, entities, events | `lock`, `unlock`, `put`, `transaction` | one controller; records replaced as a whole |
| Goal state machine (`domain/goal-state-machine.ts`) | the state of a goal | `transition` | no illegal move, terminal is final |
| Orchestrator (`application/orchestrator.ts`) | goal, cycle counters, control request | `run`, `drive`, `taskFailure`, `verificationFailure`, `cycle` | the loop ends; work that is accepted is current |
| Planning and plan impact (`application/planning.ts`, `plan-impact.ts`, `domain/task-graph.ts`) | plans, tasks, lineages, attempts | `generate`, `repair`, `planImpact`, `validatePlan` | consumers of changed outputs are redone; attempts are not reset |
| Scheduler (`application/scheduler.ts`) | none | `selectWave` | tasks of a wave are disjoint |
| Task execution (`application/task-engine.ts`, `agent-executor.ts`) | tasks, attempts, runs | `execute`, `invoke` | every task ends and gives back what it took |
| Semaphore (`application/semaphore.ts`) | counter and queue | `use`, release, abort | permits neither lost nor invented; fair |
| Ownership (`application/ownership.ts`) | leases | `acquire`, `release` | two writers never share a surface |
| Budget (`application/budget.ts`) | reservations, usage | `reserve`, `settle`, `interrupt` | spending stays within the limit whatever answers are lost |
| Docker commands (`adapters/sandbox/docker.ts`) | container intents, containers | `command`, `stop`, `recover` | no container without a lease |
| Goal commands (`cli/control.ts`, `cli/context.ts`) | goal, task, apply intent, source checkout | pause, abort, retry, apply, approvals | stops are obeyed; the checkout is patched once |
| Judge, reviews, verification (`domain/evidence-judge.ts`, `application/reviews.ts`, `adapters/verification`) | results, reviews, approvals and artifacts per revision | `run`, `judge`, `approveCriterion` | DONE only with evidence of its own candidate; a verdict stays; calls stay within their limit |
| Provider runtime (`adapters/pi`) | session, requests | `runWithIntegrations` | one answer per request, cut off by the signal |
| Dependencies (`adapters/sandbox/dependencies.ts`) | images, lockfiles, container intents | `prepareDependencies`, `preparedImage` | nothing left behind, nothing foreign adopted, the image fits the files |
| Postgres, Blender (`adapters/sandbox`, `adapters/blender`) | networks, containers | serve, render | the intent protocol of Docker over several resources |
| Integration registry (`integrations/registry.ts`, `agent-session.ts`, `admin.ts`, `unity`) | operations, configurations, catalogs, the editor's lock | `begin`, `decide`, `claim`, `finish`, `interrupt`, authorise, disable | an external effect happens once, or is known to be uncertain |
| Browser (`integrations/browser`) | Docker resources, snapshot, elements | open, close, recover; snapshot, click, type | resources on record; actions on what was shown |
| Desktop (`integrations/desktop/session.ts`) | grant, stop file, watcher, child processes | bind, revoke, observe, act | control ends when it is withdrawn |
| Transports (`integrations/wire.ts`) | connection, catalog pages | connect, read the catalog | a catalog is whole or refused |
| Skill trials (`skills/experiments.ts`, `trial-recovery.ts`) | trial, reservations, outcomes | authorise, run, cancel, recover | budget, counters and results survive every interruption |
| Skill policy (`skills/registry.ts`, `control.ts`, `session.ts`, `scripts.ts`) | switch, settings, epochs, selections, snapshots | approve, select, enable, save; load, ask, run a script | a run uses what the user decided, and ends when that changes |
| Presentation (`presentation/*`, `ui/tui/app.tsx`) | queue of intents, activity, login, view | dispatch, perform, publish, dispose | one activity; consent is what was shown; the view catches up; a shutdown ends |
| CLI, configuration, rendering, tools, validation, examples, Windows helpers | little or none | parsing, printing, I/O | out of scope |

Components interact through the store (every record), through the workspace
lock (who may act), through abort signals (how a run, a task, a request or a
command is cut short) and through the intents that bridge SQLite, git and
Docker. The behaviours that are hard: a crash between two of those stores;
commands of several processes on one goal; records read before an await and
written after it; failures in the middle of a loop over records that the
failure handler rewrites; retries that must stay bounded over plans, repairs
and resumptions; permits, leases and budget under aborts. `PROJECT.json` lists
each such place under `hazards`, at its line.

## 2. Modules

| Module | Models | Uses |
|---|---|---|
| `CandidateIntegration` | integration of tasks and `recoverGoal`, step by step between awaits, by several controllers that may die | `IntegrationLedger` |
| `IntegrationLedger` | what integration promises, in two variables: which tasks' commits are in git (`landed`) and which are recorded (`booked`) | |
| `GoalStates` | the transition table | |
| `Orchestrator` | `run` and `drive`: plan, waves, failures, repairs, replans, verification, review, judgement | `GoalStates` |
| `Semaphore` | `Semaphore.use`, with the microtask between a hand-off and the waiter's continuation | |
| `WorkerPool` | several tasks at work over leases, budget, permits and containers, with recovery | `Semaphore` (instance `Heavy`) |
| `GoalCommands` | commands of several processes on the goals of one checkout, the timer of `run`, `apply` | |
| `DependencyPreparation` | `perfect prepare` beside the run of its goal: lock, container, image, lockfile, recovery | |
| `GoalAcceptance` | checks, reviews, approvals, artifacts and the judge over several candidates | |
| `IntegrationOperations` | operations of two agents on one service, the administrator, the editor's lock | |
| `BrowserSandbox` | the Docker resources of a browser: open, close, crash, recover | |
| `BrowserPage` | snapshots and actions on a page that changes, beside calls that were given up | |
| `DesktopSession` | control of a window, its withdrawal, native children | |
| `CatalogReader` | a connection and its paged catalog | |
| `SkillTrial` | evaluation of a skill by several processes | |
| `SkillPolicy` | decisions about skills in several windows, and the runs they concern | |
| `Presentation` | terminal interface, channel and engine | |
| `MC*` | instances for TLC | |
| `*Proofs` | theorems, checked by TLAPS | `TLAPS` |

`MCGoalRun`, `MCUserCommands`, `MCSkills` and `MCIntegrations` hold several
separate instances: the variable `which` says which one a behaviour is about, the
others rest in their initial state. They share a run, not state; `MCPreparationSpec`, `MCAcceptanceSpec`,
`MCCommandsSpec`, `MCOperationSpec`, `MCPageSpec` and `MCSandboxSpec` are one
instance alone.

An operator called *variant* in a comment is not part of a specification: it is
a plausible mistake in the definition after it, and shows that the properties
can tell.

### CandidateIntegration

`head`, `author` and `dirty` are the candidate repository, `candidate`,
`status`, `result`, `attempt`, `intent` and `lock` what SQLite records, `pc`
and `local` the position and the variables of each controller. A revision is
the number of commits on the branch. Every action is what happens between two
awaits or two writes, so a crash (`Crash`) can fall anywhere. `OpenGoal` reads
the goal before the lock, as the code does; `InspectCandidate`, `Reconcile`,
`InterruptTask` and `AdoptRevision` are `recoverGoal` in its order;
`StartIntegration` up to `MarkFailed` are `TaskEngine.integrate` with
`GitWorkspace.integrate` inlined. `ReadFails` is the `rev-parse` after the
commit failing: its promise is returned, not awaited, so the `catch` that resets
does not see it. `ManualCommit`, `ManualEdit` and `CleanUp` are the user in the
candidate; with `LiveDrift = FALSE` only while no controller is at work.

### Orchestrator

A task is a record with its status, the plan it belongs to, its dependencies,
its attempts, and `built`, the versions of its dependencies that its output was
made from: that is how the model knows an output is stale. `generate` and
`repair` (`Planned`, `Repaired`) are what those functions do to tasks and plans;
the planner's proposal is any acyclic graph over at most `MaxPlan` new or kept
tasks. Failures are classes: of the code, of the integration, or blocked by the
surroundings. `Catch` and `Return` are the `catch` and `finally` of `run`.
Verification, reviews and the planner answer anything.

### Semaphore

`ahead[u]` is the set of users that waiting user `u` found in line, so that no
sequence is needed and the proofs stay first-order; `QueueOrder` says that this
is a line.

### WorkerPool

A task of a wave goes through the steps of `TaskEngine.execute`: lease, agent,
requests, commands (permit, intent, container), and the `finally` that keeps
the lease while a container may be alive. A request records what it will spend
(`spent`) when it is reserved, whether or not an answer tells (`usage`).
Containers survive a crash, semaphores do not.

### GoalCommands

An action is a stretch between two awaits: everything a command reads before the
lock and the lock; the acknowledgement and the first move of a run; the `catch`
and `finally`. Within one process (the terminal interface runs a goal and obeys
its user on one event loop) this is exact. Two processes could in principle
interleave between two statements of such a stretch, since the read and the
write of a record are not one transaction (`cli/control.ts:24-30`,
`orchestrator.ts:72-78`); that is an assumption of the model and a hazard of the
list.

### DependencyPreparation

The candidate is its commits and its index; a tree is a manifest and the
lockfile it has, and a lockfile is named after the manifest it was generated
from, which is all that `npm ci`, the key of the image and `git apply --3way`
can tell. `LockPrepare` to `UnlockPrepare` are `prepareDependencies` in its
order; the run of the goal is reduced to what it shares with that: the lock,
recovery of containers and of the candidate, one task and its integration, the
last check. `DependencyWindows`: `"stale"` lets a run fit between the check of the
goal's state and the lock, `"late"` lets a creation that was cut off reach the
daemon afterwards, `"slow"` lets an inspection fail while `docker version` answers.

### GoalAcceptance

`checks` and `verdicts` hold the latest result of each spec and role with its
revision, `artifacts` the revisions that have files, changed files, and
observations of reviewers. `round` is the run: what it still has to verify and
review, and what the judge read. A repair is a new revision.

### IntegrationOperations

`operations` are the rows of SQLite, `sessions` what each run remembers,
`service` what the other side was sent and did: it may act after its answer was
lost. `Wait`, `Relisted`, `Lock`, `Claim` and `Send` are the stretches of
`call` between awaits. Every instance in `Budgets` allows one kind of change
(a save, a crash, a new catalog), so that the instances stay small.

### BrowserSandbox, BrowserPage, DesktopSession, CatalogReader

Docker is what exists and what was asked for; a record in the registry comes
before its resource and goes after it. `BrowserWindows`: `"late"` and `"slow"` as
above, `"same"` for a second recovery in one process.

In `BrowserPage` every await of the server is a step, and between any two of them
the page may open another document, lose or gain nodes or change what one looks
like. For each element `snapshot` finds the handle (`Query`), reads the label it
will show (`ReadLabel`), reads the signature (`ReadSignature`) and records both
under the next number (`SetElement`); `element` looks at the snapshot (`Check`),
at the node (`Connected`) and at its signature (`Compare`), and the action falls on
what the node is by then (`Act`). A look is all of what the label, the box, the
privacy check and the signature see; `Signature` keeps what `signature()`
serialises. A call the agent has given up goes on in the server beside the next,
and writes into the same elements: that window is open. `observed.alone` and
`alone` in a call say whether a snapshot began while no other was being taken.
`PageBudgets` bounds the changes, the calls given up and the snapshots asked for.

The desktop's session looks at
the stop file, the expiry and the window before it starts a child;
`late` counts actions begun after the control was withdrawn, `strays` the
children nobody awaits.

### SkillTrial and SkillPolicy

A trial is one record that several processes read and write. `Windows` names
the reads and writes of it between which another process may act: `"settle"`
(`settleTrial`) is open in the run, `"recover"` (from the record read at the
start of a recovery to its last write) is closed. In `SkillPolicy` a release
is known, inspected, selected and enabled in separate steps; `epochs` count
decisions; an agent remembers the epoch and the hash it started from.

### Presentation

The interface acts on `ui.view`, the last snapshot that arrived; the engine
takes intents in order, each with checks, an await (`Enter`, `Perform`) and an
end. `UiInstances` are the kinds of intents a user has in one instance;
together they cover every kind. `UiWindows`: `"folder"` lets the user open the
dialog of consent while a change of folder is under way, `"late"` lets intents
arrive during a shutdown, or a trial wait in the queue when it begins.

## 3. Runs

All bounds are CONSTANTS of the configuration and guards of environment
actions: attempts, crashes, manual changes, waves, commands, faults. Symmetry
is used only in runs without liveness.

| Run | Question | Bounds, and why they suffice |
|---|---|---|
| `CandidateIntegration` | Do git and SQLite agree after any crash, and is every step one of the ledger? | 2 tasks, 2 controllers, 2 crashes (one inside the recovery of the other), 3 intents, 3 commits, 1 manual change: two tasks in flight, a retry, and a foreign commit between them |
| `CandidateResume` | Can every crash be recovered? No, see below | 1 task, 2 crashes |
| `Orchestrator` | Is the plan consistent over repairs, replans and a crash? | 4 tasks in plans of 2, so that a chain, a fork and two generations of replacements exist; 2 attempts, 2 faults, 1 crash |
| `OrchestratorLive` | Does a run end? | 3 tasks, 1 fault, 1 stop, all results of verification and review |
| `OrchestratorStale` | Can a goal resumed after a crash finish? Not always | 3 tasks, 1 crash, 1 fault |
| `GoalRun` | Do waves, preparations and the acceptance of a candidate keep what they share? | waves: 2 tasks, disjoint (in parallel) or overlapping (one after the other), 1 heavy permit, 2 requests of which the budget admits one, 2 waves, 1 crash. Preparations: 2 (candidate and task), 2 manifests, 1 crash, 1 outage: one crash lands between any two writes. Acceptance: 2 candidates, a mandatory and an optional spec, both reviews, 2 oracle calls, and one pause or crash, one changed file or one observation |
| `UserCommands` | Do commands of several processes, and a user at the terminal, get what they asked for? | 2 goals of one checkout, 2 processes, 4 commands (two runs and two applies), 1 crash; 2 folders, 3 intents from five sets of kinds, 1 change by another process |
| `Skills` | Do the accounts of a trial, the policy of skills and the queue for permits hold? | 2 sessions, 2 slots, 3 requests of which the tokens admit two, 2 attempts, 1 cancellation, 1 crash; 2 skills, one depending on the other, 3 releases, 1 run, 1 window, 2 decisions; 4 callers of 2 permits |
| `Integrations` | Is what is on record what happened, and does every call end? | 2 runs in 2 processes, 2 operations, a call each; 2 browsers, 1 rescuer, opens and a crash or an outage; 2 nodes of 3 looks (one hidden, two that differ in what the signature omits), 2 actions, and 1 change with 2 snapshots or 1 call given up with 1; 2 windows, 3 calls, 2 actions; 3 tools, 3 pages of which 2 may be read |
| `GoalCommandsErased` | Is a request to abort ever erased unseen? Yes | 1 goal, 3 commands |
| `PreparationAdopts` | Is something foreign ever adopted as the candidate? Yes | as in `GoalRun` |
| `IntegrationEvidence` | Are artifacts nobody changed ever refused? Yes | as in `GoalRun` |

`CHECK_DEADLOCK FALSE` is set where environment bounds let the system stop;
`RunEnds`, `SchedulerHasWork`, `GoalRunEnds`, `StopsEnd`, `SkillsEnd`
and `IntegrationsEnd` cover the stops that would be
wrong. A goal that is done, failed or aborted and
a pool without further waves do stop.

### What the properties say

A property of a run is often a conjunction of named parts, each with its own
comment in the module; the variants of the module break each part.

* `CandidateSafe` (`TypeOK`, `MutualExclusion`, `OneOpenIntent`,
  `AcceptedIsInCandidate`, `IntegratedOnce`): one controller, one open integration,
  and the commit of every accepted task in the candidate exactly once.
  `CommitsAccounted` (`RecordedOrAnnounced`, `NothingOnTop`, `DriftNotAdopted`): a commit
  that is not recorded has an intent that announces it and lies on top; a commit of the
  user's is never below the recorded revision. `ProgressKept`: no step forgets an
  accepted task or takes the recorded revision back. `LedgerSpec`: refinement of
  `IntegrationLedger`.
* `PlanConsistent` (`NoStaleOutput`, `JudgeFindsCurrentTasks`, `NoIllegalMove`): an
  accepted task was built from the current version of what it depends on; when
  the loop believes that all is done the judge finds the tasks of the plan; the
  state machine never refuses a move. `SchedulerHasWork`, `AttemptsKept`, `RunEnds`.
* `NoTwoWriters`, `LeaseCoversContainer`, `ResourcesHeld` (`BudgetHolds`, `PermitsInUse`).
* `PreparationInv`: a container that exists has an open intent, and a preparation
  that succeeded is of use to the checks. `GoalRunEnds`: a wave
  ends (`WaveEnds`), and a preparation gives the lock back (`PreparationEnds`).
* `AcceptanceInv`: DONE with checks, reviews and approval of the candidate at hand;
  requests to the oracle within the limit. `VerdictStays`, and `DoneStays`: a goal that is
  done keeps its record and its candidate.
* `SourcePatchedOnce`, `EndingsStay` (`TerminalIsFinal`, `UncertainNotReplayed`),
  `StopsEnd` (`StopReleasesLock`, `ShutdownEnds`).
* `EngineInv` (`OneActivity`, `ActiveInFolder`, `ClosedMeansStopped`), `ConsentAsShown`,
  `ViewConverges`.
* `TrialInv`: what a trial asked stays within its contract although answers are lost, and
  what counts as measured was run. `CountersKept`: no write takes an attempt, a reservation
  or a result back. `SkillsEnd` (`CancelStopsRun`, `DecisionEndsRun`,
  `WaitersServed`).
* `PolicyInv`: nothing starts after a decision beyond what was on its way, what was loaded may be
  read, and only reviewed versions are.
* `QueueInv` (`PermitsAccounted`, `NoIdlePermit`, `QueueOrder`), `NoOvertaking`.
* `OperationInv`: nothing refused was sent, no write happens twice, an uncertain one
  keeps the editor. `OutcomeStays`: what is settled keeps its outcome. `BrowserAccounted`
  (`NothingForgotten`, `CleanCloseLeavesNothing`, `LiveBrowserKept`). `ActsOnShown`: the element
  acted on is the one shown under the number used, in the snapshot named, when that snapshot was taken
  alone, and it has the signature it was shown with when it stood still between the reading of its label and
  of its signature, and between the comparison and the action (`StoodStill`). Without these two
  conditions it is false (section 5).
  `ControlInv`: at most one action begins after the control is withdrawn, and children are
  accounted for. `AcceptedIsWhole`. `IntegrationsEnd` (`OperationSettles`, `DesktopCallEnds`).

### Fairness

* `Orchestrator!FairSpec`: weak fairness of `Controller`, the single thread of
  control, whose agents end because `limits.timeoutPerTask` ends them. Users,
  stops and faults are not fair.
* `QueueFairness`: a granted user runs and a holder ends what it does: every use in
  the code is bounded by a time-out.
* `WaveFairness`: the harness's own steps and the timer of each task. Providers
  (`Reply`) and containers (`Exit`) need never answer.
* `DependencyFairness`: the steps of a preparation, each with a time-out. The daemon
  need not come back.
* `CommandFairness`: recovery, the 200 ms timer, and, once the signal is aborted, the
  end of the task and of the run; `git` ends. Agents without a signal and the goal's
  deadline get no fairness, so `StopReleasesLock` is owed to the request alone.
* `UiFairness`: the engine performs what it has, messages arrive, a trial ends in its time
  and work that was asked to stop stops. The user, a login that waits for them, and work that
  was not asked to stop owe nothing.
* `TrialFairness`: the clean-up of a session whose signal is aborted, its timer included.
  Providers need not answer. `PolicyFairness`: the 200 ms timer of a run and the abort it causes.
* `OperationFairness`: the steps of a session (each call has a time-out), its end, and the
  expiry of an approval. The user, the service and other processes owe nothing.
  `DesktopFairness`: the session's steps and timers; a child and the watcher may hang.

## 4. Proofs

TLAPS checks the theorems for all values of the constants, under the named
assumptions of each module (the special values are distinct, the bounds are
natural numbers, `Capacity` is positive, every task owns something). A theorem
with a further hypothesis closes one of the windows of section 2: without it
the property is false, and section 5 has the counterexample. The part of a property
that holds with the window open is a theorem of its own.

The modules about several components extend the `MC` module of their run. The
instances of a run take turns in one behaviour. `PartsOfTheRun`,
`PartsOfTheCommands`, `PartsOfTheSkills` and `PartsOfTheIntegrations` show that this
behaviour is, for each part, one of the part's own specification, with the fairness
the part states: what is proved of a part holds in the run. From them and the
theorems about each part follow the types of the runs, `GoalRunTypes`,
`UserCommandsTypes`, `SkillsTypes` and `IntegrationsTypes`, for all values of the
constants; only `SkillsTypes` needs a window closed (`"recover"`).

* `CandidateIntegrationProofs`: `TypeCorrect`, `OneController`,
  `OneIntegrationOpen`, `AcceptedWorkKept`, `NoDoubleIntegration`, and together
  `CandidateIsSafe`. None of these
  is inductive by itself: what the intent in progress is worth depends on how far
  its owner, or a dead owner's successor, has come. `IInv` adds `StepInv`, which
  says for each step of a controller what git and the store look like then
  (before the commit, HEAD is where the intent started; after it, one commit of
  the intent's task lies on top; while driving, nothing is pending), and
  `DataInv`, which says it of the state that a crash leaves. The proof has a
  lemma per handler, and `OneActs` carries the others through: whoever does not
  hold the lock is before it. From `IInv` follow `ProgressIsKept`
  (`ProgressKept`, an action property) and `ImplementsLedger` (`LedgerSpec`, the
  refinement: `LedgerInv` says which tasks' commits are in git, so that a commit
  maps to `Land`, a booking to `Book`, a reset to `Withdraw`, and the rest
  stutters). `CommitsAreAccounted` needs `AccountInv`, which follows a commit of
  the user's from HEAD to the recorded revision, and `LiveDrift = FALSE`.
* `SemaphoreProofs`: `TypeCorrect`, `PermitsKept`, `CapacityKept`,
  `WorkConserving`, `QueueIsLine`, together `QueueIsSound`, and `NobodyOvertakes`,
  for any number of users and permits. The
  counter is compared with the cardinality of the set of holders; hand-off
  leaves both alone, which is why an aborted waiter must still release.
* `OrchestratorProofs`: `OrchestratorTypes` (`TypeOK`), `PlanIsConsistent`
  (`PlanConsistent`), `SchedulerAlwaysHasWork` (`SchedulerHasWork`) and
  `AttemptsAreKept` (`AttemptsKept`), for any finite set of tasks, any plans and
  repairs of them, any limits, and any number of faults, stops and crashes. `IInv`
  has the types; `MoveInv`, the states each step may find the goal in, so that
  no move is refused; `PlanInv`, which says that the plan is acyclic and that a record of the
  active version is one of its tasks; `TodoInv` and `WaveInv`, which compare what the
  loop has read and handed out with the tasks as they are now; `StepInv`, who works
  on a task that is under way; and `CleanInv`, that outputs in use are current, which
  holds until the first crash (`ResumedGoalCanFinish` is false after it, see
  section 5). That the scheduler has work rests on `SomeTaskIsFirst`: among the
  unfinished tasks of an acyclic plan one needs none of the others. `PlanImpact` is a
  recursive function that is iterated as often as there are tasks; `PlanImpactClosed`
  and `PlanImpactLeast` say that this is enough, by counting how often a set can
  grow. A repair that resets exactly the impact of a task therefore leaves no
  output that is built from it.
* `FiniteSums`: sums over finite sets and induction on their parts. A sum
  is a recursive function on subsets; that it exists, is unique and changes with
  one summand is shown from the well-foundedness of inclusion (`PartInduction` and
  the lemmas after it), because an induction theorem that takes an operator
  cannot be used. Budgets, attempts of a lineage and the steps of `PlanImpact`
  are counted with it.
* `GoalRunProofs`, about `WorkerPool`: `ContainersCovered` and `OneWriter`: `LeaseInv`
  says that leases are disjoint, that containers have intents and intents leases, and
  at which steps a task has which. `PermitsAreOfCommands` (`PermitsInUse`): `PermitInv` is
  the invariant of `SemaphoreProofs`, whose lemmas are used through its instance
  `Heavy`, with the step of each task that queues or holds. `BudgetKept`
  (`BudgetHolds`): every request counts for at least what it spends; together
  `ResourcesAreHeld`. `PoolUsesSemaphore`: the pool implements `Semaphore`, each of its
  steps being one of the semaphore's, a stutter, or a crash, which begins a new
  semaphore. So `QueueInv` and `NoOvertaking` hold in the pool, across crashes
  (`PoolQueueIsSound`). The mapping needs that who is not in line is in nobody's way
  (`LineInv`). `PoolTypes`: the types of leases, containers, permits and requests.
  About `GoalAcceptance`: `AcceptedWithProofs` (`AcceptanceInv`) and
  `VerdictsStay`. The judge compares with an approval the run read earlier, and a
  reviewer answers a question put earlier: `ReadInv` says that both are still
  about the candidate at hand, because every pause, crash and repair forgets them.
  `DoneInv` keeps checks and reviews from running after DONE. About
  `DependencyPreparation`: `PreparationsAreOfUse` (`PreparationInv`), when the daemon
  answers truly (neither `"late"` nor `"slow"`), from `PrepIInv`: whoever works has
  the lock, the intent of a container is recorded before it is created and
  closed after it is gone, and an image is recorded for what was installed. The
  last of it, `PreparedAlwaysUsable` (`PreparedIsUsable`), needs no condition.
  `DoneIsLeftAlone` (`DoneStays`), when the state is still what it was before the lock
  (`"stale"`).
* `UserCommandsProofs`, about `GoalCommands`: `TypeCorrect`, `PatchedOnce`, `EndedGoalsStay`,
  `AppliedAtMostOnce`, and of the last two `EndedStays`. `IInv` says that a process at work holds the lock, hence
  is alone; that it works on a goal that has not ended; and that between the
  comparison of the fingerprint and the patch the checkout is unchanged. About
  `Presentation`: `OneThingAtATime` (`EngineInv`), when nothing is dispatched late,
  from `EngineIInv`: what an intent checked before its await still holds after it, and
  nothing can start once the trials are closed. `OneActivityAlways`: one activity, of
  the engine's folder, holds with late intents too. `ConsentIsAsShown`, when the dialog opens
  on a settled folder (`"folder"`), from `ConsentIInv`: an open dialog, and every intent of
  consent or approval in the queue, is about the folder the engine will be in
  when it comes to it, and about a version the user has seen.
* `IntegrationProofs`: `OperationsTell` (`OperationInv`) and `OutcomesStay`. `OperationIInv`
  relates the row of each operation to the step of the session that works on it,
  to what the service was sent and did, and to the owner of the editor's lock.
  About `DesktopSession` and `BrowserPage`: `ControlIsKept` (`ControlInv`), from `DesktopIInv`: the check of the stop file and of the
  window stands directly before each act in the steps left to a call. `ActsAsShown`
  (`ActsOnShown`), from `PageIInv`, for any documents, calls, changes and calls given up:
  `AloneInv` says that under a snapshot taken alone one call writes elements, that those on record are
  the ones in its hands, and that once it is concluded nobody writes until the next begins;
  `PageCallInv` carries the element and its signature from the check to the action. About `BrowserSandbox`: `BrowsersAreAccounted` (`BrowserAccounted`), with
  every window closed, from `BrowserIInv`: `TurnInv` says which loop of close, call or end of a
  session is at work, `HoldInv` that what exists or was asked for is on the list in its
  hands and of which kind and open it can be, `RescueInv` that what a recovery has in
  hand belongs to nobody in use. `LiveBrowsersAreKept` (`LiveBrowserKept`) holds when
  Docker is late and slow too, and needs only that a process does not recover beside
  its own sessions (`"same"`). Its `LiveIInv` says that a browser in use is not beside a
  loop of close, that a loop has the resources of its own browser in hand, and that what the open has
  passed exists. `PageKeepsTypes` is a part of `PageIInv`. `BrowserTypes` holds with every window open and
  follows the number of opens (`OpensInv`): one that has begun takes one of
  those left, and gives it to the count with its first resource. About `CatalogReader`: `CatalogsAreWhole`
  (`AcceptedIsWhole`), from `ReaderIInv`: what was read are the pages of a walk along the
  cursors, none twice, so that the walk is no longer than there are cursors
  and its end is that of `Chain`. `Chain` and `FlattenSeq` are recursive functions; their
  values are computed step by step with `CountingUp`.
* `SkillProofs`: `TrialIsAccounted` (`TrialInv`) and `CountersAreKept`, while nobody comes
  between the read and the write of a recovery (`"recover"`), from `TrialIInv`: a record in
  some process's hands differs from the stored one only where its writer may.
  `PolicyIsObeyed` (`PolicyInv`), from `PolicyIInv`: what a run took with it was
  reviewed and decided in the epoch it remembers.

Only model-checked: liveness under fairness (`RunEnds`, `GoalRunEnds`, `StopsEnd`,
`ViewConverges`, `SkillsEnd`, `IntegrationsEnd`), which the prover cannot do. Every
invariant and every other action property of a passing run is a theorem.

## 5. Where the code and its promises differ

Shown by a run:

1. `CandidateResume` (`recovery.ts:162`): recovery completes the intent of a
   commit it found and adopts the revision in a later write. A crash between
   the two leaves HEAD ahead of the goal with no intent, which every later
   recovery refuses as a foreign change.
2. `OrchestratorStale` (`orchestrator.ts:406`): a list of produced tasks is
   iterated while failures rewrite the tasks; the stale record is written back
   accepted for an old plan, and the judge refuses for ever. In plans of three tasks the
   record written back can also be a failed one, whose dependencies no plan will accept:
   every later run ends with SCHEDULER_BLOCKED, so `SchedulerHasWork` puts it aside
   (`StaleWork`).
3. `GoalCommandsErased` (`orchestrator.ts:638`): the acknowledgement of control
   requests clears one that nobody has looked at.
4. `PreparationAdopts` (`dependencies.ts:379`): a preparation commits whatever the
   index of the candidate holds and records the result. After a crash in the
   middle of an integration that is half of a task's work, and recovery then
   finds the integration uncertain for good, although `prepare` says that the
   goal may be resumed (`ResumesAfterPreparation`).
5. `IntegrationEvidence` (`integration-evidence.ts:76`): the digest of an observation is
   of its bytes, the digest it is compared with of their base64 text. An observation by
   a reviewer at the final revision makes the judge refuse that revision for ever.

Found with a constant or a specification that the runs do not use; each is a
counterexample to the named property:

* `DriftNotAdopted` with `LiveDrift = TRUE` (`workspace.ts:203`): a commit in the
  candidate during a run is built upon; `docs/recovery.md:7` promises a pause.
* `PauseIsRecoverable` with `MaxStops = 3`, no faults (`task-engine.ts:141`): a pause
  costs each running task an attempt; enough pauses fail the goal.
* `CountersKept` and `TrialInv` with `Windows = {"settle", "recover"}` (`trial-recovery.ts:102`):
  a recovery writes back the trial it read at its start, over a resumption by another session.
  `docs/v4-user-guide.md:27`: "ni reinicia los contadores".
* `NothingSentWhileUncertain` with `MCOperationSpec` and `Budgets <- MCUncertainBudgets`
  (`registry.ts:292`): a write approved before another became uncertain is sent;
  `docs/integraciones.md:70` says new writes are blocked.
* `ChangedIsRefused` with `MCPageSpec`: `docs/integraciones.md:48` says that modified elements
  force a new look. The label is read at `server.ts:117` and the signature at `:141`, two awaits
  later: an element that changes in between is signed as it became and acted on as if it had been
  shown so. The signature is compared at `:176` and the action follows at `:262`, again after
  an await. The signature omits the placeholder, which the label may be (`:82`, `:123`). And a snapshot
  that was given up goes on and fills the elements of the next (`:96`, `:139`).
* `ConsentAsShown` with `UiWindows = {"folder"}` (`app.tsx:283`, `engine.ts:576`): the intent
  of consent carries no folder, so it is recorded for the folder the engine is in by then.
  In the run the dialog opens only on a settled folder.
* `EngineInv` with `UiWindows = {"late"}` (`engine.ts:819`, `app.tsx:981`): `dispose` closes the
  trials first and drains the queue afterwards; a trial that is queued then starts, and nothing
  waits for it. The composer loses its focus while closing, the other keys do not.
* `DoneStays` with `MCPreparationSpec` and `DependencyWindows = {"stale"}` (`dependencies.ts:183`):
  the state of the goal is read before the lock; a run that ends in between leaves a goal
  that is done with a candidate nobody judged.
* `ContainersAccounted` with `DependencyWindows = {"late"}`: a creation that was cut off reaches
  the daemon after its intent is closed.
* `PendingCleanupReported` with `MCSandboxSpec`, and `ContainersAccounted` with
  `DependencyWindows = {"slow"}`: an inspection that fails while the daemon answers
  `version` is taken for an absent resource (`docs/recovery.md:5`). `BrowserAccounted` is false
  with `BrowserWindows` of `"late"` or `"slow"` for the same reasons, and with `"same"` when a
  rescuer is the process of a browser (`Rescuers = {p1}`), which may be in use.

## 6. Not modelled, and the plan

Rendering, parsing, prompts, network formats, file confinement and the C#
helpers are left out: one call each, no state that outlives it. Postgres and
Blender repeat the protocols of `WorkerPool` and `BrowserSandbox` within one call. Nested
transactions and savepoints of the store are one step. `PROJECT.json` says for
each component what of it is left out.

To come, in order:

1. Orchestrator and acceptance composed, so that the repairs of `GoalAcceptance`
   are those of `Orchestrator`.
2. Plans in which several tasks derive from one (`planning.ts:139`).
3. Store: nested transactions and savepoints.
