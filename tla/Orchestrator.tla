----------------------------- MODULE Orchestrator -----------------------------
(***************************************************************************)
(* The loop of Orchestrator.drive: plan, run waves of tasks, integrate     *)
(* their results, verify, review and judge, with the failure handlers that *)
(* retry a task, insert a repair task or plan again, and with the stops    *)
(* (pause, abort, deadline, crash) it may meet in any step.                *)
(*                                                                         *)
(* One controller works on the goal at a time and an integration is one    *)
(* step here: CandidateIntegration models both in detail.  A task          *)
(* specification is its dependencies; a proposal of the planner says which *)
(* of the other specifications it rewrote.  A failure is one of the        *)
(* classes the handlers tell apart.  Whether a failure was seen often      *)
(* enough to escalate is a choice, as are the decisions of models,         *)
(* verifiers and reviewers.                                                *)
(*                                                                         *)
(* Left out: leases, budget, worktrees and their checkpoints, evidence     *)
(* records, profiles and routes, no-progress accounting (its limit throws  *)
(* like the iteration limit), and what a Blocked integration leaves.       *)
(***************************************************************************)
EXTENDS GoalStates, Naturals, FiniteSets, FiniteSetsExt, Functions

CONSTANTS
    Tasks,          \* task ids: those of plans and of repairs (bounds their number)
    MaxPlan,        \* bound: tasks a planner proposes
    MaxParallel,    \* config.parallelism.maxParallelAgents
    MaxAttempts,    \* config.limits.maxTaskRetries + 1
    MaxIterations,  \* config.limits.maxGoalIterations
    MaxPlanner,     \* config.limits.maxPlannerCalls
    MaxFaults,      \* bound: failures of models, checks and merges, deadlines
    MaxCrashes,     \* bound: process deaths
    MaxStops        \* bound: pause and abort requests

ASSUME OrchestratorAssumption ==
    /\ IsFiniteSet(Tasks)
    /\ {MaxPlan, MaxParallel, MaxAttempts, MaxIterations, MaxPlanner} \subseteq Nat \ {0}
    /\ {MaxFaults, MaxCrashes, MaxStops} \subseteq Nat

VARIABLES
    (* SQLite *)
    gstate,         \* goals.state
    version,        \* version of the active plan, 0 when there is none
    members,        \* task ids of the active plan
    deps,           \* dependencies in the active plan
    task,           \* tasks
    revision,       \* goals.candidateRevision, counting integrations
    review,         \* acceptance review of the current revision
    approved,       \* the acceptance contract of the plan is approved
    iteration,      \* goals.iteration
    planner,        \* goals.plannerCalls
    (* the process *)
    pc,             \* next step
    todo,           \* produced tasks read at the loop head, as read
    wave,           \* progress of the tasks of the wave
    culprit,        \* the failure handled: its task, class and where it came from
    signal,         \* why the run was told to stop
    (* environment *)
    faults, crashes, stops

goal == <<gstate, version, members, deps, approved, iteration, planner>>
db == <<goal, task, revision, review>>
proc == <<todo, wave, culprit, signal>>
env == <<faults, crashes, stops>>
vars == <<db, pc, proc, env>>

Failure == {"code", "integration", "blocked"}

NoTask == [status |-> "none", plan |-> 0, deps |-> {}, built |-> [d \in Tasks |-> 0],
           revision |-> 0, attempt |-> 0, max |-> 0, line |-> {}, why |-> "none"]

Nobody == [task |-> {}, why |-> "none", from |-> "loop"]

Init ==
    /\ gstate = "RECEIVED" /\ version = 0 /\ members = {} /\ deps = [t \in Tasks |-> {}]
    /\ task = [t \in Tasks |-> NoTask]
    /\ revision = 1 /\ review = "none" /\ approved = FALSE
    /\ iteration = 0 /\ planner = 0
    /\ pc = "off" /\ todo = [t \in {} |-> NoTask] /\ wave = [t \in {} |-> "queued"]
    /\ culprit = Nobody /\ signal = "none"
    /\ faults = 0 /\ crashes = 0 /\ stops = 0

Status(s) == {t \in Tasks : task[t].status = s}

-------------------------------------------------------------------------------
(* Lineages, plans and what a change of plan invalidates.                  *)

(* line holds the tasks a task repairs, directly or not.                   *)
Root(t) == IF task[t].line = {} THEN t
           ELSE CHOOSE u \in task[t].line : task[u].line = {}

Lineage(t) == {u \in Tasks : task[u].status # "none" /\ Root(u) = Root(t)}
LineageAttempts(t) == MapThenSumSet(LAMBDA u : task[u].attempt, Lineage(t))
Remaining(t) == IF LineageAttempts(t) < MaxAttempts THEN MaxAttempts - LineageAttempts(t) ELSE 0

(* planImpact: the seeds and their transitive consumers.                   *)
PlanImpact(seeds, mem, dep) ==
    LET reach[n \in 0 .. Cardinality(mem)] ==
            IF n = 0 THEN seeds
            ELSE reach[n - 1] \cup {t \in mem : dep[t] \cap reach[n - 1] # {}}
    IN  reach[Cardinality(mem)]

(* validatePlan: a non-empty acyclic graph over the plan's own tasks.      *)
ValidPlan(mem, dep) ==
    /\ mem # {}
    /\ \A t \in Tasks : dep[t] \subseteq (IF t \in mem THEN mem \ {t} ELSE {})
    /\ \A t \in mem : t \notin PlanImpact({u \in mem : t \in dep[u]}, mem, dep)

Proposals == {p \in [members : {m \in SUBSET Tasks : Cardinality(m) <= MaxPlan},
                     deps : [Tasks -> {m \in SUBSET Tasks : Cardinality(m) < MaxPlan}]] :
                 ValidPlan(p.members, p.deps)}

(* Variant: the tasks a plan keeps start again at attempt 0.               *)
PlannedWithNewAttempts(p, rewritten, trigger) ==
    [t \in Tasks |->
        IF t \in p.members
        THEN [NoTask EXCEPT !.status = "pending", !.plan = version + 1, !.deps = p.deps[t],
                            !.max = MaxAttempts, !.line = task[t].line]
        ELSE IF task[t].status = "none" THEN NoTask
        ELSE [task[t] EXCEPT !.status = "superseded", !.why = "none"]]

(* Variant: an accepted task is kept although it consumes what changed.    *)
PlannedKeepingConsumers(p, rewritten, trigger) ==
    [t \in Tasks |->
        IF t \in p.members
        THEN [task[t] EXCEPT
                 !.status = IF @ = "accepted" /\ t \notin rewritten /\ task[t].deps = p.deps[t]
                            THEN "accepted" ELSE "pending",
                 !.plan = version + 1, !.deps = p.deps[t], !.max = MaxAttempts,
                 !.why = "none"]
        ELSE IF task[t].status = "none" THEN NoTask
        ELSE [task[t] EXCEPT !.status = "superseded", !.why = "none"]]

(* The store after PlanningService.generate accepted a proposal.           *)
(* trigger is empty or the task whose failure asked for the plan.          *)
Planned(p, rewritten, trigger) ==
    LET ancestors == trigger \cup UNION {task[u].line : u \in trigger}
        new == {t \in p.members : task[t].status = "none"}
        changed == {t \in p.members : t \in new \/ task[t].deps # p.deps[t]}
        impacted == PlanImpact(ancestors \cup changed \cup rewritten, p.members, p.deps)
        left == IF trigger = {} THEN MaxAttempts
                ELSE CHOOSE n \in 0 .. MaxAttempts : \A u \in trigger : n = Remaining(u)
        shares(t) == trigger # {} /\ (t \in new \/ \E u \in trigger : Root(t) = Root(u))
        limit(t) == IF t \in new THEN MaxAttempts ELSE task[t].max
        allowed(t) == IF shares(t) THEN Min({limit(t), task[t].attempt + left}) ELSE limit(t)
        same(t) == t \notin impacted
    IN  [t \in Tasks |->
            IF t \in p.members
            THEN [status   |-> IF same(t) /\ task[t].status = "accepted" THEN "accepted" ELSE "pending",
                  plan     |-> version + 1,
                  deps     |-> p.deps[t],
                  built    |-> IF same(t) THEN task[t].built ELSE NoTask.built,
                  revision |-> IF same(t) THEN task[t].revision ELSE 0,
                  attempt  |-> task[t].attempt,
                  max      |-> allowed(t),
                  line     |-> IF t \in new THEN ancestors ELSE task[t].line,
                  why      |-> "none"]
            ELSE IF task[t].status = "none" THEN NoTask
            ELSE [task[t] EXCEPT !.status = "superseded", !.why = "none"]]

(* The plan after PlanningService.repair put new in for, or after, parent. *)
RepairMembers(parent, new) ==
    IF task[parent].status = "accepted" THEN members \cup {new}
    ELSE (members \ {parent}) \cup {new}

RepairDeps(parent, new) ==
    [t \in Tasks |->
        IF t = new
        THEN IF task[parent].status = "accepted" THEN {parent} ELSE task[parent].deps
        ELSE IF t \notin RepairMembers(parent, new) THEN {}
        ELSE {IF d = parent THEN new ELSE d : d \in deps[t]}]

(* Variant: the tasks that depend on the repaired one are moved to the new *)
(* plan with their results.                                                *)
RepairedKeepingConsumers(parent, new) ==
    LET mem == RepairMembers(parent, new)
        dep == RepairDeps(parent, new)
    IN  [t \in Tasks |->
            IF t = new
            THEN [NoTask EXCEPT !.status = "pending", !.plan = version + 1, !.deps = dep[t],
                                !.max = Remaining(parent),
                                !.line = {parent} \cup task[parent].line]
            ELSE IF t = parent /\ t \notin mem THEN [task[t] EXCEPT !.status = "superseded"]
            ELSE IF t \notin mem THEN task[t]
            ELSE [task[t] EXCEPT !.plan = version + 1, !.deps = dep[t]]]

(* Variant: the tasks that need no repair stay with the old plan.          *)
RepairedInOldPlan(parent, new) ==
    LET mem == RepairMembers(parent, new)
        dep == RepairDeps(parent, new)
    IN  [t \in Tasks |->
            IF t = new
            THEN [NoTask EXCEPT !.status = "pending", !.plan = version + 1, !.deps = dep[t],
                                !.max = Remaining(parent),
                                !.line = {parent} \cup task[parent].line]
            ELSE IF t = parent /\ t \notin mem THEN [task[t] EXCEPT !.status = "superseded"]
            ELSE IF t \notin mem \/ task[t].deps = dep[t] THEN task[t]
            ELSE [task[t] EXCEPT !.status = "pending", !.plan = version + 1, !.deps = dep[t],
                                 !.revision = 0, !.built = NoTask.built, !.why = "none"]]

Repaired(parent, new) ==
    LET mem == RepairMembers(parent, new)
        dep == RepairDeps(parent, new)
        affected == PlanImpact({new} \cup {t \in mem : task[t].deps # dep[t]}, mem, dep)
        rebased(t) == [task[t] EXCEPT !.plan = version + 1, !.deps = dep[t]]
    IN  [t \in Tasks |->
            IF t = new
            THEN [NoTask EXCEPT !.status = "pending", !.plan = version + 1, !.deps = dep[t],
                                !.max = Remaining(parent),
                                !.line = {parent} \cup task[parent].line]
            ELSE IF t = parent /\ t \notin mem THEN [task[t] EXCEPT !.status = "superseded"]
            ELSE IF t \notin mem THEN task[t]
            ELSE IF t \in affected
            THEN [rebased(t) EXCEPT !.status = "pending", !.revision = 0, !.built = NoTask.built,
                                    !.why = "none"]
            ELSE rebased(t)]

-------------------------------------------------------------------------------
(* Moves, stops and the end of a run.                                      *)

At(step) == pc = step

(* transition throws for an illegal move.                                  *)
Move(to, next) ==
    /\ gstate' = IF Legal(gstate, to) THEN to ELSE gstate
    /\ pc' = IF Legal(gstate, to) THEN next ELSE "illegal"

(* throw: the run ends in state s unless a stop was requested.             *)
Throw(s) == pc' = s
Blocked == Throw("throw_PAUSED")
Error == Throw("throw_FAILED")

Interrupted == signal # "none"

Fault == faults < MaxFaults /\ faults' = faults + 1

(* A call fails by itself or is cut off by the stop.                       *)
FaultOrStop == \/ Fault
               \/ Interrupted /\ UNCHANGED faults

(* What a goal ends in: a request goes before the error.                   *)
Outcome == IF signal # "none" THEN signal
           ELSE IF pc = "throw_PAUSED" THEN "PAUSED" ELSE "FAILED"

(* The catch and finally of run.                                           *)
Catch ==
    /\ pc \in {"throw_PAUSED", "throw_FAILED", "illegal"}
    /\ gstate' = Outcome
    /\ pc' = "off"
    /\ todo' = [t \in {} |-> NoTask] /\ wave' = [t \in {} |-> "queued"]
    /\ culprit' = Nobody /\ signal' = "none"
    /\ UNCHANGED <<version, members, deps, approved, iteration, planner,
                   task, revision, review, env>>

Return ==
    /\ At("done")
    /\ pc' = "off" /\ signal' = "none"
    /\ todo' = [t \in {} |-> NoTask] /\ wave' = [t \in {} |-> "queued"]
    /\ culprit' = Nobody
    /\ UNCHANGED <<db, env>>

(* A request to pause or abort reaches the timer of a running controller;  *)
(* a pause does not take a passed deadline back.                           *)
Request ==
    /\ pc # "off"
    /\ stops < MaxStops /\ stops' = stops + 1
    /\ \E s \in {"PAUSED", "ABORTED"} :
          signal' = IF signal = "FAILED" /\ s = "PAUSED" THEN signal ELSE s
    /\ UNCHANGED <<db, pc, todo, wave, culprit, faults, crashes>>

(* The goal has used up limits.timeoutPerGoal; only an abort goes before it.*)
Deadline ==
    /\ pc # "off" /\ signal \in {"none", "PAUSED"}
    /\ Fault
    /\ signal' = "FAILED"
    /\ UNCHANGED <<db, pc, todo, wave, culprit, crashes, stops>>

Crash ==
    /\ pc # "off"
    /\ crashes < MaxCrashes /\ crashes' = crashes + 1
    /\ pc' = "off" /\ signal' = "none"
    /\ todo' = [t \in {} |-> NoTask] /\ wave' = [t \in {} |-> "queued"]
    /\ culprit' = Nobody
    /\ UNCHANGED <<db, faults, stops>>

-------------------------------------------------------------------------------
(* run: recovery of task records, then drive up to the loop.               *)

(* Variant: a task left running by a dead controller stays running.        *)
RunWithoutRecovery ==
    /\ At("off") /\ gstate \notin Terminal
    /\ pc' = "begin"
    /\ UNCHANGED <<db, proc, env>>

Run ==
    /\ At("off") /\ gstate \notin Terminal
    /\ task' = [t \in Tasks |->
                   IF \/ task[t].status = "running"
                      \/ task[t].status = "failed" /\ task[t].why = "blocked"
                   THEN [task[t] EXCEPT !.status = "pending", !.why = "none"]
                   ELSE task[t]]
    /\ pc' = "begin"
    /\ UNCHANGED <<goal, revision, review, proc, env>>

(* Variant: a resumed goal moves on from the state it was left in.         *)
BeginWhereLeft ==
    /\ At("begin")
    /\ pc' = "ready"
    /\ UNCHANGED <<db, proc, env>>

(* A goal that was left in an active state goes through PAUSED.            *)
Begin ==
    /\ At("begin")
    /\ IF gstate = "PAUSED" \/ (version = 0 /\ gstate = "RECEIVED")
         THEN pc' = "ready" /\ UNCHANGED gstate
         ELSE Move("PAUSED", "ready")
    /\ UNCHANGED <<version, members, deps, approved, iteration, planner,
                   task, revision, review, proc, env>>

(* Steps that only move the goal: where they are and what they move to.    *)
Straight == [understand |-> <<"UNDERSTAND", "discover">>,
             discover   |-> <<"DISCOVER", "plan">>,
             plan       |-> <<"PLAN", "planner">>,
             decompose  |-> <<"DECOMPOSE", "approve">>,
             assign     |-> <<"ASSIGN", "first">>,
             repair     |-> <<"REPAIR", "amend">>,
             replan     |-> <<"REPLAN", "planner">>,
             reassign   |-> <<"ASSIGN", "back">>,
             waved      |-> <<"ASSIGN", "loop">>,
             execute    |-> <<"EXECUTE", "wave">>,
             verify     |-> <<"VERIFY", "check">>,
             review     |-> <<"REVIEW", "decide">>,
             judge      |-> <<"JUDGE", "judged">>]

Advance ==
    /\ pc \in DOMAIN Straight
    /\ Move(Straight[pc][1], Straight[pc][2])
    /\ UNCHANGED <<version, members, deps, approved, iteration, planner,
                   task, revision, review, proc, env>>

Ready ==
    /\ At("ready")
    /\ pc' = IF version = 0 THEN "understand" ELSE "approve"
    /\ UNCHANGED <<db, proc, env>>

(* ensurePlanApproval, before the first ASSIGN and after every plan.       *)
Approve ==
    /\ At("approve")
    /\ \/ approved /\ UNCHANGED approved /\ pc' = "assign"
       \/ ~approved /\ approved' = TRUE /\ pc' = "assign"
       \/ ~approved /\ UNCHANGED approved /\ Blocked
    /\ UNCHANGED <<gstate, version, members, deps, iteration, planner,
                   task, revision, review, proc, env>>

(* approve-plan, given while no controller runs.                           *)
UserApproves ==
    /\ At("off") /\ version > 0 /\ ~approved
    /\ approved' = TRUE
    /\ UNCHANGED <<gstate, version, members, deps, iteration, planner,
                   task, revision, review, pc, proc, env>>

(* After ASSIGN: a run starts at iteration 1, a replan counts a cycle.     *)
First ==
    /\ At("first")
    /\ \/ /\ culprit = Nobody
          /\ iteration' = IF iteration = 0 THEN 1 ELSE iteration
          /\ pc' = "loop"
          /\ UNCHANGED culprit
       \/ /\ culprit # Nobody
          /\ iteration < MaxIterations
          /\ iteration' = iteration + 1
          /\ pc' = culprit.from
          /\ culprit' = Nobody
       \/ culprit # Nobody /\ Error /\ UNCHANGED <<iteration, culprit>>
    /\ UNCHANGED <<gstate, version, members, deps, approved, planner,
                   task, revision, review, todo, wave, signal, env>>

(* cycle of a retry or repair; GOAL_ITERATION_LIMIT or NO_PROGRESS_LIMIT.  *)
Cycle ==
    /\ At("cycle")
    /\ \/ iteration < MaxIterations /\ iteration' = iteration + 1 /\ pc' = "reassign"
       \/ Error /\ UNCHANGED iteration
    /\ UNCHANGED <<gstate, version, members, deps, approved, planner,
                   task, revision, review, proc, env>>

(* A failure was handled: go on with the produced tasks read before, or    *)
(* with the loop.                                                          *)
Back ==
    /\ At("back")
    /\ pc' = culprit.from
    /\ culprit' = Nobody
    /\ UNCHANGED <<db, todo, wave, signal, env>>

-------------------------------------------------------------------------------
(* Planning.                                                               *)

(* planner.requested is recorded before the planner is called.             *)
RequestPlan ==
    /\ At("planner")
    /\ \/ planner < MaxPlanner /\ planner' = planner + 1 /\ pc' = "generate"
       \/ planner >= MaxPlanner /\ Blocked /\ UNCHANGED planner
    /\ UNCHANGED <<gstate, version, members, deps, approved, iteration,
                   task, revision, review, proc, env>>

(* Bound: enough ids are left for the repairs the other faults may need.   *)
SpareIds(p) == Cardinality(Status("none") \ p.members) >= MaxFaults - faults

Generate ==
    /\ At("generate")
    /\ \E p \in Proposals :
          /\ SpareIds(p)
          /\ \E rewritten \in SUBSET {t \in p.members : task[t].status # "none"} :
                task' = Planned(p, rewritten, culprit.task)
          /\ members' = p.members
          /\ deps' = p.deps
    /\ version' = version + 1
    /\ pc' = "decompose"
    /\ UNCHANGED <<gstate, approved, iteration, planner, revision, review, proc, env>>

(* The planner or the oracle is not available, proposes an invalid plan,   *)
(* or is cut off.                                                          *)
GenerateFails ==
    /\ At("generate")
    /\ FaultOrStop
    /\ Blocked \/ Error
    /\ UNCHANGED <<db, proc, crashes, stops>>

(* PlanningService.repair; validatePlan throws when the repair depends on  *)
(* a task outside the plan.                                                *)
Amend ==
    /\ At("amend")
    /\ \E parent \in culprit.task :
          \/ /\ culprit.why = "retry"
             /\ task' = [task EXCEPT ![parent].status = "pending", ![parent].why = "none"]
             /\ pc' = "cycle"
             /\ UNCHANGED <<version, members, deps>>
          \/ /\ culprit.why # "retry"
             /\ \E new \in Status("none") :
                   LET mem == RepairMembers(parent, new)
                       dep == RepairDeps(parent, new)
                   IN  \/ /\ ValidPlan(mem, dep)
                          /\ task' = Repaired(parent, new)
                          /\ members' = mem
                          /\ deps' = dep
                          /\ version' = version + 1
                          /\ pc' = "cycle"
                       \/ /\ ~ValidPlan(mem, dep)
                          /\ Error
                          /\ UNCHANGED <<task, members, deps, version>>
    /\ UNCHANGED <<gstate, approved, iteration, planner, revision, review, proc, env>>

-------------------------------------------------------------------------------
(* The loop: produced tasks, failed tasks, a wave, or the checks.          *)

(* The produced tasks are read once, before the first is integrated.       *)
LoopHead ==
    /\ At("loop")
    /\ \/ Interrupted /\ Error /\ UNCHANGED todo
       \/ ~Interrupted /\ pc' = "produced" /\ todo' = Restrict(task, Status("produced"))
    /\ UNCHANGED <<db, wave, culprit, signal, env>>

(* TaskEngine.integrate of a task as it was read: accepted at the next     *)
(* candidate revision, or failed with a conflict or a diff it does not own.*)
Integrated(t, record) ==
    /\ revision' = revision + 1
    /\ review' = "none"
    /\ task' = [task EXCEPT ![t] = [record EXCEPT !.status = "accepted",
                                                   !.revision = revision + 1]]
    /\ UNCHANGED faults

NotIntegrated(t, record, why) ==
    /\ Fault
    /\ task' = [task EXCEPT ![t] = [record EXCEPT !.status = "failed", !.why = why]]
    /\ UNCHANGED <<revision, review>>

IntegrateProduced ==
    /\ At("produced") /\ gstate # "ASSIGN"
    /\ \E t \in DOMAIN todo :
          /\ todo' = Restrict(todo, DOMAIN todo \ {t})
          /\ \/ Integrated(t, todo[t]) /\ UNCHANGED <<pc, culprit>>
             \/ \E why \in {"integration", "blocked"} :
                   /\ NotIntegrated(t, todo[t], why)
                   /\ culprit' = [task |-> {t}, why |-> why, from |-> "produced"]
                   /\ pc' = "failure"
    /\ UNCHANGED <<goal, wave, signal, crashes, stops>>

(* With something to integrate or a failed task the goal executes.         *)
Execute ==
    /\ gstate = "ASSIGN"
    /\ \/ At("produced") /\ DOMAIN todo # {}
       \/ At("failed") /\ Status("failed") # {}
    /\ Move("EXECUTE", pc)
    /\ UNCHANGED <<version, members, deps, approved, iteration, planner,
                   task, revision, review, proc, env>>

ProducedDone ==
    /\ At("produced") /\ DOMAIN todo = {}
    /\ pc' = "failed"
    /\ UNCHANGED <<db, proc, env>>

FindFailed ==
    /\ At("failed")
    /\ \/ /\ gstate # "ASSIGN"
          /\ \E t \in Status("failed") :
                culprit' = [task |-> {t}, why |-> task[t].why, from |-> "loop"]
          /\ pc' = "failure"
       \/ Status("failed") = {} /\ pc' = "select" /\ UNCHANGED culprit
    /\ UNCHANGED <<db, todo, wave, signal, env>>

ReadyTasks == {t \in Status("pending") : \A d \in task[t].deps : task[d].status = "accepted"}
Unfinished == {t \in Tasks : task[t].status \notin {"none", "accepted", "superseded"}}

(* selectWave: some of the ready tasks, never none.                        *)
SelectWave ==
    /\ At("select")
    /\ \E w \in SUBSET ReadyTasks :
          /\ Cardinality(w) \in 1 .. MaxParallel
          /\ wave' = [t \in w |-> "queued"]
    /\ IF gstate = "ASSIGN" THEN pc' = "execute" /\ UNCHANGED gstate
                            ELSE Move("ASSIGN", "execute")
    /\ UNCHANGED <<version, members, deps, approved, iteration, planner,
                   task, revision, review, todo, culprit, signal, env>>

(* SCHEDULER_BLOCKED, or everything is accepted and can be verified.       *)
NoWave ==
    /\ At("select") /\ ReadyTasks = {}
    /\ IF Unfinished # {} THEN Blocked ELSE pc' = "verify"
    /\ UNCHANGED <<db, proc, env>>

-------------------------------------------------------------------------------
(* TaskEngine.execute, concurrently for the tasks of the wave.             *)

SetWave(t, outcome) == wave' = [wave EXCEPT ![t] = outcome]

(* No attempt left, or preflight fails: the task record is not touched.    *)
RefuseTask(t) ==
    /\ At("wave") /\ wave[t] = "queued"
    /\ \/ task[t].attempt >= task[t].max /\ SetWave(t, "code") /\ UNCHANGED faults
       \/ task[t].attempt < task[t].max /\ Fault /\ SetWave(t, "blocked")
    /\ UNCHANGED <<db, pc, todo, culprit, signal, crashes, stops>>

(* Variant: a task is started whatever attempts it has left.               *)
StartTaskPastLimit(t) ==
    /\ At("wave") /\ wave[t] = "queued"
    /\ task' = [task EXCEPT ![t].status = "running", ![t].attempt = @ + 1,
                            ![t].built = [d \in Tasks |->
                                IF d \in task[t].deps THEN task[d].revision ELSE 0]]
    /\ SetWave(t, "running")
    /\ UNCHANGED <<goal, revision, review, pc, todo, culprit, signal, env>>

StartTask(t) ==
    /\ At("wave") /\ wave[t] = "queued"
    /\ task[t].attempt < task[t].max
    /\ task' = [task EXCEPT ![t].status = "running", ![t].attempt = @ + 1,
                            ![t].built = [d \in Tasks |->
                                IF d \in task[t].deps THEN task[d].revision ELSE 0]]
    /\ SetWave(t, "running")
    /\ UNCHANGED <<goal, revision, review, pc, todo, culprit, signal, env>>

FinishTask(t) ==
    /\ At("wave") /\ wave[t] = "running"
    /\ \/ /\ task' = [task EXCEPT ![t].status = "produced"]
          /\ SetWave(t, "produced")
          /\ UNCHANGED faults
       \/ /\ FaultOrStop
          /\ \E why \in {"code", "blocked"} :
                /\ why = "blocked" => faults' > faults
                /\ task' = [task EXCEPT ![t].status = "failed", ![t].why = why]
                /\ SetWave(t, why)
    /\ UNCHANGED <<goal, revision, review, pc, todo, culprit, signal, crashes, stops>>

WaveTask == \E t \in DOMAIN wave : RefuseTask(t) \/ StartTask(t) \/ FinishTask(t)

(* When all have finished the results are integrated one after the other.  *)
IntegrateWave ==
    /\ At("wave")
    /\ \A t \in DOMAIN wave : wave[t] \notin {"queued", "running"}
    /\ \E t \in DOMAIN wave :
          /\ wave[t] = "produced"
          /\ \/ Integrated(t, task[t]) /\ wave' = Restrict(wave, DOMAIN wave \ {t})
             \/ \E why \in {"integration", "blocked"} :
                   NotIntegrated(t, task[t], why) /\ SetWave(t, why)
    /\ UNCHANGED <<goal, pc, todo, culprit, signal, crashes, stops>>

(* One failure of the wave is handled now, the others stay failed.         *)
WaveDone ==
    /\ At("wave")
    /\ \A t \in DOMAIN wave : wave[t] \in Failure
    /\ \/ DOMAIN wave = {} /\ pc' = "waved" /\ UNCHANGED culprit
       \/ \E t \in DOMAIN wave :
             /\ culprit' = [task |-> {t}, why |-> wave[t], from |-> "loop"]
             /\ pc' = "failure"
    /\ wave' = [t \in {} |-> "queued"]
    /\ UNCHANGED <<db, todo, signal, env>>

-------------------------------------------------------------------------------
(* Failure handlers: taskFailure, verificationFailure and reviewFailure.   *)

(* The lineage has an attempt left: retry or repair, or plan again when    *)
(* the failure was seen too often or the task is critical.                 *)
Handle(t) ==
    IF LineageAttempts(t) >= MaxAttempts
    THEN Error /\ UNCHANGED culprit
    ELSE \/ pc' = "repair"
            /\ culprit' = IF culprit.why = "code" THEN [culprit EXCEPT !.why = "retry"] ELSE culprit
         \/ pc' = "replan" /\ UNCHANGED culprit

(* Variant: a blocked task is left for the next round.                     *)
TaskFailureDeferred ==
    /\ At("failure")
    /\ IF Interrupted THEN Error /\ UNCHANGED culprit
       ELSE IF culprit.why = "blocked" THEN pc' = culprit.from /\ UNCHANGED culprit
       ELSE \E t \in culprit.task : Handle(t)
    /\ UNCHANGED <<db, todo, wave, signal, env>>

TaskFailure ==
    /\ At("failure")
    /\ IF Interrupted THEN Error /\ UNCHANGED culprit
       ELSE IF culprit.why = "blocked" THEN Blocked /\ UNCHANGED culprit
       ELSE \E t \in culprit.task : Handle(t)
    /\ UNCHANGED <<db, todo, wave, signal, env>>

(* The verifiers run one after the other on the candidate.                 *)
Check ==
    /\ At("check")
    /\ \/ Interrupted /\ Error /\ UNCHANGED <<culprit, faults>>
       \/ pc' = "review" /\ UNCHANGED <<culprit, faults>>
       \/ Fault /\ Blocked /\ UNCHANGED culprit
       \/ /\ Fault
          /\ \E t \in Status("accepted") :
                culprit' = [task |-> {t}, why |-> "check", from |-> "loop"]
          /\ pc' = "diagnose"
    /\ UNCHANGED <<db, todo, wave, signal, crashes, stops>>

Diagnose ==
    /\ At("diagnose")
    /\ \E t \in culprit.task : Handle(t)
    /\ UNCHANGED <<db, todo, wave, signal, env>>

(* A review of this revision is asked for once and then read back.         *)
Review ==
    /\ At("decide") /\ review = "none"
    /\ \/ review' = "approve" /\ UNCHANGED <<pc, faults>>
       \/ review' \in {"request_changes", "uncertain"} /\ Fault /\ UNCHANGED pc
       \/ FaultOrStop /\ (Blocked \/ Error) /\ UNCHANGED review
    /\ UNCHANGED <<goal, task, revision, proc, crashes, stops>>

Decide ==
    /\ At("decide")
    /\ \/ review = "approve" /\ pc' = "judge" /\ UNCHANGED culprit
       \/ review = "uncertain" /\ Blocked /\ UNCHANGED culprit
       \/ /\ review = "request_changes"
          /\ \E t \in Status("accepted") :
                culprit' = [task |-> {t}, why |-> "check", from |-> "loop"]
          /\ pc' = "diagnose"
    /\ UNCHANGED <<db, todo, wave, signal, env>>

(* The part of judge that is about tasks: all of the active plan, accepted *)
(* for this plan and built from the current outputs of their dependencies. *)
TasksAcceptable ==
    /\ \A t \in Tasks \ members : task[t].status \in {"none", "superseded"}
    /\ \A t \in members :
          /\ task[t].status = "accepted" /\ task[t].plan = version
          /\ task[t].deps = deps[t]
          /\ \A d \in deps[t] : /\ task[d].status = "accepted"
                                /\ task[t].built[d] = task[d].revision

(* Other reasons to refuse: evidence, routes or human approval.            *)
Judge ==
    /\ At("judged")
    /\ \/ TasksAcceptable /\ Move("DONE", "done") /\ UNCHANGED faults
       \/ ~TasksAcceptable /\ Blocked /\ UNCHANGED <<gstate, faults>>
       \/ TasksAcceptable /\ Fault /\ Blocked /\ UNCHANGED gstate
    /\ UNCHANGED <<version, members, deps, approved, iteration, planner,
                   task, revision, review, proc, crashes, stops>>

-------------------------------------------------------------------------------
Controller ==
    \/ Begin \/ Ready \/ Advance \/ Approve \/ First \/ Cycle \/ Back
    \/ RequestPlan \/ Generate \/ GenerateFails \/ Amend
    \/ LoopHead \/ IntegrateProduced \/ Execute \/ ProducedDone \/ FindFailed
    \/ SelectWave \/ NoWave \/ WaveTask \/ IntegrateWave \/ WaveDone
    \/ TaskFailure \/ Check \/ Diagnose \/ Review \/ Decide \/ Judge
    \/ Catch \/ Return

Next == Run \/ Controller \/ Request \/ Deadline \/ Crash \/ UserApproves

Spec == Init /\ [][Next]_vars

(* A live controller goes on; nobody has to start it, stop it or crash it. *)
FairSpec == Spec /\ WF_vars(Controller)

-------------------------------------------------------------------------------
(* Types of the records the loop keeps.                                    *)
TypeOK ==
    /\ gstate \in GoalState
    /\ version \in Nat /\ revision \in Nat
    /\ members \subseteq Tasks
    /\ deps \in [Tasks -> SUBSET Tasks]
    /\ \A t \in Tasks :
          /\ task[t].status \in {"none", "pending", "running", "produced",
                                 "accepted", "failed", "superseded"}
          /\ task[t].plan \in 0 .. version
          /\ task[t].deps \subseteq Tasks /\ task[t].line \subseteq Tasks
          /\ task[t].built \in [Tasks -> 0 .. revision]
          /\ task[t].revision \in 0 .. revision
          /\ task[t].attempt \in 0 .. MaxAttempts
          /\ task[t].max \in 0 .. MaxAttempts
          /\ task[t].why \in Failure \cup {"none"}
    /\ review \in {"none", "approve", "request_changes", "uncertain"}
    /\ iteration \in 0 .. MaxIterations /\ planner \in 0 .. MaxPlanner
    /\ signal \in {"none", "PAUSED", "ABORTED", "FAILED"}

(* The state machine of the goal never refuses a move of the loop,         *)
(* whatever state a crash left the goal in.                                *)
NoIllegalMove == pc # "illegal"

(* When the judge looks, every task of the active plan was accepted for    *)
(* that plan and is built from the current outputs of its dependencies:    *)
(* the handlers that amend plans reset everything they invalidate.         *)
JudgeFindsCurrentTasks == crashes = 0 /\ At("judged") => TasksAcceptable

(* The same with crashes: results left by a dead controller are integrated *)
(* next to the handling of each other's failures.                          *)
ResumedGoalCanFinish == At("judged") => TasksAcceptable

(* Work that is not finished can be scheduled: no repair or new plan leaves*)
(* a task waiting for one that will never be accepted.  Put aside is the   *)
(* record of an older plan that the loop wrote back after a crash, which   *)
(* ResumedGoalCanFinish is about.                                          *)
StaleWork == {t \in Unfinished : task[t].plan # version}

SchedulerHasWork ==
    At("select") /\ ReadyTasks = {} /\ StaleWork = {} => Unfinished = {}

(* Between waves no accepted task of the plan is built from an output that *)
(* was replaced since, or belongs to another version of the plan.          *)
NoStaleOutput ==
    crashes = 0 =>
        \A t \in Status("accepted") :
            /\ t \in members /\ task[t].plan = version
            /\ \A d \in deps[t] : /\ task[d].status = "accepted"
                                  /\ task[t].built[d] = task[d].revision

(* The plan and its tasks stay consistent through replans and repairs,     *)
(* when the judge looks, between waves and in every move of the goal.      *)
PlanConsistent == JudgeFindsCurrentTasks /\ NoStaleOutput /\ NoIllegalMove

(* A goal that nothing failed in does not end FAILED, however often it is  *)
(* paused and resumed.                                                     *)
PauseIsRecoverable == faults = 0 /\ crashes = 0 => gstate # "FAILED"

(* Accepted work is given up only for a new version of the plan, and       *)
(* attempts are never given back.                                          *)
AttemptsKept ==
    [][\A t \in Tasks :
          /\ task'[t].attempt >= task[t].attempt
          /\ task[t].status = "accepted" /\ task'[t].status # "accepted" => version' > version]_vars

(* Every run ends: the limits bound all retries, repairs and replans.      *)
RunEnds == pc # "off" ~> pc = "off"
===============================================================================
