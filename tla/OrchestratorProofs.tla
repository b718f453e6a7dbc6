-------------------------- MODULE OrchestratorProofs --------------------------
(* Theorems about the loop of a goal, for any set of tasks, any plans and   *)
(* repairs of them, any limits and any number of faults, stops and crashes. *)
EXTENDS Orchestrator, FiniteSums

-------------------------------------------------------------------------------
(* planImpact: what it returns is closed under consumers, and is the least *)
(* set that is and has the seeds.                                          *)

Consumers(S, mem, dep) == S \cup {t \in mem : dep[t] \cap S # {}}

Closed(S, mem, dep) == \A t \in mem : dep[t] \cap S # {} => t \in S

Reaches(f, k, seeds, mem, dep) ==
    f = [n \in 0 .. k |-> IF n = 0 THEN seeds
                          ELSE f[n - 1] \cup {t \in mem : dep[t] \cap f[n - 1] # {}}]

LEMMA ReachesStep ==
    ASSUME NEW k \in Nat, NEW seeds, NEW mem, NEW dep, NEW f, Reaches(f, k, seeds, mem, dep)
    PROVE  /\ f[0] = seeds
           /\ \A n \in 0 .. k : n # 0 => f[n] = Consumers(f[n - 1], mem, dep)
  BY DEF Reaches, Consumers

LEMMA ReachesExists ==
    ASSUME NEW k \in Nat, NEW seeds, NEW mem, NEW dep
    PROVE  \E f : Reaches(f, k, seeds, mem, dep)
  <1> DEFINE G == {n \in Nat : \E f : Reaches(f, n, seeds, mem, dep)}
  <1>1. 0 \in G
    <2>1. Reaches([n \in 0 .. 0 |-> seeds], 0, seeds, mem, dep)
      BY DEF Reaches
    <2>2. QED
      BY <2>1
  <1>2. ASSUME NEW n \in Nat, n \in G PROVE n + 1 \in G
    <2>1. PICK f : Reaches(f, n, seeds, mem, dep)
      BY <1>2
    <2> DEFINE g == [i \in 0 .. n + 1 |-> IF i = n + 1 THEN Consumers(f[n], mem, dep) ELSE f[i]]
    <2>2. /\ f[0] = seeds
          /\ \A i \in 0 .. n : i # 0 => f[i] = Consumers(f[i - 1], mem, dep)
      BY <2>1, ReachesStep
    <2>3. ASSUME NEW i \in 0 .. n + 1
          PROVE g[i] = IF i = 0 THEN seeds ELSE Consumers(g[i - 1], mem, dep)
      <3>1. CASE i = 0
        BY <2>2, <3>1
      <3>2. CASE i = n + 1
        BY <3>2
      <3>3. CASE i # 0 /\ i # n + 1
        <4>1. i \in 0 .. n /\ i - 1 \in 0 .. n /\ i - 1 # n + 1
          BY <3>3
        <4>2. g[i] = f[i] /\ g[i - 1] = f[i - 1]
          BY <4>1
        <4> HIDE DEF g
        <4>3. QED
          BY <2>2, <3>3, <4>1, <4>2
      <3>4. QED
        BY <3>1, <3>2, <3>3
    <2>4. g = [i \in 0 .. n + 1 |-> g[i]]
      OBVIOUS
    <2> HIDE DEF g
    <2>5. Reaches(g, n + 1, seeds, mem, dep)
      BY <2>3, <2>4 DEF Reaches, Consumers
    <2>6. QED
      BY <2>5
  <1> HIDE DEF G
  <1>3. k \in G
    BY <1>1, <1>2, CountingUp
  <1>4. QED
    BY <1>3 DEF G

LEMMA PlanImpactIs ==
    ASSUME NEW mem, IsFiniteSet(mem), NEW seeds, NEW dep
    PROVE  \E f : /\ Reaches(f, Cardinality(mem), seeds, mem, dep)
                  /\ PlanImpact(seeds, mem, dep) = f[Cardinality(mem)]
  <1> DEFINE k == Cardinality(mem)
             reach == CHOOSE f : Reaches(f, k, seeds, mem, dep)
  <1>1. k \in Nat
    BY FS_CardinalityType
  <1>2. Reaches(reach, k, seeds, mem, dep)
    BY <1>1, ReachesExists
  <1>3. PlanImpact(seeds, mem, dep) = reach[k]
    BY DEF PlanImpact, Reaches
  <1>4. QED
    BY <1>2, <1>3

LEMMA PlanImpactBounds ==
    ASSUME NEW mem, IsFiniteSet(mem), NEW seeds, NEW dep
    PROVE  seeds \subseteq PlanImpact(seeds, mem, dep)
           /\ PlanImpact(seeds, mem, dep) \subseteq seeds \cup mem
  <1> DEFINE k == Cardinality(mem)
  <1>1. PICK f : Reaches(f, k, seeds, mem, dep) /\ PlanImpact(seeds, mem, dep) = f[k]
    BY PlanImpactIs
  <1>2. k \in Nat
    BY FS_CardinalityType
  <1> DEFINE G == {n \in Nat : n <= k => seeds \subseteq f[n] /\ f[n] \subseteq seeds \cup mem}
  <1> HIDE DEF k
  <1>3. /\ f[0] = seeds
        /\ \A n \in 0 .. k : n # 0 => f[n] = Consumers(f[n - 1], mem, dep)
    BY <1>1, <1>2, ReachesStep
  <1>4. 0 \in G
    BY <1>3
  <1>5. ASSUME NEW n \in Nat, n \in G PROVE n + 1 \in G
    <2>1. CASE n + 1 <= k
      <3>1. n + 1 \in 0 .. k /\ n + 1 # 0 /\ (n + 1) - 1 = n /\ n <= k
        BY <1>2, <2>1
      <3>2. f[n + 1] = Consumers(f[n], mem, dep)
        BY <1>3, <3>1
      <3>3. QED
        BY <1>5, <3>1, <3>2 DEF Consumers
    <2>2. QED
      BY <2>1
  <1> HIDE DEF G
  <1>6. k \in G
    BY <1>2, <1>4, <1>5, CountingUp
  <1>7. QED
    BY <1>1, <1>2, <1>6 DEF G

LEMMA PlanImpactClosed ==
    ASSUME NEW mem, IsFiniteSet(mem), NEW seeds, NEW dep
    PROVE  Closed(PlanImpact(seeds, mem, dep), mem, dep)
  <1> DEFINE k == Cardinality(mem)
  <1>1. PICK f : Reaches(f, k, seeds, mem, dep) /\ PlanImpact(seeds, mem, dep) = f[k]
    BY PlanImpactIs
  <1>2. k \in Nat /\ k = Cardinality(mem)
    BY FS_CardinalityType
  <1> DEFINE New(n) == f[n] \cap mem
             G == {n \in Nat : n <= k => Closed(f[n], mem, dep)
                                         \/ (IsFiniteSet(New(n)) /\ Cardinality(New(n)) >= n)}
  <1> HIDE DEF k
  <1>3. /\ f[0] = seeds
        /\ \A n \in 0 .. k : n # 0 => f[n] = Consumers(f[n - 1], mem, dep)
    BY <1>1, <1>2, ReachesStep
  <1>4. 0 \in G
    <2>1. IsFiniteSet(New(0)) /\ Cardinality(New(0)) \in Nat
      BY FS_Subset, FS_CardinalityType
    <2>2. QED
      BY <2>1
  <1>5. ASSUME NEW n \in Nat, n \in G PROVE n + 1 \in G
    <2>1. SUFFICES ASSUME n + 1 <= k
                   PROVE  Closed(f[n + 1], mem, dep)
                          \/ (IsFiniteSet(New(n + 1)) /\ Cardinality(New(n + 1)) >= n + 1)
      OBVIOUS
    <2>2. n + 1 \in 0 .. k /\ n + 1 # 0 /\ (n + 1) - 1 = n /\ n <= k
      BY <1>2, <2>1
    <2>3. f[n + 1] = Consumers(f[n], mem, dep)
      BY <1>3, <2>2
    <2>4. CASE Closed(f[n], mem, dep)
      <3>1. f[n + 1] = f[n]
        BY <2>3, <2>4 DEF Consumers, Closed
      <3>2. QED
        BY <2>4, <3>1
    <2>5. CASE ~Closed(f[n], mem, dep)
      <3>1. PICK t \in mem : t \notin f[n] /\ t \in f[n + 1]
        BY <2>3, <2>5 DEF Consumers, Closed
      <3>2. IsFiniteSet(New(n)) /\ Cardinality(New(n)) >= n
        BY <1>5, <2>2, <2>5
      <3>3. New(n) \cup {t} \subseteq New(n + 1)
        BY <2>3, <3>1 DEF Consumers
      <3>4. IsFiniteSet(New(n + 1)) /\ Cardinality(New(n + 1)) \in Nat
        BY FS_Subset, FS_CardinalityType
      <3>5. t \notin New(n)
        BY <3>1
      <3> HIDE DEF New
      <3>6. Cardinality(New(n) \cup {t}) = Cardinality(New(n)) + 1 /\ Cardinality(New(n)) \in Nat
        BY <3>2, <3>5, FS_AddElement, FS_CardinalityType
      <3>7. Cardinality(New(n) \cup {t}) <= Cardinality(New(n + 1))
        BY <3>3, <3>4, FS_Subset
      <3>8. QED
        BY <3>2, <3>4, <3>6, <3>7
    <2>6. QED
      BY <2>4, <2>5
  <1> HIDE DEF G
  <1>6. k \in G
    BY <1>2, <1>4, <1>5, CountingUp
  <1>7. CASE IsFiniteSet(New(k)) /\ Cardinality(New(k)) >= k
    <2>1. New(k) \subseteq mem
      OBVIOUS
    <2> HIDE DEF New
    <2>2. Cardinality(New(k)) <= k /\ Cardinality(New(k)) \in Nat
      BY <1>2, <2>1, FS_Subset, FS_CardinalityType
    <2>3. New(k) = mem
      BY <1>2, <1>7, <2>1, <2>2, FS_Subset
    <2>4. mem \subseteq f[k]
      BY <2>3 DEF New
    <2>5. QED
      BY <1>1, <2>4 DEF Closed
  <1>8. QED
    BY <1>1, <1>2, <1>6, <1>7 DEF G

LEMMA PlanImpactLeast ==
    ASSUME NEW mem, IsFiniteSet(mem), NEW seeds, NEW dep,
           NEW S, seeds \subseteq S, Closed(S, mem, dep)
    PROVE  PlanImpact(seeds, mem, dep) \subseteq S
  <1> DEFINE k == Cardinality(mem)
  <1>1. PICK f : Reaches(f, k, seeds, mem, dep) /\ PlanImpact(seeds, mem, dep) = f[k]
    BY PlanImpactIs
  <1>2. k \in Nat
    BY FS_CardinalityType
  <1> DEFINE G == {n \in Nat : n <= k => f[n] \subseteq S}
  <1> HIDE DEF k
  <1>3. /\ f[0] = seeds
        /\ \A n \in 0 .. k : n # 0 => f[n] = Consumers(f[n - 1], mem, dep)
    BY <1>1, <1>2, ReachesStep
  <1>4. 0 \in G
    BY <1>3
  <1>5. ASSUME NEW n \in Nat, n \in G PROVE n + 1 \in G
    <2>1. CASE n + 1 <= k
      <3>1. n + 1 \in 0 .. k /\ n + 1 # 0 /\ (n + 1) - 1 = n /\ n <= k
        BY <1>2, <2>1
      <3>2. f[n + 1] = Consumers(f[n], mem, dep) /\ f[n] \subseteq S
        BY <1>3, <1>5, <3>1
      <3>3. f[n + 1] \subseteq S
        BY <3>2 DEF Consumers, Closed
      <3>4. QED
        BY <3>3
    <2>2. QED
      BY <2>1
  <1> HIDE DEF G
  <1>6. k \in G
    BY <1>2, <1>4, <1>5, CountingUp
  <1>7. QED
    BY <1>1, <1>2, <1>6 DEF G

(* Of some tasks of a valid plan there is one that needs none of them.     *)
LEMMA SomeTaskIsFirst ==
    ASSUME NEW mem \in SUBSET Tasks, NEW dep, ValidPlan(mem, dep), NEW U \in SUBSET mem, U # {}
    PROVE  \E t \in U : dep[t] \cap U = {}
  <1> DEFINE Needing(t) == {u \in mem : t \in dep[u]}
             Behind(t) == PlanImpact(Needing(t), mem, dep)
             Rests == {mem \ Behind(t) : t \in U}
  <1>1. IsFiniteSet(mem)
    BY OrchestratorAssumption, FS_Subset DEF OrchestratorAssumption
  <1>2. \A t \in mem : Behind(t) \subseteq mem /\ Needing(t) \subseteq Behind(t)
                       /\ Closed(Behind(t), mem, dep) /\ t \notin Behind(t)
    <2>1. ASSUME NEW t \in mem
          PROVE  Needing(t) \subseteq Behind(t) /\ Behind(t) \subseteq Needing(t) \cup mem
                 /\ Closed(Behind(t), mem, dep)
      BY <1>1, PlanImpactBounds, PlanImpactClosed
    <2>2. QED
      BY <2>1 DEF ValidPlan
  <1>3. \A t \in mem : \A S : Needing(t) \subseteq S /\ Closed(S, mem, dep) => Behind(t) \subseteq S
    BY <1>1, PlanImpactLeast
  <1> HIDE DEF Behind
  <1>4. PICK s \in Rests : \A r \in Rests : r \subseteq s => r = s
    <2>1. Rests \in SUBSET SUBSET mem /\ Rests # {}
      OBVIOUS
    <2> HIDE DEF Rests
    <2>2. QED
      BY <1>1, <2>1, LeastPart
  <1>5. PICK t \in U : s = mem \ Behind(t)
    BY <1>4
  <1>6. ASSUME NEW d \in dep[t] \cap U PROVE FALSE
    <2>1. t \in Needing(d) /\ t \in mem /\ d \in mem
      BY <1>6
    <2>2. t \in Behind(d) /\ Closed(Behind(d), mem, dep)
      BY <1>2, <2>1
    <2>3. Needing(t) \subseteq Behind(d)
      BY <2>2 DEF Closed
    <2>4. Behind(t) \subseteq Behind(d)
      BY <1>3, <2>1, <2>2, <2>3
    <2>5. mem \ Behind(d) \subseteq s /\ mem \ Behind(d) \in Rests
      BY <1>5, <1>6, <2>4
    <2>6. mem \ Behind(d) = s
      BY <1>4, <2>5
    <2>7. t \notin Behind(t)
      BY <1>2, <2>1
    <2>8. QED
      BY <1>5, <2>1, <2>2, <2>6, <2>7
  <1>7. QED
    BY <1>6

-------------------------------------------------------------------------------
(* The invariant: types, what each step finds the goal in, the plan, the   *)
(* process's work, and, as long as no process died, the outputs in use.    *)

Statuses == {"none", "pending", "running", "produced", "accepted", "failed", "superseded"}

TaskRecord ==
    [status : Statuses, plan : Nat, deps : SUBSET Tasks, built : [Tasks -> Nat],
     revision : Nat, attempt : Nat, max : Nat, line : SUBSET Tasks,
     why : Failure \cup {"none"}]

Within(r) ==
    /\ r.plan <= version /\ r.revision <= revision
    /\ \A d \in Tasks : r.built[d] <= revision
    /\ r.attempt <= MaxAttempts /\ r.max <= MaxAttempts

GoalTypes ==
    /\ gstate \in GoalState /\ version \in Nat /\ revision \in Nat
    /\ members \in SUBSET Tasks /\ deps \in [Tasks -> SUBSET Tasks]
    /\ review \in {"none", "approve", "request_changes", "uncertain"}
    /\ iteration \in 0 .. MaxIterations /\ planner \in 0 .. MaxPlanner
    /\ signal \in {"none", "PAUSED", "ABORTED", "FAILED"}
    /\ crashes \in Nat /\ faults \in Nat

TaskTypes ==
    /\ task \in [Tasks -> TaskRecord]
    /\ \A t \in Tasks : Within(task[t])

TodoTypes ==
    /\ DOMAIN todo \subseteq Tasks
    /\ todo \in [DOMAIN todo -> TaskRecord]
    /\ \A t \in DOMAIN todo : Within(todo[t])

WaveTypes ==
    /\ DOMAIN wave \subseteq Tasks
    /\ wave \in [DOMAIN wave -> {"queued", "running", "produced"} \cup Failure]

CulpritTypes ==
    culprit \in [task : {{}} \cup {{t} : t \in Tasks},
                 why : Failure \cup {"none", "check", "retry"}, from : {"loop", "produced"}]

Types == GoalTypes /\ TaskTypes /\ TodoTypes /\ WaveTypes /\ CulpritTypes

(* The goal is in a state from which the next step may move it.            *)
Steps == {"off", "begin", "ready", "understand", "discover", "plan", "planner", "generate",
          "decompose", "approve", "assign", "first", "loop", "produced", "failed", "select",
          "execute", "wave", "waved", "failure", "verify", "check", "review", "decide",
          "judge", "judged", "done", "diagnose", "repair", "amend", "cycle", "reassign",
          "back", "replan", "throw_PAUSED", "throw_FAILED"}

MoveInv ==
    /\ pc \in Steps
    /\ pc = "begin" => gstate \notin Terminal
    /\ pc = "ready" => gstate = "PAUSED" \/ (version = 0 /\ gstate = "RECEIVED")
    /\ pc = "understand" => gstate \in {"PAUSED", "RECEIVED"}
    /\ pc = "discover" => gstate = "UNDERSTAND"
    /\ pc = "plan" => gstate = "DISCOVER"
    /\ pc \in {"planner", "generate", "decompose"} => gstate \in {"PLAN", "REPLAN"}
    /\ pc \in {"approve", "assign"} => gstate \in {"DECOMPOSE", "PAUSED"}
    /\ pc \in {"first", "loop", "back", "execute"} => gstate = "ASSIGN"
    /\ pc \in {"produced", "failed", "select", "verify"} => gstate \in {"ASSIGN", "EXECUTE"}
    /\ pc \in {"wave", "waved", "failure"} => gstate = "EXECUTE"
    /\ pc \in {"check", "review"} => gstate = "VERIFY"
    /\ pc \in {"decide", "judge"} => gstate = "REVIEW"
    /\ pc = "judged" => gstate = "JUDGE"
    /\ pc = "diagnose" => gstate \in {"VERIFY", "REVIEW"}
    /\ pc \in {"repair", "replan"} => gstate \in {"EXECUTE", "VERIFY", "REVIEW"}
    /\ pc \in {"amend", "cycle", "reassign"} => gstate = "REPAIR"

(* The plan and the records of its tasks.  A record of the active version  *)
(* is one of its tasks with the dependencies of the plan.                  *)
OfPlan(t, r) == r.plan = version => t \in members /\ r.deps = deps[t]

PlanInv ==
    /\ members = {} \/ ValidPlan(members, deps)
    /\ \A t \in members : task[t].status \notin {"none", "superseded"}
    /\ \A t \in Tasks : /\ task[t].status = "none" => task[t].attempt = 0
                        /\ task[t].status \in {"none", "superseded"} \/ OfPlan(t, task[t])

(* A produced task read at the loop head still waits to be integrated.     *)
TodoInv ==
    \A t \in DOMAIN todo :
        /\ todo[t].attempt = task[t].attempt
        /\ task[t].status \notin {"none", "accepted"}
        /\ OfPlan(t, todo[t])

(* Where in the wave a task is, its status says too.                       *)
WaveInv ==
    \A t \in DOMAIN wave :
        /\ wave[t] = "queued" => task[t].status = "pending"
        /\ wave[t] \in {"running", "produced"} => task[t].status = wave[t]
        /\ wave[t] \in Failure => task[t].status \in {"pending", "failed"}

(* Steps on the way to the loop head, where produced tasks are read.       *)
BeforeLoop == {"off", "begin", "ready", "understand", "discover", "plan", "planner",
               "generate", "decompose", "approve", "assign", "first", "loop",
               "throw_PAUSED", "throw_FAILED"}

(* Steps after the loop has found nothing left to do.                      *)
AfterLoop == {"verify", "check", "review", "decide", "judge", "judged"}

(* What each step may rely on: who is at work on a task that is under way, *)
(* that a task to be retried has no accepted work, and, without a crash,   *)
(* that what is checked is finished.                                       *)
StepInv ==
    /\ pc \in {"failed", "select", "execute", "wave"} => DOMAIN todo = {}
    /\ DOMAIN wave = {} \/ pc \in {"execute", "wave"}
    /\ \A t \in Status("running") : t \in DOMAIN wave \/ pc = "off"
    /\ \A t \in Status("produced") :
          t \in DOMAIN wave \cup DOMAIN todo \/ (pc \in BeforeLoop /\ culprit.from = "loop")
    /\ pc = "select" => Status("failed") = {}
    /\ pc \in {"failure", "repair", "amend"} /\ culprit.why \in {"code", "retry"} =>
          \A t \in culprit.task : task[t].status \in {"pending", "failed"}
    /\ pc = "diagnose" => culprit.why = "check"
    /\ crashes = 0 /\ pc \in AfterLoop => \A t \in members : task[t].status = "accepted"

(* Without a crash: every task is of the plan, and whoever is at work on   *)
(* one or has finished it took the current outputs of what it depends on.  *)
AtWork == {"running", "produced", "accepted"}

Current(t) ==
    \A d \in deps[t] : task[d].status = "accepted" /\ task[t].built[d] = task[d].revision

CleanTasks ==
    /\ \A t \in members : OfPlan(t, task[t]) /\ task[t].plan = version
    /\ \A t \in Tasks \ members : task[t].status \in {"none", "superseded"}
    /\ \A t \in Tasks : task[t].status \in AtWork => Current(t)

CleanRun ==
    /\ DOMAIN todo = {}
    /\ \A t \in Tasks : task[t].status \in {"running", "produced"} => t \in DOMAIN wave
    /\ \A t \in DOMAIN wave :
          wave[t] = "queued" => \A d \in deps[t] : task[d].status = "accepted"

CleanInv == crashes = 0 => CleanTasks /\ CleanRun

IInv == Types /\ MoveInv /\ PlanInv /\ TodoInv /\ WaveInv /\ StepInv /\ CleanInv

-------------------------------------------------------------------------------
(* Updates of a record, field by field.                                    *)

WithStatus(r, s) == [r EXCEPT !.status = s]
WithReason(r, s, w) == [r EXCEPT !.status = s, !.why = w]
WithRevision(r, s, n) == [r EXCEPT !.status = s, !.revision = n]
WithAttempt(r, s, n, b) == [r EXCEPT !.status = s, !.attempt = n, !.built = b]
WithPlan(r, p, D) == [r EXCEPT !.plan = p, !.deps = D]
StartedAgain(r, s, b) == [r EXCEPT !.status = s, !.revision = 0, !.built = b, !.why = "none"]
NewTask(s, p, D, m, l) ==
    [NoTask EXCEPT !.status = s, !.plan = p, !.deps = D, !.max = m, !.line = l]

(* x is r but for the status, the reason and the revision.                 *)
KeepsResult(x, r) ==
    x.plan = r.plan /\ x.deps = r.deps /\ x.line = r.line /\ x.built = r.built
    /\ x.attempt = r.attempt /\ x.max = r.max

LEMMA WithReasonIs ==
    ASSUME NEW r \in TaskRecord, NEW s \in Statuses, NEW w \in Failure \cup {"none"}
    PROVE  /\ WithReason(r, s, w) \in TaskRecord
           /\ WithReason(r, s, w).status = s /\ WithReason(r, s, w).why = w
           /\ KeepsResult(WithReason(r, s, w), r) /\ WithReason(r, s, w).revision = r.revision
  BY DEF TaskRecord, KeepsResult, WithReason

LEMMA WithStatusIs ==
    ASSUME NEW r \in TaskRecord, NEW s \in Statuses
    PROVE  /\ WithStatus(r, s) \in TaskRecord
           /\ WithStatus(r, s).status = s /\ WithStatus(r, s).why = r.why
           /\ KeepsResult(WithStatus(r, s), r) /\ WithStatus(r, s).revision = r.revision
  BY DEF TaskRecord, KeepsResult, WithStatus

LEMMA WithRevisionIs ==
    ASSUME NEW r \in TaskRecord, NEW s \in Statuses, NEW n \in Nat
    PROVE  /\ WithRevision(r, s, n) \in TaskRecord
           /\ WithRevision(r, s, n).status = s /\ WithRevision(r, s, n).why = r.why
           /\ KeepsResult(WithRevision(r, s, n), r) /\ WithRevision(r, s, n).revision = n
  BY DEF TaskRecord, KeepsResult, WithRevision

LEMMA WithAttemptIs ==
    ASSUME NEW r \in TaskRecord, NEW s \in Statuses, NEW n \in Nat, NEW b \in [Tasks -> Nat]
    PROVE  LET x == WithAttempt(r, s, n, b)
           IN  /\ x \in TaskRecord /\ x.status = s /\ x.attempt = n /\ x.built = b
               /\ x.plan = r.plan /\ x.deps = r.deps /\ x.line = r.line /\ x.max = r.max
               /\ x.revision = r.revision /\ x.why = r.why
  BY DEF TaskRecord, WithAttempt

LEMMA WithPlanIs ==
    ASSUME NEW r \in TaskRecord, NEW p \in Nat, NEW D \in SUBSET Tasks
    PROVE  LET x == WithPlan(r, p, D)
           IN  /\ x \in TaskRecord /\ x.plan = p /\ x.deps = D
               /\ x.status = r.status /\ x.why = r.why /\ x.line = r.line /\ x.built = r.built
               /\ x.revision = r.revision /\ x.attempt = r.attempt /\ x.max = r.max
  BY DEF TaskRecord, WithPlan

LEMMA StartedAgainIs ==
    ASSUME NEW r \in TaskRecord, NEW s \in Statuses, NEW b \in [Tasks -> Nat]
    PROVE  LET x == StartedAgain(r, s, b)
           IN  /\ x \in TaskRecord /\ x.status = s /\ x.revision = 0 /\ x.built = b
               /\ x.plan = r.plan /\ x.deps = r.deps /\ x.line = r.line
               /\ x.attempt = r.attempt /\ x.max = r.max
  BY DEF TaskRecord, StartedAgain

LEMMA NoTaskIs ==
    /\ NoTask \in TaskRecord
    /\ NoTask.status = "none" /\ NoTask.plan = 0 /\ NoTask.deps = {} /\ NoTask.revision = 0
    /\ NoTask.attempt = 0 /\ NoTask.max = 0 /\ NoTask.line = {}
    /\ NoTask.built = [d \in Tasks |-> 0]
  BY DEF NoTask, TaskRecord, Statuses

LEMMA NewTaskIs ==
    ASSUME NEW s \in Statuses, NEW p \in Nat, NEW D \in SUBSET Tasks, NEW m \in Nat,
           NEW l \in SUBSET Tasks
    PROVE  LET x == NewTask(s, p, D, m, l)
           IN  /\ x \in TaskRecord /\ x.status = s /\ x.plan = p /\ x.deps = D /\ x.max = m
               /\ x.line = l /\ x.attempt = 0 /\ x.revision = 0
               /\ x.built = [d \in Tasks |-> 0]
  BY DEF NoTask, TaskRecord, NewTask

-------------------------------------------------------------------------------
(* What the actions do to the records of tasks.                            *)

Touches(t) == task' \in [Tasks -> TaskRecord] /\ \A u \in Tasks \ {t} : task'[u] = task[u]

LEMMA Replaced ==
    ASSUME TaskTypes, NEW t \in Tasks, NEW r \in TaskRecord, task' = [task EXCEPT ![t] = r]
    PROVE  Touches(t) /\ task'[t] = r
  BY DEF TaskTypes, Touches

(* Recovery of the records a dead controller left.                         *)
LEMMA RunShape ==
    ASSUME Types, Run
    PROVE  /\ task' \in [Tasks -> TaskRecord]
           /\ \A u \in Tasks :
                 /\ KeepsResult(task'[u], task[u]) /\ task'[u].revision = task[u].revision
                 /\ \/ task'[u] = task[u] /\ task[u].status # "running"
                    \/ task[u].status \in {"running", "failed"} /\ task'[u].status = "pending"
  <1>1. ASSUME NEW u \in Tasks
        PROVE  /\ task'[u] \in TaskRecord
               /\ KeepsResult(task'[u], task[u]) /\ task'[u].revision = task[u].revision
               /\ \/ task'[u] = task[u] /\ task[u].status # "running"
                  \/ task[u].status \in {"running", "failed"} /\ task'[u].status = "pending"
    <2> DEFINE left == \/ task[u].status = "running"
                       \/ task[u].status = "failed" /\ task[u].why = "blocked"
    <2>1. task'[u] = IF left THEN WithReason(task[u], "pending", "none") ELSE task[u]
      BY DEF Run, WithReason
    <2>2. task[u] \in TaskRecord
      BY DEF Types, TaskTypes
    <2>3. /\ WithReason(task[u], "pending", "none") \in TaskRecord
          /\ WithReason(task[u], "pending", "none").status = "pending"
          /\ KeepsResult(WithReason(task[u], "pending", "none"), task[u])
          /\ WithReason(task[u], "pending", "none").revision = task[u].revision
      BY <2>2, WithReasonIs DEF Statuses
    <2>4. KeepsResult(task[u], task[u])
      BY DEF KeepsResult
    <2>5. CASE left
      BY <2>1, <2>3, <2>5
    <2>6. CASE ~left
      BY <2>1, <2>2, <2>4, <2>6
    <2>7. QED
      BY <2>5, <2>6
  <1>2. task' = [u \in Tasks |-> task'[u]]
    BY DEF Run
  <1>3. QED
    BY <1>1, <1>2

LEMMA IntegratedShape ==
    ASSUME Types, NEW t \in Tasks, NEW r \in TaskRecord, Integrated(t, r)
    PROVE  /\ Touches(t) /\ revision' = revision + 1
           /\ task'[t].status = "accepted" /\ task'[t].why = r.why
           /\ KeepsResult(task'[t], r) /\ task'[t].revision = revision + 1
  <1> DEFINE n == revision + 1
             x == WithRevision(r, "accepted", n)
  <1>0. n \in Nat
    BY DEF Types, GoalTypes
  <1>2. task' = [task EXCEPT ![t] = x] /\ revision' = n
    BY DEF Integrated, WithRevision
  <1> HIDE DEF n
  <1>1. x \in TaskRecord /\ x.status = "accepted" /\ x.why = r.why
        /\ KeepsResult(x, r) /\ x.revision = n
    BY <1>0, WithRevisionIs DEF Statuses
  <1> HIDE DEF x
  <1>3. Touches(t) /\ task'[t] = x
    BY <1>1, <1>2, Replaced DEF Types
  <1>4. QED
    BY <1>1, <1>2, <1>3 DEF n

LEMMA NotIntegratedShape ==
    ASSUME Types, NEW t \in Tasks, NEW r \in TaskRecord,
           NEW why \in {"integration", "blocked"}, NotIntegrated(t, r, why)
    PROVE  /\ Touches(t) /\ revision' = revision
           /\ task'[t].status = "failed" /\ KeepsResult(task'[t], r)
           /\ task'[t].revision = r.revision
  <1> DEFINE x == WithReason(r, "failed", why)
  <1>1. x \in TaskRecord /\ x.status = "failed" /\ KeepsResult(x, r) /\ x.revision = r.revision
    BY WithReasonIs DEF Statuses, Failure
  <1>2. task' = [task EXCEPT ![t] = x] /\ revision' = revision
    BY DEF NotIntegrated, WithReason
  <1> HIDE DEF x
  <1>3. Touches(t) /\ task'[t] = x
    BY <1>1, <1>2, Replaced DEF Types
  <1>4. QED
    BY <1>1, <1>2, <1>3

LEMMA StartShape ==
    ASSUME Types, NEW t \in DOMAIN wave, StartTask(t)
    PROVE  /\ Touches(t) /\ t \in Tasks
           /\ task'[t].status = "running" /\ task'[t].attempt = task[t].attempt + 1
           /\ task'[t].built = [d \in Tasks |->
                                   IF d \in task[t].deps THEN task[d].revision ELSE 0]
           /\ task'[t].plan = task[t].plan /\ task'[t].deps = task[t].deps
           /\ task'[t].max = task[t].max /\ task'[t].revision = task[t].revision
  <1> DEFINE b == [d \in Tasks |-> IF d \in task[t].deps THEN task[d].revision ELSE 0]
             n == task[t].attempt + 1
             x == WithAttempt(task[t], "running", n, b)
  <1>1. t \in Tasks /\ task \in [Tasks -> TaskRecord]
    BY DEF Types, WaveTypes, TaskTypes
  <1>2. \A d \in Tasks : task[d].revision \in Nat
    BY <1>1 DEF TaskRecord
  <1>3. b \in [Tasks -> Nat] /\ n \in Nat
    BY <1>1, <1>2 DEF TaskRecord
  <1>4. task' = [task EXCEPT ![t] = x]
    BY <1>1 DEF StartTask, WithAttempt
  <1> HIDE DEF b, n
  <1>5. x \in TaskRecord /\ x.status = "running" /\ x.attempt = n /\ x.built = b
        /\ x.plan = task[t].plan /\ x.deps = task[t].deps
        /\ x.max = task[t].max /\ x.revision = task[t].revision
    BY <1>1, <1>3, WithAttemptIs DEF Statuses
  <1> HIDE DEF x
  <1>6. Touches(t) /\ task'[t] = x
    BY <1>1, <1>4, <1>5, Replaced DEF Types
  <1>7. QED
    BY <1>1, <1>5, <1>6 DEF b, n

LEMMA FinishShape ==
    ASSUME Types, NEW t \in DOMAIN wave, FinishTask(t)
    PROVE  /\ Touches(t) /\ t \in Tasks
           /\ KeepsResult(task'[t], task[t]) /\ task'[t].revision = task[t].revision
           /\ \/ task'[t].status = "produced" /\ wave' = [wave EXCEPT ![t] = "produced"]
              \/ \E why \in {"code", "blocked"} :
                    task'[t].status = "failed" /\ wave' = [wave EXCEPT ![t] = why]
  <1>1. t \in Tasks /\ task \in [Tasks -> TaskRecord]
    BY DEF Types, WaveTypes, TaskTypes
  <1>2. CASE task' = [task EXCEPT ![t].status = "produced"] /\ SetWave(t, "produced")
    <2> DEFINE x == WithStatus(task[t], "produced")
    <2>1. x \in TaskRecord /\ x.status = "produced" /\ KeepsResult(x, task[t])
          /\ x.revision = task[t].revision
      BY <1>1, WithStatusIs DEF Statuses
    <2>2. task' = [task EXCEPT ![t] = x]
      BY <1>1, <1>2 DEF WithStatus
    <2> HIDE DEF x
    <2>3. Touches(t) /\ task'[t] = x
      BY <1>1, <2>1, <2>2, Replaced DEF Types
    <2>4. QED
      BY <1>1, <1>2, <2>1, <2>3 DEF SetWave
  <1>3. ASSUME NEW why \in {"code", "blocked"},
               task' = [task EXCEPT ![t].status = "failed", ![t].why = why], SetWave(t, why)
        PROVE  /\ Touches(t) /\ KeepsResult(task'[t], task[t])
               /\ task'[t].revision = task[t].revision /\ task'[t].status = "failed"
               /\ wave' = [wave EXCEPT ![t] = why]
    <2> DEFINE x == WithReason(task[t], "failed", why)
    <2>1. x \in TaskRecord /\ x.status = "failed" /\ KeepsResult(x, task[t])
          /\ x.revision = task[t].revision
      BY <1>1, WithReasonIs DEF Statuses, Failure
    <2>2. task' = [task EXCEPT ![t] = x]
      BY <1>1, <1>3 DEF WithReason
    <2> HIDE DEF x
    <2>3. Touches(t) /\ task'[t] = x
      BY <1>1, <2>1, <2>2, Replaced DEF Types
    <2>4. QED
      BY <1>3, <2>1, <2>3 DEF SetWave
  <1>4. QED
    BY <1>1, <1>2, <1>3 DEF FinishTask

(* The retry of a task.                                                    *)
LEMMA RetryShape ==
    ASSUME Types, NEW parent \in Tasks,
           task' = [task EXCEPT ![parent].status = "pending", ![parent].why = "none"]
    PROVE  /\ Touches(parent) /\ task'[parent].status = "pending"
           /\ KeepsResult(task'[parent], task[parent])
           /\ task'[parent].revision = task[parent].revision
  <1>1. task \in [Tasks -> TaskRecord]
    BY DEF Types, TaskTypes
  <1> DEFINE x == WithReason(task[parent], "pending", "none")
  <1>2. x \in TaskRecord /\ x.status = "pending" /\ KeepsResult(x, task[parent])
        /\ x.revision = task[parent].revision
    BY <1>1, WithReasonIs DEF Statuses
  <1>3. task' = [task EXCEPT ![parent] = x]
    BY <1>1 DEF WithReason
  <1> HIDE DEF x
  <1>4. Touches(parent) /\ task'[parent] = x
    BY <1>2, <1>3, Replaced DEF Types
  <1>5. QED
    BY <1>2, <1>4

(* The attempts of a lineage are a number, and so is what is left of them. *)
LEMMA AttemptsAreCounted ==
    ASSUME TaskTypes, NEW t
    PROVE  LineageAttempts(t) \in Nat
  <1> DEFINE S == Lineage(t)
             f == [u \in S |-> task[u].attempt]
             Adds(g) == g = [s \in SUBSET S |->
                                IF s = {} THEN 0 ELSE task[Some(s)].attempt + g[s \ {Some(s)}]]
             sum == CHOOSE g : Adds(g)
  <1>1. IsFiniteSet(S) /\ S \subseteq Tasks
    BY OrchestratorAssumption, FS_Subset DEF OrchestratorAssumption, Lineage
  <1>2. \A u \in S : task[u].attempt \in Nat
    BY <1>1 DEF TaskTypes, TaskRecord
  <1>3. LineageAttempts(t) = sum[S]
    BY DEF LineageAttempts, MapThenSumSet, MapThenFoldSet, Some
  <1> HIDE DEF S
  <1>4. Adds(sum)
    <2>1. PICK g : Sums(f, S, g)
      BY <1>1, SumsExist
    <2>2. Adds(g)
      <3>1. \A s \in SUBSET S : s # {} => f[Some(s)] = task[Some(s)].attempt
        BY DEF Some
      <3>2. QED
        BY <2>1, <3>1 DEF Sums
    <2>3. QED
      BY <2>2
  <1> HIDE DEF sum
  <1> DEFINE G == {s \in SUBSET S : sum[s] \in Nat}
  <1>5. {} \in G
    BY <1>4
  <1>6. ASSUME NEW s \in SUBSET S, s # {}, Remainder(s) \in G PROVE s \in G
    <2>1. sum[s] = task[Some(s)].attempt + sum[Remainder(s)]
      BY <1>4, <1>6 DEF Remainder
    <2>2. task[Some(s)].attempt \in Nat
      BY <1>2, <1>6, RemainderIsSmaller
    <2>3. QED
      BY <1>6, <2>1, <2>2
  <1> HIDE DEF G
  <1>7. \A s \in SUBSET S : s \in G
    BY <1>1, <1>5, <1>6, PartInduction
  <1>8. QED
    BY <1>3, <1>7 DEF G

LEMMA RemainingIsBounded ==
    ASSUME TaskTypes, NEW t
    PROVE  Remaining(t) \in 0 .. MaxAttempts
  <1>1. LineageAttempts(t) \in Nat /\ MaxAttempts \in Nat
    BY AttemptsAreCounted, OrchestratorAssumption DEF OrchestratorAssumption
  <1>2. QED
    BY <1>1 DEF Remaining

LEMMA LeastOfTwo ==
    ASSUME NEW a \in Nat, NEW b \in Nat
    PROVE  Min({a, b}) \in {a, b} /\ Min({a, b}) <= a
  <1>1. \E x \in {a, b} : \A y \in {a, b} : x =< y
    OBVIOUS
  <1>2. QED
    BY <1>1 DEF Min

(* A new plan: what it does not touch keeps its result, and so does what   *)
(* that depends on.                                                        *)
LEMMA PlannedShape ==
    ASSUME Types, NEW p \in Proposals, NEW rewritten \in SUBSET p.members,
           NEW trigger, trigger = {} \/ \E u \in Tasks : trigger = {u},
           task' = Planned(p, rewritten, trigger)
    PROVE  /\ task' \in [Tasks -> TaskRecord]
           /\ \A t \in p.members :
                 /\ task'[t].plan = version + 1 /\ task'[t].deps = p.deps[t]
                 /\ task'[t].attempt = task[t].attempt /\ task'[t].max <= MaxAttempts
                 /\ task'[t].built \in {task[t].built, NoTask.built}
                 /\ task'[t].revision \in {task[t].revision, 0}
                 /\ \/ task'[t].status = "pending"
                    \/ /\ task'[t].status = "accepted" /\ task[t].status = "accepted"
                       /\ task[t].deps = p.deps[t]
                       /\ task'[t].built = task[t].built
                       /\ \A d \in p.deps[t] :
                             task[d].status = "accepted" =>
                                 task'[d].status = "accepted"
                                 /\ task'[d].revision = task[d].revision
           /\ \A t \in Tasks \ p.members :
                 \/ task[t].status = "none" /\ task'[t] = NoTask
                 \/ /\ task'[t].status = "superseded"
                    /\ KeepsResult(task'[t], task[t]) /\ task'[t].revision = task[t].revision
  <1> DEFINE ancestors == trigger \cup UNION {task[u].line : u \in trigger}
             new == {t \in p.members : task[t].status = "none"}
             changed == {t \in p.members : t \in new \/ task[t].deps # p.deps[t]}
             seeds == ancestors \cup changed \cup rewritten
             impacted == PlanImpact(seeds, p.members, p.deps)
             left == IF trigger = {} THEN MaxAttempts
                     ELSE CHOOSE n \in 0 .. MaxAttempts : \A u \in trigger : n = Remaining(u)
             shares(t) == trigger # {} /\ (t \in new \/ \E u \in trigger : Root(t) = Root(u))
             limit(t) == IF t \in new THEN MaxAttempts ELSE task[t].max
             allowed(t) == IF shares(t) THEN Min({limit(t), task[t].attempt + left}) ELSE limit(t)
             same(t) == t \notin impacted
             status(t) == IF same(t) /\ task[t].status = "accepted" THEN "accepted" ELSE "pending"
             built(t) == IF same(t) THEN task[t].built ELSE NoTask.built
             rev(t) == IF same(t) THEN task[t].revision ELSE 0
             line(t) == IF t \in new THEN ancestors ELSE task[t].line
             planned(t) == [status |-> status(t), plan |-> version + 1, deps |-> p.deps[t],
                            built |-> built(t), revision |-> rev(t), attempt |-> task[t].attempt,
                            max |-> allowed(t), line |-> line(t), why |-> "none"]
  <1>1. /\ p.members \in SUBSET Tasks /\ p.deps \in [Tasks -> SUBSET Tasks]
        /\ ValidPlan(p.members, p.deps)
    BY DEF Proposals
  <1>2. /\ task \in [Tasks -> TaskRecord] /\ version \in Nat /\ MaxAttempts \in Nat
        /\ \A t \in Tasks : task[t].max <= MaxAttempts
    BY OrchestratorAssumption DEF Types, TaskTypes, GoalTypes, Within, OrchestratorAssumption
  <1>3. \A t \in Tasks :
           task'[t] = IF t \in p.members THEN planned(t)
                      ELSE IF task[t].status = "none" THEN NoTask
                      ELSE WithReason(task[t], "superseded", "none")
    BY DEF Planned, WithReason
  <1>4. \A t \in Tasks : /\ task[t].deps \in SUBSET Tasks /\ task[t].line \in SUBSET Tasks
                         /\ task[t].built \in [Tasks -> Nat] /\ task[t].revision \in Nat
                         /\ task[t].attempt \in Nat /\ task[t].max \in Nat
    BY <1>2 DEF TaskRecord
  <1>5. ancestors \in SUBSET Tasks
    BY <1>4
  <1>6. left \in Nat
    <2>1. CASE trigger = {}
      BY <1>2, <2>1
    <2>2. ASSUME NEW u \in Tasks, trigger = {u} PROVE left \in Nat
      <3>1. Remaining(u) \in 0 .. MaxAttempts
        BY RemainingIsBounded DEF Types
      <3>2. \E n \in 0 .. MaxAttempts : \A v \in trigger : n = Remaining(v)
        BY <2>2, <3>1
      <3>3. left \in 0 .. MaxAttempts
        BY <2>2, <3>2
      <3>4. QED
        BY <1>2, <3>3
    <2>3. QED
      BY <2>1, <2>2
  <1> HIDE DEF left
  <1>7. \A t \in Tasks : limit(t) \in Nat /\ limit(t) <= MaxAttempts
    BY <1>2, <1>4
  <1> HIDE DEF limit
  <1>8. \A t \in Tasks : allowed(t) \in Nat /\ allowed(t) <= MaxAttempts
    <2>1. SUFFICES ASSUME NEW t \in Tasks PROVE allowed(t) \in Nat /\ allowed(t) <= MaxAttempts
      OBVIOUS
    <2> DEFINE a == limit(t)
               b == task[t].attempt + left
    <2>2. a \in Nat /\ a <= MaxAttempts /\ b \in Nat
      BY <1>4, <1>6, <1>7
    <2> HIDE DEF a, b
    <2>3. Min({a, b}) \in {a, b} /\ Min({a, b}) <= a
      BY <2>2, LeastOfTwo
    <2>4. allowed(t) \in {a, Min({a, b})}
      BY DEF a, b
    <2> HIDE DEF allowed
    <2>5. QED
      BY <1>2, <2>2, <2>3, <2>4
  <1> HIDE DEF allowed, shares
  <1>9. /\ changed \subseteq impacted
        /\ \A t \in p.members : \A d \in p.deps[t] : d \in impacted => t \in impacted
    <2>1. IsFiniteSet(p.members)
      BY <1>1, OrchestratorAssumption, FS_Subset DEF OrchestratorAssumption
    <2>2. seeds \subseteq impacted /\ Closed(impacted, p.members, p.deps)
      BY <2>1, PlanImpactBounds, PlanImpactClosed
    <2> HIDE DEF impacted
    <2>3. QED
      BY <2>2 DEF Closed
  <1> HIDE DEF impacted, ancestors
  <1>10. \A t \in Tasks : /\ status(t) \in {"accepted", "pending"}
                          /\ built(t) \in {task[t].built, NoTask.built}
                          /\ rev(t) \in {task[t].revision, 0} /\ line(t) \in SUBSET Tasks
    BY <1>4, <1>5
  <1>11. ASSUME NEW t \in p.members
         PROVE  /\ planned(t) \in TaskRecord
                /\ planned(t).plan = version + 1 /\ planned(t).deps = p.deps[t]
                /\ planned(t).attempt = task[t].attempt /\ planned(t).max = allowed(t)
                /\ planned(t).built = built(t) /\ planned(t).revision = rev(t)
                /\ planned(t).status = status(t)
    <2> DEFINE s == status(t)
               b == built(t)
               n == rev(t)
               m == allowed(t)
               l == line(t)
               v == version + 1
    <2>1. /\ t \in Tasks /\ s \in Statuses /\ b \in [Tasks -> Nat] /\ n \in Nat /\ m \in Nat
          /\ l \in SUBSET Tasks /\ v \in Nat /\ p.deps[t] \in SUBSET Tasks
          /\ task[t].attempt \in Nat
      BY <1>1, <1>2, <1>4, <1>8, <1>10, NoTaskIs DEF Statuses
    <2> HIDE DEF s, b, n, m, l, v
    <2>2. LET x == [status |-> s, plan |-> v, deps |-> p.deps[t], built |-> b, revision |-> n,
                    attempt |-> task[t].attempt, max |-> m, line |-> l, why |-> "none"]
          IN  x \in TaskRecord /\ x.plan = v /\ x.deps = p.deps[t] /\ x.attempt = task[t].attempt
              /\ x.max = m /\ x.built = b /\ x.revision = n /\ x.status = s
      BY <2>1 DEF TaskRecord
    <2>3. QED
      BY <2>2 DEF s, b, n, m, l, v
  <1> HIDE DEF planned
  <1>12. ASSUME NEW t \in Tasks
         PROVE  /\ WithReason(task[t], "superseded", "none") \in TaskRecord
                /\ WithReason(task[t], "superseded", "none").status = "superseded"
                /\ KeepsResult(WithReason(task[t], "superseded", "none"), task[t])
                /\ WithReason(task[t], "superseded", "none").revision = task[t].revision
    BY <1>2, WithReasonIs DEF Statuses
  <1>13. task' \in [Tasks -> TaskRecord]
    <2>1. task' = [t \in Tasks |-> task'[t]]
      BY DEF Planned
    <2>2. \A t \in Tasks : task'[t] \in TaskRecord
      BY <1>3, <1>11, <1>12, NoTaskIs
    <2>3. QED
      BY <2>1, <2>2
  <1>14. ASSUME NEW t \in p.members, status(t) = "accepted"
         PROVE  /\ task[t].status = "accepted" /\ task[t].deps = p.deps[t]
                /\ built(t) = task[t].built
                /\ \A d \in p.deps[t] :
                      task[d].status = "accepted" => d \in p.members /\ status(d) = "accepted"
                                                     /\ rev(d) = task[d].revision
    <2>1. same(t) /\ task[t].status = "accepted"
      BY <1>14
    <2>2. t \notin changed
      BY <1>9, <2>1
    <2>3. \A d \in p.deps[t] : same(d) /\ d \in p.members
      BY <1>1, <1>9, <2>1 DEF ValidPlan
    <2>4. QED
      BY <2>1, <2>2, <2>3
  <1> HIDE DEF status, built, rev
  <1>15. \A t \in p.members : t \in Tasks
    BY <1>1
  <1>16. \A t \in p.members : task'[t] = planned(t)
    BY <1>3, <1>15
  <1>17. \A t \in Tasks \ p.members :
            \/ task[t].status = "none" /\ task'[t] = NoTask
            \/ task'[t] = WithReason(task[t], "superseded", "none")
    BY <1>3
  <1>18. ASSUME NEW t \in p.members
         PROVE  /\ task'[t].plan = version + 1 /\ task'[t].deps = p.deps[t]
                /\ task'[t].attempt = task[t].attempt /\ task'[t].max <= MaxAttempts
                /\ task'[t].built \in {task[t].built, NoTask.built}
                /\ task'[t].revision \in {task[t].revision, 0}
                /\ \/ task'[t].status = "pending"
                   \/ /\ task'[t].status = "accepted" /\ task[t].status = "accepted"
                      /\ task[t].deps = p.deps[t]
                      /\ task'[t].built = task[t].built
                      /\ \A d \in p.deps[t] :
                            task[d].status = "accepted" =>
                                task'[d].status = "accepted"
                                /\ task'[d].revision = task[d].revision
    BY <1>8, <1>10, <1>11, <1>14, <1>15, <1>16
  <1>19. QED
    BY <1>12, <1>13, <1>17, <1>18

(* A repair: what does not depend on the repaired task keeps its result,   *)
(* and so does what that depends on.                                       *)
LEMMA RepairedShape ==
    ASSUME Types, NEW parent \in Tasks, NEW new \in Tasks, NEW mem, NEW dep,
           mem = RepairMembers(parent, new), dep = RepairDeps(parent, new), ValidPlan(mem, dep),
           task' = Repaired(parent, new)
    PROVE  /\ task' \in [Tasks -> TaskRecord] /\ new \in mem
           /\ mem \subseteq members \cup {new} /\ members \subseteq mem \cup {parent}
           /\ dep \in [Tasks -> SUBSET Tasks]
           /\ task'[new].status = "pending" /\ task'[new].attempt = 0 /\ task'[new].revision = 0
           /\ task'[new].built = NoTask.built /\ task'[new].max <= MaxAttempts
           /\ \A t \in mem : task'[t].plan = version + 1 /\ task'[t].deps = dep[t]
           /\ \A t \in mem \ {new} :
                 /\ task'[t].attempt = task[t].attempt /\ task'[t].max = task[t].max
                 /\ task'[t].built \in {task[t].built, NoTask.built}
                 /\ task'[t].revision \in {task[t].revision, 0}
                 /\ \/ task'[t].status = "pending"
                    \/ /\ task'[t].status = task[t].status /\ task'[t].built = task[t].built
                       /\ task[t].deps = dep[t]
                       /\ \A d \in dep[t] : d \in mem \ {new}
                                            /\ task'[d].status = task[d].status
                                            /\ task'[d].revision = task[d].revision
           /\ \A t \in Tasks \ mem :
                 \/ task'[t] = task[t] /\ t # parent
                 \/ /\ task'[t].status = "superseded" /\ t = parent
                    /\ KeepsResult(task'[t], task[t]) /\ task'[t].revision = task[t].revision
  <1> DEFINE affected == PlanImpact({new} \cup {t \in mem : task[t].deps # dep[t]}, mem, dep)
             v == version + 1
             first == NewTask("pending", v, dep[new], Remaining(parent),
                              {parent} \cup task[parent].line)
             rebased(t) == WithPlan(task[t], v, dep[t])
             again(t) == StartedAgain(rebased(t), "pending", NoTask.built)
  <1>1. /\ new \in mem /\ mem \in SUBSET Tasks /\ dep \in [Tasks -> SUBSET Tasks]
        /\ mem \subseteq members \cup {new} /\ members \subseteq mem \cup {parent}
    <2>1. members \in SUBSET Tasks /\ deps \in [Tasks -> SUBSET Tasks]
          /\ task[parent].deps \in SUBSET Tasks
      BY DEF Types, GoalTypes, TaskTypes, TaskRecord
    <2>2. /\ new \in mem /\ mem \in SUBSET Tasks
          /\ mem \subseteq members \cup {new} /\ members \subseteq mem \cup {parent}
      BY <2>1 DEF RepairMembers
    <2>3. \A t \in Tasks : dep[t] \in SUBSET Tasks
      BY <2>1 DEF RepairDeps
    <2>4. dep = [t \in Tasks |-> dep[t]]
      BY DEF RepairDeps
    <2>5. QED
      BY <2>2, <2>3, <2>4
  <1>2. /\ task \in [Tasks -> TaskRecord] /\ v \in Nat /\ MaxAttempts \in Nat
        /\ task[parent].line \in SUBSET Tasks
    BY SMTT(30), OrchestratorAssumption
    DEF Types, TaskTypes, TaskRecord, GoalTypes, Within, OrchestratorAssumption
  <1>3. \A t \in Tasks :
           task'[t] = IF t = new THEN first
                      ELSE IF t = parent /\ t \notin mem THEN WithStatus(task[t], "superseded")
                      ELSE IF t \notin mem THEN task[t]
                      ELSE IF t \in affected THEN again(t)
                      ELSE rebased(t)
    BY ZenonT(30) DEF Repaired, NewTask, WithStatus, WithPlan, StartedAgain
  <1>4. task' = [t \in Tasks |-> task'[t]]
    BY DEF Repaired
  <1> HIDE DEF v
  <1>5. /\ first \in TaskRecord /\ first.status = "pending" /\ first.plan = v
        /\ first.deps = dep[new] /\ first.attempt = 0 /\ first.revision = 0
        /\ first.built = NoTask.built /\ first.max <= MaxAttempts
    <2> DEFINE m == Remaining(parent)
               l == {parent} \cup task[parent].line
    <2>1. m \in Nat /\ m <= MaxAttempts /\ l \in SUBSET Tasks /\ dep[new] \in SUBSET Tasks
      BY <1>1, <1>2, RemainingIsBounded DEF Types
    <2> HIDE DEF m, l
    <2>2. "pending" \in Statuses
      BY DEF Statuses
    <2>3. LET x == NewTask("pending", v, dep[new], m, l)
          IN  /\ x \in TaskRecord /\ x.status = "pending" /\ x.plan = v /\ x.deps = dep[new]
              /\ x.max = m /\ x.attempt = 0 /\ x.revision = 0 /\ x.built = [d \in Tasks |-> 0]
      BY <1>2, <2>1, <2>2, NewTaskIs
    <2>4. QED
      BY <2>1, <2>3, NoTaskIs DEF m, l
  <1> HIDE DEF first
  <1>6. ASSUME NEW t \in mem
        PROVE  /\ rebased(t) \in TaskRecord /\ rebased(t).plan = v /\ rebased(t).deps = dep[t]
               /\ rebased(t).status = task[t].status /\ rebased(t).built = task[t].built
               /\ rebased(t).revision = task[t].revision
               /\ rebased(t).attempt = task[t].attempt /\ rebased(t).max = task[t].max
    <2>1. task[t] \in TaskRecord /\ dep[t] \in SUBSET Tasks
      BY <1>1, <1>2
    <2>2. QED
      BY <1>2, <2>1, WithPlanIs
  <1> HIDE DEF rebased
  <1>7. ASSUME NEW t \in mem
        PROVE  /\ again(t) \in TaskRecord /\ again(t).plan = v /\ again(t).deps = dep[t]
               /\ again(t).status = "pending" /\ again(t).built = NoTask.built
               /\ again(t).revision = 0
               /\ again(t).attempt = task[t].attempt /\ again(t).max = task[t].max
    <2> DEFINE r == rebased(t)
               b == NoTask.built
    <2>1. b \in [Tasks -> Nat] /\ "pending" \in Statuses
      BY NoTaskIs DEF Statuses
    <2>2. r \in TaskRecord
      BY <1>6
    <2> HIDE DEF r, b
    <2>3. LET x == StartedAgain(r, "pending", b)
          IN  /\ x \in TaskRecord /\ x.status = "pending" /\ x.revision = 0 /\ x.built = b
              /\ x.plan = r.plan /\ x.deps = r.deps
              /\ x.attempt = r.attempt /\ x.max = r.max
      BY <2>1, <2>2, StartedAgainIs
    <2>4. QED
      BY <1>6, <2>3 DEF r, b
  <1> HIDE DEF again
  <1>8. WithStatus(task[parent], "superseded") \in TaskRecord
        /\ WithStatus(task[parent], "superseded").status = "superseded"
        /\ KeepsResult(WithStatus(task[parent], "superseded"), task[parent])
        /\ WithStatus(task[parent], "superseded").revision = task[parent].revision
    <2> DEFINE r == task[parent]
    <2>1. r \in TaskRecord /\ "superseded" \in Statuses
      BY <1>2 DEF Statuses
    <2> HIDE DEF r
    <2>2. /\ WithStatus(r, "superseded") \in TaskRecord
          /\ WithStatus(r, "superseded").status = "superseded"
          /\ KeepsResult(WithStatus(r, "superseded"), r)
          /\ WithStatus(r, "superseded").revision = r.revision
      BY <2>1, WithStatusIs
    <2>3. QED
      BY <2>2 DEF r
  <1>9. task' \in [Tasks -> TaskRecord]
    <2>1. \A t \in Tasks : task[t] \in TaskRecord
      BY <1>2
    <2>2. ASSUME NEW t \in Tasks PROVE task'[t] \in TaskRecord
      <3>1. CASE t = new
        BY <1>3, <1>5, <3>1
      <3>2. CASE t # new /\ t \notin mem
        BY <1>3, <1>8, <2>1, <3>2
      <3>3. CASE t # new /\ t \in mem
        BY <1>3, <1>6, <1>7, <3>3
      <3>4. QED
        BY <3>1, <3>2, <3>3
    <2>3. QED
      BY <1>4, <2>2
  <1>10. /\ new \in affected /\ \A t \in mem : task[t].deps # dep[t] => t \in affected
         /\ \A t \in mem : \A d \in dep[t] : d \in affected => t \in affected
    <2>1. IsFiniteSet(mem)
      BY <1>1, OrchestratorAssumption, FS_Subset DEF OrchestratorAssumption
    <2>2. /\ {new} \cup {t \in mem : task[t].deps # dep[t]} \subseteq affected
          /\ Closed(affected, mem, dep)
      BY <2>1, PlanImpactBounds, PlanImpactClosed
    <2> HIDE DEF affected
    <2>3. QED
      BY <2>2 DEF Closed
  <1> HIDE DEF affected
  <1>11. \A t \in mem : \A d \in dep[t] : d \in mem
    BY <1>1 DEF ValidPlan
  <1>12. \A t \in mem \ {new} : IF t \in affected THEN task'[t] = again(t)
                                                  ELSE task'[t] = rebased(t)
    BY <1>1, <1>3
  <1>13. task'[new] = first
    BY <1>3
  <1>14. ASSUME NEW t \in mem \ {new}
         PROVE  /\ task'[t].plan = v /\ task'[t].deps = dep[t]
                /\ task'[t].attempt = task[t].attempt /\ task'[t].max = task[t].max
                /\ task'[t].built \in {task[t].built, NoTask.built}
                /\ task'[t].revision \in {task[t].revision, 0}
    BY <1>6, <1>7, <1>12
  <1>15. ASSUME NEW t \in mem \ {new}
         PROVE  \/ task'[t].status = "pending"
                \/ /\ task'[t].status = task[t].status /\ task'[t].built = task[t].built
                   /\ task[t].deps = dep[t]
                   /\ \A d \in dep[t] : d \in mem \ {new}
                                        /\ task'[d].status = task[d].status
                                        /\ task'[d].revision = task[d].revision
    <2>1. CASE t \in affected
      BY <1>7, <1>12, <2>1
    <2>2. CASE t \notin affected
      <3>1. \A d \in dep[t] : d \in mem \ {new} /\ d \notin affected
        BY <1>10, <1>11, <2>2
      <3>2. QED
        BY <1>6, <1>10, <1>12, <2>2, <3>1
    <2>3. QED
      BY <2>1, <2>2
  <1>16. \A t \in Tasks \ mem :
            \/ task'[t] = task[t] /\ t # parent
            \/ task'[t] = WithStatus(task[parent], "superseded") /\ t = parent
    BY <1>1, <1>3
  <1>17. ASSUME NEW t \in Tasks \ mem
         PROVE  \/ task'[t] = task[t] /\ t # parent
                \/ /\ task'[t].status = "superseded" /\ t = parent
                   /\ KeepsResult(task'[t], task[t]) /\ task'[t].revision = task[t].revision
    BY <1>8, <1>16
  <1>18. \A t \in mem : task'[t].plan = v /\ task'[t].deps = dep[t]
    BY <1>5, <1>13, <1>14
  <1>19. QED
    BY <1>1, <1>5, <1>9, <1>13, <1>14, <1>15, <1>17, <1>18 DEF v

-------------------------------------------------------------------------------
(* Moves of the goal.                                                      *)

LEMMA LegalMoves ==
    /\ \A s : Legal(s, s)
    /\ \A s : s \notin Terminal => Legal(s, "PAUSED")
    /\ Legal("RECEIVED", "UNDERSTAND") /\ Legal("PAUSED", "UNDERSTAND")
    /\ Legal("UNDERSTAND", "DISCOVER") /\ Legal("DISCOVER", "PLAN")
    /\ Legal("PLAN", "DECOMPOSE") /\ Legal("REPLAN", "DECOMPOSE")
    /\ Legal("DECOMPOSE", "ASSIGN") /\ Legal("PAUSED", "ASSIGN")
    /\ Legal("ASSIGN", "EXECUTE") /\ Legal("EXECUTE", "ASSIGN") /\ Legal("REPAIR", "ASSIGN")
    /\ Legal("ASSIGN", "VERIFY") /\ Legal("EXECUTE", "VERIFY")
    /\ Legal("VERIFY", "REVIEW") /\ Legal("REVIEW", "JUDGE") /\ Legal("JUDGE", "DONE")
    /\ \A s \in {"EXECUTE", "VERIFY", "REVIEW"} : Legal(s, "REPAIR") /\ Legal(s, "REPLAN")
  BY DEF Legal, Edges, Terminal

(* Where the straight steps lead.                                          *)
LEMMA AdvanceIs ==
    ASSUME MoveInv, Advance
    PROVE  \/ pc = "understand" /\ gstate' = "UNDERSTAND" /\ pc' = "discover"
           \/ pc = "discover" /\ gstate' = "DISCOVER" /\ pc' = "plan"
           \/ pc = "plan" /\ gstate' = "PLAN" /\ pc' = "planner"
           \/ pc = "decompose" /\ gstate' = "DECOMPOSE" /\ pc' = "approve"
           \/ pc = "assign" /\ gstate' = "ASSIGN" /\ pc' = "first"
           \/ pc = "repair" /\ gstate' = "REPAIR" /\ pc' = "amend"
           \/ pc = "replan" /\ gstate' = "REPLAN" /\ pc' = "planner"
           \/ pc = "reassign" /\ gstate' = "ASSIGN" /\ pc' = "back"
           \/ pc = "waved" /\ gstate' = "ASSIGN" /\ pc' = "loop"
           \/ pc = "execute" /\ gstate' = "EXECUTE" /\ pc' = "wave"
           \/ pc = "verify" /\ gstate' = "VERIFY" /\ pc' = "check"
           \/ pc = "review" /\ gstate' = "REVIEW" /\ pc' = "decide"
           \/ pc = "judge" /\ gstate' = "JUDGE" /\ pc' = "judged"
  <1>1. \/ pc = "understand" /\ Move("UNDERSTAND", "discover")
        \/ pc = "discover" /\ Move("DISCOVER", "plan")
        \/ pc = "plan" /\ Move("PLAN", "planner")
        \/ pc = "decompose" /\ Move("DECOMPOSE", "approve")
        \/ pc = "assign" /\ Move("ASSIGN", "first")
        \/ pc = "repair" /\ Move("REPAIR", "amend")
        \/ pc = "replan" /\ Move("REPLAN", "planner")
        \/ pc = "reassign" /\ Move("ASSIGN", "back")
        \/ pc = "waved" /\ Move("ASSIGN", "loop")
        \/ pc = "execute" /\ Move("EXECUTE", "wave")
        \/ pc = "verify" /\ Move("VERIFY", "check")
        \/ pc = "review" /\ Move("REVIEW", "decide")
        \/ pc = "judge" /\ Move("JUDGE", "judged")
    BY DEF Advance, Straight
  <1>2. QED
    BY <1>1, LegalMoves DEF MoveInv, Move

-------------------------------------------------------------------------------
(* Steps that leave the tasks and the plan alone.                          *)

Still ==
    UNCHANGED <<task, members, deps, version, revision, todo, wave, crashes>>

LEMMA StillKeeps ==
    ASSUME IInv, Still, GoalTypes', CulpritTypes', MoveInv', StepInv'
    PROVE  IInv'
  <1>1. TaskTypes' /\ TodoTypes' /\ WaveTypes'
    BY DEF IInv, Types, Still, TaskTypes, TodoTypes, WaveTypes, Within
  <1>2. PlanInv' /\ TodoInv' /\ WaveInv'
    BY DEF IInv, Still, PlanInv, TodoInv, WaveInv, OfPlan, ValidPlan
  <1>3. CleanInv'
    BY DEF IInv, Still, CleanInv, CleanTasks, CleanRun, OfPlan, Current
  <1>4. QED
    BY <1>1, <1>2, <1>3 DEF IInv, Types

(* The steps that move a goal or a run, and leave the rest alone.          *)
Moving ==
    \/ Begin \/ Ready \/ Advance \/ Approve \/ UserApproves \/ First \/ Cycle \/ Back
    \/ RequestPlan \/ GenerateFails \/ Execute \/ ProducedDone \/ FindFailed \/ NoWave
    \/ TaskFailure \/ Check \/ Diagnose \/ Review \/ Decide \/ Judge \/ Request \/ Deadline

LEMMA MovingIsStill ==
    ASSUME Moving
    PROVE  Still
  BY DEF Moving, Still, Begin, Ready, Advance, Approve, UserApproves, First, Cycle, Back,
         RequestPlan, GenerateFails, Execute, ProducedDone, FindFailed, NoWave, TaskFailure,
         Check, Diagnose, Review, Decide, Judge, Request, Deadline, Fault, FaultOrStop,
         goal, db, proc, env, vars


(* What such a step may not forget of those under way.                     *)
GoesOn ==
    /\ pc' \in {"failed", "select", "execute", "wave"} => DOMAIN todo = {}
    /\ DOMAIN wave = {} \/ pc' \in {"execute", "wave"}
    /\ pc = "off" => pc' = "off"
    /\ pc \in BeforeLoop /\ culprit.from = "loop" => pc' \in BeforeLoop /\ culprit'.from = "loop"
    /\ pc' = "select" => Status("failed") = {}
    /\ pc' \in {"failure", "repair", "amend"} /\ culprit'.why \in {"code", "retry"} =>
          \A t \in culprit'.task : task[t].status \in {"pending", "failed"}
    /\ pc' = "diagnose" => culprit'.why = "check"
    /\ crashes = 0 /\ pc' \in AfterLoop => \A t \in members : task[t].status = "accepted"

LEMMA GoesOnKeeps ==
    ASSUME IInv, Still, GoesOn
    PROVE  StepInv'
  <1>1. \A s : Status(s)' = Status(s)
    BY DEF Still, Status
  <1>2. UNCHANGED <<task, members, todo, wave, crashes>> /\ StepInv
    BY DEF Still, IInv
  <1>3. \A t \in Status("running")' : t \in DOMAIN wave' \/ pc' = "off"
    BY <1>1, <1>2 DEF StepInv, GoesOn
  <1>4. \A t \in Status("produced")' :
            t \in DOMAIN wave' \cup DOMAIN todo' \/ (pc' \in BeforeLoop /\ culprit'.from = "loop")
    BY <1>1, <1>2 DEF StepInv, GoesOn
  <1>5. pc' = "select" => Status("failed")' = {}
    BY <1>1, <1>2 DEF StepInv, GoesOn
  <1>6. QED
    BY <1>2, <1>3, <1>4, <1>5 DEF StepInv, GoesOn

LEMMA MovingTypes ==
    ASSUME IInv, Moving
    PROVE  GoalTypes' /\ CulpritTypes'
  <1>1. /\ GoalTypes /\ CulpritTypes /\ MoveInv
        /\ \A t \in Tasks : task[t].why \in Failure \cup {"none"}
    BY DEF IInv, Types, TaskTypes, TaskRecord
  <1>2. {MaxIterations, MaxPlanner} \subseteq Nat \ {0}
    BY OrchestratorAssumption DEF OrchestratorAssumption
  <1>3. CASE Advance
    <2>1. gstate' \in GoalState
      BY <1>1, <1>3, AdvanceIs DEF GoalState
    <2>2. QED
      BY <1>1, <1>3, <2>1 DEF Advance, GoalTypes, CulpritTypes, env, proc
  <1>4. CASE Begin \/ Ready \/ Approve \/ UserApproves
    <2>1. "PAUSED" \in GoalState
      BY DEF GoalState
    <2>2. QED
      BY <1>1, <1>4, <2>1
      DEF Begin, Ready, Approve, UserApproves, Move, GoalTypes, CulpritTypes, env, proc, db, goal
  <1>5. CASE First \/ Cycle \/ Back
    BY <1>1, <1>2, <1>5 DEF First, Cycle, Back, Nobody, GoalTypes, CulpritTypes, env, proc, db, goal
  <1>6. CASE RequestPlan \/ GenerateFails
    BY <1>1, <1>2, <1>6
    DEF RequestPlan, GenerateFails, FaultOrStop, Fault, GoalTypes, CulpritTypes, env, proc,
        db, goal
  <1>7. CASE Execute \/ ProducedDone \/ NoWave
    <2>1. "EXECUTE" \in GoalState
      BY DEF GoalState
    <2>2. QED
      BY <1>1, <1>7, <2>1
      DEF Execute, Move, ProducedDone, NoWave, GoalTypes, CulpritTypes, env, proc, db, goal
  <1>8. CASE FindFailed
    <2>1. \A t \in Status("failed") : t \in Tasks /\ task[t].why \in Failure \cup {"none"}
      BY <1>1 DEF Status
    <2>2. QED
      BY <1>1, <1>8, <2>1 DEF FindFailed, GoalTypes, CulpritTypes, env, db, goal
  <1>9. CASE TaskFailure \/ Diagnose
    BY <1>1, <1>9 DEF TaskFailure, Diagnose, Handle, GoalTypes, CulpritTypes, env, db, goal
  <1>10. CASE Check \/ Decide
    BY <1>1, <1>10 DEF Check, Decide, Fault, Status, GoalTypes, CulpritTypes, env, db, goal
  <1>11. CASE Review \/ Judge
    <2>1. "DONE" \in GoalState
      BY DEF GoalState
    <2>2. QED
      BY <1>1, <1>11, <2>1
      DEF Review, Judge, Move, Fault, FaultOrStop, GoalTypes, CulpritTypes, proc, db, goal
  <1>12. CASE Request \/ Deadline
    BY <1>1, <1>12 DEF Request, Deadline, Fault, GoalTypes, CulpritTypes, proc, db, goal
  <1>13. QED
    BY <1>3, <1>4, <1>5, <1>6, <1>7, <1>8, <1>9, <1>10, <1>11, <1>12 DEF Moving

LEMMA MovingMoves ==
    ASSUME IInv, Moving
    PROVE  MoveInv'
  <1>1. MoveInv /\ culprit.from \in {"loop", "produced"} /\ version \in Nat
    BY DEF IInv, Types, CulpritTypes, GoalTypes
  <1>2. CASE Advance
    <2>1. /\ MoveInv
          /\ \/ pc = "understand" /\ gstate' = "UNDERSTAND" /\ pc' = "discover"
             \/ pc = "discover" /\ gstate' = "DISCOVER" /\ pc' = "plan"
             \/ pc = "plan" /\ gstate' = "PLAN" /\ pc' = "planner"
             \/ pc = "decompose" /\ gstate' = "DECOMPOSE" /\ pc' = "approve"
             \/ pc = "assign" /\ gstate' = "ASSIGN" /\ pc' = "first"
             \/ pc = "repair" /\ gstate' = "REPAIR" /\ pc' = "amend"
             \/ pc = "replan" /\ gstate' = "REPLAN" /\ pc' = "planner"
             \/ pc = "reassign" /\ gstate' = "ASSIGN" /\ pc' = "back"
             \/ pc = "waved" /\ gstate' = "ASSIGN" /\ pc' = "loop"
             \/ pc = "execute" /\ gstate' = "EXECUTE" /\ pc' = "wave"
             \/ pc = "verify" /\ gstate' = "VERIFY" /\ pc' = "check"
             \/ pc = "review" /\ gstate' = "REVIEW" /\ pc' = "decide"
             \/ pc = "judge" /\ gstate' = "JUDGE" /\ pc' = "judged"
      BY <1>1, <1>2, AdvanceIs
    <2>2. QED
      BY <2>1 DEF MoveInv, Steps, Terminal
  <1>3. CASE Begin
    <2>1. pc' = "ready" /\ (gstate' = "PAUSED" \/ (version' = 0 /\ gstate' = "RECEIVED"))
      BY <1>1, <1>3, LegalMoves DEF Begin, At, Move, MoveInv
    <2>2. QED
      BY <2>1 DEF MoveInv, Steps
  <1>4. CASE Ready
    <2>1. pc = "ready" /\ gstate' = gstate /\ version' = version
          /\ pc' = IF version = 0 THEN "understand" ELSE "approve"
      BY <1>4 DEF Ready, At, db, goal
    <2>2. QED
      BY <1>1, <2>1 DEF MoveInv, Steps
  <1>5. CASE Approve
    BY <1>1, <1>5 DEF Approve, At, Blocked, Throw, MoveInv, Steps
  <1>6. CASE UserApproves
    BY <1>1, <1>6 DEF UserApproves, At, MoveInv, Steps
  <1>7. CASE First
    BY <1>1, <1>7 DEF First, At, Error, Throw, MoveInv, Steps
  <1>8. CASE Cycle
    BY <1>1, <1>8 DEF Cycle, At, Error, Throw, MoveInv, Steps
  <1>9. CASE Back
    BY <1>1, <1>9 DEF Back, At, db, goal, MoveInv, Steps
  <1>10. CASE RequestPlan
    BY <1>1, <1>10 DEF RequestPlan, At, Blocked, Throw, MoveInv, Steps
  <1>11. CASE GenerateFails
    BY <1>1, <1>11 DEF GenerateFails, At, Error, Blocked, Throw, db, goal, MoveInv, Steps
  <1>12. CASE Execute
    <2>1. pc' = pc /\ gstate' = "EXECUTE" /\ pc \in {"produced", "failed"}
      BY <1>12, LegalMoves DEF Execute, At, Move
    <2>2. QED
      BY <2>1 DEF MoveInv, Steps
  <1>13. CASE ProducedDone \/ FindFailed
    BY <1>1, <1>13 DEF ProducedDone, FindFailed, At, db, goal, MoveInv, Steps
  <1>14. CASE NoWave
    BY <1>1, <1>14 DEF NoWave, At, Blocked, Throw, db, goal, MoveInv, Steps
  <1>15. CASE TaskFailure \/ Diagnose
    BY <1>1, <1>15
    DEF TaskFailure, Diagnose, Handle, At, Error, Blocked, Throw, db, goal, MoveInv, Steps
  <1>16. CASE Check \/ Decide
    BY <1>1, <1>16 DEF Check, Decide, At, Error, Blocked, Throw, db, goal, MoveInv, Steps
  <1>17. CASE Review
    BY <1>1, <1>17 DEF Review, At, Error, Blocked, Throw, goal, MoveInv, Steps
  <1>18. CASE Judge
    <2>1. pc' = "done" \/ (pc' = "throw_PAUSED" /\ gstate' = gstate)
      BY <1>1, <1>18, LegalMoves DEF Judge, At, Blocked, Throw, Move, MoveInv
    <2>2. QED
      BY <1>1, <2>1 DEF MoveInv, Steps
  <1>19. CASE Request \/ Deadline
    BY <1>1, <1>19 DEF Request, Deadline, db, goal, MoveInv, Steps
  <1>20. QED
    BY <1>2, <1>3, <1>4, <1>5, <1>6, <1>7, <1>8, <1>9, <1>10, <1>11, <1>12, <1>13, <1>14,
       <1>15, <1>16, <1>17, <1>18, <1>19 DEF Moving

LEMMA MovingGoesOn ==
    ASSUME IInv, Moving
    PROVE  GoesOn
  <1>1. MoveInv /\ StepInv /\ PlanInv /\ culprit.from \in {"loop", "produced"}
        /\ members \in SUBSET Tasks
    BY DEF IInv, Types, CulpritTypes, GoalTypes
  <1>2. Nobody.from = "loop" /\ Nobody.task = {} /\ Nobody.why = "none"
    BY DEF Nobody
  <1>3. CASE Advance
    <2>1. /\ \/ pc = "understand" /\ pc' = "discover"
             \/ pc = "discover" /\ pc' = "plan"
             \/ pc = "plan" /\ pc' = "planner"
             \/ pc = "decompose" /\ pc' = "approve"
             \/ pc = "assign" /\ pc' = "first"
             \/ pc = "repair" /\ pc' = "amend"
             \/ pc = "replan" /\ pc' = "planner"
             \/ pc = "reassign" /\ pc' = "back"
             \/ pc = "waved" /\ pc' = "loop"
             \/ pc = "execute" /\ pc' = "wave"
             \/ pc = "verify" /\ pc' = "check"
             \/ pc = "review" /\ pc' = "decide"
             \/ pc = "judge" /\ pc' = "judged"
          /\ culprit' = culprit
      BY <1>1, <1>3, AdvanceIs DEF Advance, proc
    <2>2. QED
      BY <1>1, <2>1 DEF GoesOn, StepInv, BeforeLoop, AfterLoop
  <1>4. CASE Begin
    BY <1>1, <1>4, LegalMoves
    DEF Begin, At, Move, MoveInv, proc, GoesOn, StepInv, BeforeLoop, AfterLoop
  <1>5. CASE Ready \/ Approve \/ UserApproves
    BY <1>1, <1>5
    DEF Ready, Approve, UserApproves, At, Blocked, Throw, proc, GoesOn, StepInv, BeforeLoop,
        AfterLoop
  <1>6. CASE First
    BY <1>1, <1>2, <1>6 DEF First, At, Error, Throw, GoesOn, StepInv, BeforeLoop, AfterLoop
  <1>7. CASE Cycle \/ RequestPlan \/ GenerateFails
    BY <1>1, <1>7
    DEF Cycle, RequestPlan, GenerateFails, At, Error, Blocked, Throw, proc, GoesOn, StepInv,
        BeforeLoop, AfterLoop
  <1>8. CASE Back
    BY <1>1, <1>2, <1>8 DEF Back, At, GoesOn, StepInv, BeforeLoop, AfterLoop
  <1>9. CASE Execute
    <2>1. pc' = pc /\ pc \in {"produced", "failed"} /\ culprit' = culprit
      BY <1>9, LegalMoves DEF Execute, At, Move, proc
    <2>2. QED
      BY <1>1, <2>1 DEF GoesOn, StepInv, BeforeLoop, AfterLoop
  <1>10. CASE ProducedDone
    BY <1>1, <1>10 DEF ProducedDone, At, proc, GoesOn, StepInv, BeforeLoop, AfterLoop
  <1>11. CASE FindFailed
    BY <1>1, <1>11 DEF FindFailed, Status, At, GoesOn, StepInv, BeforeLoop, AfterLoop
  <1>12. CASE NoWave
    <2>1. Unfinished = {} => \A t \in members : task[t].status = "accepted"
      BY <1>1 DEF Unfinished, PlanInv
    <2>2. pc = "select" /\ culprit' = culprit
          /\ (pc' = "throw_PAUSED" \/ (pc' = "verify" /\ Unfinished = {}))
      BY <1>12 DEF NoWave, At, Blocked, Throw, proc
    <2>3. QED
      BY <1>1, <2>1, <2>2 DEF GoesOn, StepInv, BeforeLoop, AfterLoop
  <1>13. CASE TaskFailure
    <2>1. /\ pc = "failure"
          /\ \/ pc' \in {"throw_PAUSED", "throw_FAILED", "replan"} /\ culprit' = culprit
             \/ pc' = "repair" /\ culprit.why = "code" /\ culprit'.task = culprit.task
             \/ pc' = "repair" /\ culprit.why # "code" /\ culprit' = culprit
      <3>1. CulpritTypes
        BY DEF IInv, Types
      <3>2. QED
        BY <1>13, <3>1 DEF TaskFailure, Handle, At, Error, Blocked, Throw, CulpritTypes
    <2>2. QED
      BY <1>1, <2>1 DEF GoesOn, StepInv, BeforeLoop, AfterLoop
  <1>14. CASE Diagnose
    <2>1. /\ pc = "diagnose" /\ culprit.why = "check" /\ culprit' = culprit
          /\ pc' \in {"throw_FAILED", "replan", "repair"}
      BY <1>1, <1>14 DEF Diagnose, Handle, At, Error, Throw, StepInv
    <2>2. QED
      BY <1>1, <2>1 DEF GoesOn, StepInv, BeforeLoop, AfterLoop
  <1>15. CASE Check \/ Decide
    BY <1>1, <1>15
    DEF Check, Decide, At, Error, Blocked, Throw, GoesOn, StepInv, BeforeLoop, AfterLoop
  <1>16. CASE Review \/ Judge
    BY <1>1, <1>16, LegalMoves
    DEF Review, Judge, At, Move, Error, Blocked, Throw, proc, MoveInv, GoesOn, StepInv,
        BeforeLoop, AfterLoop
  <1>17. CASE Request \/ Deadline
    BY <1>1, <1>17 DEF Request, Deadline, GoesOn, StepInv, BeforeLoop, AfterLoop
  <1>18. QED
    BY <1>3, <1>4, <1>5, <1>6, <1>7, <1>8, <1>9, <1>10, <1>11, <1>12, <1>13, <1>14,
       <1>15, <1>16, <1>17 DEF Moving

LEMMA MovingKeeps ==
    ASSUME IInv, Moving
    PROVE  IInv'
  BY MovingIsStill, MovingTypes, MovingMoves, MovingGoesOn, GoesOnKeeps, StillKeeps

-------------------------------------------------------------------------------
(* Steps that leave the tasks and the plan alone and change what the       *)
(* process is at work on.                                                  *)

Quiet ==
    /\ UNCHANGED <<task, members, deps, version, revision, review, iteration, planner, faults>>
    /\ crashes' \in Nat /\ (crashes' = 0 => crashes = 0)

LEMMA QuietKeeps ==
    ASSUME IInv, Quiet
    PROVE  TaskTypes' /\ PlanInv' /\ (crashes' = 0 => crashes = 0 /\ CleanTasks' /\ CleanRun)
           /\ \A s : Status(s)' = Status(s)
  <1>1. TaskTypes' /\ \A s : Status(s)' = Status(s)
    BY DEF IInv, Types, Quiet, TaskTypes, Within, Status
  <1>2. PlanInv'
    BY DEF IInv, Quiet, PlanInv, OfPlan, ValidPlan
  <1>3. crashes' = 0 => crashes = 0 /\ CleanTasks' /\ CleanRun
    BY DEF IInv, Quiet, CleanInv, CleanTasks, OfPlan, Current
  <1>4. QED
    BY <1>1, <1>2, <1>3

(* The run is over, the process at work on nothing.                        *)
LEMMA RunOver ==
    ASSUME IInv, Quiet, pc' = "off", gstate' \in GoalState,
           signal' \in {"none", "PAUSED", "ABORTED", "FAILED"},
           todo' = [t \in {} |-> NoTask], wave' = [t \in {} |-> "queued"], culprit' = Nobody,
           crashes' = 0 => pc \notin {"execute", "wave"}
    PROVE  IInv'
  <1>1. DOMAIN todo' = {} /\ DOMAIN wave' = {} /\ pc' = "off" /\ culprit'.from = "loop"
        /\ culprit'.task = {} /\ culprit'.why = "none"
    BY DEF Nobody
  <1>2. GoalTypes' /\ TaskTypes'
    BY QuietKeeps DEF IInv, Types, GoalTypes, Quiet
  <1>3. TodoTypes' /\ WaveTypes' /\ TodoInv' /\ WaveInv'
    BY <1>1 DEF TodoTypes, WaveTypes, TodoInv, WaveInv
  <1>4. CulpritTypes'
    BY DEF CulpritTypes, Nobody
  <1>5. MoveInv'
    BY <1>1 DEF MoveInv, Steps
  <1>6. StepInv'
    BY <1>1 DEF StepInv, BeforeLoop, AfterLoop
  <1>7. CleanInv'
    <2>1. SUFFICES ASSUME crashes' = 0 PROVE CleanTasks' /\ CleanRun'
      BY DEF CleanInv
    <2>2. CleanTasks' /\ CleanRun
      BY <2>1, QuietKeeps
    <2>3. DOMAIN wave = {}
      BY <2>1 DEF IInv, StepInv
    <2>4. CleanRun'
      BY <1>1, <2>2, <2>3 DEF CleanRun, Quiet
    <2>5. QED
      BY <2>2, <2>4
  <1>8. QED
    BY <1>2, <1>3, <1>4, <1>5, <1>6, <1>7, QuietKeeps DEF IInv, Types

LEMMA EndKeeps ==
    ASSUME IInv, Catch \/ Return \/ Crash
    PROVE  IInv'
  <1>1. GoalTypes /\ MoveInv
    BY DEF IInv, Types
  <1>2. CASE Catch
    <2>1. Outcome \in GoalState
      BY <1>1 DEF GoalTypes, Outcome, GoalState
    <2>2. /\ pc' = "off" /\ gstate' \in GoalState /\ signal' = "none"
          /\ todo' = [t \in {} |-> NoTask] /\ wave' = [t \in {} |-> "queued"] /\ culprit' = Nobody
          /\ pc \notin {"execute", "wave"}
      BY <1>2, <2>1 DEF Catch
    <2>3. Quiet
      BY <1>1, <1>2 DEF Catch, Quiet, env, GoalTypes
    <2>4. QED
      BY <2>2, <2>3, RunOver
  <1>3. CASE Return
    <2>1. /\ pc' = "off" /\ gstate' \in GoalState /\ signal' = "none"
          /\ todo' = [t \in {} |-> NoTask] /\ wave' = [t \in {} |-> "queued"] /\ culprit' = Nobody
          /\ pc \notin {"execute", "wave"}
      BY <1>1, <1>3 DEF Return, At, db, goal, GoalTypes
    <2>2. Quiet
      BY <1>1, <1>3 DEF Return, Quiet, env, db, goal, GoalTypes
    <2>3. QED
      BY <2>1, <2>2, RunOver
  <1>4. CASE Crash
    <2>1. /\ pc' = "off" /\ gstate' \in GoalState /\ signal' = "none"
          /\ todo' = [t \in {} |-> NoTask] /\ wave' = [t \in {} |-> "queued"] /\ culprit' = Nobody
          /\ crashes' # 0
      BY <1>1, <1>4 DEF Crash, db, goal, GoalTypes
    <2>2. Quiet
      BY <1>1, <1>4 DEF Crash, Quiet, db, goal, GoalTypes
    <2>3. QED
      BY <2>1, <2>2, RunOver
  <1>5. QED
    BY <1>2, <1>3, <1>4

(* The produced tasks are all there is under way at the loop head.         *)
LEMMA LoopHeadKeeps ==
    ASSUME IInv, LoopHead
    PROVE  IInv'
  <1>1. CASE Interrupted /\ Error /\ UNCHANGED todo
    <2>1. Still /\ pc = "loop" /\ pc' = "throw_FAILED" /\ UNCHANGED <<culprit, signal, faults>>
          /\ UNCHANGED <<gstate, review, iteration, planner>>
      BY <1>1 DEF LoopHead, Still, At, Error, Throw, db, goal, env
    <2>2. GoalTypes' /\ CulpritTypes'
      BY <2>1 DEF IInv, Types, Still, GoalTypes, CulpritTypes
    <2>3. MoveInv'
      BY <2>1 DEF MoveInv, Steps
    <2>4. GoesOn
      BY <2>1 DEF IInv, StepInv, GoesOn, BeforeLoop, AfterLoop
    <2>5. QED
      BY <2>1, <2>2, <2>3, <2>4, GoesOnKeeps, StillKeeps
  <1>2. CASE pc' = "produced" /\ todo' = Restrict(task, Status("produced"))
    <2>1. /\ pc = "loop" /\ Quiet /\ UNCHANGED <<gstate, wave, culprit, signal>>
          /\ crashes' = crashes
      BY DEF LoopHead, Quiet, At, db, goal, env, IInv, Types, GoalTypes
    <2> DEFINE P == Status("produced")
    <2>2. /\ todo' = [x \in P |-> task[x]] /\ P \subseteq Tasks
          /\ \A t \in P : task[t].status = "produced"
      BY <1>2 DEF Restrict, Status
    <2> HIDE DEF P
    <2>3. DOMAIN todo' = P /\ \A t \in P : todo'[t] = task[t]
      BY <2>2
    <2>4. GoalTypes' /\ WaveTypes' /\ CulpritTypes' /\ TaskTypes' /\ PlanInv'
          /\ WaveInv' /\ DOMAIN wave = {}
      BY <2>1, QuietKeeps
      DEF IInv, Types, Quiet, GoalTypes, WaveTypes, CulpritTypes, WaveInv, StepInv
    <2>5. TodoTypes'
      BY <2>1, <2>2, <2>3 DEF IInv, Types, TaskTypes, TodoTypes, Within, Quiet
    <2>6. TodoInv'
      <3>1. UNCHANGED <<task, members, deps, version>>
        BY <2>1 DEF Quiet
      <3>2. \A t \in P : t \in Tasks /\ OfPlan(t, task[t])
        BY <2>2 DEF IInv, PlanInv
      <3>3. \A t \in P : OfPlan(t, todo[t])'
        BY <2>3, <3>1, <3>2 DEF OfPlan
      <3>4. QED
        BY <2>2, <2>3, <3>1, <3>3 DEF TodoInv
    <2>7. MoveInv'
      BY <1>2, <2>1 DEF IInv, MoveInv, Steps
    <2>8. Status("running") = {}
      BY <2>1, <2>4 DEF IInv, StepInv
    <2>9. StepInv'
      <3>1. Status("running")' = {} /\ Status("produced")' = P
        BY <2>1, <2>8, QuietKeeps DEF P
      <3>2. QED
        BY <1>2, <2>1, <2>3, <2>4, <3>1 DEF StepInv, AfterLoop
    <2>10. CleanInv'
      <3>1. SUFFICES ASSUME crashes' = 0 PROVE CleanTasks' /\ CleanRun'
        BY DEF CleanInv
      <3>2. CleanTasks' /\ CleanRun
        BY <2>1, <3>1, QuietKeeps
      <3>3. P = {}
        BY <2>2, <2>4, <3>2 DEF CleanRun
      <3>4. CleanRun'
        BY <2>1, <2>3, <3>2, <3>3 DEF CleanRun, Quiet
      <3>5. QED
        BY <3>2, <3>4
    <2>11. QED
      BY <2>4, <2>5, <2>6, <2>7, <2>9, <2>10 DEF IInv, Types
  <1>3. QED
    BY <1>1, <1>2 DEF LoopHead

(* A wave of ready tasks.                                                  *)
LEMMA SelectWaveKeeps ==
    ASSUME IInv, SelectWave
    PROVE  IInv'
  <1>1. PICK w \in SUBSET ReadyTasks : wave' = [t \in w |-> "queued"]
    BY DEF SelectWave
  <1>2. /\ pc = "select" /\ UNCHANGED <<todo, culprit, signal, crashes>>
        /\ DOMAIN wave' = w /\ \A t \in w : wave'[t] = "queued"
    BY <1>1 DEF SelectWave, At, env
  <1>3. pc' = "execute" /\ gstate' = "ASSIGN"
    <2>1. gstate \in {"ASSIGN", "EXECUTE"}
      BY <1>2 DEF IInv, MoveInv
    <2>2. QED
      BY <2>1, LegalMoves DEF SelectWave, Move
  <1>4. Quiet
    BY DEF SelectWave, Quiet, env, IInv, Types, GoalTypes
  <1>5. \A t \in w : t \in Tasks /\ task[t].status = "pending"
                     /\ \A d \in task[t].deps : task[d].status = "accepted"
    BY DEF ReadyTasks, Status
  <1>6. GoalTypes' /\ CulpritTypes' /\ TaskTypes' /\ PlanInv'
    <2>1. "ASSIGN" \in GoalState
      BY DEF GoalState
    <2>2. QED
      BY <1>2, <1>3, <1>4, <2>1, QuietKeeps
      DEF IInv, Types, Quiet, GoalTypes, CulpritTypes
  <1>7. TodoTypes' /\ TodoInv'
    BY <1>2, <1>4 DEF IInv, Types, Quiet, TodoTypes, Within, TodoInv, OfPlan
  <1>8. WaveTypes' /\ WaveInv'
    <2>1. wave' \in [w -> {"queued", "running", "produced"} \cup Failure] /\ w \subseteq Tasks
      BY <1>1, <1>5
    <2>2. \A t \in w : task'[t].status = "pending"
      BY <1>4, <1>5 DEF Quiet
    <2>3. "queued" \notin Failure
      BY DEF Failure
    <2>4. QED
      BY <1>2, <2>1, <2>2, <2>3 DEF WaveTypes, WaveInv
  <1>9. MoveInv'
    BY <1>3 DEF MoveInv, Steps
  <1>10. DOMAIN todo = {} /\ DOMAIN wave = {} /\ Status("running") = {} /\ Status("produced") = {}
    BY <1>2 DEF IInv, StepInv, BeforeLoop
  <1>11. StepInv'
    <2>1. Status("running")' = {} /\ Status("produced")' = {} /\ DOMAIN todo' = {}
      BY <1>2, <1>4, <1>10, QuietKeeps
    <2>2. QED
      BY <1>3, <2>1 DEF StepInv, AfterLoop
  <1>12. CleanInv'
    <2>1. SUFFICES ASSUME crashes' = 0 PROVE CleanTasks' /\ CleanRun'
      BY DEF CleanInv
    <2>2. CleanTasks' /\ CleanTasks /\ CleanRun
      BY <1>4, <2>1, QuietKeeps DEF IInv, CleanInv
    <2>3. ASSUME NEW t \in w PROVE \A d \in deps[t] : task[d].status = "accepted"
      <3>1. t \in members
        BY <1>5, <2>2, <2>3 DEF CleanTasks
      <3>2. task[t].deps = deps[t]
        BY <2>2, <3>1 DEF CleanTasks, OfPlan
      <3>3. QED
        BY <1>5, <2>3, <3>2
    <2>4. \A t \in Tasks : task'[t].status \notin {"running", "produced"}
      BY <1>4, <1>10 DEF Quiet, Status
    <2>5. CleanRun'
      <3>1. UNCHANGED <<task, deps>>
        BY <1>4 DEF Quiet
      <3>2. QED
        BY <1>2, <1>10, <2>3, <2>4, <3>1 DEF CleanRun
    <2>6. QED
      BY <2>2, <2>5
  <1>13. QED
    BY <1>6, <1>7, <1>8, <1>9, <1>11, <1>12 DEF IInv, Types

(* A task that is refused fails in the wave, its record is left alone.     *)
LEMMA RefuseTaskKeeps ==
    ASSUME IInv, NEW t \in DOMAIN wave, RefuseTask(t)
    PROVE  IInv'
  <1>1. PICK why \in {"code", "blocked"} : wave' = [wave EXCEPT ![t] = why]
    BY DEF RefuseTask, SetWave
  <1>2. /\ pc = "wave" /\ wave[t] = "queued" /\ UNCHANGED <<pc, todo, culprit, signal, crashes>>
        /\ UNCHANGED <<gstate, task, members, deps, version, revision, review, iteration, planner>>
        /\ faults' \in Nat /\ crashes \in Nat
    BY DEF RefuseTask, At, db, goal, Fault, IInv, Types, GoalTypes
  <1>3. /\ DOMAIN wave' = DOMAIN wave /\ wave'[t] = why
        /\ \A u \in DOMAIN wave \ {t} : wave'[u] = wave[u]
    BY <1>1 DEF IInv, Types, WaveTypes
  <1>4. GoalTypes' /\ CulpritTypes' /\ TaskTypes' /\ TodoTypes' /\ PlanInv' /\ TodoInv'
    BY <1>2 DEF IInv, Types, GoalTypes, CulpritTypes, TaskTypes, TodoTypes, Within, PlanInv,
                TodoInv, OfPlan, ValidPlan
  <1>5. why \in Failure /\ why # "queued" /\ why \notin {"running", "produced"}
    BY DEF Failure
  <1>6. WaveTypes' /\ WaveInv'
    <2>1. wave' \in [DOMAIN wave -> {"queued", "running", "produced"} \cup Failure]
      BY <1>1, <1>5 DEF IInv, Types, WaveTypes
    <2>2. WaveTypes'
      BY <1>3, <2>1 DEF IInv, Types, WaveTypes
    <2>3. ASSUME NEW u \in DOMAIN wave
          PROVE /\ wave'[u] = "queued" => task[u].status = "pending"
                /\ wave'[u] \in {"running", "produced"} => task[u].status = wave'[u]
                /\ wave'[u] \in Failure => task[u].status \in {"pending", "failed"}
      <3>1. CASE u = t
        BY <1>2, <1>3, <1>5, <3>1 DEF IInv, WaveInv
      <3>2. CASE u # t
        BY <1>3, <3>2 DEF IInv, WaveInv
      <3>3. QED
        BY <3>1, <3>2
    <2>4. QED
      BY <1>2, <1>3, <2>2, <2>3 DEF WaveInv
  <1>7. MoveInv' /\ StepInv'
    <2>1. \A s : Status(s)' = Status(s)
      BY <1>2 DEF Status
    <2>2. QED
      BY <1>2, <1>3, <2>1 DEF IInv, MoveInv, StepInv, BeforeLoop, AfterLoop
  <1>8. CleanInv'
    <2>1. CleanTasks => CleanTasks'
      BY <1>2 DEF CleanTasks, OfPlan, Current
    <2>2. CleanRun => CleanRun'
      BY <1>2, <1>3, <1>5 DEF CleanRun
    <2>3. QED
      BY <1>2, <2>1, <2>2 DEF IInv, CleanInv
  <1>9. QED
    BY <1>4, <1>6, <1>7, <1>8 DEF IInv, Types

(* The end of a wave: what is left of it failed.                           *)
LEMMA WaveDoneKeeps ==
    ASSUME IInv, WaveDone
    PROVE  IInv'
  <1>1. /\ pc = "wave" /\ \A t \in DOMAIN wave : wave[t] \in Failure
        /\ wave' = [t \in {} |-> "queued"] /\ UNCHANGED <<gstate, todo, signal, crashes>>
        /\ \/ pc' = "waved" /\ culprit' = culprit
           \/ /\ pc' = "failure"
              /\ \E t \in DOMAIN wave : culprit' = [task |-> {t}, why |-> wave[t], from |-> "loop"]
    BY DEF WaveDone, At, db, goal, env
  <1>2. Quiet
    BY DEF WaveDone, Quiet, db, goal, env, IInv, Types, GoalTypes
  <1>3. GoalTypes' /\ TaskTypes' /\ TodoTypes' /\ PlanInv' /\ TodoInv'
    BY <1>1, <1>2, QuietKeeps
    DEF IInv, Types, Quiet, GoalTypes, TodoTypes, Within, TodoInv, OfPlan
  <1>4. WaveTypes' /\ WaveInv' /\ DOMAIN wave' = {}
    BY <1>1 DEF WaveTypes, WaveInv
  <1>5. CulpritTypes'
    BY <1>1 DEF IInv, Types, CulpritTypes, WaveTypes
  <1>6. MoveInv'
    BY <1>1 DEF IInv, MoveInv, Steps
  <1>7. \A t \in DOMAIN wave : task[t].status \in {"pending", "failed"}
    BY <1>1 DEF IInv, WaveInv
  <1>8. DOMAIN todo = {} /\ Status("running") = {} /\ Status("produced") = {}
    BY <1>1, <1>7 DEF IInv, StepInv, Status, BeforeLoop
  <1>9. StepInv'
    <2>1. Status("running")' = {} /\ Status("produced")' = {} /\ DOMAIN todo' = {}
      BY <1>1, <1>2, <1>8, QuietKeeps
    <2>2. pc' = "failure" => \A t \in culprit'.task : task'[t].status \in {"pending", "failed"}
      BY <1>1, <1>2, <1>7 DEF Quiet
    <2>3. QED
      BY <1>1, <1>4, <2>1, <2>2 DEF StepInv, AfterLoop
  <1>10. CleanInv'
    <2>1. \A t \in Tasks : task'[t].status \notin {"running", "produced"}
      BY <1>2, <1>8 DEF Quiet, Status
    <2>2. CleanRun'
      BY <1>1, <1>4, <1>8, <2>1 DEF CleanRun
    <2>3. QED
      BY <1>2, <2>2, QuietKeeps DEF CleanInv
  <1>11. QED
    BY <1>3, <1>4, <1>5, <1>6, <1>9, <1>10 DEF IInv, Types

-------------------------------------------------------------------------------
(* Steps that change the record of a task and leave the plan alone.        *)

(* What a dead controller left running, or blocked, is pending again.      *)
LEMMA RunKeeps ==
    ASSUME IInv, Run
    PROVE  IInv'
  <1>1. /\ task' \in [Tasks -> TaskRecord]
        /\ \A u \in Tasks :
              /\ KeepsResult(task'[u], task[u]) /\ task'[u].revision = task[u].revision
              /\ \/ task'[u] = task[u] /\ task[u].status # "running"
                 \/ task[u].status \in {"running", "failed"} /\ task'[u].status = "pending"
    BY RunShape DEF IInv
  <1>2. /\ pc = "off" /\ gstate \notin Terminal /\ pc' = "begin"
        /\ UNCHANGED <<gstate, members, deps, version, revision, review, iteration, planner>>
        /\ UNCHANGED <<todo, wave, culprit, signal, crashes, faults>>
    BY DEF Run, At, goal, proc, env
  <1>3. GoalTypes' /\ CulpritTypes' /\ TodoTypes' /\ WaveTypes'
    BY <1>2 DEF IInv, Types, GoalTypes, CulpritTypes, TodoTypes, WaveTypes, Within
  <1>4. TaskTypes'
    <2>1. \A u \in Tasks : Within(task[u])'
      BY <1>1, <1>2 DEF IInv, Types, TaskTypes, Within, KeepsResult
    <2>2. QED
      BY <1>1, <2>1 DEF TaskTypes
  <1>5. PlanInv'
    <2>1. members' = {} \/ ValidPlan(members, deps)'
      BY <1>2 DEF IInv, PlanInv, ValidPlan
    <2>2. \A t \in members' : task'[t].status \notin {"none", "superseded"}
      BY <1>1, <1>2 DEF IInv, PlanInv, Types, GoalTypes
    <2>3. ASSUME NEW t \in Tasks
          PROVE  /\ task'[t].status = "none" => task'[t].attempt = 0
                 /\ task'[t].status \in {"none", "superseded"} \/ OfPlan(t, task[t])'
      <3>1. /\ task[t].status = "none" => task[t].attempt = 0
            /\ task[t].status \in {"none", "superseded"} \/ OfPlan(t, task[t])
        BY DEF IInv, PlanInv
      <3>2. task'[t].status \in {"none", "superseded"} => task'[t] = task[t]
        BY <1>1
      <3>3. task[t].status \in {"none", "superseded"} => task'[t] = task[t]
        BY <1>1
      <3>4. OfPlan(t, task[t]) => OfPlan(t, task[t])'
        BY <1>1, <1>2 DEF OfPlan, KeepsResult
      <3>5. QED
        BY <3>1, <3>2, <3>3, <3>4
    <2>4. QED
      BY <2>1, <2>2, <2>3 DEF PlanInv
  <1>6. TodoInv'
    <2>1. ASSUME NEW t \in DOMAIN todo
          PROVE  /\ todo[t].attempt = task'[t].attempt
                 /\ task'[t].status \notin {"none", "accepted"} /\ OfPlan(t, todo[t])'
      BY <1>1, <1>2 DEF IInv, TodoInv, Types, TodoTypes, OfPlan, KeepsResult
    <2>2. QED
      BY <1>2, <2>1 DEF TodoInv
  <1>7. DOMAIN wave = {}
    BY <1>2 DEF IInv, StepInv
  <1>8. WaveInv'
    BY <1>2, <1>7 DEF WaveInv
  <1>9. MoveInv'
    BY <1>2 DEF MoveInv, Steps
  <1>10. StepInv'
    <2>1. Status("running")' = {} /\ Status("produced")' \subseteq Status("produced")
      BY <1>1 DEF Status
    <2>2. QED
      BY <1>2, <1>7, <2>1 DEF IInv, StepInv, BeforeLoop, AfterLoop
  <1>11. CleanInv'
    <2>1. SUFFICES ASSUME crashes = 0 PROVE CleanTasks' /\ CleanRun'
      BY <1>2 DEF CleanInv
    <2>2. CleanTasks /\ CleanRun
      BY <2>1 DEF IInv, CleanInv
    <2>3. \A t \in members : OfPlan(t, task[t])' /\ task'[t].plan = version
      BY <1>1, <1>2, <2>2 DEF CleanTasks, OfPlan, KeepsResult, IInv, Types, GoalTypes
    <2>4. \A t \in Tasks \ members : task'[t].status \in {"none", "superseded"}
      BY <1>1, <2>2 DEF CleanTasks
    <2>5. ASSUME NEW t \in Tasks, task'[t].status \in AtWork PROVE Current(t)'
      <3>1. task'[t] = task[t]
        BY <1>1, <2>5 DEF AtWork
      <3>2. Current(t) /\ deps[t] \subseteq Tasks
        BY <2>2, <2>5, <3>1 DEF CleanTasks, IInv, Types, GoalTypes
      <3>3. \A d \in deps[t] : task'[d] = task[d]
        BY <1>1, <3>2 DEF Current
      <3>4. QED
        BY <1>2, <3>1, <3>2, <3>3 DEF Current
    <2>6. CleanRun'
      BY <1>1, <1>2, <1>7, <2>2 DEF CleanRun
    <2>7. QED
      BY <1>2, <2>3, <2>4, <2>5, <2>6 DEF CleanTasks
  <1>12. QED
    BY <1>3, <1>4, <1>5, <1>6, <1>8, <1>9, <1>10, <1>11 DEF IInv, Types

(* A record is replaced by one of the same plan.                           *)
Replaces(t) ==
    /\ Touches(t) /\ UNCHANGED <<members, deps, version, crashes>>
    /\ revision' \in Nat /\ revision <= revision'
    /\ task'[t].status \notin {"none", "superseded"}
    /\ OfPlan(t, task'[t]) /\ Within(task[t])'

LEMMA ReplacedKeeps ==
    ASSUME IInv, NEW t \in Tasks, Replaces(t)
    PROVE  TaskTypes' /\ PlanInv'
  <1>1. \A u \in Tasks : Within(task[u])'
    <2>1. ASSUME NEW u \in Tasks, u # t PROVE Within(task[u])'
      <3>1. Within(task[u]) /\ task'[u] = task[u] /\ version' = version
            /\ revision <= revision' /\ revision \in Nat /\ revision' \in Nat
            /\ task[u] \in TaskRecord
        BY <2>1 DEF IInv, Types, GoalTypes, TaskTypes, Replaces, Touches
      <3>2. task[u].revision \in Nat /\ \A d \in Tasks : task[u].built[d] \in Nat
        BY <3>1 DEF TaskRecord
      <3>3. QED
        BY <3>1, <3>2 DEF Within
    <2>2. QED
      BY <2>1 DEF Replaces
  <1>2. TaskTypes'
    BY <1>1 DEF TaskTypes, Replaces, Touches
  <1>3. members' = {} \/ ValidPlan(members, deps)'
    BY DEF IInv, PlanInv, ValidPlan, Replaces
  <1>4. \A u \in members : task'[u].status \notin {"none", "superseded"}
    BY DEF IInv, PlanInv, Types, GoalTypes, Replaces, Touches
  <1>5. ASSUME NEW u \in Tasks
        PROVE  /\ task'[u].status = "none" => task'[u].attempt = 0
               /\ task'[u].status \in {"none", "superseded"} \/ OfPlan(u, task[u])'
    BY DEF IInv, PlanInv, Replaces, Touches, OfPlan
  <1>6. QED
    BY <1>2, <1>3, <1>4, <1>5 DEF PlanInv, Replaces

(* Nobody used the result of a task that was not accepted.                 *)
LEMMA ReplacedIsClean ==
    ASSUME IInv, NEW t \in Tasks, Replaces(t), CleanTasks,
           task[t].status \notin {"none", "superseded", "accepted"},
           task'[t].plan = task[t].plan,
           task'[t].status \in AtWork =>
               \A d \in deps[t] : /\ task[d].status = "accepted"
                                  /\ task'[t].built[d] = task[d].revision
    PROVE  CleanTasks'
  <1>1. t \in members /\ task'[t].plan = version
    BY DEF CleanTasks
  <1>2. members \subseteq Tasks /\ \A u \in Tasks : deps[u] \subseteq Tasks
    BY DEF IInv, Types, GoalTypes
  <1>3. UNCHANGED <<members, deps, version>> /\ \A u \in Tasks \ {t} : task'[u] = task[u]
    BY DEF Replaces, Touches
  <1>4. \A u \in members : OfPlan(u, task[u])' /\ task'[u].plan = version
    BY <1>1, <1>2, <1>3 DEF CleanTasks, OfPlan, Replaces
  <1>5. \A u \in Tasks \ members : task'[u].status \in {"none", "superseded"}
    BY <1>1, <1>3 DEF CleanTasks
  <1>6. ASSUME NEW u \in Tasks, task'[u].status \in AtWork PROVE Current(u)'
    <2>1. \A d \in deps[u] : /\ task[d].status = "accepted"
                             /\ task'[u].built[d] = task[d].revision
      BY <1>3, <1>6 DEF CleanTasks, Current
    <2>2. \A d \in deps[u] : task'[d] = task[d]
      BY <1>2, <1>3, <2>1
    <2>3. QED
      BY <1>3, <2>1, <2>2 DEF Current
  <1>7. QED
    BY <1>3, <1>4, <1>5, <1>6 DEF CleanTasks

(* A task of the wave is started: it takes the outputs it depends on.      *)
LEMMA StartTaskKeeps ==
    ASSUME IInv, NEW t \in DOMAIN wave, StartTask(t)
    PROVE  IInv'
  <1>1. /\ Touches(t) /\ t \in Tasks
        /\ task'[t].status = "running" /\ task'[t].attempt = task[t].attempt + 1
        /\ task'[t].built = [d \in Tasks |-> IF d \in task[t].deps THEN task[d].revision ELSE 0]
        /\ task'[t].plan = task[t].plan /\ task'[t].deps = task[t].deps
        /\ task'[t].max = task[t].max /\ task'[t].revision = task[t].revision
    BY StartShape DEF IInv
  <1>2. /\ pc = "wave" /\ wave[t] = "queued" /\ task[t].attempt < task[t].max
        /\ wave' = [wave EXCEPT ![t] = "running"]
        /\ UNCHANGED <<gstate, members, deps, version, revision, review, iteration, planner>>
        /\ UNCHANGED <<pc, todo, culprit, signal, crashes, faults>>
    BY DEF StartTask, SetWave, At, goal, env
  <1>3. /\ task[t].status = "pending" /\ DOMAIN todo = {}
        /\ task[t] \in TaskRecord /\ Within(task[t]) /\ OfPlan(t, task[t])
    BY <1>1, <1>2 DEF IInv, WaveInv, StepInv, Types, TaskTypes, PlanInv
  <1>4. /\ DOMAIN wave' = DOMAIN wave /\ wave'[t] = "running"
        /\ \A u \in DOMAIN wave \ {t} : wave'[u] = wave[u]
    BY <1>2 DEF IInv, Types, WaveTypes
  <1>5. Replaces(t)
    <2>1. OfPlan(t, task'[t])
      BY <1>1, <1>3 DEF OfPlan
    <2>2. revision \in Nat /\ MaxAttempts \in Nat
      BY OrchestratorAssumption DEF IInv, Types, GoalTypes, OrchestratorAssumption
    <2>3. \A d \in Tasks : task'[t].built[d] <= revision
      BY <1>1, <2>2 DEF IInv, Types, TaskTypes, Within
    <2>4. task'[t].attempt <= MaxAttempts
      <3>1. task[t].attempt \in Nat /\ task[t].max \in Nat /\ task[t].max <= MaxAttempts
        BY <1>3 DEF TaskRecord, Within
      <3>2. QED
        BY <1>1, <1>2, <2>2, <3>1
    <2>5. Within(task[t])'
      BY <1>1, <1>2, <1>3, <2>3, <2>4 DEF Within
    <2>6. QED
      BY <1>1, <1>2, <2>1, <2>2, <2>5 DEF Replaces
  <1>6. GoalTypes' /\ CulpritTypes' /\ TodoTypes' /\ TodoInv' /\ TaskTypes' /\ PlanInv'
    BY <1>1, <1>2, <1>3, <1>5, ReplacedKeeps
    DEF IInv, Types, GoalTypes, CulpritTypes, TodoTypes, TodoInv
  <1>7. WaveTypes'
    <2>1. wave' \in [DOMAIN wave -> {"queued", "running", "produced"} \cup Failure]
      BY <1>2 DEF IInv, Types, WaveTypes
    <2>2. QED
      BY <1>4, <2>1 DEF IInv, Types, WaveTypes
  <1>8. WaveInv'
    <2>1. "running" \notin Failure
      BY DEF Failure
    <2>2. \A u \in DOMAIN wave \ {t} : u \in Tasks /\ task'[u] = task[u]
      BY <1>1 DEF Touches, IInv, Types, WaveTypes
    <2>3. QED
      BY <1>1, <1>4, <2>1, <2>2 DEF IInv, WaveInv
  <1>9. MoveInv'
    BY <1>2 DEF IInv, MoveInv
  <1>10. StepInv'
    <2>1. /\ Status("running")' \subseteq Status("running") \cup {t}
          /\ Status("produced")' \subseteq Status("produced")
      BY <1>1 DEF Status, Touches
    <2>2. QED
      BY <1>2, <1>3, <1>4, <2>1 DEF IInv, StepInv, BeforeLoop, AfterLoop
  <1>11. CleanInv'
    <2>1. SUFFICES ASSUME crashes = 0 PROVE CleanTasks' /\ CleanRun'
      BY <1>2 DEF CleanInv
    <2>2. CleanTasks /\ CleanRun
      BY <2>1 DEF IInv, CleanInv
    <2>3. task[t].deps = deps[t] /\ deps[t] \subseteq Tasks
      <3>1. t \in members
        BY <1>1, <1>3, <2>2 DEF CleanTasks
      <3>2. QED
        BY <2>2, <3>1 DEF CleanTasks, OfPlan, IInv, Types, GoalTypes
    <2>4. \A d \in deps[t] : /\ task[d].status = "accepted"
                             /\ task'[t].built[d] = task[d].revision
      BY <1>1, <1>2, <2>2, <2>3 DEF CleanRun
    <2>5. CleanTasks'
      BY <1>1, <1>3, <1>5, <2>2, <2>4, ReplacedIsClean
    <2>6. CleanRun'
      <3>1. \A u \in Tasks : task'[u].status \in {"running", "produced"} => u \in DOMAIN wave
        BY <1>1, <2>2 DEF CleanRun, Touches
      <3>2. ASSUME NEW u \in DOMAIN wave, wave'[u] = "queued"
            PROVE  \A d \in deps[u] : task'[d].status = "accepted"
        <4>1. wave[u] = "queued"
          BY <1>4, <3>2
        <4>2. \A d \in deps[u] : d \in Tasks /\ task[d].status = "accepted"
          BY <2>2, <4>1 DEF CleanRun, IInv, Types, WaveTypes, GoalTypes
        <4>3. QED
          BY <1>1, <1>3, <4>2 DEF Touches
      <3>3. QED
        BY <1>2, <1>3, <1>4, <3>1, <3>2 DEF CleanRun
    <2>7. QED
      BY <2>5, <2>6
  <1>12. QED
    BY <1>6, <1>7, <1>8, <1>9, <1>10, <1>11 DEF IInv, Types

(* A task of the wave ends, with a result or without.                      *)
LEMMA FinishTaskKeeps ==
    ASSUME IInv, NEW t \in DOMAIN wave, FinishTask(t)
    PROVE  IInv'
  <1>1. /\ Touches(t) /\ t \in Tasks
        /\ KeepsResult(task'[t], task[t]) /\ task'[t].revision = task[t].revision
        /\ \/ task'[t].status = "produced" /\ wave' = [wave EXCEPT ![t] = "produced"]
           \/ \E why \in {"code", "blocked"} :
                 task'[t].status = "failed" /\ wave' = [wave EXCEPT ![t] = why]
    BY FinishShape DEF IInv
  <1>2. /\ pc = "wave" /\ wave[t] = "running"
        /\ UNCHANGED <<gstate, members, deps, version, revision, review, iteration, planner>>
        /\ UNCHANGED <<pc, todo, culprit, signal, crashes>> /\ faults' \in Nat
    BY DEF FinishTask, FaultOrStop, Fault, At, goal, IInv, Types, GoalTypes
  <1>3. /\ task[t].status = "running" /\ DOMAIN todo = {}
        /\ task[t] \in TaskRecord /\ Within(task[t]) /\ OfPlan(t, task[t])
    BY <1>1, <1>2 DEF IInv, WaveInv, StepInv, Types, TaskTypes, PlanInv
  <1>4. /\ DOMAIN wave' = DOMAIN wave /\ wave'[t] \in {"produced", "code", "blocked"}
        /\ (wave'[t] = "produced" /\ task'[t].status = "produced")
           \/ (wave'[t] # "produced" /\ task'[t].status = "failed")
        /\ \A u \in DOMAIN wave \ {t} : wave'[u] = wave[u]
    BY <1>1 DEF IInv, Types, WaveTypes
  <1>5. Replaces(t)
    <2>1. OfPlan(t, task'[t])
      BY <1>1, <1>3 DEF OfPlan, KeepsResult
    <2>2. revision \in Nat
      BY DEF IInv, Types, GoalTypes
    <2>3. Within(task[t])'
      BY <1>1, <1>2, <1>3 DEF Within, KeepsResult
    <2>4. QED
      BY <1>1, <1>2, <2>1, <2>2, <2>3 DEF Replaces
  <1>6. GoalTypes' /\ CulpritTypes' /\ TodoTypes' /\ TodoInv' /\ TaskTypes' /\ PlanInv'
    BY <1>1, <1>2, <1>3, <1>5, ReplacedKeeps
    DEF IInv, Types, GoalTypes, CulpritTypes, TodoTypes, TodoInv
  <1>7. WaveTypes'
    <2>1. wave' \in [DOMAIN wave -> {"queued", "running", "produced"} \cup Failure]
      BY <1>1 DEF IInv, Types, WaveTypes, Failure
    <2>2. QED
      BY <1>4, <2>1 DEF IInv, Types, WaveTypes
  <1>8. WaveInv'
    <2>1. "produced" \notin Failure
      BY DEF Failure
    <2>2. \A u \in DOMAIN wave \ {t} : u \in Tasks /\ task'[u] = task[u]
      BY <1>1 DEF Touches, IInv, Types, WaveTypes
    <2>3. QED
      BY <1>4, <2>1, <2>2 DEF IInv, WaveInv
  <1>9. MoveInv'
    BY <1>2 DEF IInv, MoveInv
  <1>10. StepInv'
    <2>1. /\ Status("running")' \subseteq Status("running")
          /\ Status("produced")' \subseteq Status("produced") \cup {t}
      BY <1>1 DEF Status, Touches
    <2>2. QED
      BY <1>2, <1>3, <1>4, <2>1 DEF IInv, StepInv, BeforeLoop, AfterLoop
  <1>11. CleanInv'
    <2>1. SUFFICES ASSUME crashes = 0 PROVE CleanTasks' /\ CleanRun'
      BY <1>2 DEF CleanInv
    <2>2. CleanTasks /\ CleanRun
      BY <2>1 DEF IInv, CleanInv
    <2>3. \A d \in deps[t] : /\ task[d].status = "accepted"
                             /\ task'[t].built[d] = task[d].revision
      BY <1>1, <1>3, <2>2 DEF CleanTasks, Current, AtWork, KeepsResult
    <2>4. CleanTasks'
      BY <1>1, <1>3, <1>5, <2>2, <2>3, ReplacedIsClean DEF KeepsResult
    <2>5. CleanRun'
      <3>1. \A u \in Tasks : task'[u].status \in {"running", "produced"} => u \in DOMAIN wave
        BY <1>1, <2>2 DEF CleanRun, Touches
      <3>2. ASSUME NEW u \in DOMAIN wave, wave'[u] = "queued"
            PROVE  \A d \in deps[u] : task'[d].status = "accepted"
        <4>1. wave[u] = "queued"
          BY <1>4, <3>2
        <4>2. \A d \in deps[u] : d \in Tasks /\ task[d].status = "accepted"
          BY <2>2, <4>1 DEF CleanRun, IInv, Types, WaveTypes, GoalTypes
        <4>3. QED
          BY <1>1, <1>3, <4>2 DEF Touches
      <3>3. QED
        BY <1>2, <1>3, <1>4, <3>1, <3>2 DEF CleanRun
    <2>6. QED
      BY <2>4, <2>5
  <1>12. QED
    BY <1>6, <1>7, <1>8, <1>9, <1>10, <1>11 DEF IInv, Types

(* What a record was within, it stays within.                              *)
Later(r) ==
    /\ r.plan <= version' /\ r.revision <= revision'
    /\ \A d \in Tasks : r.built[d] <= revision'
    /\ r.attempt <= MaxAttempts /\ r.max <= MaxAttempts

LEMMA WithinGrows ==
    ASSUME NEW r \in TaskRecord, Within(r), version \in Nat, version' \in Nat, version <= version',
           revision \in Nat, revision' \in Nat, revision <= revision'
    PROVE  Later(r)
  <1>1. r.plan \in Nat /\ r.revision \in Nat /\ \A d \in Tasks : r.built[d] \in Nat
    BY DEF TaskRecord
  <1>2. QED
    BY <1>1 DEF Within, Later

(* A result is taken into the candidate, or refused.                       *)
LEMMA IntegrationIs ==
    ASSUME IInv, NEW t \in Tasks, NEW r \in TaskRecord, Within(r), OfPlan(t, r),
           UNCHANGED <<members, deps, version, crashes>>,
           Integrated(t, r) \/ \E why \in {"integration", "blocked"} : NotIntegrated(t, r, why)
    PROVE  /\ Replaces(t) /\ KeepsResult(task'[t], r) /\ task'[t].status \in {"accepted", "failed"}
           /\ review' \in {"none", "approve", "request_changes", "uncertain"} /\ faults' \in Nat
  <1>1. /\ revision \in Nat /\ faults \in Nat
        /\ review \in {"none", "approve", "request_changes", "uncertain"}
        /\ version \in Nat
    BY DEF IInv, Types, GoalTypes
  <1>2. r.revision <= revision /\ r.revision \in Nat
    BY DEF TaskRecord, Within
  <1>3. CASE Integrated(t, r)
    <2>1. /\ Touches(t) /\ revision' = revision + 1 /\ task'[t].status = "accepted"
          /\ KeepsResult(task'[t], r) /\ task'[t].revision = revision + 1
      BY <1>3, IntegratedShape DEF IInv
    <2>2. Later(r)
      BY <1>1, <2>1, WithinGrows
    <2>3. Within(task[t])'
      BY <1>1, <2>1, <2>2 DEF Within, Later, KeepsResult
    <2>4. OfPlan(t, task'[t])
      BY <2>1 DEF OfPlan, KeepsResult
    <2>5. QED
      BY <1>1, <1>3, <2>1, <2>3, <2>4 DEF Replaces, Integrated
  <1>4. ASSUME NEW why \in {"integration", "blocked"}, NotIntegrated(t, r, why)
        PROVE  /\ Replaces(t) /\ KeepsResult(task'[t], r) /\ task'[t].status = "failed"
               /\ review' = review /\ faults' \in Nat
    <2>1. /\ Touches(t) /\ revision' = revision /\ task'[t].status = "failed"
          /\ KeepsResult(task'[t], r) /\ task'[t].revision = r.revision
      BY <1>4, NotIntegratedShape DEF IInv
    <2>2. Within(task[t])'
      BY <1>2, <2>1 DEF Within, KeepsResult
    <2>3. OfPlan(t, task'[t])
      BY <2>1 DEF OfPlan, KeepsResult
    <2>4. QED
      BY <1>1, <1>4, <2>1, <2>2, <2>3 DEF Replaces, NotIntegrated, Fault
  <1>5. QED
    BY <1>1, <1>3, <1>4

(* A task as it was read at the loop head is integrated.                   *)
LEMMA IntegrateProducedKeeps ==
    ASSUME IInv, IntegrateProduced
    PROVE  IInv'
  <1>1. PICK t \in DOMAIN todo :
          /\ todo' = Restrict(todo, DOMAIN todo \ {t})
          /\ \/ Integrated(t, todo[t]) /\ UNCHANGED <<pc, culprit>>
             \/ \E why \in {"integration", "blocked"} :
                   /\ NotIntegrated(t, todo[t], why)
                   /\ culprit' = [task |-> {t}, why |-> why, from |-> "produced"]
                   /\ pc' = "failure"
    BY DEF IntegrateProduced
  <1>2. /\ pc = "produced" /\ gstate # "ASSIGN"
        /\ UNCHANGED <<gstate, members, deps, version, iteration, planner, wave, signal, crashes>>
    BY DEF IntegrateProduced, At, goal
  <1>3. /\ t \in Tasks /\ todo[t] \in TaskRecord /\ Within(todo[t]) /\ OfPlan(t, todo[t])
        /\ task[t].attempt = todo[t].attempt /\ task[t].status \notin {"none", "accepted"}
    BY DEF IInv, Types, TodoTypes, TodoInv
  <1>4. /\ Replaces(t) /\ KeepsResult(task'[t], todo[t])
        /\ task'[t].status \in {"accepted", "failed"}
        /\ review' \in {"none", "approve", "request_changes", "uncertain"} /\ faults' \in Nat
    BY <1>1, <1>2, <1>3, IntegrationIs
  <1>5. /\ TaskTypes' /\ PlanInv' /\ \A u \in Tasks \ {t} : task'[u] = task[u]
    BY <1>3, <1>4, ReplacedKeeps DEF Replaces, Touches
  <1>6. GoalTypes'
    BY <1>2, <1>4 DEF IInv, Types, GoalTypes, Replaces
  <1>7. CulpritTypes' /\ \/ pc' = "produced" /\ culprit' = culprit
                         \/ pc' = "failure" /\ culprit'.why \in {"integration", "blocked"}
    BY <1>1, <1>2, <1>3 DEF IInv, Types, CulpritTypes, Failure
  <1>8. /\ DOMAIN todo' = DOMAIN todo \ {t} /\ \A u \in DOMAIN todo \ {t} : todo'[u] = todo[u]
        /\ todo' \in [DOMAIN todo \ {t} -> TaskRecord]
    BY <1>1 DEF Restrict, IInv, Types, TodoTypes
  <1>9. TodoTypes'
    <2>1. ASSUME NEW u \in DOMAIN todo PROVE Later(todo[u])
      <3>1. todo[u] \in TaskRecord /\ Within(todo[u]) /\ version \in Nat /\ revision \in Nat
        BY DEF IInv, Types, TodoTypes, GoalTypes
      <3>2. QED
        BY <1>4, <3>1, WithinGrows DEF Replaces
    <2>2. \A u \in DOMAIN todo \ {t} : Within(todo[u])'
      BY <1>8, <2>1 DEF Within, Later
    <2>3. QED
      BY <1>8, <2>2 DEF IInv, Types, TodoTypes
  <1>10. TodoInv'
    <2>1. ASSUME NEW u \in DOMAIN todo \ {t}
          PROVE  /\ todo'[u].attempt = task'[u].attempt
                 /\ task'[u].status \notin {"none", "accepted"} /\ OfPlan(u, todo[u])'
      <3>1. u \in Tasks /\ task'[u] = task[u] /\ todo'[u] = todo[u]
        BY <1>5, <1>8 DEF IInv, Types, TodoTypes
      <3>2. QED
        BY <1>2, <3>1 DEF IInv, TodoInv, OfPlan
    <2>2. QED
      BY <1>8, <2>1 DEF TodoInv
  <1>11. DOMAIN wave = {} /\ Status("running") = {}
    BY <1>2 DEF IInv, StepInv
  <1>12. WaveTypes' /\ WaveInv'
    BY <1>2, <1>11 DEF IInv, Types, WaveTypes, WaveInv
  <1>13. gstate = "EXECUTE"
    BY <1>2 DEF IInv, MoveInv
  <1>14. MoveInv'
    BY <1>2, <1>7, <1>13 DEF MoveInv, Steps
  <1>15. StepInv'
    <2>1. Status("running")' = {} /\ Status("produced")' \subseteq Status("produced") \ {t}
      BY <1>4, <1>5, <1>11 DEF Status
    <2>2. Status("produced") \subseteq DOMAIN todo
      BY <1>2, <1>11 DEF IInv, StepInv, BeforeLoop
    <2>3. QED
      BY <1>2, <1>7, <1>8, <1>11, <2>1, <2>2 DEF StepInv, BeforeLoop, AfterLoop
  <1>16. CleanInv'
    BY <1>2 DEF IInv, CleanInv, CleanRun
  <1>17. QED
    BY <1>5, <1>6, <1>7, <1>9, <1>10, <1>12, <1>14, <1>15, <1>16 DEF IInv, Types

(* A result of the wave is integrated: it is still of the current outputs. *)
LEMMA IntegrateWaveKeeps ==
    ASSUME IInv, IntegrateWave
    PROVE  IInv'
  <1>1. PICK t \in DOMAIN wave :
          /\ wave[t] = "produced"
          /\ \/ Integrated(t, task[t]) /\ wave' = Restrict(wave, DOMAIN wave \ {t})
             \/ \E why \in {"integration", "blocked"} :
                   NotIntegrated(t, task[t], why) /\ SetWave(t, why)
    BY DEF IntegrateWave
  <1>2. /\ pc = "wave" /\ UNCHANGED <<pc, todo, culprit>>
        /\ UNCHANGED <<gstate, members, deps, version, iteration, planner, signal, crashes>>
        /\ \A u \in DOMAIN wave : wave[u] \notin {"queued", "running"}
    BY DEF IntegrateWave, At, goal
  <1>3. /\ t \in Tasks /\ task[t] \in TaskRecord /\ Within(task[t]) /\ OfPlan(t, task[t])
        /\ task[t].status = "produced" /\ DOMAIN todo = {}
    BY <1>1, <1>2 DEF IInv, Types, WaveTypes, TaskTypes, WaveInv, PlanInv, StepInv
  <1>4. /\ Replaces(t) /\ KeepsResult(task'[t], task[t])
        /\ task'[t].status \in {"accepted", "failed"}
        /\ review' \in {"none", "approve", "request_changes", "uncertain"} /\ faults' \in Nat
    BY <1>1, <1>2, <1>3, IntegrationIs
  <1>5. /\ TaskTypes' /\ PlanInv' /\ \A u \in Tasks \ {t} : task'[u] = task[u]
    BY <1>3, <1>4, ReplacedKeeps DEF Replaces, Touches
  <1>6. GoalTypes' /\ CulpritTypes' /\ TodoTypes' /\ TodoInv'
    BY <1>2, <1>3, <1>4 DEF IInv, Types, GoalTypes, CulpritTypes, TodoTypes, TodoInv, Replaces
  <1>7. /\ \/ DOMAIN wave' = DOMAIN wave \ {t}
           \/ /\ DOMAIN wave' = DOMAIN wave
              /\ task'[t].status = "failed" /\ wave'[t] \in {"integration", "blocked"}
        /\ \A u \in DOMAIN wave \ {t} : wave'[u] = wave[u]
        /\ wave' \in [DOMAIN wave' -> {"queued", "running", "produced"} \cup Failure]
    <2>1. wave \in [DOMAIN wave -> {"queued", "running", "produced"} \cup Failure]
      BY DEF IInv, Types, WaveTypes
    <2>2. CASE wave' = Restrict(wave, DOMAIN wave \ {t})
      BY <2>1, <2>2 DEF Restrict
    <2>3. ASSUME NEW why \in {"integration", "blocked"}, NotIntegrated(t, task[t], why),
                 SetWave(t, why)
          PROVE  /\ DOMAIN wave' = DOMAIN wave /\ task'[t].status = "failed"
                 /\ wave'[t] \in {"integration", "blocked"}
                 /\ \A u \in DOMAIN wave \ {t} : wave'[u] = wave[u]
                 /\ wave' \in [DOMAIN wave' -> {"queued", "running", "produced"} \cup Failure]
      <3>1. task'[t].status = "failed"
        BY <1>3, <2>3, NotIntegratedShape DEF IInv
      <3>2. wave' = [wave EXCEPT ![t] = why] /\ why \in Failure
        BY <2>3 DEF SetWave, Failure
      <3>3. QED
        BY <2>1, <3>1, <3>2
    <2>4. QED
      BY <1>1, <2>2, <2>3
  <1>8. DOMAIN wave' \subseteq DOMAIN wave /\ DOMAIN wave \ {t} \subseteq DOMAIN wave'
    BY <1>7
  <1>9. WaveTypes'
    BY <1>7, <1>8 DEF IInv, Types, WaveTypes
  <1>10. WaveInv'
    <2>1. ASSUME NEW u \in DOMAIN wave \ {t}
          PROVE  /\ wave'[u] = "queued" => task'[u].status = "pending"
                 /\ wave'[u] \in {"running", "produced"} => task'[u].status = wave'[u]
                 /\ wave'[u] \in Failure => task'[u].status \in {"pending", "failed"}
      BY <1>5, <1>7 DEF IInv, Types, WaveTypes, WaveInv
    <2>2. t \in DOMAIN wave' =>
                 /\ wave'[t] \notin {"queued", "running", "produced"}
                 /\ task'[t].status = "failed"
      BY <1>7
    <2>3. QED
      BY <1>8, <2>1, <2>2 DEF WaveInv
  <1>11. MoveInv'
    BY <1>2 DEF IInv, MoveInv
  <1>12. StepInv'
    <2>1. /\ Status("running")' \subseteq Status("running") \ {t}
          /\ Status("produced")' \subseteq Status("produced") \ {t}
      BY <1>4, <1>5 DEF Status
    <2>2. QED
      BY <1>2, <1>3, <1>8, <2>1 DEF IInv, StepInv, BeforeLoop, AfterLoop
  <1>13. CleanInv'
    <2>1. SUFFICES ASSUME crashes = 0 PROVE CleanTasks' /\ CleanRun'
      BY <1>2 DEF CleanInv
    <2>2. CleanTasks /\ CleanRun
      BY <2>1 DEF IInv, CleanInv
    <2>3. \A d \in deps[t] : /\ task[d].status = "accepted"
                             /\ task'[t].built[d] = task[d].revision
      BY <1>3, <1>4, <2>2 DEF CleanTasks, Current, AtWork, KeepsResult
    <2>4. CleanTasks'
      BY <1>3, <1>4, <2>2, <2>3, ReplacedIsClean DEF KeepsResult
    <2>5. CleanRun'
      <3>1. \A u \in Tasks : task'[u].status \in {"running", "produced"} => u \in DOMAIN wave'
        BY <1>4, <1>5, <1>8, <2>2 DEF CleanRun
      <3>2. \A u \in DOMAIN wave' : wave'[u] # "queued"
        BY <1>2, <1>7, <1>8
      <3>3. QED
        BY <1>2, <1>3, <3>1, <3>2 DEF CleanRun
    <2>6. QED
      BY <2>4, <2>5
  <1>14. QED
    BY <1>5, <1>6, <1>9, <1>10, <1>11, <1>12, <1>13 DEF IInv, Types

-------------------------------------------------------------------------------
(* Steps that give the goal a new version of its plan.                     *)

LEMMA GenerateKeeps ==
    ASSUME IInv, Generate
    PROVE  IInv'
  <1>1. PICK p \in Proposals :
          /\ \E rewritten \in SUBSET {t \in p.members : task[t].status # "none"} :
                task' = Planned(p, rewritten, culprit.task)
          /\ members' = p.members /\ deps' = p.deps
    BY DEF Generate
  <1>2. /\ pc = "generate" /\ pc' = "decompose" /\ version' = version + 1
        /\ UNCHANGED <<gstate, iteration, planner, revision, review, todo, wave, culprit, signal>>
        /\ UNCHANGED <<faults, crashes>>
    BY DEF Generate, At, proc, env
  <1>3. /\ task' \in [Tasks -> TaskRecord]
        /\ \A t \in p.members :
              /\ task'[t].plan = version + 1 /\ task'[t].deps = p.deps[t]
              /\ task'[t].attempt = task[t].attempt /\ task'[t].max <= MaxAttempts
              /\ task'[t].built \in {task[t].built, NoTask.built}
              /\ task'[t].revision \in {task[t].revision, 0}
              /\ \/ task'[t].status = "pending"
                 \/ /\ task'[t].status = "accepted" /\ task[t].status = "accepted"
                    /\ task[t].deps = p.deps[t]
                    /\ task'[t].built = task[t].built
                    /\ \A d \in p.deps[t] :
                          task[d].status = "accepted" =>
                              task'[d].status = "accepted"
                              /\ task'[d].revision = task[d].revision
        /\ \A t \in Tasks \ p.members :
              \/ task[t].status = "none" /\ task'[t] = NoTask
              \/ /\ task'[t].status = "superseded"
                 /\ KeepsResult(task'[t], task[t]) /\ task'[t].revision = task[t].revision
    <2>1. PICK rewritten \in SUBSET {t \in p.members : task[t].status # "none"} :
            task' = Planned(p, rewritten, culprit.task)
      BY <1>1
    <2>2. rewritten \in SUBSET p.members
      BY <2>1
    <2>3. culprit.task = {} \/ \E u \in Tasks : culprit.task = {u}
      BY DEF IInv, Types, CulpritTypes
    <2>4. Types /\ p \in Proposals
      BY DEF IInv
    <2>5. QED
      BY <2>1, <2>2, <2>3, <2>4, PlannedShape
  <1>4. /\ p.members \in SUBSET Tasks /\ p.deps \in [Tasks -> SUBSET Tasks]
        /\ ValidPlan(p.members, p.deps)
    BY DEF Proposals
  <1>5. /\ version \in Nat /\ revision \in Nat /\ version' \in Nat /\ MaxAttempts \in Nat
        /\ \A t \in Tasks : task[t] \in TaskRecord /\ Within(task[t])
    BY <1>2, OrchestratorAssumption
    DEF IInv, Types, GoalTypes, TaskTypes, OrchestratorAssumption
  <1>6. GoalTypes' /\ CulpritTypes'
    BY <1>1, <1>2, <1>4, <1>5 DEF IInv, Types, GoalTypes, CulpritTypes
  <1>7. TaskTypes'
    <2>1. ASSUME NEW t \in p.members PROVE Within(task[t])'
      <3>1. /\ t \in Tasks /\ Within(task[t]) /\ task[t].revision \in Nat
            /\ \A d \in Tasks : NoTask.built[d] = 0
        BY <1>4, <1>5, NoTaskIs DEF TaskRecord
      <3>2. task'[t].revision <= revision
        BY <1>3, <1>5, <3>1 DEF Within
      <3>3. \A d \in Tasks : task'[t].built[d] <= revision
        BY <1>3, <1>5, <3>1 DEF Within
      <3>4. QED
        BY <1>2, <1>3, <1>5, <3>1, <3>2, <3>3 DEF Within
    <2>2. ASSUME NEW t \in Tasks \ p.members PROVE Within(task[t])'
      <3>1. CASE task'[t] = NoTask
        <4>1. \A d \in Tasks : NoTask.built[d] = 0
          BY NoTaskIs
        <4>2. QED
          BY <1>2, <1>5, <3>1, <4>1, NoTaskIs DEF Within
      <3>2. CASE KeepsResult(task'[t], task[t]) /\ task'[t].revision = task[t].revision
        <4>1. task[t].plan \in Nat /\ Within(task[t])
          BY <1>5 DEF TaskRecord
        <4>2. QED
          BY <1>2, <1>5, <3>2, <4>1 DEF Within, KeepsResult
      <3>3. QED
        BY <1>3, <3>1, <3>2
    <2>3. QED
      BY <1>3, <2>1, <2>2 DEF TaskTypes
  <1>8. PlanInv'
    <2>1. ValidPlan(members, deps)'
      BY <1>1, <1>4 DEF ValidPlan
    <2>2. \A t \in members' : task'[t].status \notin {"none", "superseded"}
      BY <1>1, <1>3
    <2>3. ASSUME NEW t \in Tasks
          PROVE  /\ task'[t].status = "none" => task'[t].attempt = 0
                 /\ task'[t].status \in {"none", "superseded"} \/ OfPlan(t, task[t])'
      <3>1. CASE t \in p.members
        BY <1>1, <1>2, <1>3, <3>1 DEF OfPlan
      <3>2. CASE t \notin p.members
        BY <1>3, <3>2, NoTaskIs
      <3>3. QED
        BY <3>1, <3>2
    <2>4. QED
      BY <2>1, <2>2, <2>3 DEF PlanInv
  <1>9. TodoTypes' /\ TodoInv'
    <2>1. ASSUME NEW t \in DOMAIN todo
          PROVE  /\ t \in Tasks /\ Within(todo[t])' /\ OfPlan(t, todo[t])'
                 /\ todo[t].attempt = task'[t].attempt
                 /\ task'[t].status \notin {"none", "accepted"}
      <3>1. /\ t \in Tasks /\ todo[t] \in TaskRecord /\ Within(todo[t])
            /\ todo[t].attempt = task[t].attempt /\ task[t].status \notin {"none", "accepted"}
        BY DEF IInv, Types, TodoTypes, TodoInv
      <3>2. todo[t].plan \in Nat /\ todo[t].plan <= version
        BY <3>1 DEF TaskRecord, Within
      <3>3. Within(todo[t])' /\ OfPlan(t, todo[t])'
        BY <1>2, <1>5, <3>1, <3>2 DEF Within, OfPlan
      <3>4. task'[t].attempt = task[t].attempt /\ task'[t].status \notin {"none", "accepted"}
        BY <1>3, <3>1 DEF KeepsResult
      <3>5. QED
        BY <3>1, <3>3, <3>4
    <2>2. QED
      BY <1>2, <2>1 DEF IInv, Types, TodoTypes, TodoInv
  <1>10. DOMAIN wave = {}
    BY <1>2 DEF IInv, StepInv
  <1>11. WaveTypes' /\ WaveInv'
    BY <1>2, <1>10 DEF IInv, Types, WaveTypes, WaveInv
  <1>12. MoveInv'
    BY <1>2 DEF IInv, MoveInv, Steps
  <1>13. \A t \in Tasks : task'[t].status \notin {"running", "produced"}
    <2>1. ASSUME NEW t \in Tasks PROVE task'[t].status \notin {"running", "produced"}
      <3>1. CASE t \in p.members
        BY <1>3, <3>1
      <3>2. CASE t \notin p.members
        BY <1>3, <3>2, NoTaskIs
      <3>3. QED
        BY <3>1, <3>2
    <2>2. QED
      BY <2>1
  <1>14. StepInv'
    <2>1. Status("running")' = {} /\ Status("produced")' = {}
      BY <1>13 DEF Status
    <2>2. QED
      BY <1>2, <1>10, <2>1 DEF StepInv, AfterLoop
  <1>15. CleanInv'
    <2>1. SUFFICES ASSUME crashes = 0 PROVE CleanTasks' /\ CleanRun'
      BY <1>2 DEF CleanInv
    <2>2. CleanTasks /\ CleanRun
      BY <2>1 DEF IInv, CleanInv
    <2>3. \A t \in p.members : OfPlan(t, task[t])' /\ task'[t].plan = version'
      BY <1>1, <1>2, <1>3 DEF OfPlan
    <2>4. \A t \in Tasks \ p.members : task'[t].status \in {"none", "superseded"}
      BY <1>3, NoTaskIs
    <2>5. ASSUME NEW t \in Tasks, task'[t].status \in AtWork PROVE Current(t)'
      <3>1. t \in p.members
        BY <2>4, <2>5 DEF AtWork
      <3>2. /\ task[t].status = "accepted" /\ task[t].deps = p.deps[t]
            /\ task'[t].built = task[t].built
            /\ \A d \in p.deps[t] :
                  task[d].status = "accepted" =>
                      task'[d].status = "accepted" /\ task'[d].revision = task[d].revision
        BY <1>3, <2>5, <3>1 DEF AtWork
      <3>3. t \in members /\ Current(t)
        BY <2>2, <3>2 DEF CleanTasks, AtWork
      <3>4. deps[t] = p.deps[t]
        BY <2>2, <3>2, <3>3 DEF CleanTasks, OfPlan
      <3>5. QED
        BY <1>1, <3>2, <3>3, <3>4 DEF Current
    <2>6. CleanRun'
      BY <1>2, <1>10, <1>13, <2>2 DEF CleanRun
    <2>7. QED
      BY <1>1, <2>3, <2>4, <2>5, <2>6 DEF CleanTasks
  <1>16. QED
    BY <1>6, <1>7, <1>8, <1>9, <1>11, <1>12, <1>14, <1>15 DEF IInv, Types

(* The failed task is tried again.                                         *)
LEMMA RetryKeeps ==
    ASSUME IInv, Amend, NEW parent \in culprit.task, culprit.why = "retry",
           task' = [task EXCEPT ![parent].status = "pending", ![parent].why = "none"],
           pc' = "cycle", UNCHANGED <<version, members, deps>>
    PROVE  IInv'
  <1>1. /\ pc = "amend"
        /\ UNCHANGED <<gstate, iteration, planner, revision, review, todo, wave, culprit, signal>>
        /\ UNCHANGED <<faults, crashes>>
    BY DEF Amend, At, proc, env
  <1>2. parent \in Tasks /\ task[parent].status \in {"pending", "failed"}
    BY <1>1 DEF IInv, Types, CulpritTypes, StepInv
  <1>3. /\ Touches(parent) /\ task'[parent].status = "pending"
        /\ KeepsResult(task'[parent], task[parent])
        /\ task'[parent].revision = task[parent].revision
    BY <1>2, RetryShape DEF IInv
  <1>4. Replaces(parent)
    <2>1. OfPlan(parent, task[parent]) /\ Within(task[parent]) /\ revision \in Nat
      BY <1>2 DEF IInv, PlanInv, Types, TaskTypes, GoalTypes
    <2>2. OfPlan(parent, task'[parent])
      BY <1>3, <2>1 DEF OfPlan, KeepsResult
    <2>3. UNCHANGED <<version, members, deps, revision, crashes>>
      BY <1>1
    <2>4. Within(task[parent])'
      BY <1>3, <2>1, <2>3 DEF Within, KeepsResult
    <2>5. QED
      BY <1>3, <2>1, <2>2, <2>3, <2>4 DEF Replaces
  <1>5. /\ TaskTypes' /\ PlanInv' /\ \A u \in Tasks \ {parent} : task'[u] = task[u]
    BY <1>2, <1>4, ReplacedKeeps DEF Replaces, Touches
  <1>6. GoalTypes' /\ CulpritTypes' /\ TodoTypes' /\ WaveTypes'
    BY <1>1 DEF IInv, Types, GoalTypes, CulpritTypes, TodoTypes, WaveTypes, Within
  <1>7. TodoInv'
    <2>1. ASSUME NEW t \in DOMAIN todo
          PROVE  /\ todo[t].attempt = task'[t].attempt
                 /\ task'[t].status \notin {"none", "accepted"} /\ OfPlan(t, todo[t])'
      BY <1>1, <1>3, <1>5 DEF IInv, Types, TodoTypes, TodoInv, OfPlan, KeepsResult
    <2>2. QED
      BY <1>1, <2>1 DEF TodoInv
  <1>8. DOMAIN wave = {} /\ Status("running") = {}
    BY <1>1 DEF IInv, StepInv
  <1>9. WaveInv'
    BY <1>1, <1>8 DEF WaveInv
  <1>10. MoveInv'
    BY <1>1 DEF IInv, MoveInv, Steps
  <1>11. StepInv'
    <2>1. Status("running")' = {} /\ Status("produced")' \subseteq Status("produced")
      BY <1>3, <1>5, <1>8 DEF Status
    <2>2. QED
      BY <1>1, <1>8, <2>1 DEF IInv, StepInv, BeforeLoop, AfterLoop
  <1>12. CleanInv'
    <2>1. SUFFICES ASSUME crashes = 0 PROVE CleanTasks' /\ CleanRun'
      BY <1>1 DEF CleanInv
    <2>2. CleanTasks /\ CleanRun
      BY <2>1 DEF IInv, CleanInv
    <2>3. task'[parent].status \notin AtWork
      BY <1>3 DEF AtWork
    <2>4. CleanTasks'
      BY <1>2, <1>3, <1>4, <2>2, <2>3, ReplacedIsClean DEF KeepsResult
    <2>5. CleanRun'
      BY <1>1, <1>3, <1>5, <1>8, <2>2 DEF CleanRun
    <2>6. QED
      BY <2>4, <2>5
  <1>13. QED
    BY <1>5, <1>6, <1>7, <1>9, <1>10, <1>11, <1>12 DEF IInv, Types

(* A repair task takes the place of the failed one, or follows it.         *)
LEMMA RepairKeeps ==
    ASSUME IInv, Amend, NEW parent \in culprit.task, NEW new \in Status("none"),
           ValidPlan(RepairMembers(parent, new), RepairDeps(parent, new)),
           task' = Repaired(parent, new), members' = RepairMembers(parent, new),
           deps' = RepairDeps(parent, new), version' = version + 1, pc' = "cycle"
    PROVE  IInv'
  <1> DEFINE mem == RepairMembers(parent, new)
             dep == RepairDeps(parent, new)
  <1>1. /\ pc = "amend"
        /\ UNCHANGED <<gstate, iteration, planner, revision, review, todo, wave, culprit, signal>>
        /\ UNCHANGED <<faults, crashes>>
    BY DEF Amend, At, proc, env
  <1>2. parent \in Tasks /\ new \in Tasks /\ task[new].status = "none"
    BY DEF IInv, Types, CulpritTypes, Status
  <1>3. /\ members' = mem /\ deps' = dep /\ ValidPlan(mem, dep)
        /\ mem = RepairMembers(parent, new) /\ dep = RepairDeps(parent, new)
    OBVIOUS
  <1> HIDE DEF mem, dep
  <1>4. /\ task' \in [Tasks -> TaskRecord] /\ new \in mem
        /\ mem \subseteq members \cup {new} /\ members \subseteq mem \cup {parent}
        /\ dep \in [Tasks -> SUBSET Tasks]
        /\ task'[new].status = "pending" /\ task'[new].attempt = 0 /\ task'[new].revision = 0
        /\ task'[new].built = NoTask.built /\ task'[new].max <= MaxAttempts
        /\ \A t \in mem : task'[t].plan = version + 1 /\ task'[t].deps = dep[t]
        /\ \A t \in mem \ {new} :
              /\ task'[t].attempt = task[t].attempt /\ task'[t].max = task[t].max
              /\ task'[t].built \in {task[t].built, NoTask.built}
              /\ task'[t].revision \in {task[t].revision, 0}
              /\ \/ task'[t].status = "pending"
                 \/ /\ task'[t].status = task[t].status /\ task'[t].built = task[t].built
                    /\ task[t].deps = dep[t]
                    /\ \A d \in dep[t] : d \in mem \ {new}
                                         /\ task'[d].status = task[d].status
                                         /\ task'[d].revision = task[d].revision
        /\ \A t \in Tasks \ mem :
              \/ task'[t] = task[t] /\ t # parent
              \/ /\ task'[t].status = "superseded" /\ t = parent
                 /\ KeepsResult(task'[t], task[t]) /\ task'[t].revision = task[t].revision
    BY <1>2, <1>3, RepairedShape DEF IInv
  <1>5. /\ version \in Nat /\ revision \in Nat /\ version' \in Nat /\ MaxAttempts \in Nat
        /\ \A t \in Tasks : task[t] \in TaskRecord /\ Within(task[t])
        /\ members \in SUBSET Tasks
    BY OrchestratorAssumption DEF IInv, Types, GoalTypes, TaskTypes, OrchestratorAssumption
  <1>6. mem \in SUBSET Tasks
    BY <1>2, <1>4, <1>5
  <1>7. GoalTypes' /\ CulpritTypes'
    BY <1>1, <1>3, <1>4, <1>5, <1>6 DEF IInv, Types, GoalTypes, CulpritTypes
  <1>8. TaskTypes'
    <2>1. ASSUME NEW t \in Tasks PROVE Within(task[t])'
      <3>1. /\ Within(task[t]) /\ task[t].revision \in Nat /\ task[t].plan \in Nat
            /\ \A d \in Tasks : NoTask.built[d] = 0
        BY <1>5, NoTaskIs DEF TaskRecord
      <3>2. CASE t = new
        BY <1>1, <1>4, <1>5, <3>1, <3>2 DEF Within
      <3>3. CASE t \in mem \ {new}
        <4>1. task'[t].revision <= revision
          BY <1>4, <1>5, <3>1, <3>3 DEF Within
        <4>2. \A d \in Tasks : task'[t].built[d] <= revision
          BY <1>4, <1>5, <3>1, <3>3 DEF Within
        <4>3. QED
          BY <1>1, <1>4, <1>5, <3>1, <3>3, <4>1, <4>2 DEF Within
      <3>4. CASE t \notin mem
        BY <1>1, <1>4, <1>5, <3>1, <3>4 DEF Within, KeepsResult
      <3>5. QED
        BY <3>2, <3>3, <3>4
    <2>2. QED
      BY <1>4, <2>1 DEF TaskTypes
  <1>9. PlanInv'
    <2>1. ValidPlan(members, deps)'
      BY <1>3 DEF ValidPlan
    <2>2. \A t \in members' : task'[t].status \notin {"none", "superseded"}
      <3>1. \A t \in members : task[t].status \notin {"none", "superseded"}
        BY DEF IInv, PlanInv
      <3>2. QED
        BY <1>3, <1>4, <3>1
    <2>3. ASSUME NEW t \in Tasks
          PROVE  /\ task'[t].status = "none" => task'[t].attempt = 0
                 /\ task'[t].status \in {"none", "superseded"} \/ OfPlan(t, task[t])'
      <3>1. CASE t \in mem
        BY <1>3, <1>4, <2>2, <3>1 DEF OfPlan
      <3>2. CASE t \notin mem
        <4>1. task[t].plan \in Nat /\ task[t].plan <= version
          BY <1>5 DEF TaskRecord, Within
        <4>2. task'[t].plan # version'
          BY <1>4, <1>5, <3>2, <4>1 DEF KeepsResult
        <4>3. task[t].status = "none" => task[t].attempt = 0
          BY DEF IInv, PlanInv
        <4>4. QED
          BY <1>4, <3>2, <4>2, <4>3 DEF OfPlan
      <3>3. QED
        BY <3>1, <3>2
    <2>4. QED
      BY <2>1, <2>2, <2>3 DEF PlanInv
  <1>10. TodoTypes' /\ TodoInv'
    <2>1. ASSUME NEW t \in DOMAIN todo
          PROVE  /\ t \in Tasks /\ Within(todo[t])' /\ OfPlan(t, todo[t])'
                 /\ todo[t].attempt = task'[t].attempt
                 /\ task'[t].status \notin {"none", "accepted"}
      <3>1. /\ t \in Tasks /\ todo[t] \in TaskRecord /\ Within(todo[t])
            /\ todo[t].attempt = task[t].attempt /\ task[t].status \notin {"none", "accepted"}
        BY DEF IInv, Types, TodoTypes, TodoInv
      <3>2. todo[t].plan \in Nat /\ todo[t].plan <= version
        BY <3>1 DEF TaskRecord, Within
      <3>3. Within(todo[t])' /\ OfPlan(t, todo[t])'
        BY <1>1, <1>5, <3>1, <3>2 DEF Within, OfPlan
      <3>4. task'[t].attempt = task[t].attempt /\ task'[t].status \notin {"none", "accepted"}
        BY <1>2, <1>4, <3>1 DEF KeepsResult
      <3>5. QED
        BY <3>1, <3>3, <3>4
    <2>2. QED
      BY <1>1, <2>1 DEF IInv, Types, TodoTypes, TodoInv
  <1>11. DOMAIN wave = {} /\ Status("running") = {} /\ Status("produced") \subseteq DOMAIN todo
    BY <1>1 DEF IInv, StepInv, BeforeLoop
  <1>12. WaveTypes' /\ WaveInv'
    BY <1>1, <1>11 DEF IInv, Types, WaveTypes, WaveInv
  <1>13. MoveInv'
    BY <1>1 DEF IInv, MoveInv, Steps
  <1>14. \A t \in Tasks : /\ task'[t].status # "running"
                          /\ task'[t].status = "produced" => task[t].status = "produced"
    <2>1. ASSUME NEW t \in Tasks
          PROVE  /\ task'[t].status # "running"
                 /\ task'[t].status = "produced" => task[t].status = "produced"
      <3>1. task[t].status # "running"
        BY <1>11 DEF Status
      <3>2. QED
        BY <1>4, <3>1
    <2>2. QED
      BY <2>1
  <1>15. StepInv'
    <2>1. Status("running")' = {} /\ Status("produced")' \subseteq Status("produced")
      BY <1>14 DEF Status
    <2>2. QED
      BY <1>1, <1>11, <2>1 DEF StepInv, AfterLoop
  <1>16. CleanInv'
    <2>1. SUFFICES ASSUME crashes = 0 PROVE CleanTasks' /\ CleanRun'
      BY <1>1 DEF CleanInv
    <2>2. CleanTasks /\ CleanRun
      BY <2>1 DEF IInv, CleanInv
    <2>3. \A t \in mem : OfPlan(t, task[t])' /\ task'[t].plan = version'
      BY <1>3, <1>4 DEF OfPlan
    <2>4. \A t \in Tasks \ mem : task'[t].status \in {"none", "superseded"}
      BY <1>4, <2>2 DEF CleanTasks
    <2>5. ASSUME NEW t \in Tasks, task'[t].status \in AtWork PROVE Current(t)'
      <3>1. t \in mem \ {new} /\ task'[t].status # "pending"
        BY <1>4, <2>4, <2>5 DEF AtWork
      <3>2. /\ task'[t].status = task[t].status /\ task'[t].built = task[t].built
            /\ task[t].deps = dep[t]
            /\ \A d \in dep[t] : task'[d].status = task[d].status
                                 /\ task'[d].revision = task[d].revision
        BY <1>4, <3>1
      <3>3. t \in members /\ Current(t)
        BY <1>4, <2>2, <2>5, <3>1, <3>2 DEF CleanTasks
      <3>4. deps[t] = dep[t]
        BY <2>2, <3>2, <3>3 DEF CleanTasks, OfPlan
      <3>5. QED
        BY <1>3, <3>2, <3>3, <3>4 DEF Current
    <2>6. CleanRun'
      BY <1>1, <1>11, <1>14, <2>2 DEF CleanRun
    <2>7. QED
      BY <1>3, <2>3, <2>4, <2>5, <2>6 DEF CleanTasks
  <1>17. QED
    BY <1>7, <1>8, <1>9, <1>10, <1>12, <1>13, <1>15, <1>16 DEF IInv, Types

LEMMA AmendKeeps ==
    ASSUME IInv, Amend
    PROVE  IInv'
  <1>1. PICK parent \in culprit.task :
          \/ /\ culprit.why = "retry"
             /\ task' = [task EXCEPT ![parent].status = "pending", ![parent].why = "none"]
             /\ pc' = "cycle" /\ UNCHANGED <<version, members, deps>>
          \/ \E new \in Status("none") :
                \/ /\ ValidPlan(RepairMembers(parent, new), RepairDeps(parent, new))
                   /\ task' = Repaired(parent, new) /\ members' = RepairMembers(parent, new)
                   /\ deps' = RepairDeps(parent, new) /\ version' = version + 1 /\ pc' = "cycle"
                \/ Error /\ UNCHANGED <<task, members, deps, version>>
    BY DEF Amend
  <1>2. CASE Error /\ UNCHANGED <<task, members, deps, version>>
    <2>1. /\ Still /\ pc = "amend" /\ pc' = "throw_FAILED"
          /\ UNCHANGED <<gstate, review, iteration, planner, culprit, signal, faults>>
      BY <1>2 DEF Amend, Still, At, Error, Throw, proc, env
    <2>2. GoalTypes' /\ CulpritTypes'
      BY <2>1 DEF IInv, Types, Still, GoalTypes, CulpritTypes
    <2>3. MoveInv'
      BY <2>1 DEF MoveInv, Steps
    <2>4. GoesOn
      BY <2>1 DEF IInv, StepInv, GoesOn, BeforeLoop, AfterLoop
    <2>5. QED
      BY <2>1, <2>2, <2>3, <2>4, GoesOnKeeps, StillKeeps
  <1>3. QED
    BY <1>1, <1>2, RetryKeeps, RepairKeeps

-------------------------------------------------------------------------------
(* The invariant, and what it says of the properties.                      *)

LEMMA InitiallyIInv ==
    ASSUME Init
    PROVE  IInv
  <1>1. {MaxIterations, MaxPlanner, MaxAttempts} \subseteq Nat \ {0}
    BY OrchestratorAssumption DEF OrchestratorAssumption
  <1>2. GoalTypes
    <2>1. "RECEIVED" \in GoalState
      BY DEF GoalState
    <2>2. QED
      BY <1>1, <2>1 DEF Init, GoalTypes
  <1>3. TaskTypes
    <2>1. Within(NoTask)
      <3>1. \A d \in Tasks : NoTask.built[d] = 0
        BY NoTaskIs
      <3>2. QED
        BY <1>1, <3>1, NoTaskIs DEF Within, Init
    <2>2. \A t \in Tasks : Within(task[t])
      BY <2>1 DEF Init
    <2>3. QED
      BY <2>2, NoTaskIs DEF Init, TaskTypes
  <1>4. /\ DOMAIN todo = {} /\ DOMAIN wave = {} /\ pc = "off" /\ crashes = 0 /\ members = {}
        /\ culprit = Nobody /\ \A t \in Tasks : task[t] = NoTask
    BY DEF Init
  <1>5. TodoTypes /\ WaveTypes /\ TodoInv /\ WaveInv
    BY <1>4 DEF TodoTypes, WaveTypes, TodoInv, WaveInv, Init
  <1>6. CulpritTypes
    BY <1>4 DEF CulpritTypes, Nobody
  <1>7. MoveInv
    BY <1>4 DEF MoveInv, Steps
  <1>8. PlanInv
    BY <1>4, NoTaskIs DEF PlanInv
  <1>9. StepInv
    <2>1. Status("running") = {} /\ Status("produced") = {}
      BY <1>4, NoTaskIs DEF Status
    <2>2. QED
      BY <1>4, <2>1 DEF StepInv, AfterLoop
  <1>10. CleanInv
    BY <1>4, NoTaskIs DEF CleanInv, CleanTasks, CleanRun, AtWork
  <1>11. QED
    BY <1>2, <1>3, <1>5, <1>6, <1>7, <1>8, <1>9, <1>10 DEF IInv, Types

LEMMA StutterKeeps ==
    ASSUME IInv, UNCHANGED vars
    PROVE  IInv'
  <1>1. Still /\ UNCHANGED <<gstate, review, iteration, planner, culprit, signal, faults, pc>>
    BY DEF Still, vars, db, goal, proc, env
  <1>2. GoalTypes' /\ CulpritTypes' /\ MoveInv'
    BY <1>1 DEF IInv, Types, Still, GoalTypes, CulpritTypes, MoveInv
  <1>3. StepInv'
    <2>1. \A s : Status(s)' = Status(s)
      BY <1>1 DEF Still, Status
    <2>2. QED
      BY <1>1, <2>1 DEF IInv, Still, StepInv
  <1>4. QED
    BY <1>1, <1>2, <1>3, StillKeeps

LEMMA NextKeeps ==
    ASSUME IInv, Next
    PROVE  IInv'
  <1>1. Moving \/ Run \/ Generate \/ Amend \/ LoopHead \/ IntegrateProduced \/ SelectWave
        \/ WaveTask \/ IntegrateWave \/ WaveDone \/ Catch \/ Return \/ Crash
    BY DEF Next, Controller, Moving
  <1>2. CASE WaveTask
    BY <1>2, RefuseTaskKeeps, StartTaskKeeps, FinishTaskKeeps DEF WaveTask
  <1>3. QED
    BY <1>1, <1>2, MovingKeeps, RunKeeps, GenerateKeeps, AmendKeeps, LoopHeadKeeps,
       IntegrateProducedKeeps, SelectWaveKeeps, IntegrateWaveKeeps, WaveDoneKeeps, EndKeeps

(* The invariant holds in every state of every run of the loop.            *)
THEOREM PlanInductive == Spec => []IInv
  <1>1. Init => IInv
    BY InitiallyIInv
  <1>2. IInv /\ [Next]_vars => IInv'
    BY NextKeeps, StutterKeeps
  <1>3. QED
    BY <1>1, <1>2, PTL DEF Spec

(* The records the loop keeps have their types.                            *)
THEOREM OrchestratorTypes == Spec => []TypeOK
  <1>1. IInv => TypeOK
    <2>1. SUFFICES ASSUME IInv PROVE TypeOK
      OBVIOUS
    <2>2. GoalTypes /\ MaxAttempts \in Nat
      BY <2>1, OrchestratorAssumption DEF IInv, Types, OrchestratorAssumption
    <2>3. ASSUME NEW t \in Tasks
          PROVE  /\ task[t].status \in {"none", "pending", "running", "produced",
                                        "accepted", "failed", "superseded"}
                 /\ task[t].plan \in 0 .. version
                 /\ task[t].deps \subseteq Tasks /\ task[t].line \subseteq Tasks
                 /\ task[t].built \in [Tasks -> 0 .. revision]
                 /\ task[t].revision \in 0 .. revision
                 /\ task[t].attempt \in 0 .. MaxAttempts
                 /\ task[t].max \in 0 .. MaxAttempts
                 /\ task[t].why \in Failure \cup {"none"}
      <3>1. task[t] \in TaskRecord /\ Within(task[t]) /\ version \in Nat /\ revision \in Nat
        BY <2>1, <2>2 DEF IInv, Types, TaskTypes, GoalTypes
      <3>2. /\ task[t].plan \in Nat /\ task[t].revision \in Nat
            /\ task[t].built \in [Tasks -> Nat]
            /\ task[t].attempt \in Nat /\ task[t].max \in Nat
            /\ task[t].status \in Statuses /\ task[t].why \in Failure \cup {"none"}
            /\ task[t].deps \in SUBSET Tasks /\ task[t].line \in SUBSET Tasks
        BY <3>1 DEF TaskRecord
      <3>3. task[t].built \in [Tasks -> 0 .. revision]
        BY <3>1, <3>2 DEF Within
      <3>4. QED
        BY <2>2, <3>1, <3>2, <3>3 DEF Within, Statuses
    <2>4. QED
      BY <2>2, <2>3 DEF TypeOK, GoalTypes
  <1>2. QED
    BY <1>1, PlanInductive, PTL

(* When the judge looks, between waves, and in every move of the goal, the *)
(* plan and its tasks agree, as long as no process died.                   *)
THEOREM PlanIsConsistent == Spec => []PlanConsistent
  <1>1. IInv => PlanConsistent
    <2>1. SUFFICES ASSUME IInv PROVE PlanConsistent
      OBVIOUS
    <2>2. NoIllegalMove
      BY <2>1 DEF IInv, MoveInv, Steps, NoIllegalMove
    <2>3. NoStaleOutput
      <3>1. SUFFICES ASSUME crashes = 0, NEW t \in Status("accepted")
                     PROVE  /\ t \in members /\ task[t].plan = version
                            /\ \A d \in deps[t] : /\ task[d].status = "accepted"
                                                  /\ task[t].built[d] = task[d].revision
        BY DEF NoStaleOutput
      <3>2. CleanTasks /\ t \in Tasks /\ task[t].status = "accepted"
        BY <2>1, <3>1 DEF IInv, CleanInv, Status
      <3>3. QED
        BY <3>2 DEF CleanTasks, AtWork, Current
    <2>4. JudgeFindsCurrentTasks
      <3>1. SUFFICES ASSUME crashes = 0, pc = "judged" PROVE TasksAcceptable
        BY DEF JudgeFindsCurrentTasks, At
      <3>2. CleanTasks /\ members \subseteq Tasks /\ \A t \in members : task[t].status = "accepted"
        BY <2>1, <3>1 DEF IInv, CleanInv, StepInv, AfterLoop, Types, GoalTypes
      <3>3. \A t \in members : task[t].plan = version /\ task[t].deps = deps[t] /\ Current(t)
        BY <3>2 DEF CleanTasks, OfPlan, AtWork
      <3>4. QED
        BY <3>2, <3>3 DEF TasksAcceptable, CleanTasks, Current
    <2>5. QED
      BY <2>2, <2>3, <2>4 DEF PlanConsistent
  <1>2. QED
    BY <1>1, PlanInductive, PTL

(* Of the unfinished tasks of a plan there is always one that can be done: *)
(* the plan is acyclic, and what is under way or failed is not forgotten.  *)
THEOREM SchedulerAlwaysHasWork == Spec => []SchedulerHasWork
  <1>1. IInv => SchedulerHasWork
    <2>1. SUFFICES ASSUME IInv, pc = "select", ReadyTasks = {}, StaleWork = {}, Unfinished # {}
                   PROVE  FALSE
      BY DEF SchedulerHasWork, At
    <2>2. \A t \in Unfinished : /\ t \in Tasks /\ task[t].plan = version
                                /\ task[t].status \notin {"none", "accepted", "superseded"}
      BY <2>1 DEF StaleWork, Unfinished
    <2>3. \A t \in Unfinished : t \in members /\ task[t].deps = deps[t]
      BY <2>1, <2>2 DEF IInv, PlanInv, OfPlan
    <2>4. ValidPlan(members, deps) /\ members \in SUBSET Tasks
      BY <2>1, <2>3 DEF IInv, PlanInv, Types, GoalTypes
    <2>5. PICK t \in Unfinished : deps[t] \cap Unfinished = {}
      BY <2>1, <2>3, <2>4, SomeTaskIsFirst
    <2>6. \A d \in deps[t] : d \in members
      BY <2>2, <2>4 DEF ValidPlan
    <2>7. \A d \in task[t].deps : task[d].status = "accepted"
      BY <2>1, <2>3, <2>4, <2>5, <2>6 DEF IInv, PlanInv, Unfinished
    <2>8. DOMAIN wave = {} /\ DOMAIN todo = {} /\ Status("failed") = {}
          /\ Status("running") = {} /\ Status("produced") = {}
      BY <2>1 DEF IInv, StepInv, BeforeLoop
    <2>9. task[t].status \in Statuses
      BY <2>1, <2>2 DEF IInv, Types, TaskTypes, TaskRecord
    <2>10. task[t].status = "pending"
      BY <2>2, <2>8, <2>9 DEF Status, Statuses
    <2>11. QED
      BY <2>1, <2>2, <2>7, <2>10 DEF ReadyTasks, Status
  <1>2. QED
    BY <1>1, PlanInductive, PTL

-------------------------------------------------------------------------------
(* Attempts and accepted work.                                             *)

KeepsAttempts(t) ==
    /\ task'[t].attempt >= task[t].attempt
    /\ task[t].status = "accepted" /\ task'[t].status # "accepted" => version' > version

LEMMA TouchKeepsAttempts ==
    ASSUME IInv, NEW t \in Tasks, Touches(t), task[t].status # "accepted",
           task'[t].attempt \in {task[t].attempt, task[t].attempt + 1}
    PROVE  \A u \in Tasks : KeepsAttempts(u)
  <1>1. \A u \in Tasks : task[u].attempt \in Nat
    BY DEF IInv, Types, TaskTypes, TaskRecord
  <1>2. KeepsAttempts(t)
    BY <1>1 DEF KeepsAttempts
  <1>3. \A u \in Tasks \ {t} : KeepsAttempts(u)
    BY <1>1 DEF KeepsAttempts, Touches
  <1>4. QED
    BY <1>2, <1>3

LEMMA SameTasksKeepAttempts ==
    ASSUME IInv, UNCHANGED task
    PROVE  \A t \in Tasks : KeepsAttempts(t)
  <1>1. \A t \in Tasks : task[t].attempt \in Nat
    BY DEF IInv, Types, TaskTypes, TaskRecord
  <1>2. QED
    BY <1>1 DEF KeepsAttempts

LEMMA GenerateKeepsAttempts ==
    ASSUME IInv, Generate
    PROVE  \A t \in Tasks : KeepsAttempts(t)
  <1>1. PICK p \in Proposals :
          \E rewritten \in SUBSET {t \in p.members : task[t].status # "none"} :
             task' = Planned(p, rewritten, culprit.task)
    BY DEF Generate
  <1>2. PICK rewritten \in SUBSET {t \in p.members : task[t].status # "none"} :
          task' = Planned(p, rewritten, culprit.task)
    BY <1>1
  <1>3. /\ rewritten \in SUBSET p.members /\ Types
        /\ culprit.task = {} \/ \E u \in Tasks : culprit.task = {u}
    BY <1>2 DEF IInv, Types, CulpritTypes
  <1>4. /\ \A t \in p.members : task'[t].attempt = task[t].attempt
        /\ \A t \in Tasks \ p.members :
              \/ task[t].status = "none" /\ task'[t] = NoTask
              \/ KeepsResult(task'[t], task[t])
    BY <1>2, <1>3, PlannedShape
  <1>5. version' = version + 1 /\ version \in Nat
    BY <1>3 DEF Generate, Types, GoalTypes
  <1>6. \A t \in Tasks : /\ task[t].attempt \in Nat
                         /\ task[t].status = "none" => task[t].attempt = 0
    BY DEF IInv, Types, TaskTypes, TaskRecord, PlanInv
  <1>7. \A t \in Tasks : task'[t].attempt = task[t].attempt
    BY <1>4, <1>6, NoTaskIs DEF KeepsResult
  <1>8. QED
    BY <1>5, <1>6, <1>7 DEF KeepsAttempts

LEMMA AmendKeepsAttempts ==
    ASSUME IInv, Amend
    PROVE  \A t \in Tasks : KeepsAttempts(t)
  <1>1. PICK parent \in culprit.task :
          \/ /\ culprit.why = "retry"
             /\ task' = [task EXCEPT ![parent].status = "pending", ![parent].why = "none"]
          \/ \E new \in Status("none") :
                \/ /\ ValidPlan(RepairMembers(parent, new), RepairDeps(parent, new))
                   /\ task' = Repaired(parent, new) /\ version' = version + 1
                \/ UNCHANGED task
    BY DEF Amend
  <1>2. parent \in Tasks /\ Types /\ version \in Nat
    BY DEF IInv, Types, CulpritTypes, GoalTypes
  <1>3. \A t \in Tasks : /\ task[t].attempt \in Nat
                         /\ task[t].status = "none" => task[t].attempt = 0
    BY DEF IInv, Types, TaskTypes, TaskRecord, PlanInv
  <1>4. CASE /\ culprit.why = "retry"
             /\ task' = [task EXCEPT ![parent].status = "pending", ![parent].why = "none"]
    <2>1. Touches(parent) /\ KeepsResult(task'[parent], task[parent])
      BY <1>2, <1>4, RetryShape
    <2>2. task[parent].status \in {"pending", "failed"}
      BY <1>4 DEF IInv, StepInv, Amend, At
    <2>3. QED
      BY <1>2, <2>1, <2>2, TouchKeepsAttempts DEF KeepsResult
  <1>5. ASSUME NEW new \in Status("none"),
               ValidPlan(RepairMembers(parent, new), RepairDeps(parent, new)),
               task' = Repaired(parent, new), version' = version + 1
        PROVE  \A t \in Tasks : KeepsAttempts(t)
    <2> DEFINE mem == RepairMembers(parent, new)
               dep == RepairDeps(parent, new)
    <2>1. new \in Tasks /\ task[new].status = "none"
      BY DEF Status
    <2>2. mem = RepairMembers(parent, new) /\ dep = RepairDeps(parent, new) /\ ValidPlan(mem, dep)
      BY <1>5
    <2> HIDE DEF mem, dep
    <2>3. /\ task'[new].attempt = 0
          /\ \A t \in mem \ {new} : task'[t].attempt = task[t].attempt
          /\ \A t \in Tasks \ mem : task'[t] = task[t] \/ KeepsResult(task'[t], task[t])
      BY <1>2, <1>5, <2>1, <2>2, RepairedShape
    <2>4. \A t \in Tasks : task'[t].attempt = task[t].attempt
      BY <1>3, <2>1, <2>3 DEF KeepsResult
    <2>5. QED
      BY <1>2, <1>3, <1>5, <2>4 DEF KeepsAttempts
  <1>6. QED
    BY <1>1, <1>4, <1>5, SameTasksKeepAttempts

LEMMA NextKeepsAttempts ==
    ASSUME IInv, Next
    PROVE  \A t \in Tasks : KeepsAttempts(t)
  <1>1. CASE Moving \/ LoopHead \/ SelectWave \/ WaveDone \/ Catch \/ Return \/ Crash
    <2>1. UNCHANGED task
      BY <1>1, MovingIsStill
      DEF Still, LoopHead, SelectWave, WaveDone, Catch, Return, Crash, db
    <2>2. QED
      BY <2>1, SameTasksKeepAttempts
  <1>2. CASE Run
    <2>1. \A u \in Tasks : /\ KeepsResult(task'[u], task[u]) /\ task[u].attempt \in Nat
                           /\ task[u].status = "accepted" => task'[u] = task[u]
      BY <1>2, RunShape DEF IInv, Types, TaskTypes, TaskRecord
    <2>2. QED
      BY <2>1 DEF KeepsAttempts, KeepsResult
  <1>3. ASSUME NEW t \in DOMAIN wave, RefuseTask(t)
        PROVE  \A u \in Tasks : KeepsAttempts(u)
    BY <1>3, SameTasksKeepAttempts DEF RefuseTask, db
  <1>4. ASSUME NEW t \in DOMAIN wave, StartTask(t)
        PROVE  \A u \in Tasks : KeepsAttempts(u)
    <2>1. Touches(t) /\ t \in Tasks /\ task'[t].attempt = task[t].attempt + 1
      BY <1>4, StartShape DEF IInv
    <2>2. task[t].status = "pending"
      BY <1>4 DEF IInv, WaveInv, StartTask
    <2>3. QED
      BY <2>1, <2>2, TouchKeepsAttempts
  <1>5. ASSUME NEW t \in DOMAIN wave, FinishTask(t)
        PROVE  \A u \in Tasks : KeepsAttempts(u)
    <2>1. Touches(t) /\ t \in Tasks /\ task'[t].attempt = task[t].attempt
      BY <1>5, FinishShape DEF IInv, KeepsResult
    <2>2. task[t].status = "running"
      BY <1>5 DEF IInv, WaveInv, FinishTask
    <2>3. QED
      BY <2>1, <2>2, TouchKeepsAttempts
  <1>6. CASE IntegrateProduced
    <2>1. PICK t \in DOMAIN todo :
             \/ Integrated(t, todo[t])
             \/ \E why \in {"integration", "blocked"} : NotIntegrated(t, todo[t], why)
      BY <1>6 DEF IntegrateProduced
    <2>2. /\ t \in Tasks /\ todo[t] \in TaskRecord /\ Within(todo[t]) /\ OfPlan(t, todo[t])
          /\ task[t].attempt = todo[t].attempt /\ task[t].status \notin {"none", "accepted"}
      BY DEF IInv, Types, TodoTypes, TodoInv
    <2>3. UNCHANGED <<members, deps, version, crashes>>
      BY <1>6 DEF IntegrateProduced, goal
    <2>4. Replaces(t) /\ KeepsResult(task'[t], todo[t])
      BY <2>1, <2>2, <2>3, IntegrationIs
    <2>5. QED
      BY <2>2, <2>4, TouchKeepsAttempts DEF Replaces, KeepsResult
  <1>7. CASE IntegrateWave
    <2>1. PICK t \in DOMAIN wave :
             /\ wave[t] = "produced"
             /\ \/ Integrated(t, task[t])
                \/ \E why \in {"integration", "blocked"} : NotIntegrated(t, task[t], why)
      BY <1>7 DEF IntegrateWave
    <2>2. /\ t \in Tasks /\ task[t] \in TaskRecord /\ Within(task[t]) /\ OfPlan(t, task[t])
          /\ task[t].status = "produced"
      BY <2>1 DEF IInv, Types, WaveTypes, TaskTypes, WaveInv, PlanInv
    <2>3. UNCHANGED <<members, deps, version, crashes>>
      BY <1>7 DEF IntegrateWave, goal
    <2>4. Replaces(t) /\ KeepsResult(task'[t], task[t])
      BY <2>1, <2>2, <2>3, IntegrationIs
    <2>5. QED
      BY <2>2, <2>4, TouchKeepsAttempts DEF Replaces, KeepsResult
  <1>8. Moving \/ Run \/ Generate \/ Amend \/ LoopHead \/ IntegrateProduced \/ SelectWave
        \/ WaveTask \/ IntegrateWave \/ WaveDone \/ Catch \/ Return \/ Crash
    BY DEF Next, Controller, Moving
  <1>9. QED
    BY <1>1, <1>2, <1>3, <1>4, <1>5, <1>6, <1>7, <1>8, GenerateKeepsAttempts, AmendKeepsAttempts
    DEF WaveTask

(* Whatever a step does, it gives no attempt back and gives accepted work  *)
(* up only for a new version of the plan.                                  *)
THEOREM AttemptsAreKept == Spec => AttemptsKept
  <1> DEFINE Kept == \A t \in Tasks : KeepsAttempts(t)
  <1>1. IInv /\ [Next]_vars => [Kept]_vars
    BY NextKeepsAttempts
  <1>2. Kept <=> \A t \in Tasks :
                     /\ task'[t].attempt >= task[t].attempt
                     /\ task[t].status = "accepted" /\ task'[t].status # "accepted"
                           => version' > version
    BY DEF KeepsAttempts
  <1>3. QED
    BY <1>1, <1>2, PlanInductive, PTL DEF Spec, AttemptsKept
===============================================================================
