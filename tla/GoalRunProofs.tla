-------------------------- MODULE GoalRunProofs --------------------------
(* Theorems about the parts of a goal's run: WorkerPool, for any plan, wave *)
(* size and budget; GoalAcceptance, for any plan, any number of candidates, *)
(* pauses, crashes and changed files; DependencyPreparation, for any number *)
(* of preparations, crashes, outages.                                       *)
EXTENDS MCGoalRun, FiniteSums

-----------------------------------------------------------------------------
(* WorkerPool.                                                             *)

(* The steps of a task between acquiring its lease and the finally that   *)
(* releases it.                                                            *)
Leased == {"agent", "asked", "turn", "command", "ready", "docker", "running", "ended", "close"}

Steps == Leased \cup {"none", "start", "lease", "over"}

LeasesDisjoint == \A t, u \in lease : t # u => ~Overlap(t, u)

(* A step of a task can only be between two others of a wave.              *)
PhaseInv ==
    /\ controller # "wave" => \A t \in Tasks : pc[t] = "none"
    /\ controller = "unlease" => intent = {}

LeaseInv ==
    /\ lease \subseteq Tasks /\ intent \subseteq Tasks
    /\ pc \in [Tasks -> Steps]
    /\ LeaseCoversContainer
    /\ LeasesDisjoint
    /\ PhaseInv
    /\ \A t \in Tasks : /\ pc[t] \in Leased => t \in lease
                        /\ pc[t] \in {"docker", "running"} => t \in intent

LEMMA InitLeaseInv == Init => LeaseInv
  BY DEF Init, LeaseInv, LeaseCoversContainer, LeasesDisjoint, PhaseInv, Leased, Steps

(* A step of one task that only moves it on among the steps with a lease.  *)
LEMMA MoveOn ==
    ASSUME LeaseInv, NEW t \in Tasks, NEW step \in Leased \ {"docker", "running"},
           pc[t] \in Leased, pc' = [pc EXCEPT ![t] = step],
           lease' = lease, intent' = intent, container' = container, controller' = controller
    PROVE  LeaseInv'
  BY DEF LeaseInv, LeaseCoversContainer, LeasesDisjoint, PhaseInv, Leased, Steps

(* Nothing the invariant speaks of changes.                                *)
LEMMA Elsewhere ==
    ASSUME LeaseInv, UNCHANGED <<lease, intent, container, controller, pc>>
    PROVE  LeaseInv'
  BY DEF LeaseInv, LeaseCoversContainer, LeasesDisjoint, PhaseInv

LEMMA RecoveryStep ==
    ASSUME LeaseInv, Recovery
    PROVE  LeaseInv'
  <1> USE DEF LeaseInv, LeaseCoversContainer, LeasesDisjoint, PhaseInv, Leased, Steps
  <1>1. CASE InterruptLeftover
    BY <1>1 DEF InterruptLeftover, db
  <1>2. CASE Recovered
    BY <1>2 DEF Recovered, db
  <1>3. ASSUME NEW t \in Tasks, StopLeftover(t) PROVE LeaseInv'
    BY <1>3 DEF StopLeftover
  <1>4. ASSUME NEW t \in Tasks, ReleaseLeftover(t) PROVE LeaseInv'
    BY <1>4 DEF ReleaseLeftover
  <1>5. QED
    BY <1>1, <1>2, <1>3, <1>4 DEF Recovery

LEMMA WorkerStep ==
    ASSUME LeaseInv, NEW t \in Tasks, Worker(t)
    PROVE  LeaseInv'
  <1> USE DEF At, GoTo, db
  <1>1. CASE StartTask(t)
    BY <1>1 DEF StartTask, LeaseInv, LeaseCoversContainer, LeasesDisjoint, PhaseInv, Leased, Steps
  <1>2. CASE AcquireLease(t)
    <2>1. CASE \E u \in lease : Overlap(t, u)
      BY <1>2, <2>1
      DEF AcquireLease, LeaseInv, LeaseCoversContainer, LeasesDisjoint, PhaseInv, Leased, Steps
    <2>2. CASE ~ \E u \in lease : Overlap(t, u)
      <3>1. /\ lease' = lease \cup {t} /\ pc' = [pc EXCEPT ![t] = "agent"]
            /\ intent' = intent /\ container' = container /\ controller' = controller
            /\ pc[t] = "lease"
        BY <1>2, <2>2 DEF AcquireLease
      <3>2. \A u \in lease : ~Overlap(t, u) /\ ~Overlap(u, t)
        BY <2>2 DEF Overlap
      <3>3. LeasesDisjoint'
        BY <3>1, <3>2 DEF LeaseInv, LeasesDisjoint, Overlap
      <3>4. QED
        BY <3>1, <3>3 DEF LeaseInv, LeaseCoversContainer, PhaseInv, Leased, Steps
    <2>3. QED
      BY <2>1, <2>2
  <1>3. CASE Close(t)
    BY <1>3 DEF Close, LeaseInv, LeaseCoversContainer, LeasesDisjoint, PhaseInv, Leased, Steps
  <1>4. CASE Reserve(t)
    BY <1>4, MoveOn DEF Reserve, Leased
  <1>5. CASE Refuse(t)
    BY <1>5, MoveOn DEF Refuse, Leased
  <1>6. CASE Submit(t)
    BY <1>6, MoveOn DEF Submit, Leased
  <1>7. CASE CutOff(t)
    BY <1>7, MoveOn DEF CutOff, Leased
  <1>8. CASE EndInvocation(t)
    BY <1>8, MoveOn DEF EndInvocation, Leased
  <1>9. CASE CallCommand(t)
    BY <1>9, MoveOn DEF CallCommand, Leased
  <1>10. CASE CommandRefused(t)
    BY <1>10, MoveOn DEF CommandRefused, Leased
  <1>11. CASE CommandResumed(t)
    BY <1>11, MoveOn DEF CommandResumed, Leased
  <1>12. CASE NoDocker(t)
    BY <1>12, MoveOn DEF NoDocker, Leased
  <1>13. CASE OpenIntent(t)
    BY <1>13
    DEF OpenIntent, LeaseInv, LeaseCoversContainer, LeasesDisjoint, PhaseInv, Leased, Steps
  <1>14. CASE RunContainer(t)
    BY <1>14
    DEF RunContainer, LeaseInv, LeaseCoversContainer, LeasesDisjoint, PhaseInv, Leased, Steps
  <1>15. CASE StopContainer(t)
    BY <1>15
    DEF StopContainer, LeaseInv, LeaseCoversContainer, LeasesDisjoint, PhaseInv, Leased, Steps
  <1>16. QED
    BY <1>1, <1>2, <1>3, <1>4, <1>5, <1>6, <1>7, <1>8, <1>9, <1>10, <1>11, <1>12, <1>13,
       <1>14, <1>15 DEF Worker

LEMMA InductiveLease == LeaseInv /\ [Next]_vars => LeaseInv'
  <1> SUFFICES ASSUME LeaseInv, [Next]_vars PROVE LeaseInv'
    OBVIOUS
  <1>1. CASE Start
    BY <1>1 DEF Start, LeaseInv, LeaseCoversContainer, LeasesDisjoint, PhaseInv, db
  <1>2. CASE Recovery
    BY <1>2, RecoveryStep
  <1>3. CASE SelectWave
    BY <1>3 DEF SelectWave, LeaseInv, LeaseCoversContainer, LeasesDisjoint, PhaseInv, db,
                Leased, Steps
  <1>4. CASE WaveDone
    BY <1>4 DEF WaveDone, LeaseInv, LeaseCoversContainer, LeasesDisjoint, PhaseInv, db,
                Leased, Steps
  <1>5. ASSUME NEW t \in Tasks, Worker(t) PROVE LeaseInv'
    BY <1>5, WorkerStep
  <1>6. ASSUME NEW t \in Tasks, Reply(t) PROVE LeaseInv'
    BY <1>6, MoveOn DEF Reply, At, GoTo, Leased
  <1>7. ASSUME NEW t \in Tasks, Exit(t) PROVE LeaseInv'
    BY <1>7 DEF Exit, LeaseInv, LeaseCoversContainer, LeasesDisjoint, PhaseInv, db
  <1>8. ASSUME NEW t \in Tasks, TimeOut(t) PROVE LeaseInv'
    BY <1>8, Elsewhere DEF TimeOut, db
  <1>9. CASE Stop
    BY <1>9, Elsewhere DEF Stop, db
  <1>10. CASE Crash
    BY <1>10 DEF Crash, LeaseInv, LeaseCoversContainer, LeasesDisjoint, PhaseInv, db,
                 Leased, Steps
  <1>11. CASE UNCHANGED vars
    BY <1>11, Elsewhere DEF vars, db
  <1>12. QED
    BY <1>1, <1>2, <1>3, <1>4, <1>5, <1>6, <1>7, <1>8, <1>9, <1>10, <1>11 DEF Next

(* Leases are disjoint, containers have intents and intents leases, at     *)
(* every step of every task, also after a crash (acquireLease, command).   *)
THEOREM LeaseInvariant == Spec => []LeaseInv
  <1>1. QED
    BY InitLeaseInv, InductiveLease, PTL DEF Spec

(* No lease is released while a container of its task may be alive, not by *)
(* the task, by a failed stop or by the recovery after a crash.            *)
THEOREM ContainersCovered == Spec => []LeaseCoversContainer
  <1>1. LeaseInv => LeaseCoversContainer
    BY DEF LeaseInv
  <1>2. QED
    BY LeaseInvariant, <1>1, PTL

(* Two tasks with a common surface never work at the same time.            *)
THEOREM OneWriter == Spec => []NoTwoWriters
  <1>1. LeaseInv => NoTwoWriters
    <2> SUFFICES ASSUME LeaseInv, NEW t \in Tasks, NEW u \in Tasks,
                        t # u, AtWork(t), AtWork(u)
                 PROVE  ~Overlap(t, u)
      BY DEF NoTwoWriters
    <2>1. \A v \in Tasks : AtWork(v) => v \in lease
      BY DEF LeaseInv, LeaseCoversContainer, AtWork, Leased
    <2>2. QED
      BY <2>1 DEF LeaseInv, LeasesDisjoint
  <1>2. QED
    BY LeaseInvariant, <1>1, PTL

-------------------------------------------------------------------------------
(* The permits for heavy commands.                                         *)

HeavyProofs == INSTANCE SemaphoreProofs WITH Users <- Tasks, Capacity <- HeavyCommands

(* The steps of a command that waits for a permit or holds one.            *)
Commanding == {"command", "ready", "docker", "running"}

(* A task is to the semaphore what its own step says.                      *)
StepsAgree ==
    \A t \in Tasks : /\ state[t] # "out" => pc[t] \in Commanding
                     /\ pc[t] \in Commanding \ {"command"} <=> state[t] = "inside"

PermitInv == LeaseInv /\ HeavyProofs!IInv /\ StepsAgree

LEMMA HeavyAssumption == HeavyProofs!IsFiniteSet(Tasks) /\ HeavyCommands \in Nat \ {0}
  BY WorkerPoolAssumption DEF WorkerPoolAssumption, IsFiniteSet, HeavyProofs!IsFiniteSet

(* Both instances speak of the same permits.                               *)
LEMMA SamePermits ==
    /\ Heavy!PermitsAccounted <=> HeavyProofs!PermitsAccounted
    /\ Heavy!Holders = HeavyProofs!Holders
  <1>1. Heavy!Holders = HeavyProofs!Holders
    BY DEF Heavy!Holders, HeavyProofs!Holders
  <1>2. \A S : Heavy!Cardinality(S) = HeavyProofs!Cardinality(S)
    BY DEF Heavy!Cardinality, HeavyProofs!Cardinality
  <1>3. QED
    BY <1>1, <1>2 DEF Heavy!PermitsAccounted, HeavyProofs!PermitsAccounted

(* What a task does at the semaphore keeps the semaphore sound.            *)
LEMMA HeavyStep ==
    ASSUME HeavyProofs!IInv, NEW t \in Tasks,
           Heavy!Call(t) \/ Heavy!Resume(t) \/ Heavy!Leave(t)
    PROVE  HeavyProofs!IInv'
  <1> USE DEF Heavy!Waiting, HeavyProofs!Waiting, Heavy!Release, HeavyProofs!Release
  <1>1. HeavyProofs!Call(t) \/ HeavyProofs!Resume(t) \/ HeavyProofs!Leave(t)
    BY DEF Heavy!Call, HeavyProofs!Call, Heavy!Resume, HeavyProofs!Resume,
           Heavy!Leave, HeavyProofs!Leave
  <1>2. HeavyProofs!Next
    BY <1>1 DEF HeavyProofs!Next
  <1>3. QED
    BY <1>2, HeavyAssumption, HeavyProofs!Inductive

LEMMA HeavyAbort ==
    ASSUME HeavyProofs!IInv, NEW us \in SUBSET Tasks, Heavy!Abort(us)
    PROVE  HeavyProofs!IInv'
  <1>1. HeavyProofs!Abort(us)
    BY DEF Heavy!Abort, HeavyProofs!Abort
  <1>2. QED
    BY <1>1, HeavyAssumption, HeavyProofs!AbortStep

LEMMA StateType ==
    ASSUME HeavyProofs!IInv
    PROVE  state \in [Tasks -> {"out", "waiting", "granted", "inside"}]
  BY DEF HeavyProofs!IInv, HeavyProofs!TypeOK, HeavyProofs!UserState

(* A permit that is given back goes to a task that waits, if there is one. *)
LEMMA Released ==
    ASSUME HeavyProofs!IInv, NEW t \in Tasks, Heavy!Release(t), state[t] # "waiting"
    PROVE  /\ state'[t] = "out"
           /\ \A u \in Tasks \ {t} : \/ state'[u] = state[u]
                                     \/ state[u] = "waiting" /\ state'[u] = "granted"
  BY StateType DEF Heavy!Release, Heavy!Waiting

(* An invocation with a signal of its own, before it asks for a permit.    *)
LEMMA SignalStep ==
    ASSUME HeavyProofs!IInv, NEW t \in Tasks, state[t] = "out",
           aborted' \in {aborted \cup {t}, aborted \ {t}}, UNCHANGED <<used, state, ahead>>
    PROVE  HeavyProofs!IInv'
  <1>1. HeavyProofs!TypeOK'
    BY DEF HeavyProofs!IInv, HeavyProofs!TypeOK
  <1>2. HeavyProofs!Waiting' = HeavyProofs!Waiting /\ HeavyProofs!Holders' = HeavyProofs!Holders
    BY DEF HeavyProofs!Waiting, HeavyProofs!Holders
  <1>3. HeavyProofs!PermitsAccounted' /\ HeavyProofs!NoIdlePermit'
    BY <1>2 DEF HeavyProofs!IInv, HeavyProofs!PermitsAccounted, HeavyProofs!NoIdlePermit
  <1>4. t \notin HeavyProofs!Waiting
    BY DEF HeavyProofs!Waiting
  <1>5. HeavyProofs!QueueOrder'
    BY <1>2, <1>4 DEF HeavyProofs!IInv, HeavyProofs!QueueOrder
  <1>6. QED
    BY <1>1, <1>3, <1>5 DEF HeavyProofs!IInv

(* Nobody goes to the semaphore.                                           *)
LEMMA HeavyStutter ==
    ASSUME HeavyProofs!IInv, UNCHANGED <<used, state, ahead, aborted>>
    PROVE  HeavyProofs!IInv'
  <1>1. UNCHANGED HeavyProofs!vars
    BY DEF HeavyProofs!vars
  <1>2. QED
    BY <1>1, HeavyAssumption, HeavyProofs!Inductive

LEMMA InitPermitInv == Init => PermitInv
  <1> SUFFICES ASSUME Init PROVE PermitInv
    OBVIOUS
  <1>1. HeavyProofs!Init
    BY DEF Init, Heavy!Init, HeavyProofs!Init
  <1>2. HeavyProofs!IInv
    BY <1>1, HeavyAssumption, HeavyProofs!InitIInv
  <1>3. StepsAgree
    BY DEF Init, Heavy!Init, StepsAgree, Commanding
  <1>4. QED
    BY <1>2, <1>3, InitLeaseInv DEF PermitInv
(* A step that neither goes to the semaphore nor leaves or begins a        *)
(* command.                                                                *)
LEMMA AwayFromHeavy ==
    ASSUME PermitInv, LeaseInv', UNCHANGED <<used, state, ahead, aborted>>,
           \A t \in Tasks : pc'[t] = pc[t] \/ (pc[t] \notin Commanding /\ pc'[t] \notin Commanding)
    PROVE  PermitInv'
  <1>1. StepsAgree'
    BY DEF PermitInv, StepsAgree, Commanding
  <1>2. QED
    BY <1>1, HeavyStutter DEF PermitInv

(* A step of one task that is not at its command.                          *)
LEMMA TaskAway ==
    ASSUME PermitInv, LeaseInv', NEW t \in Tasks, pc[t] \notin Commanding,
           NEW step, step \notin Commanding, pc' = [pc EXCEPT ![t] = step],
           UNCHANGED <<used, state, ahead, aborted>>
    PROVE  PermitInv'
  <1>1. \A u \in Tasks : pc'[u] = pc[u] \/ (pc[u] \notin Commanding /\ pc'[u] \notin Commanding)
    BY DEF PermitInv, LeaseInv
  <1>2. QED
    BY <1>1, AwayFromHeavy

(* A task goes back to its agent with a permit it gives back.              *)
LEMMA TaskReleases ==
    ASSUME PermitInv, LeaseInv', HeavyProofs!IInv', NEW t \in Tasks,
           state[t] # "waiting", Heavy!Release(t), pc' = [pc EXCEPT ![t] = "agent"]
    PROVE  PermitInv'
  <1>1. /\ state'[t] = "out"
        /\ \A u \in Tasks \ {t} : \/ state'[u] = state[u]
                                  \/ state[u] = "waiting" /\ state'[u] = "granted"
    BY Released DEF PermitInv
  <1>2. pc'[t] = "agent" /\ \A u \in Tasks \ {t} : pc'[u] = pc[u]
    BY DEF PermitInv, LeaseInv
  <1>3. ASSUME NEW u \in Tasks
        PROVE  /\ state'[u] # "out" => pc'[u] \in Commanding
               /\ pc'[u] \in Commanding \ {"command"} <=> state'[u] = "inside"
    <2>1. CASE u = t
      BY <1>1, <1>2, <2>1 DEF Commanding
    <2>2. CASE u # t
      BY <1>1, <1>2, <2>2 DEF PermitInv, StepsAgree
    <2>3. QED
      BY <2>1, <2>2
  <1>4. QED
    BY <1>3 DEF PermitInv, StepsAgree

LEMMA WorkerPermits ==
    ASSUME PermitInv, LeaseInv', NEW t \in Tasks, Worker(t)
    PROVE  PermitInv'
  <1> USE DEF At, GoTo, db, heavy
  <1>1. CASE StartTask(t)
    BY <1>1, TaskAway DEF StartTask, Commanding
  <1>2. CASE AcquireLease(t)
    <2>1. CASE \E u \in lease : Overlap(t, u)
      BY <1>2, <2>1, TaskAway DEF AcquireLease, Commanding
    <2>2. CASE ~ \E u \in lease : Overlap(t, u)
      <3>1. /\ pc[t] = "lease" /\ pc' = [pc EXCEPT ![t] = "agent"]
            /\ aborted' \in {aborted \cup {t}, aborted \ {t}}
            /\ UNCHANGED <<used, state, ahead>>
        BY <1>2, <2>2 DEF AcquireLease
      <3>2. state[t] = "out"
        BY <3>1 DEF PermitInv, StepsAgree, Commanding
      <3>3. HeavyProofs!IInv'
        BY <3>1, <3>2, SignalStep DEF PermitInv
      <3>4. StepsAgree'
        BY <3>1 DEF PermitInv, LeaseInv, StepsAgree, Commanding
      <3>5. QED
        BY <3>3, <3>4 DEF PermitInv
    <2>3. QED
      BY <2>1, <2>2
  <1>3. CASE Close(t)
    BY <1>3, TaskAway DEF Close, Commanding
  <1>4. CASE Reserve(t)
    BY <1>4, TaskAway DEF Reserve, Commanding
  <1>5. CASE Refuse(t)
    BY <1>5, TaskAway DEF Refuse, Commanding
  <1>6. CASE Submit(t)
    BY <1>6, TaskAway DEF Submit, Commanding
  <1>7. CASE CutOff(t)
    BY <1>7, TaskAway DEF CutOff, Commanding
  <1>8. CASE EndInvocation(t)
    BY <1>8, TaskAway DEF EndInvocation, Commanding
  <1>9. CASE CallCommand(t)
    <2>1. HeavyProofs!IInv'
      BY <1>9, HeavyStep DEF CallCommand, PermitInv
    <2>2. /\ state' \in {[state EXCEPT ![t] = "granted"], [state EXCEPT ![t] = "waiting"]}
          /\ pc' = [pc EXCEPT ![t] = "command"]
      BY <1>9 DEF CallCommand, Heavy!Call
    <2>3. StepsAgree'
      BY <2>2, StateType DEF PermitInv, LeaseInv, StepsAgree, Commanding
    <2>4. QED
      BY <2>1, <2>3 DEF PermitInv
  <1>10. CASE CommandRefused(t)
    <2>1. CASE state[t] = "out" /\ UNCHANGED <<heavy, aborted>>
      <3>1. HeavyProofs!IInv'
        BY <2>1, HeavyStutter DEF PermitInv
      <3>2. StepsAgree'
        BY <1>10, <2>1 DEF CommandRefused, PermitInv, LeaseInv, StepsAgree, Commanding
      <3>3. QED
        BY <3>1, <3>2 DEF PermitInv
    <2>2. CASE t \in aborted /\ Heavy!Resume(t)
      <3>1. HeavyProofs!IInv'
        BY <2>2, HeavyStep DEF PermitInv
      <3>2. Heavy!Release(t) /\ state[t] = "granted"
        BY <2>2 DEF Heavy!Resume
      <3>3. QED
        BY <1>10, <3>1, <3>2, TaskReleases DEF CommandRefused
    <2>3. QED
      BY <1>10, <2>1, <2>2 DEF CommandRefused
  <1>11. CASE CommandResumed(t)
    <2>1. HeavyProofs!IInv'
      BY <1>11, HeavyStep DEF CommandResumed, PermitInv
    <2>2. state' = [state EXCEPT ![t] = "inside"] /\ pc' = [pc EXCEPT ![t] = "ready"]
      BY <1>11 DEF CommandResumed, Heavy!Resume
    <2>3. StepsAgree'
      BY <2>2, StateType DEF PermitInv, LeaseInv, StepsAgree, Commanding
    <2>4. QED
      BY <2>1, <2>3 DEF PermitInv
  <1>12. CASE NoDocker(t)
    <2>1. HeavyProofs!IInv'
      BY <1>12, HeavyStep DEF NoDocker, PermitInv
    <2>2. QED
      BY <1>12, <2>1, TaskReleases DEF NoDocker, Heavy!Leave
  <1>13. CASE OpenIntent(t)
    <2>1. StepsAgree'
      BY <1>13 DEF OpenIntent, PermitInv, LeaseInv, StepsAgree, Commanding
    <2>2. QED
      BY <1>13, <2>1, HeavyStutter DEF OpenIntent, PermitInv
  <1>14. CASE RunContainer(t)
    <2>1. StepsAgree'
      BY <1>14 DEF RunContainer, PermitInv, LeaseInv, StepsAgree, Commanding
    <2>2. QED
      BY <1>14, <2>1, HeavyStutter DEF RunContainer, PermitInv
  <1>15. CASE StopContainer(t)
    <2>1. HeavyProofs!IInv'
      BY <1>15, HeavyStep DEF StopContainer, PermitInv
    <2>2. QED
      BY <1>15, <2>1, TaskReleases DEF StopContainer, Heavy!Leave
  <1>16. QED
    BY <1>1, <1>2, <1>3, <1>4, <1>5, <1>6, <1>7, <1>8, <1>9, <1>10, <1>11, <1>12, <1>13,
       <1>14, <1>15 DEF Worker

(* An abort takes those that wait out of the queue; their commands end.    *)
LEMMA AbortPermits ==
    ASSUME PermitInv, LeaseInv', NEW us \in SUBSET Tasks, Heavy!Abort(us), pc' = pc
    PROVE  PermitInv'
  <1>1. HeavyProofs!IInv'
    BY HeavyAbort DEF PermitInv
  <1>2. \A u \in Tasks : state'[u] = state[u] \/ (state[u] = "waiting" /\ state'[u] = "out")
    BY DEF Heavy!Abort
  <1>3. StepsAgree'
    BY <1>2 DEF PermitInv, StepsAgree
  <1>4. QED
    BY <1>1, <1>3 DEF PermitInv

LEMMA InductivePermits == PermitInv /\ [Next]_vars => PermitInv'
  <1> SUFFICES ASSUME PermitInv, [Next]_vars PROVE PermitInv'
    OBVIOUS
  <1> USE DEF db, heavy
  <1>0. LeaseInv'
    BY InductiveLease DEF PermitInv
  <1>1. CASE Start
    BY <1>0, <1>1, AwayFromHeavy DEF Start
  <1>2. CASE Recovery
    <2>1. UNCHANGED <<pc, used, state, ahead, aborted>>
      BY <1>2 DEF Recovery, InterruptLeftover, Recovered, StopLeftover, ReleaseLeftover
    <2>2. QED
      BY <1>0, <2>1, AwayFromHeavy
  <1>3. CASE SelectWave
    BY <1>0, <1>3, AwayFromHeavy DEF SelectWave, PermitInv, LeaseInv, PhaseInv, Commanding
  <1>4. CASE WaveDone
    BY <1>0, <1>4, AwayFromHeavy DEF WaveDone, Commanding
  <1>5. ASSUME NEW t \in Tasks, Worker(t) PROVE PermitInv'
    BY <1>0, <1>5, WorkerPermits
  <1>6. ASSUME NEW t \in Tasks, Reply(t) PROVE PermitInv'
    BY <1>0, <1>6, TaskAway DEF Reply, At, GoTo, Commanding
  <1>7. ASSUME NEW t \in Tasks, Exit(t) PROVE PermitInv'
    BY <1>0, <1>7, AwayFromHeavy DEF Exit
  <1>8. ASSUME NEW t \in Tasks, TimeOut(t) PROVE PermitInv'
    BY <1>0, <1>8, AbortPermits DEF TimeOut
  <1>9. CASE Stop
    BY <1>0, <1>9, AbortPermits DEF Stop, InWave
  <1>10. CASE Crash
    <2>1. /\ state' = [t \in Tasks |-> "out"] /\ pc' = [t \in Tasks |-> "none"]
          /\ used' = 0 /\ ahead' = [t \in Tasks |-> {}] /\ aborted' = {}
      BY <1>10 DEF Crash
    <2>2. HeavyProofs!Waiting' = {} /\ HeavyProofs!Holders' = {}
      BY <2>1 DEF HeavyProofs!Waiting, HeavyProofs!Holders
    <2>3. HeavyProofs!TypeOK' /\ HeavyProofs!NoIdlePermit' /\ HeavyProofs!QueueOrder'
      BY <2>1, <2>2, HeavyAssumption
      DEF HeavyProofs!TypeOK, HeavyProofs!UserState, HeavyProofs!NoIdlePermit,
          HeavyProofs!QueueOrder
    <2>4. HeavyProofs!PermitsAccounted'
      <3>1. HeavyProofs!Cardinality({}) = 0
        BY FS_EmptySet DEF Cardinality, HeavyProofs!Cardinality
      <3>2. QED
        BY <2>1, <2>2, <3>1 DEF HeavyProofs!PermitsAccounted
    <2>5. StepsAgree'
      BY <2>1 DEF StepsAgree, Commanding
    <2>6. QED
      BY <1>0, <2>3, <2>4, <2>5 DEF PermitInv, HeavyProofs!IInv
  <1>11. CASE UNCHANGED vars
    BY <1>0, <1>11, AwayFromHeavy DEF vars
  <1>12. QED
    BY <1>1, <1>2, <1>3, <1>4, <1>5, <1>6, <1>7, <1>8, <1>9, <1>10, <1>11 DEF Next

(* The permits of heavy commands are those of the tasks at that step, over *)
(* time-outs, stops and crashes (Semaphore.use in command).                *)
THEOREM PermitInvariant == Spec => []PermitInv
  <1>1. QED
    BY InitPermitInv, InductivePermits, PTL DEF Spec

(* The permits for heavy commands in use are those of commands under way:  *)
(* DockerRunner.command gives its permit back on every way out, and an     *)
(* abort of application/semaphore.ts never loses one, whatever is stopped, *)
(* refused, timed out or cut off by a crash.                               *)
THEOREM PermitsAreOfCommands == Spec => []PermitsInUse
  <1>1. PermitInv => PermitsInUse
    <2> SUFFICES ASSUME PermitInv PROVE PermitsInUse
      OBVIOUS
    <2>1. Heavy!PermitsAccounted
      BY SamePermits DEF PermitInv, HeavyProofs!IInv
    <2>2. \A t \in Heavy!Holders : pc[t] \in {"command", "ready", "docker", "running"}
      BY DEF Heavy!Holders, PermitInv, StepsAgree, Commanding
    <2>3. QED
      BY <2>1, <2>2 DEF PermitsInUse
  <1>2. QED
    BY PermitInvariant, <1>1, PTL

(* The permits of the pool are the semaphore's: the pool takes its steps   *)
(* and no others, until a crash begins a new one.                          *)
heavyVars == <<heavy, aborted>>

SemaphoreStep == Heavy!Next \/ (Crash /\ Heavy!Init')

(* Who does not wait is in nobody's way.                                   *)
OutOfLine == \A t \in Tasks : state[t] # "waiting" => ahead[t] = {}

LineInv == PermitInv /\ OutOfLine

LEMMA LineTypes ==
    ASSUME LineInv
    PROVE  /\ state \in [Tasks -> {"out", "waiting", "granted", "inside"}]
           /\ ahead \in [Tasks -> SUBSET Tasks] /\ aborted \subseteq Tasks
           /\ \A t, u \in Tasks : u \in ahead[t] => state[u] = "waiting"
  <1>1. HeavyProofs!TypeOK /\ HeavyProofs!QueueOrder
    BY DEF LineInv, PermitInv, HeavyProofs!IInv
  <1>2. ASSUME NEW t \in Tasks, NEW u \in Tasks, u \in ahead[t] PROVE state[u] = "waiting"
    <2>1. state[t] = "waiting"
      BY <1>2 DEF LineInv, OutOfLine
    <2>2. ahead[t] \subseteq HeavyProofs!Waiting
      BY <1>1, <2>1 DEF HeavyProofs!QueueOrder, HeavyProofs!Waiting
    <2>3. QED
      BY <1>2, <2>2 DEF HeavyProofs!Waiting
  <1>3. QED
    BY <1>1, <1>2 DEF HeavyProofs!TypeOK, HeavyProofs!UserState

(* Every step at the semaphore leaves the line to those that wait.         *)
LEMMA LineKept ==
    ASSUME LineInv, [SemaphoreStep]_heavyVars
    PROVE  OutOfLine'
  <1>1. /\ state \in [Tasks -> {"out", "waiting", "granted", "inside"}]
        /\ ahead \in [Tasks -> SUBSET Tasks]
        /\ \A t \in Tasks : state[t] # "waiting" => ahead[t] = {}
    BY LineTypes DEF LineInv, OutOfLine
  <1>2. ASSUME NEW u \in Tasks, state[u] # "waiting", Heavy!Release(u) PROVE OutOfLine'
    BY <1>1, <1>2 DEF Heavy!Release, Heavy!Waiting, OutOfLine
  <1>3. ASSUME NEW u \in Tasks, Heavy!Call(u) PROVE OutOfLine'
    BY <1>1, <1>3 DEF Heavy!Call, OutOfLine
  <1>4. ASSUME NEW u \in Tasks, Heavy!Resume(u) PROVE OutOfLine'
    <2>1. CASE u \in aborted
      BY <1>2, <1>4, <2>1 DEF Heavy!Resume
    <2>2. CASE u \notin aborted
      BY <1>1, <1>4, <2>2 DEF Heavy!Resume, OutOfLine
    <2>3. QED
      BY <2>1, <2>2
  <1>5. ASSUME NEW u \in Tasks, Heavy!Leave(u) PROVE OutOfLine'
    BY <1>2, <1>5 DEF Heavy!Leave
  <1>6. ASSUME NEW u \in Tasks, Heavy!NewSignal(u) PROVE OutOfLine'
    BY <1>1, <1>6 DEF Heavy!NewSignal, OutOfLine
  <1>7. ASSUME NEW us \in SUBSET Tasks, Heavy!Abort(us) PROVE OutOfLine'
    BY <1>1, <1>7 DEF Heavy!Abort, OutOfLine
  <1>8. CASE Heavy!Init'
    BY <1>8 DEF Heavy!Init, OutOfLine
  <1>9. CASE UNCHANGED heavyVars
    BY <1>1, <1>9 DEF heavyVars, heavy, OutOfLine
  <1>10. QED
    BY <1>3, <1>4, <1>5, <1>6, <1>7, <1>8, <1>9 DEF SemaphoreStep, Heavy!Next

(* An invocation takes a signal of its own, or one that is aborted.        *)
LEMMA SignalUses ==
    ASSUME LineInv, NEW t \in Tasks, state[t] = "out",
           aborted' \in {aborted \cup {t}, aborted \ {t}}, UNCHANGED <<used, state, ahead>>
    PROVE  Heavy!Next \/ UNCHANGED heavyVars
  <1>1. /\ state \in [Tasks -> {"out", "waiting", "granted", "inside"}]
        /\ ahead \in [Tasks -> SUBSET Tasks] /\ ahead[t] = {}
        /\ \A u \in Tasks : t \notin ahead[u]
    BY LineTypes DEF LineInv, OutOfLine
  <1>2. CASE aborted' = aborted \cup {t}
    <2>1. state = [u \in Tasks |-> IF u \in {t} /\ state[u] = "waiting" THEN "out" ELSE state[u]]
      BY <1>1
    <2>2. ahead = [u \in Tasks |-> IF u \in {t} THEN {} ELSE ahead[u] \ {t}]
      BY <1>1
    <2>3. Heavy!Abort({t})
      BY <1>2, <2>1, <2>2 DEF Heavy!Abort
    <2>4. QED
      BY <2>3 DEF Heavy!Next
  <1>3. CASE aborted' = aborted \ {t} /\ t \in aborted
    BY <1>3 DEF Heavy!NewSignal, Heavy!Next
  <1>4. CASE aborted' = aborted \ {t} /\ t \notin aborted
    BY <1>4 DEF heavyVars, heavy
  <1>5. QED
    BY <1>2, <1>3, <1>4

LEMMA PoolStepUses == LineInv /\ [Next]_vars => [SemaphoreStep]_heavyVars
  <1> SUFFICES ASSUME LineInv, [Next]_vars PROVE [SemaphoreStep]_heavyVars
    OBVIOUS
  <1>1. ASSUME UNCHANGED heavyVars PROVE [SemaphoreStep]_heavyVars
    BY <1>1 DEF SemaphoreStep
  <1>2. ASSUME Heavy!Next PROVE [SemaphoreStep]_heavyVars
    BY <1>2 DEF SemaphoreStep
  <1>3. ASSUME NEW t \in Tasks, Worker(t) PROVE [SemaphoreStep]_heavyVars
    <2>1. CASE AcquireLease(t)
      <3>1. state[t] = "out"
        BY <2>1 DEF AcquireLease, At, LineInv, PermitInv, StepsAgree, Commanding
      <3>2. /\ UNCHANGED <<used, state, ahead>>
            /\ aborted' \in {aborted \cup {t}, aborted \ {t}} \/ UNCHANGED heavyVars
        BY <2>1 DEF AcquireLease, heavy, heavyVars
      <3>3. QED
        BY <1>1, <1>2, <3>1, <3>2, SignalUses DEF heavyVars, heavy
    <2>2. CASE CallCommand(t) \/ CommandRefused(t) \/ CommandResumed(t) \/ NoDocker(t)
               \/ StopContainer(t)
      <3>1. Heavy!Call(t) \/ Heavy!Resume(t) \/ Heavy!Leave(t) \/ UNCHANGED heavyVars
        BY <2>2 DEF CallCommand, CommandRefused, CommandResumed, NoDocker, StopContainer, heavyVars
      <3>2. QED
        BY <1>1, <1>2, <3>1 DEF Heavy!Next
    <2>3. CASE \/ StartTask(t) \/ Close(t) \/ Reserve(t) \/ Refuse(t) \/ Submit(t) \/ CutOff(t)
               \/ EndInvocation(t) \/ OpenIntent(t) \/ RunContainer(t)
      <3>1. UNCHANGED heavyVars
        BY <2>3 DEF StartTask, Close, Reserve, Refuse, Submit, CutOff, EndInvocation, OpenIntent,
                    RunContainer, heavyVars
      <3>2. QED
        BY <1>1, <3>1
    <2>4. QED
      BY <1>3, <2>1, <2>2, <2>3 DEF Worker
  <1>4. ASSUME NEW t \in Tasks, TimeOut(t) PROVE [SemaphoreStep]_heavyVars
    BY <1>2, <1>4 DEF TimeOut, Heavy!Next
  <1>5. CASE Stop
    BY <1>2, <1>5 DEF Stop, InWave, Heavy!Next
  <1>6. CASE Crash
    BY <1>6 DEF Crash, Heavy!Init, SemaphoreStep
  <1>7. CASE \/ Start \/ Recovery \/ SelectWave \/ WaveDone
             \/ (\E t \in Tasks : Reply(t) \/ Exit(t)) \/ UNCHANGED vars
    <2>1. UNCHANGED heavyVars
      BY <1>7 DEF Start, Recovery, InterruptLeftover, Recovered, StopLeftover, ReleaseLeftover,
                  SelectWave, WaveDone, Reply, Exit, vars, heavyVars
    <2>2. QED
      BY <1>1, <2>1
  <1>8. QED
    BY <1>3, <1>4, <1>5, <1>6, <1>7 DEF Next

LEMMA LineInvariant == Spec => []LineInv
  <1>1. Init => LineInv
    BY InitPermitInv DEF Init, Heavy!Init, LineInv, OutOfLine
  <1>2. LineInv /\ [Next]_vars => LineInv'
    BY PoolStepUses, LineKept, InductivePermits DEF LineInv
  <1>3. QED
    BY <1>1, <1>2, PTL DEF Spec

(* The pool of a process uses its permits as Semaphore has it: every step  *)
(* of a task, a time-out or a stop is a step of the semaphore or leaves it *)
(* alone, and a crash begins a new one (DockerRunner.command, use).        *)
THEOREM PoolUsesSemaphore == Spec => Heavy!Init /\ [][SemaphoreStep]_heavyVars
  <1>1. Init => Heavy!Init
    BY DEF Init
  <1>2. QED
    BY <1>1, LineInvariant, PoolStepUses, PTL DEF Spec

(* Hence, for any tasks, any capacity and whatever is stopped, timed out   *)
(* or crashes: no permit is idle while a command waits, those that wait    *)
(* form one line without the aborted, and nobody overtakes in it.          *)
THEOREM PoolQueueIsSound == Spec => []Heavy!QueueInv /\ Heavy!NoOvertaking
  <1> USE DEF Heavy!Waiting, HeavyProofs!Waiting
  <1>1. PermitInv => Heavy!QueueInv
    <2> SUFFICES ASSUME PermitInv PROVE Heavy!QueueInv
      OBVIOUS
    <2>1. HeavyProofs!IInv
      BY DEF PermitInv
    <2>2. Heavy!TypeOK
      BY <2>1 DEF HeavyProofs!IInv, Heavy!TypeOK, HeavyProofs!TypeOK, Heavy!UserState,
                  HeavyProofs!UserState
    <2>3. Heavy!PermitsAccounted
      BY <2>1, SamePermits DEF HeavyProofs!IInv
    <2>4. Heavy!NoIdlePermit
      BY <2>1 DEF HeavyProofs!IInv, Heavy!NoIdlePermit, HeavyProofs!NoIdlePermit
    <2>5. Heavy!QueueOrder
      BY <2>1 DEF HeavyProofs!IInv, Heavy!QueueOrder, HeavyProofs!QueueOrder
    <2>6. QED
      BY <2>2, <2>3, <2>4, <2>5 DEF Heavy!QueueInv
  <1>2. LineInv /\ [SemaphoreStep]_heavyVars => [HeavyProofs!LineShrinks]_heavyVars
    <2> SUFFICES ASSUME LineInv, SemaphoreStep PROVE HeavyProofs!LineShrinks
      OBVIOUS
    <2>1. ahead \in [Tasks -> SUBSET Tasks]
      BY LineTypes
    <2>2. CASE Heavy!Next
      <3> USE DEF Heavy!Release, HeavyProofs!Release
      <3>1. HeavyProofs!Next
        BY <2>2 DEF Heavy!Next, HeavyProofs!Next, Heavy!Call, HeavyProofs!Call, Heavy!Resume,
                    HeavyProofs!Resume, Heavy!Leave, HeavyProofs!Leave, Heavy!NewSignal,
                    HeavyProofs!NewSignal, Heavy!Abort, HeavyProofs!Abort
      <3>2. QED
        BY <2>1, <3>1, HeavyAssumption, HeavyProofs!StepShrinks
    <2>3. CASE Heavy!Init'
      BY <2>3 DEF Heavy!Init, HeavyProofs!LineShrinks
    <2>4. QED
      BY <2>2, <2>3 DEF SemaphoreStep
  <1>3. [HeavyProofs!LineShrinks]_heavyVars
            => [\A u \in Tasks : state[u] = "waiting" /\ state'[u] = "waiting"
                                     => ahead'[u] \subseteq ahead[u]]_(Heavy!vars)
    BY DEF heavyVars, heavy, Heavy!vars, HeavyProofs!LineShrinks
  <1>4. QED
    BY <1>1, <1>2, <1>3, LineInvariant, PermitInvariant, PoolStepUses, PTL
    DEF Spec, Heavy!NoOvertaking

-------------------------------------------------------------------------------
(* The budget.                                                             *)

Request == [status : {"none", "held", "unknown", "settled"}, task : SUBSET Tasks,
            tokens : Nat, usage : Nat, spent : Nat]

Spent == [r \in Requests |-> request[r].spent]

(* A request counts for no less than it spends, and all for no more than   *)
(* the budget.                                                             *)
BudgetInv ==
    /\ request \in [Requests -> Request]
    /\ \A r \in Requests :
          /\ request[r].spent <= request[r].tokens
          /\ request[r].status = "none" => request[r].usage = 0 /\ request[r].tokens = 0
          /\ request[r].status = "settled" => request[r].usage = request[r].spent
    /\ SumFunction(Charges) <= MaxTokens

LEMMA ChargesType ==
    ASSUME request \in [Requests -> Request]
    PROVE  Charges \in [Requests -> Nat] /\ Spent \in [Requests -> Nat]
  BY DEF Charges, Spent, Request

LEMMA SumsTyped ==
    ASSUME request \in [Requests -> Request]
    PROVE  SumFunction(Charges) \in Nat /\ SumFunction(Spent) \in Nat
  <1>1. IsFiniteSet(Requests)
    BY WorkerPoolAssumption DEF WorkerPoolAssumption
  <1>2. QED
    BY <1>1, ChargesType, SumMonotone

LEMMA InitBudget == Init => BudgetInv
  <1> SUFFICES ASSUME Init PROVE BudgetInv
    OBVIOUS
  <1>1. request = [r \in Requests |-> NoRequest]
    BY DEF Init
  <1>2. NoRequest \in Request
    BY DEF NoRequest, Request
  <1>3. request \in [Requests -> Request]
    BY <1>1, <1>2
  <1>4. \A r \in Requests : request[r] = NoRequest
    BY <1>1
  <1>5. SumFunction(Charges) = 0
    <2>1. IsFiniteSet(Requests)
      BY WorkerPoolAssumption DEF WorkerPoolAssumption
    <2>2. \A r \in Requests : Charges[r] = 0
      BY <1>4 DEF Charges, NoRequest
    <2>3. QED
      BY <1>3, <2>1, <2>2, ChargesType, SumZero
  <1>6. QED
    BY <1>3, <1>4, <1>5, WorkerPoolAssumption DEF BudgetInv, NoRequest, WorkerPoolAssumption
(* Requests that end or lose their answers do not count for more.          *)
LEMMA ChargesShrink ==
    ASSUME BudgetInv, request' \in [Requests -> Request],
           \A r \in Requests : Charges'[r] <= Charges[r]
    PROVE  SumFunction(Charges)' <= MaxTokens
  <1>1. IsFiniteSet(Requests)
    BY WorkerPoolAssumption DEF WorkerPoolAssumption
  <1>2. Charges \in [Requests -> Nat] /\ Charges' \in [Requests -> Nat]
    BY DEF BudgetInv, Charges, Request
  <1>3. SumFunction(Charges') \in Nat /\ SumFunction(Charges') <= SumFunction(Charges)
    BY <1>1, <1>2, SumMonotone
  <1>4. SumFunction(Charges) \in Nat
    BY SumsTyped DEF BudgetInv
  <1>5. QED
    BY <1>3, <1>4, WorkerPoolAssumption DEF BudgetInv, WorkerPoolAssumption

LEMMA InterruptBudget ==
    ASSUME BudgetInv, NEW us, Interrupt(us)
    PROVE  BudgetInv'
  <1>1. request \in [Requests -> Request]
    BY DEF BudgetInv
  <1>2. ASSUME NEW r \in Requests
        PROVE  /\ request'[r] \in Request
               /\ request'[r].spent = request[r].spent
               /\ request'[r].tokens = request[r].tokens
               /\ request'[r].usage = request[r].usage
               /\ \/ request'[r].status = request[r].status
                  \/ request[r].status = "held" /\ request'[r].status = "unknown"
    <2>1. request'[r] = IF request[r].status = "held" /\ request[r].task \subseteq us
                        THEN [request[r] EXCEPT !.status = "unknown"] ELSE request[r]
      BY DEF Interrupt
    <2>2. request[r] \in Request
      BY <1>1
    <2>3. QED
      BY <2>1, <2>2 DEF Request
  <1>3. request' \in [Requests -> Request]
    BY <1>2 DEF Interrupt
  <1>4. \A r \in Requests : Charges'[r] <= Charges[r]
    <2> SUFFICES ASSUME NEW r \in Requests PROVE Charges'[r] <= Charges[r]
      OBVIOUS
    <2>1. Charges'[r] = Charges[r] /\ Charges[r] \in Nat
      BY <1>1, <1>2 DEF Charges, Request
    <2>2. QED
      BY <2>1
  <1>5. SumFunction(Charges)' <= MaxTokens
    BY <1>3, <1>4, ChargesShrink
  <1>6. QED
    BY <1>2, <1>3, <1>5 DEF BudgetInv

LEMMA ReserveBudget ==
    ASSUME BudgetInv, NEW t \in Tasks, Reserve(t)
    PROVE  BudgetInv'
  <1>0. PICK n \in Sizes :
           /\ Admissible(n)
           /\ \E spent \in 0 .. n :
                 request' = [request EXCEPT ![NewRequest] =
                    [status |-> "held", task |-> {t}, tokens |-> n, usage |-> 0, spent |-> spent]]
    BY DEF Reserve
  <1>1. PICK spent \in 0 .. n :
           request' = [request EXCEPT ![NewRequest] =
                 [status |-> "held", task |-> {t}, tokens |-> n, usage |-> 0, spent |-> spent]]
    BY <1>0
  <1>2. n \in Nat /\ spent \in Nat /\ spent <= n
    BY WorkerPoolAssumption DEF WorkerPoolAssumption
  <1> DEFINE fresh == NewRequest
             held == [status |-> "held", task |-> {t}, tokens |-> n, usage |-> 0, spent |-> spent]
  <1>3. fresh \in Requests /\ request[fresh].status = "none"
    BY <1>0 DEF Admissible, NewRequest
  <1>4. held \in Request
    BY <1>2 DEF Request
  <1>5. request' = [request EXCEPT ![fresh] = held]
    BY <1>1
  <1>6. held.status = "held" /\ held.tokens = n /\ held.usage = 0 /\ held.spent = spent
    OBVIOUS
  <1> HIDE DEF fresh, held
  <1>7. request \in [Requests -> Request]
    BY DEF BudgetInv
  <1>8. /\ request' \in [Requests -> Request]
        /\ request'[fresh] = held
        /\ \A r \in Requests : r # fresh => request'[r] = request[r]
    BY <1>3, <1>4, <1>5, <1>7
  <1>9. SumFunction(Charges)' <= MaxTokens
    <2>1. IsFiniteSet(Requests)
      BY WorkerPoolAssumption DEF WorkerPoolAssumption
    <2>2. Charges \in [Requests -> Nat] /\ Charges' \in [Requests -> Nat]
      BY <1>7, <1>8 DEF Charges, Request
    <2>3. \A r \in Requests : Charges'[r] = IF r = fresh THEN Charges[r] + n ELSE Charges[r]
      <3> SUFFICES ASSUME NEW r \in Requests
                   PROVE  Charges'[r] = IF r = fresh THEN Charges[r] + n ELSE Charges[r]
        OBVIOUS
      <3>1. CASE r = fresh
        <4>1. Charges[fresh] = 0
          BY <1>3 DEF Charges, BudgetInv
        <4>2. Charges'[fresh] = n
          BY <1>3, <1>6, <1>8 DEF Charges
        <4>3. QED
          BY <1>2, <3>1, <4>1, <4>2
      <3>2. CASE r # fresh
        BY <1>8, <3>2 DEF Charges
      <3>3. QED
        BY <3>1, <3>2
    <2>4. SumFunction(Charges') = SumFunction(Charges) + n
      BY <1>2, <1>3, <2>1, <2>2, <2>3, SumAdded
    <2>5. QED
      BY <1>0, <2>4 DEF Admissible
  <1>10. QED
    BY <1>2, <1>6, <1>8, <1>9 DEF BudgetInv

LEMMA ReplyBudget ==
    ASSUME BudgetInv, NEW t \in Tasks, Reply(t)
    PROVE  BudgetInv'
  <1>1. PICK r \in Requests :
           /\ Outstanding(t, r)
           /\ \/ request' = [request EXCEPT ![r].status = "settled", ![r].usage = request[r].spent]
              \/ request' = [request EXCEPT ![r].status = "unknown"]
    BY DEF Reply
  <1>2. request \in [Requests -> Request] /\ request[r] \in Request /\ request[r].status = "held"
    BY <1>1 DEF BudgetInv, Outstanding
  <1>3. /\ \A q \in Requests : q # r => request'[q] = request[q]
        /\ \/ request'[r] = [request[r] EXCEPT !.status = "settled", !.usage = request[r].spent]
           \/ request'[r] = [request[r] EXCEPT !.status = "unknown"]
        /\ DOMAIN request' = Requests /\ request' = [q \in Requests |-> request'[q]]
    BY <1>1, <1>2
  <1>4. /\ request'[r] \in Request
        /\ request'[r].spent = request[r].spent
        /\ request'[r].tokens = request[r].tokens
        /\ \/ request'[r].status = "settled" /\ request'[r].usage = request[r].spent
           \/ request'[r].status = "unknown"
    BY <1>2, <1>3 DEF Request
  <1>5. request' \in [Requests -> Request]
    BY <1>2, <1>3, <1>4
  <1>6. \A q \in Requests : Charges'[q] <= Charges[q]
    <2> SUFFICES ASSUME NEW q \in Requests PROVE Charges'[q] <= Charges[q]
      OBVIOUS
    <2>1. request[q] \in Request /\ request[q].spent <= request[q].tokens
      BY <1>2 DEF BudgetInv
    <2>2. CASE q = r
      <3>1. Charges[r] = request[r].tokens
        BY <1>2 DEF Charges
      <3>2. \/ Charges'[r] = request[r].spent
            \/ Charges'[r] = request[r].tokens
        BY <1>4 DEF Charges
      <3>3. QED
        BY <2>1, <2>2, <3>1, <3>2 DEF Request
    <2>3. CASE q # r
      <3>1. Charges'[q] = Charges[q] /\ Charges[q] \in Nat
        BY <1>3, <2>1, <2>3 DEF Charges, Request
      <3>2. QED
        BY <3>1
    <2>4. QED
      BY <2>2, <2>3
  <1>7. SumFunction(Charges)' <= MaxTokens
    BY <1>5, <1>6, ChargesShrink
  <1>8. QED
    BY <1>3, <1>4, <1>5, <1>7 DEF BudgetInv

LEMMA InductiveBudget == BudgetInv /\ [Next]_vars => BudgetInv'
  <1> SUFFICES ASSUME BudgetInv, [Next]_vars PROVE BudgetInv'
    OBVIOUS
  <1>1. ASSUME UNCHANGED request PROVE BudgetInv'
    BY <1>1 DEF BudgetInv, Charges
  <1>2. ASSUME NEW t \in Tasks, Reserve(t) PROVE BudgetInv'
    BY <1>2, ReserveBudget
  <1>3. ASSUME NEW t \in Tasks, Reply(t) PROVE BudgetInv'
    BY <1>3, ReplyBudget
  <1>4. ASSUME NEW t \in Tasks, EndInvocation(t) PROVE BudgetInv'
    BY <1>4, InterruptBudget DEF EndInvocation
  <1>5. CASE InterruptLeftover
    BY <1>5, InterruptBudget DEF InterruptLeftover
  <1>6. QED
    <2>1. CASE Start \/ SelectWave \/ WaveDone \/ Stop \/ Crash \/ UNCHANGED vars
      BY <1>1, <2>1 DEF Start, SelectWave, WaveDone, Stop, Crash, vars, db
    <2>2. CASE Recovery
      BY <1>1, <1>5, <2>2 DEF Recovery, Recovered, StopLeftover, ReleaseLeftover, db
    <2>3. ASSUME NEW t \in Tasks, Worker(t) PROVE BudgetInv'
      BY <1>1, <1>2, <1>4, <2>3
      DEF Worker, StartTask, AcquireLease, Close, Refuse, Submit, CutOff, CallCommand,
          CommandRefused, CommandResumed, NoDocker, OpenIntent, RunContainer, StopContainer, db
    <2>4. ASSUME NEW t \in Tasks, Exit(t) \/ TimeOut(t) PROVE BudgetInv'
      BY <1>1, <2>4 DEF Exit, TimeOut, db
    <2>5. QED
      BY <1>3, <2>1, <2>2, <2>3, <2>4 DEF Next

(* Every request counts for at least what it spends and all of them for at *)
(* most the budget, also after a crash or without an answer (reserve).     *)
THEOREM BudgetInvariant == Spec => []BudgetInv
  <1>1. QED
    BY InitBudget, InductiveBudget, PTL DEF Spec

(* The providers never get more than the budget of the goal: BudgetManager *)
(* reserves before each request and counts a request whose answer is lost  *)
(* for all it reserved, across aborts, crashes and recovery.               *)
THEOREM BudgetKept == Spec => []BudgetHolds
  <1>1. BudgetInv => BudgetHolds
    <2> SUFFICES ASSUME BudgetInv PROVE BudgetHolds
      OBVIOUS
    <2>1. IsFiniteSet(Requests)
      BY WorkerPoolAssumption DEF WorkerPoolAssumption
    <2>2. Charges \in [Requests -> Nat] /\ Spent \in [Requests -> Nat]
      BY ChargesType DEF BudgetInv
    <2>3. \A r \in Requests : Spent[r] <= Charges[r]
      <3> SUFFICES ASSUME NEW r \in Requests PROVE Spent[r] <= Charges[r]
        OBVIOUS
      <3>1. request[r] \in Request
        BY DEF BudgetInv
      <3>2. QED
        BY <3>1 DEF BudgetInv, Spent, Charges, Request
    <2>4. SumFunction(Spent) \in Nat /\ SumFunction(Spent) <= SumFunction(Charges)
      BY <2>1, <2>2, <2>3, SumMonotone
    <2>5. SumFunction(Charges) \in Nat
      BY SumsTyped DEF BudgetInv
    <2>6. QED
      BY <2>4, <2>5, WorkerPoolAssumption DEF BudgetHolds, BudgetInv, Spent, WorkerPoolAssumption
  <1>2. QED
    BY BudgetInvariant, <1>1, PTL

(* The two together: whatever is aborted, refused, lost or cut off by a    *)
(* crash, permits are of commands and the budget is kept (budget.ts,       *)
(* docker.ts).                                                             *)
THEOREM ResourcesAreHeld == Spec => []ResourcesHeld
  <1>1. BudgetHolds /\ PermitsInUse => ResourcesHeld
    BY DEF ResourcesHeld
  <1>2. QED
    BY <1>1, BudgetKept, PermitsAreOfCommands, PTL

-----------------------------------------------------------------------------
(* GoalAcceptance.                                                         *)

Result == [revision : 0..MaxRevisions, passed : BOOLEAN]
Reasons == {"no", "check", "limit", "provider", "uncertain", "repair", "artifacts", "human",
            "records", "user"}
Verdict == [revision : 0..MaxRevisions, decision : Decisions]

(* The records, so that an update of a field leaves the others alone.      *)
RecordInv ==
    /\ acceptance \in [state : {"PAUSED", "VERIFY", "REVIEW", "JUDGE", "DONE"},
                       revision : Revisions, oracle : 0..MaxOracleCalls]
    /\ checks \in [Specs -> Result]
    /\ verdicts \in [Roles -> Verdict]
    /\ approvals \subseteq Revisions
    /\ round \in [pc : {"off", "verify", "review", "asking", "judge"}, specs : SUBSET Specs,
                  roles : SUBSET Roles, role : Roles \cup {"none"}, approved : BOOLEAN,
                  refused : Reasons]

(* A request to the oracle is counted, and counted first.                  *)
CountInv == asked = acceptance.oracle

(* What the run has read is still so: a person approved this candidate, a  *)
(* reviewer is asked only about a candidate without a verdict.             *)
ReadInv ==
    /\ round.approved => Current \in approvals
    /\ Doing("asking") => round.role \in Roles /\ ~Reviewed(round.role)

(* A goal that is done rests, with its proofs.                             *)
DoneInv == acceptance.state = "DONE" => Doing("off")

IInv == RecordInv /\ CountInv /\ ReadInv /\ DoneInv /\ DoneIsProved

-----------------------------------------------------------------------------
LEMMA InitIInv == AcceptanceInit => IInv
  <1> SUFFICES ASSUME AcceptanceInit PROVE IInv
    OBVIOUS
  <1> USE DEF AcceptanceInit, Rest
  <1>1. RecordInv
    BY AcceptanceAssumption
    DEF AcceptanceAssumption, RecordInv, Revisions, Result, Verdict, Unreviewed, Decisions, Reasons
  <1>2. QED
    BY <1>1 DEF IInv, CountInv, ReadInv, DoneInv, DoneIsProved, Doing

(* A pause keeps the invariant, whatever it is for.                        *)
LEMMA PauseStep ==
    ASSUME IInv, NEW reason \in Reasons, PauseFor(reason),
           UNCHANGED <<checks, verdicts, approvals, asked>>
    PROVE  IInv'
  <1> USE DEF PauseFor, Rest
  <1>1. RecordInv'
    BY DEF IInv, RecordInv
  <1>2. QED
    BY <1>1 DEF IInv, RecordInv, CountInv, ReadInv, DoneInv, DoneIsProved, Doing

(* So does a repair: what was read was about the candidate before.         *)
LEMMA RepairStep ==
    ASSUME IInv, Repair, UNCHANGED <<checks, verdicts, approvals, asked>>
    PROVE  IInv'
  <1> USE DEF Repair, Rest
  <1>1. Current + 1 \in Revisions
    BY AcceptanceAssumption DEF IInv, RecordInv, Revisions, Current, AcceptanceAssumption
  <1>2. RecordInv'
    BY <1>1 DEF IInv, RecordInv, Current, Reasons
  <1>3. QED
    BY <1>2 DEF IInv, RecordInv, CountInv, ReadInv, DoneInv, DoneIsProved, Doing

-----------------------------------------------------------------------------
(* Checks.                                                                 *)
LEMMA VerifySpecStep ==
    ASSUME IInv, NEW s \in Specs, VerifySpec(s) PROVE IInv'
  <1> USE DEF VerifySpec, Doing
  <1>1. acceptance.state # "DONE" /\ Current \in 0..MaxRevisions
    BY AcceptanceAssumption
    DEF IInv, DoneInv, RecordInv, Revisions, Current, AcceptanceAssumption
  <1>2. checks' \in [Specs -> Result]
    BY <1>1 DEF IInv, RecordInv, Result
  <1>3. RecordInv'
    BY <1>2 DEF IInv, RecordInv
  <1>4. QED
    BY <1>1, <1>3
    DEF IInv, RecordInv, CountInv, ReadInv, DoneInv, DoneIsProved, Current, Reviewed

LEMMA ResumeStep == ASSUME IInv, ResumeGoal PROVE IInv'
  <1> USE DEF ResumeGoal, Rest, Doing, Reasons
  <1>1. RecordInv'
    BY DEF IInv, RecordInv
  <1>2. QED
    BY <1>1 DEF IInv, RecordInv, CountInv, ReadInv, DoneInv, DoneIsProved

LEMMA EndVerifyStep == ASSUME IInv, EndVerify PROVE IInv'
  <1>1. CASE FailedChecks = {}
    <2>1. RecordInv'
      BY ZenonT(30), <1>1 DEF IInv, RecordInv, EndVerify
    <2>2. QED
      BY <1>1, <2>1
      DEF IInv, RecordInv, CountInv, ReadInv, DoneInv, DoneIsProved, EndVerify, Doing, Current
  <1>2. CASE Repair /\ FailedChecks # {}
    BY <1>2, RepairStep DEF EndVerify
  <1>3. CASE PauseFor("check") /\ FailedChecks # {}
    BY <1>3, PauseStep DEF Reasons, EndVerify
  <1>4. QED
    BY <1>1, <1>2, <1>3 DEF EndVerify

-----------------------------------------------------------------------------
(* Reviews.                                                                *)
LEMMA AskStep ==
    ASSUME IInv, NEW role \in Roles, AskReview(role) PROVE IInv'
  <1>1. CASE LimitReached(role)
    BY <1>1, PauseStep DEF Reasons, AskReview
  <1>2. CASE ~LimitReached(role)
    <2> USE DEF AskReview, CountCall, LimitReached
    <2>1. /\ acceptance' \in [state : {"PAUSED", "VERIFY", "REVIEW", "JUDGE", "DONE"},
                              revision : Revisions, oracle : 0..MaxOracleCalls]
          /\ acceptance'.state = acceptance.state /\ acceptance'.revision = acceptance.revision
          /\ asked' = acceptance'.oracle
      BY <1>2, AcceptanceAssumption DEF IInv, RecordInv, CountInv, AcceptanceAssumption
    <2>2. RecordInv'
      BY <1>2, <2>1 DEF IInv, RecordInv
    <2>3. QED
      BY <1>2, <2>1, <2>2
      DEF IInv, RecordInv, CountInv, ReadInv, DoneInv, DoneIsProved, Doing, Current, Reviewed,
          HasReview
  <1>3. QED
    BY <1>1, <1>2

LEMMA AnswerStep == ASSUME IInv, AnswerReview PROVE IInv'
  <1> USE DEF AnswerReview, Doing
  <1>1. acceptance.state # "DONE" /\ Current \in 0..MaxRevisions
    BY AcceptanceAssumption
    DEF IInv, DoneInv, RecordInv, Revisions, Current, AcceptanceAssumption
  <1>2. verdicts' \in [Roles -> Verdict]
    <2>1. round.role \in Roles
      BY DEF IInv, ReadInv
    <2>2. PICK d \in Decisions : verdicts' = [verdicts EXCEPT ![round.role] =
                                               [revision |-> Current, decision |-> d]]
      OBVIOUS
    <2>3. [revision |-> Current, decision |-> d] \in Verdict
      BY <1>1, <2>2 DEF Verdict
    <2>4. QED
      BY <2>1, <2>2, <2>3 DEF IInv, RecordInv
  <1>3. RecordInv'
    BY <1>2 DEF IInv, RecordInv
  <1>4. acceptance' = acceptance /\ round'.pc = "review" /\ round'.approved = round.approved
    BY DEF IInv, RecordInv
  <1>5. CountInv' /\ DoneInv' /\ DoneIsProved'
    BY <1>1, <1>4 DEF IInv, CountInv, DoneInv, DoneIsProved
  <1>6. ReadInv'
    BY <1>4 DEF IInv, ReadInv, Current
  <1>7. QED
    BY <1>3, <1>5, <1>6 DEF IInv

LEMMA ReadStep ==
    ASSUME IInv, NEW role \in Roles, ReadReview(role) PROVE IInv'
  <1>1. CASE verdicts[role].decision = "approve"
    <2>1. RecordInv'
      <3>1. /\ round' = [round EXCEPT !.roles = @ \ {role}, !.role = "none"]
            /\ UNCHANGED <<acceptance, checks, verdicts, approvals>>
        BY <1>1 DEF ReadReview
      <3>2. round.roles \ {role} \in SUBSET Roles /\ "none" \in Roles \cup {"none"}
        BY DEF IInv, RecordInv
      <3>3. round' \in [pc : {"off", "verify", "review", "asking", "judge"}, specs : SUBSET Specs,
                       roles : SUBSET Roles, role : Roles \cup {"none"}, approved : BOOLEAN,
                       refused : Reasons]
        BY <3>1, <3>2 DEF IInv, RecordInv
      <3>4. QED
        BY <3>1, <3>3 DEF IInv, RecordInv
    <2>2. /\ round'.pc = "review" /\ round'.approved = round.approved
          /\ acceptance' = acceptance /\ acceptance.state # "DONE"
      BY <1>1 DEF IInv, RecordInv, DoneInv, ReadReview, Doing
    <2>3. UNCHANGED <<approvals, asked>>
      BY DEF ReadReview
    <2>4. CountInv' /\ DoneInv' /\ DoneIsProved'
      BY <2>2, <2>3 DEF IInv, CountInv, DoneInv, DoneIsProved
    <2>5. ReadInv'
      BY <2>2, <2>3 DEF IInv, ReadInv, Current, Doing
    <2>6. QED
      BY <2>1, <2>4, <2>5 DEF IInv
  <1>2. CASE PauseFor("uncertain") \/ PauseFor("repair")
    BY <1>2, PauseStep DEF Reasons, ReadReview
  <1>3. CASE Repair
    BY <1>3, RepairStep DEF ReadReview
  <1>4. QED
    BY <1>1, <1>2, <1>3 DEF ReadReview

-----------------------------------------------------------------------------
(* The judge.                                                              *)
LEMMA BeginJudgeStep == ASSUME IInv, BeginJudge PROVE IInv'
  <1> USE DEF BeginJudge, Doing
  <1>1. RecordInv'
    <2>1. (Current \in approvals) \in BOOLEAN
      OBVIOUS
    <2>2. round' \in [pc : {"off", "verify", "review", "asking", "judge"}, specs : SUBSET Specs,
                     roles : SUBSET Roles, role : Roles \cup {"none"}, approved : BOOLEAN,
                     refused : Reasons]
      BY <2>1 DEF IInv, RecordInv
    <2>3. QED
      BY <2>2 DEF IInv, RecordInv
  <1>2. /\ acceptance'.state = "JUDGE" /\ Current' = Current /\ acceptance'.oracle = acceptance.oracle
        /\ round'.pc = "judge" /\ round'.approved = (Current \in approvals)
    BY DEF IInv, RecordInv, Current
  <1>3. CountInv' /\ DoneInv' /\ DoneIsProved'
    BY <1>2 DEF IInv, CountInv, DoneInv, DoneIsProved
  <1>4. ReadInv'
    BY <1>2 DEF IInv, ReadInv
  <1>5. QED
    BY <1>1, <1>3, <1>4 DEF IInv

LEMMA DecideStep == ASSUME IInv, DecideAcceptance PROVE IInv'
  <1>1. CASE PauseFor("artifacts") \/ PauseFor("human") \/ PauseFor("records")
    BY <1>1, PauseStep DEF Reasons, DecideAcceptance
  <1>2. CASE /\ HumanApproved /\ ChecksProved /\ ReviewsApprove
             /\ acceptance' = [acceptance EXCEPT !.state = "DONE"] /\ round' = Rest
    <2> USE DEF DecideAcceptance, Rest, Reasons
    <2>1. RecordInv'
      BY <1>2 DEF IInv, RecordInv
    <2>2. Current' = Current /\ (HumanCriterion => Current \in approvals)
      BY <1>2 DEF IInv, RecordInv, ReadInv, HumanApproved, Current
    <2>3. ChecksProved' /\ ReviewsApprove'
      BY <1>2, <2>2 DEF ChecksProved, ReviewsApprove, Reviewed
    <2>4. QED
      BY <1>2, <2>1, <2>2, <2>3
      DEF IInv, RecordInv, CountInv, ReadInv, DoneInv, DoneIsProved, Doing
  <1>3. QED
    BY <1>1, <1>2 DEF DecideAcceptance

-----------------------------------------------------------------------------
LEMMA Inductive == IInv /\ [AcceptanceNext]_acceptanceVars => IInv'
  <1> SUFFICES ASSUME IInv, [AcceptanceNext]_acceptanceVars PROVE IInv'
    OBVIOUS
  <1> USE DEF IInv, RecordInv, CountInv, ReadInv, DoneInv, DoneIsProved, Doing, Current, Reviewed,
              ChecksProved, ReviewsApprove
  <1>1. CASE UNCHANGED acceptanceVars
    BY <1>1 DEF acceptanceVars
  <1>2. CASE ObserveExternally
    BY <1>2 DEF ObserveExternally
  <1>3. CASE ReviewFails
    BY <1>3, PauseStep DEF Reasons, ReviewFails
  <1>4. CASE ApproveCriterion
    BY <1>4 DEF ApproveCriterion
  <1>5. CASE ChangeArtifact
    BY <1>5 DEF ChangeArtifact
  <1>6. CASE StopRound
    <2>1. CASE PauseFor("user")
      BY <1>6, <2>1, PauseStep DEF Reasons, StopRound
    <2>2. CASE round' = Rest /\ UNCHANGED acceptance
      BY <1>6, <2>2 DEF StopRound, Rest, Reasons
    <2>3. QED
      BY <1>6, <2>1, <2>2 DEF StopRound
  <1>7. QED
    BY <1>1, <1>2, <1>3, <1>4, <1>5, <1>6, VerifySpecStep, ResumeStep, EndVerifyStep, AskStep,
       AnswerStep, ReadStep, BeginJudgeStep, DecideStep DEF AcceptanceNext

(* A run remembers only what still holds for its candidate, and a goal is  *)
(* done only at rest.                                                      *)
THEOREM InductiveInvariant == AcceptanceSpec => []IInv
  <1>1. QED
    BY InitIInv, Inductive, PTL DEF AcceptanceSpec

(* DONE is decided with the proofs of the candidate at hand, and the       *)
(* oracle is asked at most limits.maxOracleCalls times.                    *)
THEOREM AcceptedWithProofs == AcceptanceSpec => []AcceptanceInv
  <1>1. IInv => AcceptanceInv
    BY AcceptanceAssumption
    DEF IInv, RecordInv, CountInv, AcceptanceInv, OracleAskedWithinLimit, AcceptanceAssumption
  <1>2. QED
    BY <1>1, InductiveInvariant, PTL

(* No pause, crash, repair or resume changes the verdict of a candidate.   *)
THEOREM VerdictsStay == AcceptanceSpec => VerdictStays
  <1> DEFINE Kept == \A r \in Roles : Reviewed(r) => verdicts'[r] = verdicts[r]
  <1>1. IInv /\ [AcceptanceNext]_acceptanceVars => [Kept]_acceptanceVars
    <2> SUFFICES ASSUME IInv, AcceptanceNext, NEW r \in Roles, Reviewed(r)
                 PROVE  verdicts'[r] = verdicts[r]
      BY DEF acceptanceVars
    <2>1. CASE AnswerReview
      BY <2>1 DEF AnswerReview, IInv, ReadInv, RecordInv, Doing
    <2>2. CASE UNCHANGED verdicts
      BY <2>2
    <2>3. QED
      BY <2>1, <2>2
      DEF AcceptanceNext, ResumeGoal, VerifySpec, EndVerify, AskReview, ReadReview,
          ObserveExternally, ReviewFails, BeginJudge, DecideAcceptance, ApproveCriterion,
          ChangeArtifact, StopRound
  <1>2. QED
    BY <1>1, InductiveInvariant, PTL DEF AcceptanceSpec, VerdictStays

-----------------------------------------------------------------------------
(* DependencyPreparation.                                                  *)

(* A preparation in one of Working has the workspace lock; in one of       *)
(* Recorded the intent of its container is not completed.                  *)
Recorded == {"create", "install", "write", "commit", "record", "image", "finally"}
Working == {"read", "unlock"} \cup Recorded
Calls == {"off", "lock", "done", "failed", "dead"} \cup Working

CommitRecords == [by : {"start", "prepare", "integrate"}, tree : Trees, with : BOOLEAN]
Logs == Seq(CommitRecords)

GoalRecords(R, B) == [state : {"RECEIVED", "PAUSED", "EXECUTE", "DONE"}, recorded : R, before : B]
DaemonRecords == [up : BOOLEAN, exists : SUBSET Preparers, requested : SUBSET Preparers]

PrepRecordInv ==
    /\ candidate \in [commits : Logs, index : Trees]
    /\ Last >= 1
    /\ prepGoal \in GoalRecords(1..Last, 0..Last)
    /\ prepTask \in [status : {"pending", "produced", "failed", "accepted"}, tree : Trees,
                     kept : BOOLEAN, base : 1..Last]
    /\ daemon \in DaemonRecords
    /\ started \subseteq Preparers
    /\ preparations \in [Preparers -> [pc : Calls, tree : Trees, done : BOOLEAN]]

(* Whoever works holds the lock, and nobody else.                          *)
LockInv ==
    /\ workspaceLock \in Preparers \cup {Controller, Free}
    /\ \A p \in Preparers : preparations[p].pc \in Working <=> workspaceLock = p
    /\ goalRun # "off" <=> workspaceLock = Controller

(* A container is created after its intent is recorded, and the daemon     *)
(* owes none.                                                              *)
ContainerInv ==
    /\ daemon.exists \subseteq started /\ daemon.requested = {}
    /\ \A p \in Preparers : preparations[p].pc \in Recorded => p \in started

(* What a preparation has done is recorded, for what it installed.         *)
ImageInv ==
    \A p \in Preparers :
        /\ preparations[p].done => [base |-> Base(p), key |-> Installed(p)] \in images
        /\ preparations[p].done => preparations[p].pc \in {"finally", "unlock", "done", "dead"}
        /\ preparations[p].pc = "done" => preparations[p].done

(* Who holds the lock has found a goal it may change.                      *)
HolderInv ==
    /\ workspaceLock \in Preparers => MayPrepare
    /\ goalRun # "off" => prepGoal.state # "DONE"

PrepIInv == PrepRecordInv /\ LockInv /\ ContainerInv /\ ImageInv

LEMMA Alone == ASSUME NEW S, NEW e \in S PROVE <<e>> \in Seq(S)
  OBVIOUS

LEMMA CandidateRecord ==
    ASSUME NEW log \in Logs, NEW tree \in Trees
    PROVE  [commits |-> log, index |-> tree] \in [commits : Logs, index : Trees]
  OBVIOUS

LEMMA PrepRecordInit == DependencyInit => PrepRecordInv
  <1> SUFFICES ASSUME DependencyInit PROVE PrepRecordInv
    OBVIOUS
  <1> PICK t \in Trees :
         /\ candidate = [commits |-> <<Commit("start", t, FALSE)>>, index |-> t]
         /\ prepTask = [status |-> "pending", tree |-> t, kept |-> FALSE, base |-> 1]
    BY DEF DependencyInit
  <1>1. Commit("start", t, FALSE) \in CommitRecords
    BY DEF Commit, CommitRecords
  <1>2. Last = 1 /\ HeadTree = t
    BY DEF Last, HeadTree, Commit
  <1> DEFINE c == Commit("start", t, FALSE)
  <1> HIDE DEF c
  <1>3. candidate \in [commits : Logs, index : Trees]
    <2>1. c \in CommitRecords
      BY <1>1 DEF c
    <2>2. <<c>> \in Logs
      BY <2>1, Alone DEF Logs
    <2>3. candidate = [commits |-> <<c>>, index |-> t]
      BY DEF c
    <2>4. QED
      BY ONLY <2>2, <2>3, t \in Trees, CandidateRecord
  <1>4. preparations \in [Preparers -> [pc : Calls, tree : Trees, done : BOOLEAN]]
    BY <1>2 DEF DependencyInit, Calls
  <1>5. daemon = [up |-> TRUE, exists |-> {}, requested |-> {}] /\ started = {}
    BY DEF DependencyInit
  <1>6. prepTask \in [status : {"pending", "produced", "failed", "accepted"}, tree : Trees,
                      kept : BOOLEAN, base : 1..Last]
    BY <1>2
  <1>7. prepGoal \in GoalRecords(1..Last, 0..Last)
    BY <1>2 DEF DependencyInit, GoalRecords
  <1>8. daemon \in DaemonRecords /\ started \subseteq Preparers
    BY <1>5 DEF DaemonRecords
  <1>9. Last >= 1
    BY <1>2
  <1> HIDE DEF DependencyInit
  <1>10. QED
    BY <1>3, <1>4, <1>6, <1>7, <1>8, <1>9 DEF PrepRecordInv

LEMMA HeadIsTree == PrepRecordInv => HeadTree \in Trees /\ BaseTree \in Trees
  <1> SUFFICES ASSUME PrepRecordInv PROVE HeadTree \in Trees /\ BaseTree \in Trees
    OBVIOUS
  <1>1. candidate.commits \in Seq(CommitRecords) /\ Last = Len(candidate.commits) /\ Last \in Nat
    BY DEF PrepRecordInv, Last, Logs
  <1>2. \A i \in 1..Last : candidate.commits[i] \in CommitRecords
    BY <1>1
  <1>3. Last \in 1..Last /\ prepTask.base \in 1..Last
    BY <1>1 DEF PrepRecordInv
  <1>4. candidate.commits[Last].tree \in Trees /\ candidate.commits[prepTask.base].tree \in Trees
    BY <1>2, <1>3 DEF CommitRecords
  <1>5. QED
    BY <1>4 DEF HeadTree, BaseTree

(* A commit comes after the others and holds the index.                    *)
LEMMA CommitMade ==
    ASSUME PrepRecordInv, NEW by \in {"start", "prepare", "integrate"}, NEW with \in BOOLEAN,
           candidate' = [candidate EXCEPT !.commits = Append(@, Commit(by, candidate.index, with))]
    PROVE  /\ candidate' \in [commits : Logs, index : Trees]
           /\ Last' = Last + 1 /\ Last \in Nat
  <1> DEFINE c == Commit(by, candidate.index, with)
             log == candidate.commits
  <1>1. log \in Logs /\ candidate.index \in Trees
    BY DEF PrepRecordInv
  <1>2. c \in CommitRecords
    BY <1>1 DEF Commit, CommitRecords
  <1>3. candidate' = [candidate EXCEPT !.commits = Append(log, c)]
    OBVIOUS
  <1>4. candidate = [commits |-> log, index |-> candidate.index]
    BY DEF PrepRecordInv
  <1> HIDE DEF c, log
  <1>5. candidate' = [commits |-> Append(log, c), index |-> candidate.index]
    BY <1>3, <1>4
  <1>6. Append(log, c) \in Logs /\ Len(Append(log, c)) = Len(log) + 1 /\ Len(log) \in Nat
    BY <1>1, <1>2 DEF Logs
  <1>7. Last = Len(log)
    BY DEF Last, log
  <1>8. Last' = Len(Append(log, c))
    <2>1. candidate'.commits = Append(log, c)
      BY <1>5
    <2>2. QED
      BY <2>1 DEF Last
  <1>10. candidate' \in [commits : Logs, index : Trees]
    <2>1. candidate.index \in Trees /\ Append(log, c) \in Logs
      BY <1>1, <1>6
    <2>2. [commits |-> Append(log, c), index |-> candidate.index] \in [commits : Logs, index : Trees]
      BY <2>1, CandidateRecord
    <2>3. QED
      BY <2>2, <1>5
  <1>9. QED
    BY <1>6, <1>7, <1>8, <1>10

LEMMA CallMoved ==
    ASSUME PrepRecordInv, NEW p \in Preparers, NEW step \in Calls, To(p, step)
    PROVE  /\ preparations' \in [Preparers -> [pc : Calls, tree : Trees, done : BOOLEAN]]
           /\ preparations'[p] = [pc |-> step, tree |-> preparations[p].tree, done |-> preparations[p].done]
           /\ \A q \in Preparers \ {p} : preparations'[q] = preparations[q]
  BY DEF PrepRecordInv, To

LEMMA IndexSet ==
    ASSUME PrepRecordInv, NEW tree \in Trees, candidate' = [candidate EXCEPT !.index = tree]
    PROVE  candidate' \in [commits : Logs, index : Trees] /\ Last' = Last /\ Last \in Nat
  <1>1. candidate.commits \in Logs /\ candidate = [commits |-> candidate.commits, index |-> candidate.index]
    BY DEF PrepRecordInv
  <1>2. candidate' = [commits |-> candidate.commits, index |-> tree]
    BY <1>1
  <1>3. candidate' \in [commits : Logs, index : Trees]
    BY <1>1, <1>2, CandidateRecord
  <1>4. candidate'.commits = candidate.commits
    BY <1>2
  <1>5. Len(candidate.commits) \in Nat
    BY <1>1 DEF Logs
  <1>6. QED
    BY <1>3, <1>4, <1>5 DEF Last

LEMMA CandidateSame ==
    ASSUME PrepRecordInv, candidate' = candidate
    PROVE  candidate' \in [commits : Logs, index : Trees] /\ Last' = Last /\ Last \in Nat
  <1>1. Len(candidate.commits) \in Nat
    BY DEF PrepRecordInv, Logs
  <1>2. QED
    BY <1>1 DEF PrepRecordInv, Last

LEMMA InstalledIsTree == ASSUME PrepRecordInv, NEW p \in Preparers PROVE Installed(p) \in Trees
  <1>1. preparations[p].tree \in Trees
    BY DEF PrepRecordInv
  <1>2. QED
    BY <1>1 DEF Installed, Trees

(* A file written into a tree leaves a tree.                               *)
LEMMA LockWritten ==
    ASSUME NEW t \in Trees, NEW u \in Trees PROVE [t EXCEPT !.lock = u.lock] \in Trees
  BY SMTT(30) DEF Trees

LEMMA CandidateStep ==
    ASSUME PrepRecordInv, [DependencyNext]_prepVars
    PROVE  /\ candidate' \in [commits : Logs, index : Trees] /\ Last \in Nat
           /\ Last' = Last \/ Last' = Last + 1
  <1> DEFINE Goal == /\ candidate' \in [commits : Logs, index : Trees] /\ Last \in Nat
                     /\ Last' = Last \/ Last' = Last + 1
  <1>1. ASSUME NEW p \in Preparers, WriteLockfile(p), ~ForTask(p) PROVE Goal
    <2>1. candidate.index \in Trees /\ Installed(p) \in Trees
      BY InstalledIsTree DEF PrepRecordInv
    <2>2. candidate' = [candidate EXCEPT !.index = [candidate.index EXCEPT !.lock = Installed(p).lock]]
      BY <1>1 DEF WriteLockfile
    <2>3. [candidate.index EXCEPT !.lock = Installed(p).lock] \in Trees
      BY <2>1, LockWritten
    <2>4. QED
      BY <2>2, <2>3, IndexSet
  <1>2. ASSUME NEW p \in Preparers, CommitLockfile(p), ~ForTask(p) PROVE Goal
    BY <1>2, CommitMade DEF CommitLockfile
  <1>3. CASE ApplyPatch /\ candidate' # candidate
    <2>1. HeadTree \in Trees /\ BaseTree \in Trees /\ prepTask.tree \in Trees
      BY HeadIsTree DEF PrepRecordInv
    <2>2. PICK tree : /\ tree = [manifest |-> Merged(BaseTree.manifest, HeadTree.manifest, prepTask.tree.manifest),
                                 lock |-> Merged(BaseTree.lock, HeadTree.lock, prepTask.tree.lock)]
                      /\ candidate' = [candidate EXCEPT !.index = tree]
      BY <1>3 DEF ApplyPatch
    <2>3. tree \in Trees
      BY <2>1, <2>2 DEF Trees, Merged
    <2>4. QED
      BY <2>2, <2>3, IndexSet
  <1>4. CASE CommitPatch
    BY <1>4, CommitMade DEF CommitPatch
  <1>5. CASE candidate' = candidate
    BY <1>5, CandidateSame
  <1>6. QED
    BY <1>1, <1>2, <1>3, <1>4, <1>5
    DEF DependencyNext, PrepareStep, RunStep, prepVars, CallPrepare, LockPrepare, LockRefused,
        ReadManifest, CreateContainer, Install, RecordRevision, RecordImage, CleanUpContainer,
        CleanUpOnly, CleanUpFails, UnlockPrepare, CrashPrepare, DaemonCreatesLate, StartRun,
        RecoverContainers, RecoverCandidate, Work, BeginIntegration, AcceptTask, Verify, CrashRun,
        DaemonStops, DaemonReturns, WriteLockfile, CommitLockfile

(* What the steps write into the records of the goal and of the daemon.    *)
LEMMA GoalWritten ==
    ASSUME NEW R, NEW B, NEW n \in R, R \subseteq B, 0 \in B, NEW g \in GoalRecords(R, B)
    PROVE  /\ [g EXCEPT !.state = "PAUSED"] \in GoalRecords(R, B)
           /\ [g EXCEPT !.state = "DONE"] \in GoalRecords(R, B)
           /\ [g EXCEPT !.before = 0, !.state = "PAUSED"] \in GoalRecords(R, B)
           /\ [g EXCEPT !.before = g.recorded] \in GoalRecords(R, B)
           /\ [g EXCEPT !.recorded = n] \in GoalRecords(R, B)
           /\ [g EXCEPT !.recorded = n, !.before = 0] \in GoalRecords(R, B)
           /\ [g EXCEPT !.state = "EXECUTE", !.recorded = n, !.before = 0] \in GoalRecords(R, B)
  BY DEF GoalRecords

LEMMA GoalWidened ==
    ASSUME NEW R, NEW B, NEW R2, NEW B2, R \subseteq R2, B \subseteq B2, NEW g \in GoalRecords(R, B)
    PROVE  g \in GoalRecords(R2, B2)
  BY DEF GoalRecords

LEMMA DaemonWritten ==
    ASSUME NEW d \in DaemonRecords, NEW p \in Preparers, NEW s \in SUBSET Preparers, NEW up \in BOOLEAN
    PROVE  /\ [d EXCEPT !.exists = @ \cup {p}] \in DaemonRecords
           /\ [d EXCEPT !.exists = @ \ {p}] \in DaemonRecords
           /\ [d EXCEPT !.requested = @ \cup {p}] \in DaemonRecords
           /\ [d EXCEPT !.exists = @ \cup {p}, !.requested = @ \ {p}] \in DaemonRecords
           /\ [d EXCEPT !.exists = @ \ s] \in DaemonRecords
           /\ [d EXCEPT !.up = up] \in DaemonRecords
  BY DEF DaemonRecords

LEMMA GoalStep ==
    ASSUME PrepRecordInv, [DependencyNext]_prepVars
    PROVE  prepGoal' \in GoalRecords(1..Last, 0..Last)'
  <1> DEFINE Goals == GoalRecords(1..Last, 0..Last)
  <1>1. prepGoal \in Goals /\ Last \in 1..Last /\ 1..Last \subseteq 0..Last /\ 0 \in 0..Last
    BY CandidateStep DEF PrepRecordInv
  <1>2. /\ [prepGoal EXCEPT !.state = "PAUSED"] \in Goals
        /\ [prepGoal EXCEPT !.state = "DONE"] \in Goals
        /\ [prepGoal EXCEPT !.before = 0, !.state = "PAUSED"] \in Goals
        /\ [prepGoal EXCEPT !.before = prepGoal.recorded] \in Goals
        /\ [prepGoal EXCEPT !.recorded = Last] \in Goals
        /\ [prepGoal EXCEPT !.recorded = Last, !.before = 0] \in Goals
        /\ [prepGoal EXCEPT !.state = "EXECUTE", !.recorded = Last, !.before = 0] \in Goals
    BY <1>1, GoalWritten
  <1>3. prepGoal' \in Goals
    <2> HIDE DEF Goals
    <2>1. CASE RunStep
      BY <1>1, <1>2, <2>1 DEF RunStep, RecoverContainers, RecoverCandidate, Work, BeginIntegration,
          ApplyPatch, CommitPatch, AcceptTask, Verify, Pause
    <2>2. CASE ~RunStep
      BY <1>1, <1>2, <2>2 DEF DependencyNext, PrepareStep, prepVars, CallPrepare, LockPrepare,
          LockRefused, ReadManifest, CreateContainer, Install, WriteLockfile, CommitLockfile,
          RecordRevision, RecordImage, CleanUpContainer, CleanUpOnly, CleanUpFails, UnlockPrepare,
          CrashPrepare, DaemonCreatesLate, StartRun, CrashRun, DaemonStops, DaemonReturns
    <2>3. QED
      BY <2>1, <2>2
  <1>4. 1..Last \subseteq 1..(Last') /\ 0..Last \subseteq 0..(Last')
    BY CandidateStep
  <1>5. prepGoal' \in GoalRecords(1..(Last'), 0..(Last'))
    BY <1>3, <1>4, GoalWidened
  <1>6. QED
    BY <1>5

LEMMA TaskStep ==
    ASSUME PrepRecordInv, [DependencyNext]_prepVars
    PROVE  prepTask' \in [status : {"pending", "produced", "failed", "accepted"}, tree : Trees,
                          kept : BOOLEAN, base : 1..(Last')]
  <1> DEFINE Kept(n) == [status : {"pending", "produced", "failed", "accepted"}, tree : Trees,
                         kept : BOOLEAN, base : 1..n]
  <1>1. prepTask \in Kept(Last) /\ Last >= 1
    BY DEF PrepRecordInv
  <1>2. Last \in Nat /\ (Last' = Last \/ Last' = Last + 1)
    BY CandidateStep
  <1>3. ASSUME prepTask' \in Kept(Last) PROVE prepTask' \in Kept(Last')
    BY <1>2, <1>3
  <1>4. ASSUME NEW p \in Preparers, WriteLockfile(p), ForTask(p) PROVE prepTask' \in Kept(Last)
    <2>1. prepTask.tree \in Trees /\ Installed(p) \in Trees
      BY <1>1, InstalledIsTree
    <2>2. [prepTask.tree EXCEPT !.lock = Installed(p).lock] \in Trees
      BY <2>1, LockWritten
    <2>3. prepTask' = [prepTask EXCEPT !.tree = [prepTask.tree EXCEPT !.lock = Installed(p).lock]]
      BY <1>4 DEF WriteLockfile
    <2>4. QED
      BY <1>1, <2>2, <2>3
  <1>5. ASSUME NEW p \in Preparers, RecordRevision(p) PROVE prepTask' \in Kept(Last)
    BY <1>1, <1>5 DEF RecordRevision
  <1>6. CASE RecoverCandidate
    BY <1>1, <1>3, <1>6 DEF RecoverCandidate
  <1>7. CASE Work
    <2>1. HeadTree \in Trees /\ prepTask.tree \in Trees
      BY <1>1, HeadIsTree
    <2>2. PICK m \in Manifests, status \in {"produced", "failed"} :
             prepTask' = [status |-> status, kept |-> TRUE,
                          tree |-> [IF prepTask.kept THEN prepTask.tree ELSE HeadTree
                                    EXCEPT !.manifest = m],
                          base |-> IF prepTask.kept THEN prepTask.base ELSE Last]
      BY <1>7 DEF Work
    <2>3. [IF prepTask.kept THEN prepTask.tree ELSE HeadTree EXCEPT !.manifest = m] \in Trees
      BY <2>1 DEF Trees
    <2>4. (IF prepTask.kept THEN prepTask.base ELSE Last) \in 1..Last
      BY <1>1, <1>2
    <2>5. prepTask' \in Kept(Last)
      BY <2>2, <2>3, <2>4
    <2>6. QED
      BY <1>3, <2>5
  <1>8. CASE ApplyPatch \/ AcceptTask
    BY <1>1, <1>3, <1>8 DEF ApplyPatch, AcceptTask
  <1>9. CASE prepTask' = prepTask
    BY <1>1, <1>3, <1>9
  <1>10. QED
    BY <1>3, <1>4, <1>5, <1>6, <1>7, <1>8, <1>9
    DEF DependencyNext, PrepareStep, RunStep, prepVars, CallPrepare, LockPrepare, LockRefused,
        ReadManifest, CreateContainer, Install, WriteLockfile, CommitLockfile, RecordImage,
        CleanUpContainer, CleanUpOnly, CleanUpFails, UnlockPrepare, CrashPrepare,
        DaemonCreatesLate, StartRun, RecoverContainers, BeginIntegration, CommitPatch, Verify,
        CrashRun, DaemonStops, DaemonReturns

LEMMA DaemonStep ==
    ASSUME PrepRecordInv, [DependencyNext]_prepVars
    PROVE  daemon' \in DaemonRecords /\ started' \subseteq Preparers
  <1>1. daemon \in DaemonRecords /\ started \in SUBSET Preparers
    BY DEF PrepRecordInv
  <1>2. ASSUME NEW p \in Preparers
        PROVE  /\ [daemon EXCEPT !.exists = @ \cup {p}] \in DaemonRecords
               /\ [daemon EXCEPT !.exists = @ \ {p}] \in DaemonRecords
               /\ [daemon EXCEPT !.requested = @ \cup {p}] \in DaemonRecords
               /\ [daemon EXCEPT !.exists = @ \cup {p}, !.requested = @ \ {p}] \in DaemonRecords
    BY <1>1, DaemonWritten
  <1>3. ASSUME NEW p \in Preparers,
               PrepareStep(p) \/ CallPrepare(p) \/ CrashPrepare(p) \/ DaemonCreatesLate(p)
        PROVE  daemon' \in DaemonRecords /\ started' \subseteq Preparers
    BY <1>1, <1>2, <1>3 DEF PrepareStep, CallPrepare, LockPrepare, LockRefused, ReadManifest,
        CreateContainer, Install, WriteLockfile, CommitLockfile, RecordRevision, RecordImage,
        CleanUpContainer, CleanUpOnly, CleanUpFails, UnlockPrepare, CrashPrepare, DaemonCreatesLate
  <1>4. CASE RecoverContainers \/ DaemonStops \/ DaemonReturns
    <2>1. /\ [daemon EXCEPT !.up = TRUE] \in DaemonRecords /\ [daemon EXCEPT !.up = FALSE] \in DaemonRecords
          /\ [daemon EXCEPT !.exists = @ \ started] \in DaemonRecords
      BY <1>1 DEF DaemonRecords
    <2>2. QED
      BY <1>1, <1>4, <2>1 DEF RecoverContainers, DaemonStops, DaemonReturns
  <1>5. CASE UNCHANGED <<daemon, started>>
    BY <1>1, <1>5
  <1>6. QED
    BY <1>3, <1>4, <1>5 DEF DependencyNext, RunStep, prepVars, StartRun, RecoverCandidate, Work,
        BeginIntegration, ApplyPatch, CommitPatch, AcceptTask, Verify, CrashRun

LEMMA CallStep ==
    ASSUME PrepRecordInv, [DependencyNext]_prepVars
    PROVE  preparations' \in [Preparers -> [pc : Calls, tree : Trees, done : BOOLEAN]]
  <1> DEFINE Goal == preparations' \in [Preparers -> [pc : Calls, tree : Trees, done : BOOLEAN]]
  <1>1. preparations \in [Preparers -> [pc : Calls, tree : Trees, done : BOOLEAN]]
    BY DEF PrepRecordInv
  <1>2. ASSUME NEW p \in Preparers, NEW step \in Calls, To(p, step) PROVE Goal
    BY <1>2, CallMoved
  <1>3. ASSUME NEW p \in Preparers, ReadManifest(p) PROVE Goal
    <2>1. Target(p) \in Trees
      BY DEF Target, PrepRecordInv
    <2>2. "create" \in Calls /\ "unlock" \in Calls
      BY DEF Calls, Working, Recorded
    <2>3. CASE To(p, "unlock")
      BY <1>2, <2>2, <2>3
    <2>4. CASE preparations' = [preparations EXCEPT ![p].pc = "create", ![p].tree = Target(p)]
      BY <1>1, <2>1, <2>2, <2>4
    <2>5. QED
      BY <1>3, <2>3, <2>4 DEF ReadManifest
  <1>4. ASSUME NEW p \in Preparers, RecordImage(p) \/ CleanUpFails(p) PROVE Goal
    <2>1. "finally" \in Calls /\ "unlock" \in Calls
      BY DEF Calls, Working, Recorded
    <2>2. QED
      BY <1>1, <1>4, <2>1 DEF RecordImage, CleanUpFails
  <1>5. ASSUME NEW p \in Preparers,
               \/ CallPrepare(p) \/ LockPrepare(p) \/ LockRefused(p) \/ CreateContainer(p) \/ Install(p)
               \/ WriteLockfile(p) \/ CommitLockfile(p) \/ RecordRevision(p) \/ CleanUpOnly(p)
               \/ UnlockPrepare(p) \/ CrashPrepare(p)
        PROVE  Goal
    <2>1. PICK step \in Calls : To(p, step)
      BY <1>5 DEF CallPrepare, LockPrepare, LockRefused, CreateContainer, Install, WriteLockfile,
          CommitLockfile, RecordRevision, CleanUpOnly, UnlockPrepare, CrashPrepare, Calls, Working,
          Recorded
    <2>2. QED
      BY <1>2, <2>1
  <1>6. CASE preparations' = preparations
    BY <1>1, <1>6
  <1>7. QED
    BY <1>3, <1>4, <1>5, <1>6
    DEF DependencyNext, PrepareStep, RunStep, prepVars, CleanUpContainer, DaemonCreatesLate,
        StartRun, RecoverContainers, RecoverCandidate, Work, BeginIntegration, ApplyPatch,
        CommitPatch, AcceptTask, Verify, CrashRun, DaemonStops, DaemonReturns

LEMMA PrepRecordStep ==
    PrepRecordInv /\ [DependencyNext]_prepVars => PrepRecordInv'
  <1> SUFFICES ASSUME PrepRecordInv, [DependencyNext]_prepVars PROVE PrepRecordInv'
    OBVIOUS
  <1>1. (Last >= 1)'
    BY CandidateStep DEF PrepRecordInv
  <1>2. QED
    BY <1>1, CandidateStep, GoalStep, TaskStep, DaemonStep, CallStep DEF PrepRecordInv

(* What a call may do to the other calls: nothing.                         *)
LEMMA OthersWait ==
    ASSUME PrepRecordInv, NEW p \in Preparers, PrepareStep(p) \/ CallPrepare(p) \/ CrashPrepare(p)
    PROVE  /\ \A q \in Preparers \ {p} : preparations'[q] = preparations[q]
           /\ goalRun' = goalRun
  <1>1. \A q \in Preparers \ {p} : preparations'[q] = preparations[q]
    BY DEF PrepRecordInv, PrepareStep, CallPrepare, LockPrepare, LockRefused, ReadManifest,
       CreateContainer, Install, WriteLockfile, CommitLockfile, RecordRevision, RecordImage,
       CleanUpContainer, CleanUpOnly, CleanUpFails, UnlockPrepare, CrashPrepare, To
  <1>2. goalRun' = goalRun
    BY DEF PrepareStep, CallPrepare, LockPrepare, LockRefused, ReadManifest, CreateContainer,
       Install, WriteLockfile, CommitLockfile, RecordRevision, RecordImage, CleanUpContainer,
       CleanUpOnly, CleanUpFails, UnlockPrepare, CrashPrepare
  <1>3. QED
    BY <1>1, <1>2

LEMMA LockStep ==
    ASSUME PrepRecordInv, LockInv, [DependencyNext]_prepVars PROVE LockInv'
  <1> USE DependencyAssumption DEF DependencyAssumption
  <1>1. ASSUME NEW p \in Preparers, PrepareStep(p) \/ CallPrepare(p) \/ CrashPrepare(p) PROVE LockInv'
    <2>1. /\ \A q \in Preparers \ {p} : preparations'[q] = preparations[q]
          /\ goalRun' = goalRun
      BY <1>1, OthersWait
    <2>2. CASE workspaceLock' = workspaceLock
               /\ (preparations'[p].pc \in Working <=> preparations[p].pc \in Working)
      BY <2>1, <2>2 DEF LockInv
    <2>3. CASE workspaceLock = Free /\ workspaceLock' = p /\ preparations'[p].pc \in Working
      BY <2>1, <2>3 DEF LockInv
    <2>4. CASE preparations'[p].pc \notin Working
               /\ workspaceLock' = IF workspaceLock = p THEN Free ELSE workspaceLock
      BY <2>1, <2>4 DEF LockInv
    <2>5. CASE CallPrepare(p) \/ LockRefused(p)
      BY <2>2, <2>5 DEF CallPrepare, LockRefused, To, Preparing, PrepRecordInv, Working, Recorded
    <2>6. CASE LockPrepare(p)
      BY <2>3, <2>6 DEF LockPrepare, To, PrepRecordInv, Working, Recorded
    <2>7. CASE CrashPrepare(p)
      BY <2>4, <2>7 DEF CrashPrepare, To, PrepRecordInv, Working, Recorded
    <2>8. CASE UnlockPrepare(p)
      <3>1. workspaceLock = p
        BY <2>8 DEF UnlockPrepare, Preparing, LockInv, Working, Recorded
      <3>2. QED
        BY <2>4, <2>8, <3>1 DEF UnlockPrepare, To, PrepRecordInv, Working, Recorded
    <2>9. CASE \/ ReadManifest(p) \/ CreateContainer(p) \/ Install(p) \/ WriteLockfile(p)
               \/ CommitLockfile(p) \/ RecordRevision(p)
      BY <2>2, <2>9 DEF ReadManifest, CreateContainer, Install, WriteLockfile, CommitLockfile,
         RecordRevision, To, Preparing, PrepRecordInv, Working, Recorded
    <2>10. CASE RecordImage(p) \/ CleanUpContainer(p)
      BY <2>2, <2>10 DEF RecordImage, CleanUpContainer, CleanUpOnly, CleanUpFails, To, Preparing,
         PrepRecordInv, Working, Recorded
    <2>11. QED
      BY <1>1, <2>5, <2>6, <2>7, <2>8, <2>9, <2>10 DEF PrepareStep
  <1>2. ASSUME UNCHANGED preparations,
               \/ workspaceLock = Free /\ workspaceLock' = Controller /\ goalRun' # "off"
               \/ goalRun # "off" /\ goalRun' = "off" /\ workspaceLock' = Free
               \/ goalRun # "off" /\ goalRun' # "off" /\ UNCHANGED workspaceLock
               \/ UNCHANGED <<goalRun, workspaceLock>>
        PROVE  LockInv'
    BY <1>2 DEF LockInv
  <1>3. CASE RunStep
    BY <1>2, <1>3 DEF RunStep, RecoverContainers, RecoverCandidate, Work, BeginIntegration,
       ApplyPatch, CommitPatch, AcceptTask, Verify, Pause
  <1>4. QED
    BY <1>1, <1>2, <1>3 DEF DependencyNext, StartRun, CrashRun, DaemonStops, DaemonReturns,
       DaemonCreatesLate, prepVars

LEMMA ContainerStep ==
    ASSUME {"late", "slow"} \cap DependencyWindows = {},
           PrepRecordInv, LockInv, ContainerInv, [DependencyNext]_prepVars
    PROVE  ContainerInv'
  <1> USE DEF ContainerInv
  <1>1. ASSUME NEW p \in Preparers, PrepareStep(p) \/ CallPrepare(p) \/ CrashPrepare(p) PROVE ContainerInv'
    <2>1. \A q \in Preparers \ {p} : preparations'[q] = preparations[q]
      BY <1>1, OthersWait
    <2>2. CASE UNCHANGED <<daemon, started>>
               /\ (preparations'[p].pc \in Recorded => preparations[p].pc \in Recorded)
      BY <2>1, <2>2
    <2>3. CASE CallPrepare(p) \/ LockPrepare(p) \/ LockRefused(p) \/ CrashPrepare(p)
      BY <2>2, <2>3 DEF CallPrepare, LockPrepare, LockRefused, CrashPrepare, To, PrepRecordInv, Recorded
    <2>4. CASE ReadManifest(p)
      BY <2>1, <2>4 DEF ReadManifest, To, PrepRecordInv, Recorded
    <2>5. CASE CreateContainer(p)
      <3>1. p \in started /\ "late" \notin DependencyWindows
        BY <2>5 DEF CreateContainer, Preparing, Recorded
      <3>2. /\ daemon'.exists \subseteq daemon.exists \cup {p} /\ daemon'.requested = {} /\ started' = started
        BY <2>5, <3>1 DEF CreateContainer, PrepRecordInv, DaemonRecords
      <3>3. QED
        BY <2>1, <3>1, <3>2
    <2>6. CASE CleanUpOnly(p)
      <3>1. daemon'.exists = daemon.exists \ {p} /\ daemon'.requested = {} /\ started' = started \ {p}
        BY <2>6 DEF CleanUpOnly, PrepRecordInv, DaemonRecords
      <3>2. preparations'[p].pc \notin Recorded
        BY <2>6 DEF CleanUpOnly, To, PrepRecordInv, Recorded
      <3>3. QED
        BY <2>1, <3>1, <3>2
    <2>7. CASE \/ Install(p) \/ WriteLockfile(p) \/ CommitLockfile(p) \/ RecordRevision(p)
               \/ RecordImage(p) \/ CleanUpFails(p) \/ UnlockPrepare(p)
      BY <2>2, <2>7 DEF Install, WriteLockfile, CommitLockfile, RecordRevision, RecordImage,
         CleanUpFails, UnlockPrepare, To, Preparing, PrepRecordInv, Recorded
    <2>8. QED
      BY <1>1, <2>3, <2>4, <2>5, <2>6, <2>7 DEF PrepareStep, CleanUpContainer
  <1>2. CASE RecoverContainers
    <2>1. \A q \in Preparers : preparations[q].pc \notin Recorded
      BY <1>2, DependencyAssumption DEF RecoverContainers, LockInv, DependencyAssumption, Working
    <2>2. daemon'.exists \subseteq started' /\ daemon'.requested = {}
      BY <1>2 DEF RecoverContainers, PrepRecordInv, DaemonRecords
    <2>3. QED
      BY <1>2, <2>1, <2>2 DEF RecoverContainers
  <1>3. CASE DaemonStops \/ DaemonReturns
    BY <1>3 DEF DaemonStops, DaemonReturns, PrepRecordInv, DaemonRecords
  <1>4. CASE UNCHANGED <<daemon, started, preparations>>
    BY <1>4
  <1>5. QED
    BY <1>1, <1>2, <1>3, <1>4 DEF DependencyNext, RunStep, prepVars, StartRun, RecoverCandidate,
       Work, BeginIntegration, ApplyPatch, CommitPatch, AcceptTask, Verify, CrashRun

LEMMA ImageStep ==
    ASSUME PrepRecordInv, ImageInv, [DependencyNext]_prepVars PROVE ImageInv'
  <1> DEFINE Done == {"finally", "unlock", "done", "dead"}
             ImageOf(c, q) == [base |-> Base(q), key |-> [c.tree EXCEPT !.lock = c.tree.manifest]]
             Fine(c, q, known) == /\ c.done => ImageOf(c, q) \in known
                                  /\ c.done => c.pc \in Done
                                  /\ c.pc = "done" => c.done
  <1>1. \A q \in Preparers : Fine(preparations[q], q, images)
    BY DEF ImageInv, Installed
  <1>2. ASSUME \A q \in Preparers : Fine(preparations'[q], q, images') PROVE ImageInv'
    BY SMTT(30), <1>2 DEF ImageInv, Installed
  <1>3. images \subseteq images'
    BY DEF DependencyNext, PrepareStep, RunStep, prepVars, CallPrepare, LockPrepare, LockRefused,
       ReadManifest, CreateContainer, Install, WriteLockfile, CommitLockfile, RecordRevision,
       RecordImage, CleanUpContainer, CleanUpOnly, CleanUpFails, UnlockPrepare, CrashPrepare,
       DaemonCreatesLate, StartRun, RecoverContainers, RecoverCandidate, Work, BeginIntegration,
       ApplyPatch, CommitPatch, AcceptTask, Verify, CrashRun, DaemonStops, DaemonReturns
  <1>4. ASSUME NEW p \in Preparers, PrepareStep(p) \/ CallPrepare(p) \/ CrashPrepare(p) PROVE ImageInv'
    <2>1. \A q \in Preparers \ {p} : preparations'[q] = preparations[q]
      BY <1>4, OthersWait
    <2>2. ASSUME Fine(preparations'[p], p, images') PROVE ImageInv'
      BY <1>1, <1>2, <1>3, <2>1, <2>2
    <2>3. ASSUME NEW step, To(p, step), preparations[p].done => step \in Done,
                 step = "done" => preparations[p].done
          PROVE  ImageInv'
      <3>1. preparations'[p].pc = step /\ preparations'[p].tree = preparations[p].tree
            /\ preparations'[p].done = preparations[p].done
        BY <2>3 DEF To, PrepRecordInv
      <3>2. QED
        BY <1>1, <1>3, <2>2, <2>3, <3>1
    <2>4. CASE \/ CallPrepare(p) \/ LockPrepare(p) \/ LockRefused(p) \/ CreateContainer(p)
               \/ Install(p) \/ WriteLockfile(p) \/ CommitLockfile(p) \/ RecordRevision(p)
               \/ CleanUpOnly(p) \/ UnlockPrepare(p) \/ CrashPrepare(p)
               \/ (ReadManifest(p) /\ To(p, "unlock"))
      BY <1>1, <2>3, <2>4 DEF CallPrepare, LockPrepare, LockRefused, ReadManifest, CreateContainer,
         Install, WriteLockfile, CommitLockfile, RecordRevision, CleanUpOnly, UnlockPrepare,
         CrashPrepare, Preparing
    <2>5. CASE preparations' = [preparations EXCEPT ![p].pc = "create", ![p].tree = Target(p)]
               /\ Preparing(p, "read")
      <3>1. preparations'[p].pc = "create" /\ preparations'[p].done = preparations[p].done
        BY <2>5 DEF PrepRecordInv
      <3>2. ~preparations[p].done
        BY <1>1, <2>5 DEF Preparing
      <3>3. QED
        BY <2>2, <3>1, <3>2
    <2>6. CASE RecordImage(p)
      <3>1. preparations'[p].pc = "finally" /\ preparations'[p].tree = preparations[p].tree
        BY <2>6 DEF RecordImage, PrepRecordInv
      <3>2. images' = images \cup {ImageOf(preparations[p], p)}
        BY <2>6 DEF RecordImage, Installed
      <3>3. QED
        BY <2>2, <3>1, <3>2
    <2>7. CASE CleanUpFails(p)
      <3>1. preparations'[p].pc = "unlock" /\ preparations'[p].done = FALSE
        BY <2>7 DEF CleanUpFails, PrepRecordInv
      <3>2. QED
        BY <2>2, <3>1
    <2>8. QED
      BY <1>4, <2>4, <2>5, <2>6, <2>7 DEF PrepareStep, ReadManifest, CleanUpContainer
  <1>5. CASE preparations' = preparations
    BY <1>1, <1>2, <1>3, <1>5
  <1>6. QED
    BY <1>4, <1>5 DEF DependencyNext, RunStep, prepVars, DaemonCreatesLate, StartRun,
       RecoverContainers, RecoverCandidate, Work, BeginIntegration, ApplyPatch, CommitPatch,
       AcceptTask, Verify, CrashRun, DaemonStops, DaemonReturns

LEMMA PrepInit == DependencyInit => LockInv /\ ContainerInv /\ ImageInv /\ HolderInv
  <1> SUFFICES ASSUME DependencyInit PROVE LockInv /\ ContainerInv /\ ImageInv /\ HolderInv
    OBVIOUS
  <1>1. /\ workspaceLock = Free /\ goalRun = "off" /\ started = {} /\ prepGoal.state = "RECEIVED"
        /\ daemon.exists = {} /\ daemon.requested = {}
        /\ \A p \in Preparers : preparations[p].pc = "off" /\ preparations[p].done = FALSE
    BY DEF DependencyInit
  <1>2. LockInv
    BY <1>1, DependencyAssumption DEF LockInv, DependencyAssumption, Working, Recorded
  <1>3. ContainerInv
    BY <1>1 DEF ContainerInv, Recorded
  <1>4. ImageInv
    BY <1>1 DEF ImageInv
  <1>5. HolderInv
    BY <1>1, DependencyAssumption DEF HolderInv, DependencyAssumption
  <1>6. QED
    BY <1>2, <1>3, <1>4, <1>5

LEMMA HolderStep ==
    ASSUME "stale" \notin DependencyWindows, PrepRecordInv, LockInv, HolderInv, [DependencyNext]_prepVars
    PROVE  HolderInv'
  <1> USE DependencyAssumption DEF DependencyAssumption, HolderInv, MayPrepare
  <1>1. ASSUME NEW p \in Preparers, PrepareStep(p) \/ CallPrepare(p) \/ CrashPrepare(p) PROVE HolderInv'
    <2>1. goalRun' = goalRun
      BY <1>1, OthersWait
    <2>2. prepGoal'.state = prepGoal.state
      BY <1>1 DEF PrepareStep, CallPrepare, LockPrepare, LockRefused, ReadManifest, CreateContainer,
         Install, WriteLockfile, CommitLockfile, RecordRevision, RecordImage, CleanUpContainer,
         CleanUpOnly, CleanUpFails, UnlockPrepare, CrashPrepare, PrepRecordInv, GoalRecords
    <2>3. workspaceLock' \in Preparers => MayPrepare
      <3>1. CASE LockPrepare(p)
        BY <3>1 DEF LockPrepare
      <3>2. CASE workspaceLock' \in {workspaceLock, Free}
        BY <3>2
      <3>3. QED
        BY <1>1, <3>1, <3>2 DEF PrepareStep, CallPrepare, LockRefused, ReadManifest, CreateContainer,
           Install, WriteLockfile, CommitLockfile, RecordRevision, RecordImage, CleanUpContainer,
           CleanUpOnly, CleanUpFails, UnlockPrepare, CrashPrepare
    <2>4. QED
      BY <2>1, <2>2, <2>3
  <1>2. CASE goalRun # "off" /\ RunStep
    <2>1. workspaceLock' \in {Controller, Free}
      BY <1>2 DEF LockInv, RunStep, RecoverContainers, RecoverCandidate, Work, BeginIntegration,
         ApplyPatch, CommitPatch, AcceptTask, Verify, Pause
    <2>2. goalRun' # "off" => prepGoal'.state # "DONE"
      BY <1>2 DEF RunStep, RecoverContainers, RecoverCandidate, Work, BeginIntegration,
         ApplyPatch, CommitPatch, AcceptTask, Verify, Pause, PrepRecordInv, GoalRecords
    <2>3. QED
      BY <2>1, <2>2
  <1>3. CASE StartRun \/ CrashRun
    BY <1>3 DEF StartRun, CrashRun
  <1>4. CASE UNCHANGED <<prepGoal, goalRun, workspaceLock>>
    BY <1>4
  <1>5. RunStep => goalRun # "off"
    BY DEF RunStep, RecoverContainers, RecoverCandidate, Work, BeginIntegration, ApplyPatch,
       CommitPatch, AcceptTask, Verify
  <1>6. QED
    BY <1>1, <1>2, <1>3, <1>4, <1>5 DEF DependencyNext, prepVars, DaemonStops, DaemonReturns,
       DaemonCreatesLate

LEMMA PrepInductive ==
    ASSUME {"late", "slow"} \cap DependencyWindows = {}
    PROVE  PrepIInv /\ [DependencyNext]_prepVars => PrepIInv'
  BY PrepRecordStep, LockStep, ContainerStep, ImageStep DEF PrepIInv

(* What prepareDependencies relies on, whatever fails and whoever crashes: *)
(* whoever works has the lock, its container's intent is recorded first,   *)
(* and its image is recorded for what it installed.                        *)
THEOREM PreparationInvariant ==
    ASSUME {"late", "slow"} \cap DependencyWindows = {}
    PROVE  DependencySpec => []PrepIInv
  <1>1. DependencyInit => PrepIInv
    BY PrepRecordInit, PrepInit DEF PrepIInv
  <1>2. PrepIInv /\ [DependencyNext]_prepVars => PrepIInv'
    BY PrepInductive
  <1>3. QED
    BY <1>1, <1>2, PTL DEF DependencySpec

(* A preparation that succeeded left an image for what it installed, even  *)
(* if Docker creates containers late, an inspection fails, or the goal is  *)
(* no longer what it was before the lock (prepareDependencies).            *)
THEOREM PreparedAlwaysUsable == DependencySpec => []PreparedIsUsable
  <1> DEFINE Inv == PrepRecordInv /\ ImageInv
  <1>1. DependencyInit => Inv
    BY PrepRecordInit, PrepInit
  <1>2. Inv /\ [DependencyNext]_prepVars => Inv'
    BY PrepRecordStep, ImageStep
  <1>3. Inv => PreparedIsUsable
    <2> SUFFICES ASSUME ImageInv, NEW p \in Preparers, Preparing(p, "done"), HeadTree = Installed(p)
                 PROVE  ImageFor(HeadTree, Base(p))
      BY DEF PreparedIsUsable
    <2>1. [base |-> Base(p), key |-> Installed(p)] \in images
      BY DEF ImageInv, Preparing
    <2>2. PICK i \in images : i = [base |-> Base(p), key |-> Installed(p)]
      BY <2>1
    <2>3. i.base = Base(p) /\ i.key = HeadTree
      BY <2>2
    <2>4. QED
      BY <2>3 DEF ImageFor
  <1>4. QED
    BY <1>1, <1>2, <1>3, PTL DEF DependencySpec

(* For any number of preparations, targets and base images, beside any run *)
(* of the goal: a container that exists is one recovery will find, and a   *)
(* preparation that succeeded left an image for what it installed          *)
(* (prepareDependencies, DockerRunner.recover).  The daemon answers truly: *)
(* no creation arrives late and no inspection fails while it is up.        *)
THEOREM PreparationsAreOfUse ==
    ASSUME {"late", "slow"} \cap DependencyWindows = {}
    PROVE  DependencySpec => []PreparationInv
  <1>1. PrepIInv => ContainersAccounted
    BY DEF PrepIInv, ContainerInv, ContainersAccounted
  <1>2. ContainersAccounted /\ PreparedIsUsable => PreparationInv
    BY DEF PreparationInv
  <1>3. QED
    BY <1>1, <1>2, PreparationInvariant, PreparedAlwaysUsable, PTL

(* A goal that is done keeps its record and its candidate, whoever         *)
(* prepares it, when nothing comes between the look at its state and the   *)
(* lock (prepareDependencies, Orchestrator.run).                           *)
THEOREM DoneIsLeftAlone ==
    ASSUME "stale" \notin DependencyWindows PROVE DependencySpec => DoneStays
  <1> DEFINE Inv == PrepRecordInv /\ LockInv /\ HolderInv
  <1>1. DependencyInit => Inv
    BY PrepRecordInit, PrepInit
  <1>2. Inv /\ [DependencyNext]_prepVars => Inv'
    BY PrepRecordStep, LockStep, HolderStep
  <1>3. ASSUME Inv, [DependencyNext]_prepVars, prepGoal.state = "DONE"
        PROVE  UNCHANGED <<prepGoal, candidate>>
    <2>1. goalRun = "off" /\ \A p \in Preparers : preparations[p].pc \notin Working
      BY <1>3 DEF LockInv, HolderInv, MayPrepare
    <2>2. ASSUME NEW p \in Preparers, PrepareStep(p) \/ CallPrepare(p) \/ CrashPrepare(p) \/ DaemonCreatesLate(p)
          PROVE  UNCHANGED <<prepGoal, candidate>>
      BY <2>1, <2>2 DEF PrepareStep, CallPrepare, LockPrepare, LockRefused, ReadManifest,
         CreateContainer, Install, WriteLockfile, CommitLockfile, RecordRevision, RecordImage,
         CleanUpContainer, CleanUpOnly, CleanUpFails, UnlockPrepare, CrashPrepare,
         DaemonCreatesLate, Preparing, Working, Recorded
    <2>3. ~RunStep
      BY <2>1 DEF RunStep, RecoverContainers, RecoverCandidate, Work, BeginIntegration, ApplyPatch,
         CommitPatch, AcceptTask, Verify
    <2>4. QED
      BY <1>3, <2>2, <2>3 DEF DependencyNext, prepVars, StartRun, CrashRun, DaemonStops, DaemonReturns
  <1> HIDE DEF Inv
  <1>4. Inv /\ [DependencyNext]_prepVars => [prepGoal.state = "DONE" => UNCHANGED <<prepGoal, candidate>>]_prepVars
    BY <1>3
  <1>5. QED
    BY <1>1, <1>2, <1>4, PTL DEF DependencySpec, DoneStays
-----------------------------------------------------------------------------
(* The three together, as they are checked: types, and what the behaviours *)
(* of the whole say of each part.                                          *)

(* The rest of WorkerPool: what a request reserves, and the run around it. *)
RestInv ==
    /\ \A r \in Requests : /\ request[r].tokens \in {0} \cup Sizes
                           /\ request[r].usage \in {0, request[r].spent}
    /\ controller \in {"off", "stop", "unlease", "select", "wave"}
    /\ stopped \in BOOLEAN
    /\ crashes \in 0..MaxCrashes /\ waves \in 0..MaxWaves

LEMMA InitRest == Init => RestInv
  <1> SUFFICES ASSUME Init PROVE RestInv
    OBVIOUS
  <1>1. \A r \in Requests : request[r] = NoRequest
    BY DEF Init
  <1>2. 0 \in 0..MaxCrashes /\ 0 \in 0..MaxWaves
    BY WorkerPoolAssumption DEF WorkerPoolAssumption
  <1>3. QED
    BY <1>1, <1>2 DEF Init, RestInv, NoRequest

(* Of the requests, a step writes one or turns held ones unknown.          *)
LEMMA RequestsRest ==
    ASSUME BudgetInv, RestInv, [Next]_vars
    PROVE  \A r \in Requests : /\ request'[r].tokens \in {0} \cup Sizes
                               /\ request'[r].usage \in {0, request'[r].spent}
  <1> DEFINE Kept == \A r \in Requests : /\ request'[r].tokens \in {0} \cup Sizes
                                         /\ request'[r].usage \in {0, request'[r].spent}
  <1>1. CASE UNCHANGED request
    BY <1>1 DEF RestInv
  <1>2. ASSUME NEW us, Interrupt(us) PROVE Kept
    BY <1>2 DEF Interrupt, RestInv, BudgetInv, Request
  <1>3. ASSUME NEW t \in Tasks, Reserve(t) PROVE Kept
    <2>1. NewRequest \in Requests
      BY <1>3 DEF Reserve, Admissible, NewRequest
    <2>2. PICK n \in Sizes : \E spent \in 0..n :
             request' = [request EXCEPT ![NewRequest] =
                 [status |-> "held", task |-> {t}, tokens |-> n, usage |-> 0, spent |-> spent]]
      BY <1>3 DEF Reserve
    <2>3. QED
      BY <2>1, <2>2 DEF RestInv, BudgetInv
  <1>4. ASSUME NEW t \in Tasks, Reply(t) PROVE Kept
    BY <1>4 DEF Reply, RestInv, BudgetInv, Request
  <1>5. CASE Start \/ SelectWave \/ WaveDone \/ Stop \/ Crash \/ UNCHANGED vars
    BY <1>1, <1>5 DEF Start, SelectWave, WaveDone, Stop, Crash, vars, db
  <1>6. CASE Recovery
    BY <1>1, <1>2, <1>6 DEF Recovery, Recovered, StopLeftover, ReleaseLeftover, InterruptLeftover, db
  <1>7. ASSUME NEW t \in Tasks, Worker(t) PROVE Kept
    BY <1>1, <1>2, <1>3, <1>7
    DEF Worker, StartTask, AcquireLease, Close, Refuse, Submit, CutOff, CallCommand, EndInvocation,
        CommandRefused, CommandResumed, NoDocker, OpenIntent, RunContainer, StopContainer, db
  <1>8. ASSUME NEW t \in Tasks, Exit(t) \/ TimeOut(t) PROVE Kept
    BY <1>1, <1>8 DEF Exit, TimeOut, db
  <1>9. QED
    BY <1>4, <1>5, <1>6, <1>7, <1>8 DEF Next

LEMMA ControllerRest ==
    ASSUME RestInv, [Next]_vars
    PROVE  /\ controller' \in {"off", "stop", "unlease", "select", "wave"}
           /\ stopped' \in BOOLEAN
           /\ crashes' \in 0..MaxCrashes /\ waves' \in 0..MaxWaves
  <1> USE DEF RestInv, env
  <1> USE WorkerPoolAssumption DEF WorkerPoolAssumption
  <1>1. CASE Start \/ SelectWave \/ WaveDone \/ Stop \/ Crash \/ UNCHANGED vars
    <2>1. CASE Start \/ Stop \/ UNCHANGED vars
      BY <2>1 DEF Start, Stop, vars
    <2>2. CASE SelectWave
      BY <2>2 DEF SelectWave
    <2>3. CASE WaveDone
      <3>1. controller' \in {"select", "off"} /\ crashes' = crashes /\ waves' = waves
        BY <2>3 DEF WaveDone
      <3>2. stopped' = FALSE \/ stopped' = stopped
        BY <2>3 DEF WaveDone
      <3>3. stopped' \in BOOLEAN
        BY <3>2
      <3>4. controller' \in {"off", "stop", "unlease", "select", "wave"}
        BY <3>1
      <3>5. crashes' \in 0..MaxCrashes /\ waves' \in 0..MaxWaves
        BY <3>1
      <3>6. QED
        BY <3>3, <3>4, <3>5
    <2>4. CASE Crash
      <3>1. crashes < MaxCrashes /\ crashes' = crashes + 1 /\ waves' = waves
        BY <2>4 DEF Crash
      <3>2. crashes' \in 0..MaxCrashes /\ waves' \in 0..MaxWaves
        BY <3>1
      <3>3. controller' = "off" /\ stopped' = FALSE
        BY <2>4 DEF Crash
      <3>4. QED
        BY <3>2, <3>3
    <2>5. QED
      BY <1>1, <2>1, <2>2, <2>3, <2>4
  <1>2. CASE Recovery
    BY <1>2 DEF Recovery, Recovered, StopLeftover, ReleaseLeftover, InterruptLeftover
  <1>3. ASSUME NEW t \in Tasks, Worker(t) \/ Reply(t) \/ Exit(t) \/ TimeOut(t)
        PROVE  UNCHANGED <<controller, stopped, crashes, waves>>
    BY <1>3
    DEF Worker, StartTask, AcquireLease, Close, Reserve, Refuse, Submit, CutOff, CallCommand,
        EndInvocation, CommandRefused, CommandResumed, NoDocker, OpenIntent, RunContainer,
        StopContainer, Reply, Exit, TimeOut
  <1>4. QED
    BY <1>1, <1>2, <1>3 DEF Next

(* Both instances of the semaphore speak of the same types.                *)
LEMMA SameTypes == Heavy!TypeOK <=> HeavyProofs!TypeOK
  BY DEF Heavy!TypeOK, HeavyProofs!TypeOK, Heavy!UserState, HeavyProofs!UserState

(* The variables of WorkerPool keep their types, for any plan and budget.  *)
THEOREM PoolTypes == Spec => []TypeOK
  <1> DEFINE Inv == PermitInv /\ BudgetInv /\ RestInv
  <1>1. Init => Inv
    BY InitPermitInv, InitBudget, InitRest
  <1>2. Inv /\ [Next]_vars => Inv'
    BY InductivePermits, InductiveBudget, RequestsRest, ControllerRest DEF RestInv
  <1>3. Inv => TypeOK
    <2> SUFFICES ASSUME Inv PROVE TypeOK
      OBVIOUS
    <2>1. \A r \in Requests :
              /\ request[r].status \in {"none", "held", "unknown", "settled"}
              /\ request[r].task \subseteq Tasks
              /\ request[r].tokens \in {0} \cup Sizes
              /\ request[r].usage <= request[r].tokens
      <3> SUFFICES ASSUME NEW r \in Requests
                   PROVE  /\ request[r].status \in {"none", "held", "unknown", "settled"}
                          /\ request[r].task \subseteq Tasks
                          /\ request[r].tokens \in {0} \cup Sizes
                          /\ request[r].usage <= request[r].tokens
        OBVIOUS
      <3>1. request[r] \in Request /\ request[r].spent <= request[r].tokens
        BY DEF BudgetInv
      <3>2. request[r].tokens \in {0} \cup Sizes /\ request[r].usage \in {0, request[r].spent}
        BY DEF RestInv
      <3>3. QED
        BY <3>1, <3>2 DEF Request
    <2>2. lease \subseteq Tasks /\ intent \subseteq Tasks /\ container \subseteq Tasks
      BY DEF PermitInv, LeaseInv, LeaseCoversContainer
    <2>3. pc \in [Tasks -> {"none", "start", "lease", "agent", "asked", "turn", "command",
                            "ready", "docker", "running", "ended", "close", "over"}]
      BY DEF PermitInv, LeaseInv, Steps, Leased
    <2>4. Heavy!TypeOK
      BY SameTypes DEF PermitInv, HeavyProofs!IInv
    <2>5. QED
      BY <2>1, <2>2, <2>3, <2>4 DEF TypeOK, RestInv
  <1> HIDE DEF Inv
  <1>4. QED
    BY <1>1, <1>2, <1>3, PTL DEF Spec

(* The records of an acceptance keep their types.                          *)
LEMMA AcceptanceTyped == IInv => AcceptanceTypeOK
  BY SMTT(30) DEF IInv, RecordInv, AcceptanceTypeOK, Result, Verdict, Revisions, Current

(* An image is recorded under the base of its preparation, and a tree.     *)
ImagesTyped == images \subseteq [base : {Base(p) : p \in Preparers}, key : Trees]

LEMMA ImagesTypedStep ==
    ASSUME PrepRecordInv, ImagesTyped, [DependencyNext]_prepVars PROVE ImagesTyped'
  <1>1. ASSUME NEW p \in Preparers, RecordImage(p) PROVE ImagesTyped'
    <2>1. Installed(p) \in Trees
      BY InstalledIsTree
    <2>2. [base |-> Base(p), key |-> Installed(p)] \in [base : {Base(q) : q \in Preparers}, key : Trees]
      BY <2>1
    <2>3. QED
      BY <1>1, <2>2 DEF RecordImage, ImagesTyped
  <1>2. CASE UNCHANGED images
    BY <1>2 DEF ImagesTyped
  <1>3. QED
    BY <1>1, <1>2
    DEF DependencyNext, PrepareStep, RunStep, prepVars, CallPrepare, LockPrepare, LockRefused,
        ReadManifest, CreateContainer, Install, RecordRevision, CleanUpContainer, CleanUpOnly,
        CleanUpFails, UnlockPrepare, CrashPrepare, DaemonCreatesLate, StartRun, RecoverContainers,
        RecoverCandidate, Work, BeginIntegration, ApplyPatch, CommitPatch, AcceptTask, Verify,
        CrashRun, DaemonStops, DaemonReturns, WriteLockfile, CommitLockfile

(* The records of a preparation keep their types, whatever goes wrong.     *)
PrepTyped == PrepRecordInv /\ LockInv /\ ImagesTyped

LEMMA PrepTypedInit == DependencyInit => PrepTyped
  BY PrepRecordInit, PrepInit DEF PrepTyped, ImagesTyped, DependencyInit

LEMMA PrepTypedStep == PrepTyped /\ [DependencyNext]_prepVars => PrepTyped'
  BY PrepRecordStep, LockStep, ImagesTypedStep DEF PrepTyped

LEMMA PrepTypedTypes == PrepTyped => DependencyTypeOK
  <1> SUFFICES ASSUME PrepTyped PROVE DependencyTypeOK
    OBVIOUS
  <1>1. candidate.commits \in Seq(CommitRecords) /\ Last = Len(candidate.commits) /\ Last \in Nat
    BY DEF PrepTyped, PrepRecordInv, Last, Logs
  <1>2. DOMAIN candidate.commits = 1..Last /\ \A i \in 1..Last : candidate.commits[i] \in CommitRecords
    BY <1>1
  <1>3. prepGoal.recorded \in 1..Last /\ prepTask.base \in 1..Last /\ prepTask.tree \in Trees
    BY DEF PrepTyped, PrepRecordInv, GoalRecords
  <1>4. candidate.index \in Trees /\ started \subseteq Preparers
    BY DEF PrepTyped, PrepRecordInv
  <1>5. QED
    BY <1>2, <1>3, <1>4 DEF PrepTyped, DependencyTypeOK, ImagesTyped, LockInv, CommitRecords

(* A behaviour of the three instances is one of each: what is proved of a  *)
(* part is so of what is checked, and the parts share no variable.         *)
LEMMA WholeInit == MCInit => Init /\ DependencyInit /\ AcceptanceInit
  BY DEF MCInit

LEMMA WholeNext ==
    [MCNext]_mcVars => [Next]_vars /\ [DependencyNext]_prepVars /\ [AcceptanceNext]_acceptanceVars
  BY DEF MCNext, mcVars

(* A run of waves, of preparations or of an acceptance is a behaviour of   *)
(* its part, fair where the part is.                                       *)
THEOREM PartsOfTheRun == MCFairSpec => Spec /\ DependencySpec /\ AcceptanceSpec
  <1>1. QED
    BY WholeInit, WholeNext, PTL DEF MCFairSpec, MCSpec, Spec, DependencySpec, AcceptanceSpec

(* The records of a goal's run, of its preparations and of its acceptance  *)
(* keep their types, for any plan, budget, preparations and faults.        *)
THEOREM GoalRunTypes == MCSpec => []GoalRunTypeOK
  <1>1. MCSpec => Spec /\ AcceptanceSpec /\ DependencyInit /\ [][DependencyNext]_prepVars
    BY WholeInit, WholeNext, PTL DEF MCSpec, Spec, AcceptanceSpec
  <1>2. TypeOK /\ PrepTyped /\ IInv => GoalRunTypeOK
    BY PrepTypedTypes, AcceptanceTyped DEF GoalRunTypeOK
  <1>3. QED
    BY <1>1, <1>2, PoolTypes, PrepTypedInit, PrepTypedStep, InductiveInvariant, PTL
===============================================================================
