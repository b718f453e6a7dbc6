------------------------------- MODULE WorkerPool -------------------------------
(***************************************************************************)
(* The tasks of a wave at work: TaskEngine.execute and AgentExecutor.invoke*)
(* of several tasks, interleaved, over what they share: the ownership      *)
(* leases and the budget in SQLite, the permits for heavy commands in      *)
(* memory, and containers, which survive the controller that started them. *)
(* A controller may die at any step; the next one recovers first.          *)
(*                                                                         *)
(* A surface is an element of Owned[t]: two tasks overlap when they share  *)
(* one.  A request reserves tokens and spends at most those: in hard mode  *)
(* the output is capped and the input is bounded by its bytes.             *)
(*                                                                         *)
(* Left out: worktrees, file writes (FileBroker asserts the lease again,   *)
(* with its expiry; an expired lease is still held for acquire), money     *)
(* (admitted like tokens), account permits (selectWave admits no more      *)
(* tasks of an account than it has permits), networks and browsers, and    *)
(* the integration that follows a wave.  A crash between two writes of     *)
(* BudgetManager.interrupt leaves a request held: it counts like unknown.  *)
(***************************************************************************)
EXTENDS Naturals, FiniteSets, Functions

CONSTANTS
    Tasks,          \* tasks of the plan that write
    Owned,          \* ownedFiles and ownedSurfaces of each
    MaxParallel,    \* config.parallelism.maxParallelAgents
    HeavyCommands,  \* config.parallelism.heavyCommands
    Requests,       \* provider requests: limits.maxGoalProviderRequests of them
    MaxTokens,      \* config.budgets.maxTokens
    Sizes,          \* bound: tokens a request may reserve
    MaxWaves,       \* bound: waves
    MaxCrashes      \* bound: process deaths

ASSUME WorkerPoolAssumption ==
    /\ IsFiniteSet(Tasks) /\ IsFiniteSet(Requests)
    /\ \A t \in Tasks : Owned[t] # {}
    /\ MaxParallel \in Nat \ {0} /\ HeavyCommands \in Nat \ {0}
    /\ MaxTokens \in Nat /\ Sizes \subseteq Nat
    /\ MaxWaves \in Nat /\ MaxCrashes \in Nat

VARIABLES
    (* SQLite *)
    lease,          \* tasks with a held lease
    intent,         \* tasks with an open container intent
    request,        \* reservations and usage of provider requests
    (* Docker *)
    container,      \* tasks whose container is alive
    (* the process *)
    controller,     \* what the controller does
    pc,             \* the step of each task of the wave
    stopped,        \* the run was paused, aborted or ran out of time
    (* the semaphore for heavy commands *)
    used, state, ahead, aborted,
    (* environment *)
    crashes, waves

Heavy == INSTANCE Semaphore WITH Users <- Tasks, Capacity <- HeavyCommands

db == <<lease, intent, request>>
env == <<crashes, waves>>
heavy == <<used, state, ahead>>
vars == <<db, container, controller, pc, stopped, heavy, aborted, env>>

NoRequest == [status |-> "none", task |-> {}, tokens |-> 0, usage |-> 0, spent |-> 0]

Init ==
    /\ lease = {} /\ intent = {} /\ container = {}
    /\ request = [r \in Requests |-> NoRequest]
    /\ controller = "off" /\ pc = [t \in Tasks |-> "none"] /\ stopped = FALSE
    /\ Heavy!Init
    /\ crashes = 0 /\ waves = 0

Overlap(t, u) == Owned[t] \cap Owned[u] # {}

At(t, step) == pc[t] = step
GoTo(t, step) == pc' = [pc EXCEPT ![t] = step]

-------------------------------------------------------------------------------
(* recoverGoal: containers first, then requests, then leases.              *)

Start ==
    /\ controller = "off"
    /\ controller' = "stop"
    /\ UNCHANGED <<db, container, pc, stopped, heavy, aborted, env>>

(* DockerRunner.recover; the goal pauses when Docker does not answer.      *)
StopLeftover(t) ==
    /\ controller = "stop" /\ t \in intent
    /\ \/ container' = container \ {t} /\ intent' = intent \ {t} /\ UNCHANGED controller
       \/ controller' = "off" /\ UNCHANGED <<container, intent>>
    /\ UNCHANGED <<lease, request, pc, stopped, heavy, aborted, env>>

(* Variant: a request without an answer is settled as free.                *)
InterruptAsSettled(us) ==
    request' = [r \in Requests |->
                   IF request[r].status = "held" /\ request[r].task \subseteq us
                   THEN [request[r] EXCEPT !.status = "settled"] ELSE request[r]]

(* BudgetManager.interrupt for the requests in us.                         *)
Interrupt(us) ==
    request' = [r \in Requests |->
                   IF request[r].status = "held" /\ request[r].task \subseteq us
                   THEN [request[r] EXCEPT !.status = "unknown"] ELSE request[r]]

InterruptLeftover ==
    /\ controller = "stop" /\ intent = {}
    /\ Interrupt(Tasks)
    /\ controller' = "unlease"
    /\ UNCHANGED <<lease, intent, container, pc, stopped, heavy, aborted, env>>

ReleaseLeftover(t) ==
    /\ controller = "unlease" /\ t \in lease
    /\ lease' = lease \ {t}
    /\ UNCHANGED <<intent, request, container, controller, pc, stopped,
                   heavy, aborted, env>>

Recovered ==
    /\ controller = "unlease" /\ lease = {}
    /\ controller' = "select"
    /\ UNCHANGED <<db, container, pc, stopped, heavy, aborted, env>>

(* selectWave: tasks that own disjoint surfaces.                           *)
SelectWave ==
    /\ controller = "select"
    /\ waves < MaxWaves /\ waves' = waves + 1
    /\ \E w \in SUBSET Tasks :
          /\ Cardinality(w) \in 1 .. MaxParallel
          /\ \A t, u \in w : t # u => ~Overlap(t, u)
          /\ pc' = [t \in Tasks |-> IF t \in w THEN "start" ELSE "none"]
    /\ controller' = "wave"
    /\ UNCHANGED <<db, container, stopped, heavy, aborted, crashes>>

(* All of the wave have settled: the loop goes on or the run ends.         *)
WaveDone ==
    /\ controller = "wave"
    /\ \A t \in Tasks : pc[t] \in {"none", "over"}
    /\ \/ ~stopped /\ controller' = "select"
       \/ controller' = "off"
    /\ pc' = [t \in Tasks |-> "none"]
    /\ stopped' = IF controller' = "off" THEN FALSE ELSE stopped
    /\ UNCHANGED <<db, container, heavy, aborted, env>>

-------------------------------------------------------------------------------
(* TaskEngine.execute.                                                     *)

(* The task fails here when the run was stopped or git has no worktree.    *)
StartTask(t) ==
    /\ At(t, "start")
    /\ \/ GoTo(t, "over")
       \/ ~stopped /\ GoTo(t, "lease")
    /\ UNCHANGED <<db, container, controller, stopped, heavy, aborted, env>>

(* Variant: only the wave keeps tasks apart.                               *)
AcquireUnchecked(t) ==
    /\ At(t, "lease")
    /\ lease' = lease \cup {t}
    /\ GoTo(t, "agent")
    /\ aborted' = IF stopped THEN aborted \cup {t} ELSE aborted \ {t}
    /\ UNCHANGED <<intent, request, container, controller, stopped, heavy, env>>

(* OWNERSHIP_BUSY, or a lease and an invocation with a signal of its own.  *)
AcquireLease(t) ==
    /\ At(t, "lease")
    /\ IF \E u \in lease : Overlap(t, u)
         THEN GoTo(t, "over") /\ UNCHANGED <<lease, aborted>>
         ELSE /\ lease' = lease \cup {t}
              /\ GoTo(t, "agent")
              /\ aborted' = IF stopped THEN aborted \cup {t} ELSE aborted \ {t}
    /\ UNCHANGED <<intent, request, container, controller, stopped, heavy, env>>

(* Variant: the finally always releases the lease.                         *)
CloseAnyway(t) ==
    /\ At(t, "close")
    /\ lease' = lease \ {t}
    /\ GoTo(t, "over")
    /\ UNCHANGED <<intent, request, container, controller, stopped, heavy, aborted, env>>

(* The finally of execute keeps the lease while a container of the task    *)
(* may be alive.                                                           *)
Close(t) ==
    /\ At(t, "close")
    /\ lease' = IF t \in intent THEN lease ELSE lease \ {t}
    /\ GoTo(t, "over")
    /\ UNCHANGED <<intent, request, container, controller, stopped,
                   heavy, aborted, env>>

-------------------------------------------------------------------------------
(* AgentExecutor.invoke and BudgetManager.                                 *)

(* What each request counts for: the usage when it is known.               *)
Charges == [r \in Requests |-> IF request[r].status \in {"held", "unknown"}
                               THEN request[r].tokens ELSE request[r].usage]

Admissible(n) ==
    /\ \E r \in Requests : request[r].status = "none"
    /\ SumFunction(Charges) + n <= MaxTokens

NewRequest == CHOOSE r \in Requests : request[r].status = "none"

Reserve(t) ==
    /\ At(t, "agent") /\ t \notin aborted
    /\ \E n \in Sizes :
          /\ Admissible(n)
          /\ \E spent \in 0 .. n :
                request' = [request EXCEPT ![NewRequest] =
                    [status |-> "held", task |-> {t}, tokens |-> n, usage |-> 0, spent |-> spent]]
    /\ GoTo(t, "asked")
    /\ UNCHANGED <<lease, intent, container, controller, stopped,
                   heavy, aborted, env>>

(* REQUEST_BUDGET or BUDGET_LIMIT.                                         *)
Refuse(t) ==
    /\ At(t, "agent") /\ \E n \in Sizes : ~Admissible(n)
    /\ GoTo(t, "ended")
    /\ UNCHANGED <<db, container, controller, stopped, heavy, aborted, env>>

Outstanding(t, r) == request[r].status = "held" /\ request[r].task = {t}

(* The provider answers, with its usage or without, or fails: a transient  *)
(* failure is asked again with a new request.                              *)
Reply(t) ==
    /\ At(t, "asked")
    /\ \E r \in Requests :
          /\ Outstanding(t, r)
          /\ \/ /\ request' = [request EXCEPT ![r].status = "settled",
                                              ![r].usage = request[r].spent]
                /\ GoTo(t, "turn")
             \/ /\ request' = [request EXCEPT ![r].status = "unknown"]
                /\ \E step \in {"turn", "agent", "ended"} : GoTo(t, step)
    /\ UNCHANGED <<lease, intent, container, controller, stopped,
                   heavy, aborted, env>>

(* With the answer the agent submits its result, or asks on.               *)
Submit(t) ==
    /\ At(t, "turn")
    /\ \E step \in {"ended", "agent"} : GoTo(t, step)
    /\ UNCHANGED <<db, container, controller, stopped, heavy, aborted, env>>

(* Variant: an abort is only noticed between requests.                     *)
CutOffBetweenRequests(t) ==
    /\ pc[t] \in {"agent", "turn"} /\ t \in aborted
    /\ GoTo(t, "ended")
    /\ UNCHANGED <<db, container, controller, stopped, heavy, aborted, env>>

(* The signal ends the session of the agent.                               *)
CutOff(t) ==
    /\ pc[t] \in {"agent", "asked", "turn"} /\ t \in aborted
    /\ GoTo(t, "ended")
    /\ UNCHANGED <<db, container, controller, stopped, heavy, aborted, env>>

EndInvocation(t) ==
    /\ At(t, "ended")
    /\ Interrupt({t})
    /\ GoTo(t, "close")
    /\ UNCHANGED <<lease, intent, container, controller, stopped,
                   heavy, aborted, env>>

-------------------------------------------------------------------------------
(* DockerRunner.command.                                                   *)

(* Variant: a command does not queue for a permit.                         *)
CallCommandAtOnce(t) ==
    /\ At(t, "turn") /\ t \notin aborted
    /\ used' = used + 1 /\ state' = [state EXCEPT ![t] = "granted"]
    /\ GoTo(t, "command")
    /\ UNCHANGED <<db, container, controller, stopped, ahead, aborted, env>>

CallCommand(t) ==
    /\ At(t, "turn") /\ t \notin aborted
    /\ Heavy!Call(t)
    /\ GoTo(t, "command")
    /\ UNCHANGED <<db, container, controller, stopped, env>>

(* Aborted in the queue or after the grant: an error of the tool.          *)
CommandRefused(t) ==
    /\ At(t, "command")
    /\ \/ state[t] = "out" /\ UNCHANGED <<heavy, aborted>>
       \/ t \in aborted /\ Heavy!Resume(t)
    /\ GoTo(t, "agent")
    /\ UNCHANGED <<db, container, controller, stopped, env>>

CommandResumed(t) ==
    /\ At(t, "command") /\ t \notin aborted
    /\ Heavy!Resume(t)
    /\ GoTo(t, "ready")
    /\ UNCHANGED <<db, container, controller, stopped, env>>

(* Variant: the check for Docker throws with the permit in hand.           *)
NoDockerKeepsPermit(t) ==
    /\ At(t, "ready")
    /\ GoTo(t, "agent")
    /\ UNCHANGED <<db, container, controller, stopped, heavy, aborted, env>>

(* Without Docker or the image there is no container and no intent.        *)
NoDocker(t) ==
    /\ At(t, "ready")
    /\ Heavy!Leave(t)
    /\ GoTo(t, "agent")
    /\ UNCHANGED <<db, container, controller, stopped, env>>

(* The intent is recorded before the container is started.                 *)
OpenIntent(t) ==
    /\ At(t, "ready")
    /\ intent' = intent \cup {t}
    /\ GoTo(t, "docker")
    /\ UNCHANGED <<lease, request, container, controller, stopped,
                   heavy, aborted, env>>

(* docker run is killed at once after an abort: maybe too late.            *)
RunContainer(t) ==
    /\ At(t, "docker")
    /\ \/ container' = container \cup {t}
       \/ t \in aborted /\ UNCHANGED container
    /\ GoTo(t, "running")
    /\ UNCHANGED <<db, controller, stopped, heavy, aborted, env>>

(* A container is removed when it exits.                                   *)
Exit(t) ==
    /\ t \in container
    /\ container' = container \ {t}
    /\ UNCHANGED <<db, controller, pc, stopped, heavy, aborted, env>>

(* The command ends, at its time limit at the latest: stop removes the     *)
(* container and closes the intent, or fails and leaves both.              *)
StopContainer(t) ==
    /\ At(t, "running")
    /\ \/ container' = container \ {t} /\ intent' = intent \ {t}
       \/ UNCHANGED <<container, intent>>
    /\ Heavy!Leave(t)
    /\ GoTo(t, "agent")
    /\ UNCHANGED <<lease, request, controller, stopped, env>>

-------------------------------------------------------------------------------
(* Signals and crashes.                                                    *)

InWave == {t \in Tasks : pc[t] # "none"}

Stop ==
    /\ controller = "wave" /\ ~stopped
    /\ stopped' = TRUE
    /\ Heavy!Abort(InWave)
    /\ UNCHANGED <<db, container, controller, pc, env>>

(* limits.timeoutPerTask.                                                  *)
TimeOut(t) ==
    /\ pc[t] \in {"agent", "asked", "turn", "command", "ready", "docker", "running"}
    /\ t \notin aborted
    /\ Heavy!Abort({t})
    /\ UNCHANGED <<db, container, controller, pc, stopped, env>>

(* The semaphore of the next process is a new one.                         *)
Crash ==
    /\ controller # "off"
    /\ crashes < MaxCrashes /\ crashes' = crashes + 1
    /\ controller' = "off" /\ pc' = [t \in Tasks |-> "none"] /\ stopped' = FALSE
    /\ used' = 0 /\ state' = [t \in Tasks |-> "out"]
    /\ ahead' = [t \in Tasks |-> {}] /\ aborted' = {}
    /\ UNCHANGED <<db, container, waves>>

-------------------------------------------------------------------------------
Recovery == InterruptLeftover \/ Recovered \/ \E t \in Tasks : StopLeftover(t) \/ ReleaseLeftover(t)

(* What the harness itself does for a task.                                *)
Worker(t) == \/ StartTask(t) \/ AcquireLease(t) \/ Close(t)
             \/ Reserve(t) \/ Refuse(t) \/ Submit(t) \/ CutOff(t) \/ EndInvocation(t)
             \/ CallCommand(t) \/ CommandRefused(t) \/ CommandResumed(t)
             \/ NoDocker(t) \/ OpenIntent(t) \/ RunContainer(t) \/ StopContainer(t)

Next == \/ Start \/ Recovery \/ SelectWave \/ WaveDone
        \/ \E t \in Tasks : Worker(t) \/ Reply(t) \/ Exit(t) \/ TimeOut(t)
        \/ Stop \/ Crash

Spec == Init /\ [][Next]_vars

(* The harness goes on and its timers fire; providers and containers need  *)
(* never answer.                                                           *)
WaveFairness == /\ WF_vars(WaveDone)
                /\ \A t \in Tasks : WF_vars(Worker(t)) /\ WF_vars(TimeOut(t))

FairSpec == Spec /\ WaveFairness

-------------------------------------------------------------------------------
(* Types of all variables.                                                 *)
TypeOK ==
    /\ lease \subseteq Tasks /\ intent \subseteq Tasks /\ container \subseteq Tasks
    /\ \A r \in Requests :
          /\ request[r].status \in {"none", "held", "unknown", "settled"}
          /\ request[r].task \subseteq Tasks
          /\ request[r].tokens \in {0} \cup Sizes
          /\ request[r].usage <= request[r].tokens
    /\ controller \in {"off", "stop", "unlease", "select", "wave"}
    /\ pc \in [Tasks -> {"none", "start", "lease", "agent", "asked", "turn", "command",
                         "ready", "docker", "running", "ended", "close", "over"}]
    /\ stopped \in BOOLEAN
    /\ Heavy!TypeOK
    /\ crashes \in 0 .. MaxCrashes /\ waves \in 0 .. MaxWaves

(* A task is at work while its agent may write or its container is alive.  *)
AtWork(t) == t \in container \/ pc[t] \in {"agent", "asked", "turn", "command", "ready",
                                           "docker", "running", "ended"}

(* Tasks that own a common surface are never at work together, not even    *)
(* when the container of one was left behind by a dead controller or could *)
(* not be stopped.                                                         *)
NoTwoWriters ==
    \A t, u \in Tasks : t # u /\ AtWork(t) /\ AtWork(u) => ~Overlap(t, u)

(* A lease is not released while a process of its task may be alive.       *)
LeaseCoversContainer == container \subseteq intent /\ intent \subseteq lease

(* What the providers have spent is within the budget, whatever answers    *)
(* were lost in aborts, failures and crashes.                              *)
BudgetHolds ==
    SumFunction([r \in Requests |-> request[r].spent]) <= MaxTokens

(* The permits in use belong to commands: none is lost when a command is   *)
(* aborted, has no Docker or cannot stop its container.                    *)
PermitsInUse ==
    /\ Heavy!PermitsAccounted
    /\ \A t \in Heavy!Holders : pc[t] \in {"command", "ready", "docker", "running"}

(* What a task takes from the others it gives back, and no more of it is   *)
(* spent than there is.                                                    *)
ResourcesHeld == BudgetHolds /\ PermitsInUse

(* A wave always ends: no task waits for a permit, a provider or another   *)
(* task for good.                                                          *)
WaveEnds == controller = "wave" ~> controller # "wave"
===============================================================================
