----------------------- MODULE IntegrationOperations -----------------------
(***************************************************************************)
(* Calls of agents to one external service: the registry of operations     *)
(* (integrations/registry.ts, one SQLite file that every process opens),   *)
(* the session each agent run holds (integrations/agent-session.ts), the   *)
(* administrator's commands (integrations/admin.ts) and the lock of a      *)
(* Unity editor (integrations/unity/lease.ts).                             *)
(*                                                                         *)
(* A session makes one call at a time: it lists the service's catalog,     *)
(* begins an operation, waits for the user, lists the catalog again, takes *)
(* the lock, claims the operation and sends it.  The service may act at    *)
(* any time after that, whether or not its answer arrives.  Processes      *)
(* crash; nobody but the user settles what a crash left uncertain.         *)
(***************************************************************************)
EXTENDS Integers, FiniteSets

CONSTANTS
    Runs, Process(_),   \* agent runs of one goal, the process each runs in
    Ops,                \* identities of operations
    Tools, Effect(_),   \* tool calls with their arguments, and their effect
    ReadOnly,           \* runs whose agent may only read
    Versions, Kind(_),  \* contents of the configuration, and what they connect
    Catalogs,           \* contents of the service's catalog
    Nobody, NoOp, None, \* null values
    MaxCalls,           \* calls of a run (maxCallsPerRun)
    Budgets             \* what happens in an instance: see bounds

VARIABLES
    server,       \* the record of the integration: configuration and catalogs
    operations,   \* the rows of the operations
    sessions,     \* what each run holds in memory
    unityLease,   \* the owner in the lock directory, or Nobody
    service,      \* outside: its catalog, what was sent to it, what it did
    alive,        \* processes running
    bounds        \* the calls agents make, the changes, crashes and releases to come

operationVars == <<server, operations, sessions, unityLease, service, alive, bounds>>

Active == {"pending", "approved", "running"}
States == Active \cup {"free", "completed", "denied", "expired", "unknown", "reconciled"}
Processes == {Process(r) : r \in Runs}
Remote(kind) == kind \in {"mcp", "unity"}

(* A configuration and its hash: what it says and whether it is enabled.   *)
Hashes == [version : Versions, enabled : BOOLEAN]

Record == [config : Hashes, catalog : Catalogs \cup {None}, authorized : Catalogs \cup {None}]

Row == [state : States, run : Runs \cup {Nobody}, tool : Tools \cup {None},
        config : Hashes \cup {None}, catalog : Catalogs \cup {None}, late : BOOLEAN]

Steps == {"off", "idle", "listing", "waiting", "relisting", "locking", "claiming",
          "sending", "calling", "observing", "closed"}

Session ==
    [pc : Steps, fixed : Hashes \cup {None}, record : Record \cup {None},
     tool : Tools \cup {None}, op : Ops \cup {NoOp}, calls : 0 .. MaxCalls,
     aborted : BOOLEAN, closing : BOOLEAN, owns : BOOLEAN, uncertain : BOOLEAN]

Bounds == [tools : SUBSET Tools, saves : Nat, crashes : Nat, releases : Nat]

ASSUME OperationAssumption ==
    /\ Nobody \notin Runs /\ None \notin Hashes
    /\ Versions # {} /\ Catalogs # {}
    /\ MaxCalls \in Nat /\ Budgets \subseteq Bounds

FreeOp == [state |-> "free", run |-> Nobody, tool |-> None, config |-> None,
           catalog |-> None, late |-> FALSE]

NewSession ==
    [pc |-> "off", fixed |-> None, record |-> None, tool |-> None, op |-> NoOp,
     calls |-> 0, aborted |-> FALSE, closing |-> FALSE,
     owns |-> FALSE, uncertain |-> FALSE]

OperationInit ==
    /\ server = [config |-> [version |-> CHOOSE v \in Versions : TRUE, enabled |-> TRUE],
                 catalog |-> None, authorized |-> None]
    /\ operations = [o \in Ops |-> FreeOp]
    /\ sessions = [r \in Runs |-> NewSession]
    /\ unityLease = Nobody
    /\ service = [catalog |-> CHOOSE c \in Catalogs : TRUE, sent |-> {}, done |-> {}]
    /\ alive = Processes
    /\ bounds \in Budgets

-----------------------------------------------------------------------------
(* The registry.                                                           *)

ServerKind == Kind(server.config.version)

(* Variant: an interrupted operation counts as refused.                    *)
InterruptedDenied(op) == [op EXCEPT !.state = "denied"]

(* An interrupted operation: unknown if something may have been done.      *)
Interrupted(op) ==
    [op EXCEPT !.state = IF @ = "running" /\ Effect(op.tool) # "read"
                         THEN "unknown" ELSE "denied"]

(* Variant: what is uncertain already counts as interrupted once more.     *)
RecoveredUnknown(ops) ==
    [o \in Ops |-> IF ops[o].state \in Active \cup {"unknown"} /\ Process(ops[o].run) \notin alive
                   THEN Interrupted(ops[o]) ELSE ops[o]]

(* recoverInterrupted: operations whose process is gone.                   *)
Recovered(ops) ==
    [o \in Ops |-> IF ops[o].state \in Active /\ Process(ops[o].run) \notin alive
                   THEN Interrupted(ops[o]) ELSE ops[o]]

(* Variant: what was approved and not started is left as it is.            *)
InterruptRunning(ops, r) ==
    [o \in Ops |-> IF ops[o].state \in {"pending", "running"} /\ ops[o].run = r
                   THEN Interrupted(ops[o]) ELSE ops[o]]

(* interruptRun: what a session that closes leaves behind.                 *)
InterruptRun(ops, r) ==
    [o \in Ops |-> IF ops[o].state \in Active /\ ops[o].run = r
                   THEN Interrupted(ops[o]) ELSE ops[o]]

(* The operations with the same logical key: server, configuration, tool   *)
(* and arguments, of the same goal.                                        *)
Same(tool, config) == {o \in Ops : operations[o].tool = tool /\ operations[o].config = config}

Uncertain == {o \in Ops : operations[o].state = "unknown"}

Busy(tool, config) == {o \in Same(tool, config) : operations[o].state \in Active}

(* A completed write answers the same write again.                         *)
Replayed(tool, config) ==
    Effect(tool) = "write" /\ \E o \in Same(tool, config) : operations[o].state = "completed"

(* begin refuses an effect while an outcome is unknown, or while the same  *)
(* call is under way.                                                      *)
Refused(tool, config) ==
    Effect(tool) # "read" /\ (Uncertain # {} \/ Busy(tool, config) # {})

NeedsApproval(tool, config) == Effect(tool) # "read" /\ Kind(config.version) # "browser"

NewOp(r, tool, record) ==
    [state |-> IF NeedsApproval(tool, record.config) THEN "pending" ELSE "approved",
     run |-> r, tool |-> tool, config |-> record.config, catalog |-> record.catalog,
     late |-> FALSE]

SetState(o, s) == [operations EXCEPT ![o].state = s]

(* save: another configuration has no catalog and no authorisation, and    *)
(* the operations that have not started are refused.                       *)
Save(config) ==
    /\ bounds.saves > 0
    /\ bounds' = [bounds EXCEPT !.saves = @ - 1]
    /\ IF config = server.config
       THEN UNCHANGED <<server, operations>>
       ELSE /\ server' = [config |-> config, catalog |-> None, authorized |-> None]
            /\ operations' = [o \in Ops |->
                   IF operations[o].state \in {"pending", "approved"}
                   THEN [operations[o] EXCEPT !.state = "denied"] ELSE operations[o]]
    /\ UNCHANGED <<sessions, unityLease, service, alive>>

-----------------------------------------------------------------------------
(* The session of a run.                                                   *)

InProcess(r) == Process(r) \in alive

At(r, pc) == InProcess(r) /\ sessions[r].pc = pc

(* record: the integration is enabled and has the configuration this run   *)
(* saw first.                                                              *)
Usable(r) ==
    /\ ~sessions[r].aborted
    /\ server.config.enabled
    /\ sessions[r].fixed \in {None, server.config}

Idle(s) == [s EXCEPT !.pc = "idle", !.op = NoOp, !.tool = None, !.record = None]

Return(r) == sessions' = [sessions EXCEPT ![r] = Idle(@)]

MySession(r) == sessions[r]
MyOp(r) == operations[sessions[r].op]
Writes(r) == Effect(sessions[r].tool) # "read"

(* A session opens: it recovers what dead processes left and looks whether *)
(* there is an integration for it at all.                                  *)
Open(r) ==
    /\ At(r, "off")
    /\ operations' = Recovered(operations)
    /\ sessions' = [sessions EXCEPT ![r].pc = IF server.config.enabled THEN "idle" ELSE "closed"]
    /\ UNCHANGED <<server, unityLease, service, alive, bounds>>

(* begin, in the session of r: replay a completed write, start an          *)
(* operation, or refuse.                                                   *)
Begin(r, tool, record) ==
    LET s == MySession(r)
        calls == IF s.pc = "idle" THEN s.calls + 1 ELSE s.calls IN
    IF Refused(tool, record.config) \/ Replayed(tool, record.config)
    THEN /\ sessions' = [sessions EXCEPT ![r] =
                            [Idle(s) EXCEPT !.calls = calls, !.fixed = record.config]]
         /\ UNCHANGED operations
    ELSE \E o \in Ops :
           /\ operations[o].state = "free"
           /\ operations' = [operations EXCEPT ![o] = NewOp(r, tool, record)]
           /\ sessions' = [sessions EXCEPT ![r] = [s EXCEPT
                !.pc = "waiting", !.op = o, !.tool = tool, !.record = record,
                !.fixed = record.config, !.calls = calls]]

(* Variant: calls are not limited.                                         *)
CallInternalAgain(r, tool) ==
    /\ At(r, "idle") /\ Usable(r) /\ ~Remote(ServerKind)
    /\ r \in ReadOnly => Effect(tool) = "read"
    /\ Begin(r, tool, server)
    /\ UNCHANGED <<server, unityLease, service, alive, bounds>>

(* A call to an internal adapter begins at once.                           *)
CallInternal(r, tool) ==
    /\ At(r, "idle") /\ Usable(r) /\ ~Remote(ServerKind)
    /\ MySession(r).calls < MaxCalls
    /\ r \in ReadOnly => Effect(tool) = "read"
    /\ Begin(r, tool, server)
    /\ UNCHANGED <<server, unityLease, service, alive, bounds>>

(* A call to a remote service waits for its catalog first; the user must   *)
(* have authorised the one on record.                                      *)
CallRemote(r, tool) ==
    /\ At(r, "idle") /\ Usable(r) /\ Remote(ServerKind)
    /\ MySession(r).calls < MaxCalls
    /\ r \in ReadOnly => Effect(tool) = "read"
    /\ server.catalog # None /\ server.authorized = server.catalog
    /\ sessions' = [sessions EXCEPT ![r].pc = "listing", ![r].tool = tool,
           ![r].record = server, ![r].fixed = server.config, ![r].calls = @ + 1]
    /\ UNCHANGED <<server, operations, unityLease, service, alive, bounds>>

(* The catalog of the service is not the one authorised: it is recorded    *)
(* for the user if the configuration is still the same, and the call fails.*)
Mismatch(r) ==
    /\ service.catalog # MySession(r).record.authorized
    /\ server' = IF server.config = MySession(r).record.config
                 THEN [server EXCEPT !.catalog = service.catalog] ELSE server
    /\ Return(r)
    /\ UNCHANGED <<operations, unityLease, service, alive, bounds>>

(* The catalog arrives, or the connection fails.                           *)
Listed(r) ==
    /\ At(r, "listing")
    /\ \/ Mismatch(r)
       \/ /\ ~MySession(r).aborted
          /\ service.catalog = MySession(r).record.authorized
          /\ Begin(r, MySession(r).tool, MySession(r).record)
          /\ UNCHANGED <<server, unityLease, service, alive, bounds>>
       \/ /\ Return(r)
          /\ UNCHANGED <<server, operations, unityLease, service, alive, bounds>>

(* One poll of wait: expiry first, then the decision.                      *)
Wait(r) ==
    /\ At(r, "waiting")
    /\ IF ~Usable(r)
       THEN /\ operations' = IF MyOp(r).state \in {"pending", "approved"}
                             THEN SetState(MySession(r).op, "denied") ELSE operations
            /\ Return(r)
       ELSE IF MyOp(r).late
       THEN operations' = SetState(MySession(r).op, "expired") /\ Return(r)
       ELSE /\ MyOp(r).state # "pending"
            /\ UNCHANGED operations
            /\ IF MyOp(r).state # "approved" THEN Return(r)
               ELSE sessions' = [sessions EXCEPT ![r].pc =
                        IF Remote(Kind(MySession(r).record.config.version))
                        THEN "relisting" ELSE "claiming",
                        ![r].record = server]
    /\ UNCHANGED <<server, unityLease, service, alive, bounds>>

(* The second listing, of the record as it is now.  A call that fails here *)
(* leaves its operation approved until the session closes.                 *)
Relisted(r) ==
    /\ At(r, "relisting")
    /\ \/ Mismatch(r)
       \/ /\ ~MySession(r).aborted
          /\ MySession(r).record.authorized = MySession(r).record.catalog
          /\ service.catalog = MySession(r).record.authorized
          /\ sessions' = [sessions EXCEPT ![r].pc =
                 IF Kind(MySession(r).record.config.version) = "unity" /\ Writes(r)
                 THEN "locking" ELSE "claiming"]
          /\ UNCHANGED <<server, operations, unityLease, service, alive, bounds>>
       \/ /\ Return(r)
          /\ UNCHANGED <<server, operations, unityLease, service, alive, bounds>>

(* UnityLease.acquire, and the second look at the editor that may fail.    *)
Lock(r) ==
    /\ At(r, "locking")
    /\ \/ /\ MySession(r).owns \/ unityLease = Nobody
          /\ unityLease' = IF MySession(r).owns THEN unityLease ELSE r
          /\ \E pc \in {"claiming", "idle"} :
               sessions' = [sessions EXCEPT ![r] =
                   [(IF pc = "idle" THEN Idle(MySession(r)) ELSE MySession(r))
                       EXCEPT !.pc = pc, !.owns = TRUE]]
       \/ /\ ~MySession(r).owns /\ unityLease # Nobody
          /\ Return(r) /\ UNCHANGED unityLease
    /\ UNCHANGED <<server, operations, service, alive, bounds>>

(* claim: the approval is used once, while it is in force and the          *)
(* integration is still the one it was given for.                          *)
Claimable(o) ==
    /\ operations[o].state = "approved" /\ ~operations[o].late
    /\ server.config.enabled /\ server.config = operations[o].config

Claim(r) ==
    /\ At(r, "claiming")
    /\ IF Claimable(MySession(r).op)
       THEN /\ operations' = SetState(MySession(r).op, "running")
            /\ sessions' = [sessions EXCEPT ![r].pc = "sending"]
       ELSE Return(r) /\ UNCHANGED operations
    /\ UNCHANGED <<server, unityLease, service, alive, bounds>>

Send(r) ==
    /\ At(r, "sending") /\ ~MySession(r).aborted
    /\ service' = [service EXCEPT !.sent = @ \cup {MySession(r).op}]
    /\ sessions' = [sessions EXCEPT ![r].pc = "calling"]
    /\ UNCHANGED <<server, operations, unityLease, alive, bounds>>

(* An answer counts if the integration is still usable; then the operation *)
(* is completed.                                                           *)
Answer(r) ==
    /\ At(r, "calling") /\ Usable(r)
    /\ MySession(r).op \in service.done
    /\ operations[MySession(r).op].state = "running"
    /\ operations' = SetState(MySession(r).op, "completed")
    /\ sessions' = [sessions EXCEPT ![r].pc = "observing"]
    /\ UNCHANGED <<server, unityLease, service, alive, bounds>>

(* The catch of a call: a timeout, a lost connection, an abort, an answer  *)
(* nobody may use.                                                         *)
MarkUncertain(r) ==
    LET s == MySession(r) IN
    sessions' = [sessions EXCEPT ![r] =
        [Idle(s) EXCEPT !.uncertain = s.uncertain \/ (s.owns /\ Writes(r))]]

UncertainOp(o) ==
    operations' = IF operations[o].state = "running"
                  THEN [operations EXCEPT ![o] = Interrupted(@)] ELSE operations

Fail(r) ==
    /\ At(r, "sending") \/ At(r, "calling")
    /\ MarkUncertain(r) /\ UncertainOp(MySession(r).op)
    /\ UNCHANGED <<server, unityLease, service, alive, bounds>>

(* The observation is stored after the operation is completed; an error of *)
(* it reaches the same catch.                                              *)
Observe(r) ==
    /\ At(r, "observing")
    /\ \/ Return(r) /\ UNCHANGED operations
       \/ MarkUncertain(r) /\ UncertainOp(MySession(r).op)
    /\ UNCHANGED <<server, unityLease, service, alive, bounds>>

(* The watcher of the registry's file, and the abort of the run.           *)
Abort(r) ==
    /\ InProcess(r) /\ MySession(r).pc \notin {"off", "closed"} /\ ~MySession(r).aborted
    /\ MySession(r).fixed # None /\ MySession(r).fixed # server.config
    /\ sessions' = [sessions EXCEPT ![r].aborted = TRUE]
    /\ UNCHANGED <<server, operations, unityLease, service, alive, bounds>>

(* close: abort, let the call under way return, then give the lock back    *)
(* unless an outcome is uncertain, and settle what is left.                *)
BeginClose(r) ==
    /\ InProcess(r) /\ MySession(r).pc \notin {"off", "closed"} /\ ~MySession(r).closing
    /\ sessions' = [sessions EXCEPT ![r].aborted = TRUE, ![r].closing = TRUE]
    /\ UNCHANGED <<server, operations, unityLease, service, alive, bounds>>

Close(r) ==
    /\ At(r, "idle") /\ MySession(r).closing
    /\ unityLease' = IF MySession(r).owns /\ ~MySession(r).uncertain /\ unityLease = r
                     THEN Nobody ELSE unityLease
    /\ operations' = InterruptRun(operations, r)
    /\ sessions' = [sessions EXCEPT ![r].pc = "closed"]
    /\ UNCHANGED <<server, service, alive, bounds>>

-----------------------------------------------------------------------------
(* The user, through IntegrationAdmin.                                     *)

(* Another window opens the administration: it recovers too.               *)
OpenAdmin ==
    /\ operations' = Recovered(operations)
    /\ UNCHANGED <<server, sessions, unityLease, service, alive, bounds>>

Configure == \E v \in Versions : Save([version |-> v, enabled |-> TRUE])

Disable == Save([server.config EXCEPT !.enabled = FALSE])

(* probe: the catalog of the service is recorded, not authorised.          *)
Probe ==
    /\ Remote(ServerKind)
    /\ server' = [server EXCEPT !.catalog = service.catalog]
    /\ UNCHANGED <<operations, sessions, unityLease, service, alive, bounds>>

Authorize ==
    /\ server.catalog # None
    /\ server' = [server EXCEPT !.authorized = server.catalog]
    /\ UNCHANGED <<operations, sessions, unityLease, service, alive, bounds>>

Decide(o, answer) ==
    /\ operations[o].state = "pending" /\ ~operations[o].late
    /\ server.config.enabled /\ server.config = operations[o].config
    /\ operations' = SetState(o, answer)
    /\ UNCHANGED <<server, sessions, unityLease, service, alive, bounds>>

(* The user looked at the service and says that it did nothing, which is   *)
(* true: they wait until a late effect can no longer come.                 *)
Reconcile(o) ==
    /\ operations[o].state = "unknown" /\ o \notin service.done
    /\ operations' = SetState(o, "reconciled")
    /\ service' = [service EXCEPT !.sent = @ \ {o}]
    /\ UNCHANGED <<server, sessions, unityLease, alive, bounds>>

(* The lock is removed by hand, after review of the operations.            *)
RemoveLock ==
    /\ unityLease # Nobody
    /\ sessions[unityLease].pc = "closed" \/ ~InProcess(unityLease)
    /\ \A o \in Ops : operations[o].state \notin {"running", "unknown"}
    /\ unityLease' = Nobody
    /\ UNCHANGED <<server, operations, sessions, service, alive, bounds>>

-----------------------------------------------------------------------------
(* The rest of the world.                                                  *)

Execute(o) ==
    /\ o \in service.sent \ service.done
    /\ service' = [service EXCEPT !.done = @ \cup {o}]
    /\ UNCHANGED <<server, operations, sessions, unityLease, alive, bounds>>

Release(c) ==
    /\ bounds.releases > 0 /\ c # service.catalog
    /\ service' = [service EXCEPT !.catalog = c]
    /\ bounds' = [bounds EXCEPT !.releases = @ - 1]
    /\ UNCHANGED <<server, operations, sessions, unityLease, alive>>

Expire(o) ==
    /\ operations[o].state \in {"pending", "approved"} /\ ~operations[o].late
    /\ operations' = [operations EXCEPT ![o].late = TRUE]
    /\ UNCHANGED <<server, sessions, unityLease, service, alive, bounds>>

Crash(p) ==
    /\ p \in alive /\ bounds.crashes > 0
    /\ alive' = alive \ {p}
    /\ bounds' = [bounds EXCEPT !.crashes = @ - 1]
    /\ UNCHANGED <<server, operations, sessions, unityLease, service>>

SessionStep(r) ==
    \/ Listed(r) \/ Wait(r) \/ Relisted(r) \/ Lock(r) \/ Claim(r) \/ Send(r)
    \/ Answer(r) \/ Fail(r) \/ Observe(r) \/ Close(r)

OperationNext ==
    \/ \E r \in Runs :
         \/ Open(r) \/ SessionStep(r) \/ Abort(r) \/ BeginClose(r)
         \/ \E t \in bounds.tools : CallInternal(r, t) \/ CallRemote(r, t)
    \/ OpenAdmin \/ Configure \/ Disable \/ Probe \/ Authorize \/ RemoveLock
    \/ \E o \in Ops :
         \/ \E answer \in {"approved", "denied"} : Decide(o, answer)
         \/ Reconcile(o) \/ Execute(o) \/ Expire(o)
    \/ \E c \in Catalogs : Release(c)
    \/ \E p \in Processes : Crash(p)

(* A run ends, its steps are taken, and time passes.  The user, the        *)
(* service and the next process owe nothing.                               *)
OperationFairness ==
    /\ \A r \in Runs : WF_operationVars(SessionStep(r)) /\ WF_operationVars(BeginClose(r))
    /\ \A o \in Ops : WF_operationVars(Expire(o))

OperationSpec == OperationInit /\ [][OperationNext]_operationVars /\ OperationFairness

-----------------------------------------------------------------------------
(* Types: rows of operations, records and sessions.                        *)
OperationTypeOK ==
    /\ server \in Record
    /\ operations \in [Ops -> Row]
    /\ sessions \in [Runs -> Session]
    /\ unityLease \in Runs \cup {Nobody}
    /\ service \in [catalog : Catalogs, sent : SUBSET Ops, done : SUBSET Ops]
    /\ alive \subseteq Processes
    /\ bounds \in Bounds

(* What the rows say of the outside is true: an effect that the registry   *)
(* calls waiting, refused, expired or reviewed was never sent, through     *)
(* crashes, aborts and the end of the run (interruptRun,                   *)
(* recoverInterrupted, uncertain, the order of close).                     *)
RefusedIsNotSent ==
    \A o \in service.sent :
        Effect(operations[o].tool) # "read" =>
            operations[o].state \in {"running", "completed", "unknown"}

(* The same write, of the same configuration, reaches the service at most  *)
(* once, however often the agents of the goal ask for it and whatever      *)
(* becomes of their runs (begin: replay, busy and unknown).                *)
WriteHappensOnce ==
    \A o1, o2 \in service.sent :
        /\ Effect(operations[o1].tool) = "write"
        /\ operations[o1].tool = operations[o2].tool
        /\ operations[o1].config = operations[o2].config
        => o1 = o2

(* While an effect on the editor is under way or its outcome is unknown,   *)
(* the lock is in the name of the run that sent it, so that no other run   *)
(* writes (unity/lease.ts: one writer, uncertain outcomes never expire).   *)
UncertainKeepsLock ==
    \A o \in service.sent :
        /\ Kind(operations[o].config.version) = "unity" /\ Effect(operations[o].tool) # "read"
        /\ operations[o].state \in {"running", "unknown"}
        => unityLease = operations[o].run

(* The record of the operations tells the truth about the service: nothing *)
(* refused was sent, no write twice, and uncertain ones hold the editor.   *)
OperationInv == RefusedIsNotSent /\ WriteHappensOnce /\ UncertainKeepsLock

(* No step brings a settled operation back or changes its outcome; only    *)
(* the user's review settles an unknown one, and only expiry covers a      *)
(* refusal.                                                                *)
OutcomeStays ==
    [][\A o \in Ops :
         /\ operations[o].state \in {"completed", "reconciled", "expired"} =>
                operations'[o].state = operations[o].state
         /\ operations[o].state = "unknown" =>
                operations'[o].state \in {"unknown", "reconciled"}
         /\ operations[o].state = "denied" =>
                operations'[o].state \in {"denied", "expired"}]_operationVars

(* An operation of a live process does not stay open: the user decides, or *)
(* it expires, or its run ends and settles it.                             *)
OperationSettles ==
    \A o \in Ops :
        operations[o].state \in Active ~>
            (operations[o].state \notin Active \/ ~InProcess(operations[o].run))

(* docs/integraciones.md: an interruption after sending leaves an          *)
(* uncertain outcome "y bloquea nuevas escrituras de ese ámbito".          *)
NothingSentWhileUncertain ==
    [][\A o \in Ops :
         (o \notin service.sent /\ o \in service'.sent /\ Effect(operations[o].tool) # "read")
             => Uncertain = {}]_operationVars

-----------------------------------------------------------------------------
(* The inductive invariant behind OperationInv.                            *)

IsEffect(o) == Effect(operations[o].tool) # "read"
OnUnity(o) == Kind(operations[o].config.version) = "unity" /\ IsEffect(o)

(* Whatever was sent belongs to a run.                                     *)
SentHasRun ==
    \A o \in service.sent : operations[o].state # "free" /\ operations[o].run \in Runs

(* The same write of the same configuration is under way, done or          *)
(* uncertain at most once.                                                 *)
Standing == Active \cup {"completed", "unknown"}

OneOfAKind ==
    \A o1, o2 \in Ops :
        /\ Effect(operations[o1].tool) = "write"
        /\ operations[o1].tool = operations[o2].tool
        /\ operations[o1].config = operations[o2].config
        /\ operations[o1].state \in Standing /\ operations[o2].state \in Standing
        => o1 = o2

(* What the call in progress of a live run works on.                       *)
WorksOn(r) ==
    LET s == sessions[r] IN
    /\ s.op \in Ops
    /\ operations[s.op].run = r
    /\ operations[s.op].tool = s.tool
    /\ operations[s.op].config = s.fixed /\ s.fixed \in Hashes

SessionInv(r) ==
    LET s == sessions[r] IN
    /\ s.pc \in {"waiting", "relisting", "locking", "claiming"} =>
           WorksOn(r) /\ operations[s.op].state \in {"pending", "approved", "denied"}
    /\ s.pc \in {"sending", "calling"} => WorksOn(r) /\ operations[s.op].state = "running"
    /\ s.pc = "observing" => WorksOn(r) /\ operations[s.op].state = "completed"
    /\ s.pc = "listing" => s.tool \in Tools
    /\ s.pc \in {"listing", "waiting", "relisting"} =>
           s.record \in Record /\ s.record.config = s.fixed
    /\ s.pc \in {"claiming", "sending", "calling"} => (OnUnity(s.op) => s.owns)
    /\ s.owns /\ s.pc # "closed" => unityLease = r
    /\ \A o \in Ops : operations[o].run = r =>
           /\ operations[o].state = "running" => s.pc \in {"sending", "calling"} /\ s.op = o
           /\ operations[o].state = "unknown" /\ OnUnity(o) => s.uncertain \/ s.pc = "closed"

OperationIInv ==
    /\ OperationTypeOK
    /\ RefusedIsNotSent /\ UncertainKeepsLock
    /\ SentHasRun /\ OneOfAKind
    /\ \A r \in Runs : InProcess(r) => SessionInv(r)
=============================================================================
