--------------------------- MODULE IntegrationProofs ---------------------------
(* Theorems about the operations of an external service, the resources of  *)
(* browsers, the control of a window and of a page, and the reading of a   *)
(* catalog.                                                                *)
EXTENDS MCIntegrations, FiniteSums, SequenceTheorems, TLAPS

LEMMA OperationTypeInit == OperationInit => OperationTypeOK
  <1> SUFFICES ASSUME OperationInit PROVE OperationTypeOK
    OBVIOUS
  <1> USE OperationAssumption DEF OperationInit
  <1>1. /\ (CHOOSE v \in Versions : TRUE) \in Versions
        /\ (CHOOSE c \in Catalogs : TRUE) \in Catalogs
    OBVIOUS
  <1>2. server \in Record
    BY <1>1 DEF Record, Hashes
  <1>3. FreeOp \in Row /\ NewSession \in Session
    BY DEF FreeOp, Row, States, NewSession, Session, Steps
  <1>4. operations \in [Ops -> Row] /\ sessions \in [Runs -> Session]
    BY <1>3
  <1>5. /\ service \in [catalog : Catalogs, sent : SUBSET Ops, done : SUBSET Ops]
        /\ unityLease \in Runs \cup {Nobody} /\ alive \subseteq Processes /\ bounds \in Bounds
    BY <1>1
  <1>6. QED
    BY <1>2, <1>4, <1>5 DEF OperationTypeOK

(* Rows and sessions change one at a time, and stay what they are.         *)
LEMMA RowState ==
    ASSUME NEW row \in Row, NEW s \in States
    PROVE  [row EXCEPT !.state = s] \in Row
  BY DEF Row

LEMMA InterruptedRow ==
    ASSUME NEW row \in Row
    PROVE  /\ Interrupted(row) \in Row
           /\ Interrupted(row).run = row.run
           /\ Interrupted(row).tool = row.tool
           /\ Interrupted(row).config = row.config
           /\ Interrupted(row).state =
                  IF row.state = "running" /\ Effect(row.tool) # "read" THEN "unknown" ELSE "denied"
  BY DEF Interrupted, Row, States, Active

LEMMA IdleSession ==
    ASSUME NEW s \in Session
    PROVE  /\ Idle(s) \in Session
           /\ Idle(s).pc = "idle"
           /\ Idle(s).owns = s.owns /\ Idle(s).uncertain = s.uncertain
           /\ Idle(s).calls = s.calls /\ Idle(s).fixed = s.fixed
  BY DEF Idle, Session, Steps

(* What a session has after the return of a call.                          *)
Returned(r) ==
    /\ sessions'[r] \in Session
    /\ sessions'[r].pc = "idle"
    /\ sessions'[r].owns = sessions[r].owns
    /\ sessions'[r].uncertain = sessions[r].uncertain

LEMMA ReturnStep ==
    ASSUME sessions \in [Runs -> Session], NEW r \in Runs, Return(r)
    PROVE  /\ sessions' = [sessions EXCEPT ![r] = sessions'[r]]
           /\ Returned(r)
  BY IdleSession DEF Return, Returned

LEMMA BeginStep ==
    ASSUME OperationTypeOK, NEW r \in Runs, NEW tool \in Tools, NEW record \in Record,
           sessions[r].pc = "idle" => sessions[r].calls < MaxCalls,
           Begin(r, tool, record)
    PROVE  /\ sessions' = [sessions EXCEPT ![r] = sessions'[r]]
           /\ sessions'[r] \in Session
           /\ sessions'[r].owns = sessions[r].owns
           /\ sessions'[r].uncertain = sessions[r].uncertain
           /\ \/ sessions'[r].pc = "idle" /\ UNCHANGED operations
              \/ /\ ~Refused(tool, record.config) /\ ~Replayed(tool, record.config)
                 /\ sessions'[r].pc = "waiting"
                 /\ sessions'[r].op \in Ops
                 /\ sessions'[r].tool = tool
                 /\ sessions'[r].record = record
                 /\ sessions'[r].fixed = record.config
                 /\ operations[sessions'[r].op].state = "free"
                 /\ operations' = [operations EXCEPT ![sessions'[r].op] = NewOp(r, tool, record)]
  <1> DEFINE s == sessions[r]
             n == IF s.pc = "idle" THEN s.calls + 1 ELSE s.calls
  <1>1. /\ sessions \in [Runs -> Session] /\ s \in Session
        /\ record.config \in Hashes
    BY DEF OperationTypeOK, Record
  <1>2. n \in 0 .. MaxCalls
    BY <1>1, OperationAssumption DEF Session
  <1>3. CASE Refused(tool, record.config) \/ Replayed(tool, record.config)
    <2>1. sessions' = [sessions EXCEPT ![r] = [Idle(s) EXCEPT !.calls = n, !.fixed = record.config]]
          /\ operations' = operations
      BY <1>1, <1>3, IdleSession DEF Begin, MySession
    <2>2. /\ Idle(s) \in Session /\ Idle(s).pc = "idle"
          /\ Idle(s).owns = s.owns /\ Idle(s).uncertain = s.uncertain
      BY <1>1, IdleSession
    <2>3. /\ [Idle(s) EXCEPT !.calls = n, !.fixed = record.config] \in Session
          /\ [Idle(s) EXCEPT !.calls = n, !.fixed = record.config].pc = "idle"
          /\ [Idle(s) EXCEPT !.calls = n, !.fixed = record.config].owns = s.owns
          /\ [Idle(s) EXCEPT !.calls = n, !.fixed = record.config].uncertain = s.uncertain
      <3> HIDE DEF n
      <3>1. ASSUME NEW x \in Session
            PROVE  /\ [x EXCEPT !.calls = n, !.fixed = record.config] \in Session
                   /\ [x EXCEPT !.calls = n, !.fixed = record.config].pc = x.pc
                   /\ [x EXCEPT !.calls = n, !.fixed = record.config].owns = x.owns
                   /\ [x EXCEPT !.calls = n, !.fixed = record.config].uncertain = x.uncertain
        BY <1>1, <1>2 DEF Session
      <3>2. QED
        BY <2>2, <3>1
    <2>4. QED
      BY <1>1, <2>1, <2>3
  <1>4. CASE ~(Refused(tool, record.config) \/ Replayed(tool, record.config))
    <2> DEFINE X(o) == [s EXCEPT !.pc = "waiting", !.op = o, !.tool = tool, !.record = record,
                                 !.fixed = record.config, !.calls = n]
    <2>1. PICK o \in Ops : /\ operations[o].state = "free"
                           /\ operations' = [operations EXCEPT ![o] = NewOp(r, tool, record)]
                           /\ sessions' = [sessions EXCEPT ![r] = X(o)]
      BY <1>1, <1>4 DEF Begin, MySession
    <2>2. /\ X(o) \in Session /\ X(o).pc = "waiting" /\ X(o).op = o /\ X(o).tool = tool
          /\ X(o).record = record /\ X(o).fixed = record.config
          /\ X(o).owns = s.owns /\ X(o).uncertain = s.uncertain
      BY <1>1, <1>2 DEF Session, Steps
    <2>3. QED
      BY <1>1, <1>4, <2>1, <2>2
  <1>5. QED
    BY <1>3, <1>4

LEMMA NewOpRow ==
    ASSUME NEW r \in Runs, NEW tool \in Tools, NEW record \in Record
    PROVE  /\ NewOp(r, tool, record) \in Row
           /\ NewOp(r, tool, record).run = r
           /\ NewOp(r, tool, record).tool = tool
           /\ NewOp(r, tool, record).config = record.config
           /\ NewOp(r, tool, record).state \in {"pending", "approved"}
  BY DEF NewOp, Row, Record, States, Active

-------------------------------------------------------------------------------
(* How rows move: what an operation is stays, and its state goes forward.  *)
RowKept(o) ==
    /\ operations'[o].run = operations[o].run
    /\ operations'[o].tool = operations[o].tool
    /\ operations'[o].config = operations[o].config

Forward(o, s, t) ==
    \/ s = t
    \/ s = "pending" /\ t \in {"approved", "denied", "expired"}
    \/ s = "approved" /\ t \in {"running", "denied", "expired"}
    \/ s = "running" /\ t \in {"completed", IF IsEffect(o) THEN "unknown" ELSE "denied"}
    \/ s = "denied" /\ t = "expired"

Moves(o) == RowKept(o) /\ Forward(o, operations[o].state, operations'[o].state)

(* The user found that the service did nothing, and will not.              *)
Reviewed(o) ==
    /\ RowKept(o)
    /\ operations[o].state = "unknown" /\ operations'[o].state = "reconciled"
    /\ o \notin service'.sent

(* A new operation is the only one with its key that stands.               *)
Begins(o) ==
    /\ operations[o].state = "free"
    /\ operations'[o].state \in {"pending", "approved"}
    /\ operations'[o].run \in Runs
    /\ Effect(operations'[o].tool) = "write" =>
           \A p \in Ops : /\ operations[p].tool = operations'[o].tool
                          /\ operations[p].config = operations'[o].config
                          => operations[p].state \notin Standing

RowsMove ==
    /\ operations' \in [Ops -> Row]
    /\ \A o \in Ops : \/ Moves(o) \/ Reviewed(o)
                      \/ Begins(o) /\ \A p \in Ops \ {o} : operations'[p] = operations[p]

(* Nothing of another run's rows changes that its session relies on.       *)
RowQuiet(q, o) ==
    /\ operations[o].run = q /\ operations[o].state # "free" =>
           /\ RowKept(o)
           /\ operations[o].state \in {"pending", "approved", "denied"} =>
                  operations'[o].state \in {"pending", "approved", "denied"}
           /\ operations[o].state \in {"running", "completed"} =>
                  operations'[o].state = operations[o].state
    /\ operations'[o].run = q /\ operations'[o].state \in {"running", "unknown"} =>
           RowKept(o) /\ operations'[o].state = operations[o].state

LEMMA QuietSession ==
    ASSUME NEW q \in Runs, SessionInv(q), sessions'[q] = sessions[q],
           \A o \in Ops : RowQuiet(q, o),
           unityLease' = unityLease \/ unityLease # q \/ sessions[q].pc = "closed"
    PROVE  SessionInv(q)'
  <1> DEFINE s == sessions[q]
  <1>1. WorksOn(q) /\ operations[s.op].state # "free" => WorksOn(q)' /\ RowKept(s.op)
    BY DEF WorksOn, RowQuiet, RowKept
  <1>2. s.pc \in {"waiting", "relisting", "locking", "claiming"} =>
            WorksOn(q)' /\ operations'[s.op].state \in {"pending", "approved", "denied"}
    BY <1>1 DEF SessionInv, WorksOn, RowQuiet
  <1>3. s.pc \in {"sending", "calling"} => WorksOn(q)' /\ operations'[s.op].state = "running"
    BY <1>1 DEF SessionInv, WorksOn, RowQuiet
  <1>4. s.pc \in {"claiming", "sending", "calling"} => (OnUnity(s.op)' => s.owns)
    BY <1>1 DEF SessionInv, WorksOn, OnUnity, IsEffect, RowKept
  <1>5. ASSUME NEW o \in Ops, operations'[o].run = q
        PROVE  /\ operations'[o].state = "running" => s.pc \in {"sending", "calling"} /\ s.op = o
               /\ operations'[o].state = "unknown" /\ OnUnity(o)' => s.uncertain \/ s.pc = "closed"
    BY <1>5 DEF SessionInv, RowQuiet, RowKept, OnUnity, IsEffect
  <1>6. s.pc = "observing" => WorksOn(q)' /\ operations'[s.op].state = "completed"
    BY <1>1 DEF SessionInv, WorksOn, RowQuiet
  <1>7. QED
    BY <1>2, <1>3, <1>4, <1>5, <1>6 DEF SessionInv

-------------------------------------------------------------------------------
(* Rows: what each write to the registry does to them.                     *)
LEMMA RowsUnchanged ==
    ASSUME OperationTypeOK, UNCHANGED operations
    PROVE  RowsMove
  BY DEF RowsMove, Moves, RowKept, Forward, OperationTypeOK

LEMMA RowsSet ==
    ASSUME OperationTypeOK, NEW o \in Ops, NEW t \in States,
           Forward(o, operations[o].state, t),
           operations' = SetState(o, t)
    PROVE  /\ RowsMove
           /\ RowKept(o) /\ operations'[o].state = t
           /\ \A p \in Ops \ {o} : operations'[p] = operations[p]
  <1>1. operations \in [Ops -> Row] /\ operations[o] \in Row
    BY DEF OperationTypeOK
  <1>2. /\ operations' = [operations EXCEPT ![o] = [operations[o] EXCEPT !.state = t]]
        /\ [operations[o] EXCEPT !.state = t] \in Row
    BY <1>1, RowState DEF SetState
  <1>3. /\ operations'[o] = [operations[o] EXCEPT !.state = t]
        /\ \A p \in Ops \ {o} : operations'[p] = operations[p]
        /\ operations' \in [Ops -> Row]
    BY <1>1, <1>2
  <1>4. RowKept(o) /\ operations'[o].state = t
    BY <1>1, <1>3 DEF RowKept, Row
  <1>5. Moves(o) /\ \A p \in Ops \ {o} : Moves(p)
    BY <1>3, <1>4 DEF Moves, RowKept, Forward
  <1>6. QED
    BY <1>3, <1>4, <1>5 DEF RowsMove

(* Interruption of the active operations of some runs.                     *)
LEMMA RowsInterrupted ==
    ASSUME OperationTypeOK, NEW S \in SUBSET Ops,
           \A o \in S : operations[o].state \in Active,
           operations' = [o \in Ops |-> IF o \in S THEN Interrupted(operations[o])
                                        ELSE operations[o]]
    PROVE  /\ RowsMove
           /\ \A o \in Ops \ S : operations'[o] = operations[o]
           /\ \A o \in S : /\ RowKept(o)
                           /\ operations'[o].state \in {"denied", "unknown"}
                           /\ operations'[o].state = "unknown" => operations[o].state = "running"
  <1>1. operations \in [Ops -> Row]
    BY DEF OperationTypeOK
  <1>2. ASSUME NEW o \in S
        PROVE  /\ Interrupted(operations[o]) \in Row /\ RowKept(o)
               /\ operations'[o].state =
                      IF operations[o].state = "running" /\ IsEffect(o) THEN "unknown" ELSE "denied"
    BY <1>1, InterruptedRow DEF RowKept, IsEffect
  <1>3. operations' \in [Ops -> Row]
    BY <1>1, <1>2
  <1>4. \A o \in S : Moves(o)
    BY <1>2 DEF Moves, Forward, Active
  <1>5. \A o \in Ops \ S : Moves(o) /\ operations'[o] = operations[o]
    BY DEF Moves, RowKept, Forward
  <1>6. QED
    BY <1>2, <1>3, <1>4, <1>5 DEF RowsMove

LEMMA RowsRecovered ==
    ASSUME OperationTypeOK, operations' = Recovered(operations)
    PROVE  /\ RowsMove
           /\ \A o \in Ops : Process(operations[o].run) \in alive => operations'[o] = operations[o]
           /\ \A o \in Ops : operations'[o].run = operations[o].run
  <1> DEFINE S == {o \in Ops : operations[o].state \in Active
                                 /\ Process(operations[o].run) \notin alive}
  <1>1. operations' = [o \in Ops |-> IF o \in S THEN Interrupted(operations[o]) ELSE operations[o]]
    BY DEF Recovered
  <1> HIDE DEF S
  <1>2. /\ S \in SUBSET Ops
        /\ \A o \in S : operations[o].state \in Active /\ Process(operations[o].run) \notin alive
    BY DEF S
  <1>3. QED
    BY <1>1, <1>2, RowsInterrupted DEF RowKept

LEMMA RowsClosed ==
    ASSUME OperationTypeOK, NEW r \in Runs, operations' = InterruptRun(operations, r)
    PROVE  /\ RowsMove
           /\ \A o \in Ops : operations[o].run # r => operations'[o] = operations[o]
           /\ \A o \in Ops : operations'[o].run = operations[o].run
           /\ \A o \in Ops : operations'[o].state \in {"running", "unknown"} =>
                  operations[o].state \in {"running", "unknown"}
  <1> DEFINE S == {o \in Ops : operations[o].state \in Active /\ operations[o].run = r}
  <1>1. operations' = [o \in Ops |-> IF o \in S THEN Interrupted(operations[o]) ELSE operations[o]]
    BY DEF InterruptRun
  <1> HIDE DEF S
  <1>2. S \in SUBSET Ops /\ \A o \in S : operations[o].state \in Active /\ operations[o].run = r
    BY DEF S
  <1>3. /\ RowsMove
        /\ \A o \in Ops \ S : operations'[o] = operations[o]
        /\ \A o \in S : /\ RowKept(o)
                        /\ operations'[o].state \in {"denied", "unknown"}
                        /\ operations'[o].state = "unknown" => operations[o].state = "running"
    BY <1>1, <1>2, RowsInterrupted
  <1>4. QED
    BY <1>2, <1>3 DEF RowKept

(* A new operation does not meet another that stands with the same key.    *)
LEMMA RowsBegin ==
    ASSUME OperationTypeOK, NEW r \in Runs, NEW tool \in Tools, NEW record \in Record,
           NEW o \in Ops, operations[o].state = "free",
           ~Refused(tool, record.config), ~Replayed(tool, record.config),
           operations' = [operations EXCEPT ![o] = NewOp(r, tool, record)]
    PROVE  /\ RowsMove
           /\ \A p \in Ops \ {o} : operations'[p] = operations[p]
           /\ operations'[o].run = r /\ operations'[o].tool = tool
           /\ operations'[o].config = record.config
           /\ operations'[o].state \in {"pending", "approved"}
  <1>1. operations \in [Ops -> Row]
    BY DEF OperationTypeOK
  <1>2. /\ NewOp(r, tool, record) \in Row
        /\ NewOp(r, tool, record).run = r /\ NewOp(r, tool, record).tool = tool
        /\ NewOp(r, tool, record).config = record.config
        /\ NewOp(r, tool, record).state \in {"pending", "approved"}
    BY NewOpRow
  <1>3. /\ operations'[o] = NewOp(r, tool, record) /\ operations' \in [Ops -> Row]
        /\ \A p \in Ops \ {o} : operations'[p] = operations[p]
    BY <1>1, <1>2
  <1>4. ASSUME Effect(tool) = "write", NEW p \in Ops,
               operations[p].tool = tool, operations[p].config = record.config,
               operations[p].state \in Standing
        PROVE  FALSE
    BY <1>4 DEF Refused, Replayed, Uncertain, Busy, Same, Standing
  <1>5. Begins(o)
    BY <1>2, <1>3, <1>4 DEF Begins
  <1>6. \A p \in Ops \ {o} : Moves(p)
    BY <1>3 DEF Moves, RowKept, Forward
  <1>7. QED
    BY <1>2, <1>3, <1>5, <1>6 DEF RowsMove

-------------------------------------------------------------------------------
(* The steps of a session.                                                 *)

(* Only rows of the run itself, or free ones, change.                      *)
Confined(r) ==
    \A o \in Ops : \/ operations'[o] = operations[o]
                   \/ /\ operations'[o].run = r
                      /\ operations[o].run = r \/ operations[o].state = "free"

(* The lock is not taken from a run while an effect of it may be under way. *)
LeaseSafe ==
    \/ unityLease' = unityLease
    \/ /\ unityLease' \in Runs \cup {Nobody}
       /\ \A o \in service.sent : OnUnity(o) /\ operations[o].state \in {"running", "unknown"}
              => unityLease # operations[o].run

(* What a step of the session of r leaves for the invariant: everything    *)
(* but what the service was sent.                                          *)
OwnStep(r) ==
    /\ sessions' = [sessions EXCEPT ![r] = sessions'[r]]
    /\ sessions'[r] \in Session
    /\ RowsMove /\ Confined(r) /\ LeaseSafe
    /\ unityLease' = unityLease \/ unityLease \in {r, Nobody}
    /\ SessionInv(r)'

LEMMA OwnFacts ==
    ASSUME OperationIInv, NEW r \in Runs, InProcess(r)
    PROVE  /\ OperationTypeOK /\ SessionInv(r)
           /\ sessions \in [Runs -> Session] /\ sessions[r] \in Session
           /\ operations \in [Ops -> Row]
           /\ server \in Record /\ server.config \in Hashes
  BY DEF OperationIInv, OperationTypeOK, Record

LEMMA ConfinedUnchanged ==
    ASSUME UNCHANGED operations, NEW r \in Runs
    PROVE  Confined(r)
  BY DEF Confined

(* A call returns: no operation of the run is left running.                *)
LEMMA ReturnedInv ==
    ASSUME OperationIInv, NEW r \in Runs, InProcess(r),
           sessions[r].pc \notin {"sending", "calling", "closed"},
           Returned(r), unityLease' = unityLease,
           \A o \in Ops : operations'[o].run = r /\ operations'[o].state \in {"running", "unknown"}
               => RowKept(o) /\ operations'[o].state = operations[o].state
    PROVE  SessionInv(r)'
  <1>1. SessionInv(r)
    BY OwnFacts
  <1>2. ASSUME NEW o \in Ops, operations'[o].run = r
        PROVE  /\ operations'[o].state # "running"
               /\ operations'[o].state = "unknown" /\ OnUnity(o)' => sessions[r].uncertain
    BY <1>1, <1>2 DEF SessionInv, RowKept, OnUnity, IsEffect
  <1>3. sessions'[r].owns => unityLease' = r
    BY <1>1 DEF SessionInv, Returned
  <1>4. QED
    BY <1>2, <1>3 DEF SessionInv, Returned

(* The same with no change of the registry: a call that comes to nothing.  *)
LEMMA ReturnedOwn ==
    ASSUME OperationIInv, NEW r \in Runs, InProcess(r),
           sessions[r].pc \notin {"sending", "calling", "closed"},
           sessions' = [sessions EXCEPT ![r] = sessions'[r]],
           Returned(r), UNCHANGED <<operations, unityLease>>
    PROVE  OwnStep(r)
  <1>1. OperationTypeOK
    BY OwnFacts
  <1>2. RowsMove /\ Confined(r) /\ LeaseSafe
    BY <1>1, RowsUnchanged, ConfinedUnchanged DEF LeaseSafe
  <1>3. SessionInv(r)'
    BY ReturnedInv DEF RowKept
  <1>4. QED
    BY <1>2, <1>3 DEF OwnStep, Returned

LEMMA BeginOwn ==
    ASSUME OperationIInv, NEW r \in Runs, InProcess(r),
           sessions[r].pc \in {"idle", "listing"},
           sessions[r].pc = "idle" => sessions[r].calls < MaxCalls,
           NEW tool \in Tools, NEW record \in Record,
           Begin(r, tool, record), unityLease' = unityLease
    PROVE  OwnStep(r)
  <1> DEFINE t == sessions'[r]
  <1>1. OperationTypeOK /\ SessionInv(r) /\ sessions \in [Runs -> Session]
    BY OwnFacts
  <1>2. /\ sessions' = [sessions EXCEPT ![r] = t]
        /\ t \in Session /\ t.owns = sessions[r].owns /\ t.uncertain = sessions[r].uncertain
        /\ \/ t.pc = "idle" /\ UNCHANGED operations
           \/ /\ ~Refused(tool, record.config) /\ ~Replayed(tool, record.config)
              /\ t.pc = "waiting" /\ t.op \in Ops /\ t.tool = tool
              /\ t.record = record /\ t.fixed = record.config
              /\ operations[t.op].state = "free"
              /\ operations' = [operations EXCEPT ![t.op] = NewOp(r, tool, record)]
    BY <1>1, BeginStep
  <1>3. CASE t.pc = "idle" /\ UNCHANGED operations
    BY <1>2, <1>3, ReturnedOwn DEF Returned
  <1>4. CASE ~(t.pc = "idle" /\ UNCHANGED operations)
    <2> DEFINE o == t.op
    <2>1. /\ RowsMove
          /\ \A p \in Ops \ {o} : operations'[p] = operations[p]
          /\ operations'[o].run = r /\ operations'[o].tool = tool
          /\ operations'[o].config = record.config
          /\ operations'[o].state \in {"pending", "approved"}
      BY <1>1, <1>2, <1>4, RowsBegin
    <2>2. WorksOn(r)'
      BY <1>2, <1>4, <2>1 DEF WorksOn, Record
    <2>3. ASSUME NEW p \in Ops, operations'[p].run = r
          PROVE  /\ operations'[p].state # "running"
                 /\ operations'[p].state = "unknown" /\ OnUnity(p)' => t.uncertain
      BY <1>1, <1>2, <2>1, <2>3 DEF SessionInv, OnUnity, IsEffect
    <2>4. t.owns => unityLease' = r
      BY <1>1, <1>2 DEF SessionInv
    <2>5. SessionInv(r)'
      BY <1>2, <1>4, <2>1, <2>2, <2>3, <2>4 DEF SessionInv
    <2>6. Confined(r)
      BY <1>2, <1>4, <2>1 DEF Confined
    <2>7. QED
      BY <1>2, <2>1, <2>5, <2>6 DEF OwnStep, LeaseSafe
  <1>5. QED
    BY <1>3, <1>4

LEMMA CallOwn ==
    ASSUME OperationIInv, NEW r \in Runs, NEW tool \in Tools,
           CallInternal(r, tool) \/ CallRemote(r, tool)
    PROVE  OwnStep(r)
  <1>1. /\ InProcess(r) /\ sessions[r].pc = "idle" /\ sessions[r].calls < MaxCalls
        /\ unityLease' = unityLease
    BY DEF CallInternal, CallRemote, At, MySession
  <1>2. /\ OperationTypeOK /\ SessionInv(r) /\ sessions \in [Runs -> Session]
        /\ sessions[r] \in Session /\ server \in Record /\ server.config \in Hashes
    BY <1>1, OwnFacts
  <1>3. CASE CallInternal(r, tool)
    BY <1>1, <1>2, <1>3, BeginOwn DEF CallInternal
  <1>4. CASE CallRemote(r, tool)
    <2> DEFINE s == sessions[r]
               t == [s EXCEPT !.pc = "listing", !.tool = tool, !.record = server,
                              !.fixed = server.config, !.calls = s.calls + 1]
    <2>1. sessions' = [sessions EXCEPT ![r] = t] /\ UNCHANGED operations
      BY <1>2, <1>4 DEF CallRemote
    <2>2. s.calls + 1 \in 0 .. MaxCalls
      BY <1>1, <1>2, OperationAssumption DEF Session
    <2>3. /\ t \in Session /\ t.pc = "listing" /\ t.tool = tool /\ t.record = server
          /\ t.fixed = server.config /\ t.owns = s.owns /\ t.uncertain = s.uncertain
      BY <1>2, <2>2 DEF Session, Steps
    <2>4. sessions'[r] = t
      BY <1>2, <2>1
    <2>5. SessionInv(r)'
      BY <1>1, <1>2, <2>1, <2>3, <2>4 DEF SessionInv, OnUnity, IsEffect
    <2>6. RowsMove /\ Confined(r) /\ LeaseSafe
      BY <1>1, <1>2, <2>1, RowsUnchanged, ConfinedUnchanged DEF LeaseSafe
    <2>7. QED
      BY <1>1, <2>1, <2>3, <2>4, <2>5, <2>6 DEF OwnStep
  <1>5. QED
    BY <1>3, <1>4

LEMMA ListedOwn ==
    ASSUME OperationIInv, NEW r \in Runs, Listed(r)
    PROVE  OwnStep(r)
  <1>1. InProcess(r) /\ sessions[r].pc = "listing" /\ unityLease' = unityLease
    BY DEF Listed, Mismatch, At
  <1>2. SessionInv(r) /\ sessions \in [Runs -> Session]
    BY <1>1, OwnFacts
  <1>3. sessions[r].tool \in Tools /\ sessions[r].record \in Record
    BY <1>1, <1>2 DEF SessionInv
  <1>4. CASE Return(r) /\ UNCHANGED operations
    BY <1>1, <1>2, <1>4, ReturnStep, ReturnedOwn
  <1>5. CASE Begin(r, sessions[r].tool, sessions[r].record)
    BY <1>1, <1>3, <1>5, BeginOwn
  <1>6. QED
    BY <1>4, <1>5 DEF Listed, Mismatch, MySession

LEMMA WaitOwn ==
    ASSUME OperationIInv, NEW r \in Runs, Wait(r)
    PROVE  OwnStep(r)
  <1> DEFINE s == sessions[r]
             o == s.op
  <1>1. /\ InProcess(r) /\ s.pc = "waiting" /\ unityLease' = unityLease
    BY DEF Wait, At
  <1>2. /\ OperationTypeOK /\ SessionInv(r) /\ sessions \in [Runs -> Session] /\ s \in Session
        /\ server \in Record
    BY <1>1, OwnFacts
  <1>3. /\ WorksOn(r) /\ o \in Ops /\ operations[o].run = r
        /\ operations[o].state \in {"pending", "approved", "denied"}
        /\ s.record \in Record /\ s.record.config = s.fixed /\ s.fixed \in Hashes
        /\ s.owns => unityLease = r
    BY <1>1, <1>2 DEF SessionInv, WorksOn
  <1>4. CASE Return(r) /\ UNCHANGED operations
    BY <1>1, <1>2, <1>4, ReturnStep, ReturnedOwn
  <1>5. ASSUME Return(r), NEW t \in {"denied", "expired"},
               operations[o].state \in {"pending", "approved"} \/ t = "expired",
               operations' = SetState(o, t)
        PROVE  OwnStep(r)
    <2>1. /\ RowsMove /\ RowKept(o) /\ operations'[o].state = t
          /\ \A p \in Ops \ {o} : operations'[p] = operations[p]
      <3>1. t \in States /\ Forward(o, operations[o].state, t)
        BY <1>3, <1>5 DEF States, Forward
      <3>2. QED
        BY <1>2, <1>3, <1>5, <3>1, RowsSet
    <2>2. sessions' = [sessions EXCEPT ![r] = sessions'[r]] /\ Returned(r)
      BY <1>2, <1>5, ReturnStep
    <2>3. SessionInv(r)'
      BY <1>1, <2>1, <2>2, ReturnedInv DEF RowKept
    <2>4. Confined(r)
      BY <1>3, <2>1 DEF Confined, RowKept
    <2>5. QED
      BY <1>1, <2>1, <2>2, <2>3, <2>4 DEF OwnStep, Returned, LeaseSafe
  <1>6. CASE /\ Usable(r) /\ UNCHANGED operations
             /\ sessions' = [sessions EXCEPT ![r].pc =
                        IF Remote(Kind(s.record.config.version)) THEN "relisting" ELSE "claiming",
                        ![r].record = server]
    <2> DEFINE pc2 == IF Remote(Kind(s.record.config.version)) THEN "relisting" ELSE "claiming"
               t == [s EXCEPT !.pc = pc2, !.record = server]
    <2>1. /\ t \in Session /\ t.pc = pc2 /\ t.record = server /\ t.op = o /\ t.tool = s.tool
          /\ t.fixed = s.fixed /\ t.owns = s.owns /\ t.uncertain = s.uncertain
      BY <1>2 DEF Session, Steps
    <2>2. sessions'[r] = t /\ sessions' = [sessions EXCEPT ![r] = sessions'[r]]
      BY <1>2, <1>6
    <2>3. server.config = s.fixed
      BY <1>3, <1>6, OperationAssumption DEF Usable
    <2>4. WorksOn(r)'
      BY <1>3, <1>6, <2>1, <2>2 DEF WorksOn
    <2>5. pc2 = "claiming" => ~OnUnity(o)
      BY <1>3 DEF OnUnity, Remote, WorksOn
    <2>6. SessionInv(r)'
      BY <1>1, <1>2, <1>3, <1>6, <2>1, <2>2, <2>3, <2>4, <2>5 DEF SessionInv, OnUnity, IsEffect
    <2>7. QED
      BY <1>1, <1>2, <1>6, <2>1, <2>2, <2>6, RowsUnchanged, ConfinedUnchanged
      DEF OwnStep, LeaseSafe
  <1>7. QED
    BY <1>4, <1>5, <1>6 DEF Wait, MyOp, MySession

LEMMA RelistedOwn ==
    ASSUME OperationIInv, NEW r \in Runs, Relisted(r)
    PROVE  OwnStep(r)
  <1> DEFINE s == sessions[r]
  <1>1. InProcess(r) /\ s.pc = "relisting" /\ unityLease' = unityLease /\ UNCHANGED operations
    BY DEF Relisted, Mismatch, At
  <1>2. /\ OperationTypeOK /\ SessionInv(r) /\ sessions \in [Runs -> Session] /\ s \in Session
    BY <1>1, OwnFacts
  <1>3. CASE Return(r)
    BY <1>1, <1>2, <1>3, ReturnStep, ReturnedOwn
  <1>4. CASE sessions' = [sessions EXCEPT ![r].pc =
                 IF Kind(s.record.config.version) = "unity" /\ Writes(r)
                 THEN "locking" ELSE "claiming"]
    <2> DEFINE pc2 == IF Kind(s.record.config.version) = "unity" /\ Writes(r)
                      THEN "locking" ELSE "claiming"
               t == [s EXCEPT !.pc = pc2]
    <2>1. /\ t \in Session /\ t.pc = pc2 /\ t.op = s.op /\ t.tool = s.tool
          /\ t.fixed = s.fixed /\ t.owns = s.owns /\ t.uncertain = s.uncertain
      BY <1>2 DEF Session, Steps
    <2>2. sessions'[r] = t /\ sessions' = [sessions EXCEPT ![r] = sessions'[r]]
      BY <1>2, <1>4
    <2>3. /\ WorksOn(r) /\ operations[s.op].state \in {"pending", "approved", "denied"}
          /\ s.record.config = s.fixed
          /\ s.owns => unityLease = r
      BY <1>1, <1>2 DEF SessionInv
    <2>4. WorksOn(r)'
      BY <1>1, <2>1, <2>2, <2>3 DEF WorksOn
    <2>5. pc2 = "claiming" => ~OnUnity(s.op)
      BY <2>3 DEF OnUnity, IsEffect, Writes, WorksOn
    <2>6. SessionInv(r)'
      BY <1>1, <1>2, <2>1, <2>2, <2>3, <2>4, <2>5 DEF SessionInv, OnUnity, IsEffect
    <2>7. QED
      BY <1>1, <1>2, <2>1, <2>2, <2>6, RowsUnchanged, ConfinedUnchanged DEF OwnStep, LeaseSafe
  <1>5. QED
    BY <1>3, <1>4 DEF Relisted, Mismatch, MySession

LEMMA LockOwn ==
    ASSUME OperationIInv, NEW r \in Runs, Lock(r)
    PROVE  OwnStep(r)
  <1> DEFINE s == sessions[r]
  <1>1. InProcess(r) /\ s.pc = "locking" /\ UNCHANGED operations
    BY DEF Lock, At
  <1>2. /\ OperationTypeOK /\ SessionInv(r) /\ sessions \in [Runs -> Session] /\ s \in Session
        /\ UncertainKeepsLock /\ SentHasRun
    BY <1>1, OwnFacts DEF OperationIInv
  <1>3. /\ WorksOn(r) /\ operations[s.op].state \in {"pending", "approved", "denied"}
        /\ s.owns => unityLease = r
    BY <1>1, <1>2 DEF SessionInv
  <1>4. RowsMove /\ Confined(r)
    BY <1>1, <1>2, RowsUnchanged, ConfinedUnchanged
  <1>5. CASE Return(r) /\ UNCHANGED unityLease
    BY <1>1, <1>2, <1>5, ReturnStep, ReturnedOwn
  <1>6. ASSUME s.owns \/ unityLease = Nobody,
               unityLease' = IF s.owns THEN unityLease ELSE r,
               NEW pc2 \in {"claiming", "idle"},
               sessions' = [sessions EXCEPT ![r] =
                   [(IF pc2 = "idle" THEN Idle(s) ELSE s) EXCEPT !.pc = pc2, !.owns = TRUE]]
        PROVE  OwnStep(r)
    <2> DEFINE base == IF pc2 = "idle" THEN Idle(s) ELSE s
               t == [base EXCEPT !.pc = pc2, !.owns = TRUE]
    <2>1. base \in Session /\ base.uncertain = s.uncertain
      BY <1>2, IdleSession
    <2>2. pc2 = "claiming" => base = s
      OBVIOUS
    <2>3. /\ t \in Session /\ t.pc = pc2 /\ t.owns = TRUE /\ t.uncertain = s.uncertain
          /\ pc2 = "claiming" => t.op = s.op /\ t.tool = s.tool /\ t.fixed = s.fixed
      BY <2>1, <2>2 DEF Session, Steps
    <2>4. sessions'[r] = t /\ sessions' = [sessions EXCEPT ![r] = sessions'[r]]
      BY <1>2, <1>6
    <2>5. unityLease' = r
      BY <1>3, <1>6
    <2>6. pc2 = "claiming" => WorksOn(r)'
      BY <1>1, <1>3, <2>3, <2>4 DEF WorksOn
    <2>7. SessionInv(r)'
      BY <1>1, <1>2, <1>3, <2>3, <2>4, <2>5, <2>6 DEF SessionInv, OnUnity, IsEffect
    <2>8. LeaseSafe
      BY <1>2, <1>6, OperationAssumption
      DEF LeaseSafe, UncertainKeepsLock, SentHasRun
    <2>9. QED
      BY <1>3, <1>4, <1>6, <2>3, <2>4, <2>7, <2>8 DEF OwnStep
  <1>7. QED
    BY <1>5, <1>6 DEF Lock, MySession

(* A session that changes its step or its flags and nothing else.          *)
LEMMA FlagsOwn ==
    ASSUME OperationIInv, NEW r \in Runs, InProcess(r),
           sessions' = [sessions EXCEPT ![r] = sessions'[r]],
           sessions'[r] \in Session,
           sessions'[r].op = sessions[r].op, sessions'[r].tool = sessions[r].tool,
           sessions'[r].record = sessions[r].record, sessions'[r].fixed = sessions[r].fixed,
           sessions'[r].owns = sessions[r].owns,
           sessions'[r].uncertain = sessions[r].uncertain,
           \/ sessions'[r].pc = sessions[r].pc
           \/ sessions[r].pc = "sending" /\ sessions'[r].pc = "calling",
           UNCHANGED <<operations, unityLease>>
    PROVE  OwnStep(r)
  <1>1. OperationTypeOK /\ SessionInv(r)
    BY OwnFacts
  <1>2. WorksOn(r) => WorksOn(r)'
    BY DEF WorksOn
  <1>3. SessionInv(r)'
    BY <1>1, <1>2 DEF SessionInv, OnUnity, IsEffect
  <1>4. QED
    BY <1>1, <1>3, RowsUnchanged, ConfinedUnchanged DEF OwnStep, LeaseSafe

LEMMA SendOwn ==
    ASSUME OperationIInv, NEW r \in Runs, Send(r) \/ Abort(r) \/ BeginClose(r)
    PROVE  OwnStep(r)
  <1> DEFINE s == sessions[r]
  <1>1. InProcess(r) /\ UNCHANGED <<operations, unityLease>>
    BY DEF Send, Abort, BeginClose, At
  <1>2. sessions \in [Runs -> Session] /\ s \in Session
    BY <1>1, OwnFacts
  <1>3. CASE Send(r)
    <2>1. s.pc = "sending" /\ sessions' = [sessions EXCEPT ![r] = [s EXCEPT !.pc = "calling"]]
      BY <1>2, <1>3 DEF Send, At
    <2>2. [s EXCEPT !.pc = "calling"] \in Session
      BY <1>2 DEF Session, Steps
    <2>3. /\ sessions'[r] = [s EXCEPT !.pc = "calling"]
          /\ sessions' = [sessions EXCEPT ![r] = sessions'[r]]
      BY <1>2, <2>1
    <2>4. QED
      BY <1>1, <1>2, <2>1, <2>2, <2>3, FlagsOwn DEF Session
  <1>4. CASE Abort(r)
    <2>1. sessions' = [sessions EXCEPT ![r] = [s EXCEPT !.aborted = TRUE]]
      BY <1>2, <1>4 DEF Abort
    <2>2. [s EXCEPT !.aborted = TRUE] \in Session
      BY <1>2 DEF Session
    <2>3. /\ sessions'[r] = [s EXCEPT !.aborted = TRUE]
          /\ sessions' = [sessions EXCEPT ![r] = sessions'[r]]
      BY <1>2, <2>1
    <2>4. QED
      BY <1>1, <1>2, <2>2, <2>3, FlagsOwn DEF Session
  <1>5. CASE BeginClose(r)
    <2>1. sessions' = [sessions EXCEPT ![r] = [s EXCEPT !.aborted = TRUE, !.closing = TRUE]]
      BY <1>2, <1>5 DEF BeginClose
    <2>2. [s EXCEPT !.aborted = TRUE, !.closing = TRUE] \in Session
      BY <1>2 DEF Session
    <2>3. /\ sessions'[r] = [s EXCEPT !.aborted = TRUE, !.closing = TRUE]
          /\ sessions' = [sessions EXCEPT ![r] = sessions'[r]]
      BY <1>2, <2>1
    <2>4. QED
      BY <1>1, <1>2, <2>2, <2>3, FlagsOwn DEF Session
  <1>6. QED
    BY <1>3, <1>4, <1>5

LEMMA ClaimOwn ==
    ASSUME OperationIInv, NEW r \in Runs, Claim(r)
    PROVE  OwnStep(r)
  <1> DEFINE s == sessions[r]
             o == s.op
  <1>1. InProcess(r) /\ s.pc = "claiming" /\ unityLease' = unityLease
    BY DEF Claim, At
  <1>2. /\ OperationTypeOK /\ SessionInv(r) /\ sessions \in [Runs -> Session] /\ s \in Session
    BY <1>1, OwnFacts
  <1>3. CASE Return(r) /\ UNCHANGED operations
    BY <1>1, <1>2, <1>3, ReturnStep, ReturnedOwn
  <1>4. CASE /\ Claimable(o)
             /\ operations' = SetState(o, "running")
             /\ sessions' = [sessions EXCEPT ![r].pc = "sending"]
    <2> DEFINE t == [s EXCEPT !.pc = "sending"]
    <2>1. /\ t \in Session /\ t.pc = "sending" /\ t.op = o /\ t.tool = s.tool
          /\ t.fixed = s.fixed /\ t.owns = s.owns /\ t.uncertain = s.uncertain
      BY <1>2 DEF Session, Steps
    <2>2. sessions'[r] = t /\ sessions' = [sessions EXCEPT ![r] = sessions'[r]]
      BY <1>2, <1>4
    <2>3. /\ WorksOn(r) /\ o \in Ops /\ operations[o].run = r
          /\ OnUnity(o) => s.owns
          /\ s.owns => unityLease = r
      BY <1>1, <1>2 DEF SessionInv, WorksOn
    <2>4. /\ RowsMove /\ RowKept(o) /\ operations'[o].state = "running"
          /\ \A p \in Ops \ {o} : operations'[p] = operations[p]
      BY <1>2, <1>4, <2>3, RowsSet DEF Claimable, Forward, States, Active
    <2>5. WorksOn(r)' /\ OnUnity(o)' = OnUnity(o)
      BY <2>1, <2>2, <2>3, <2>4 DEF WorksOn, RowKept, OnUnity, IsEffect
    <2>6. ASSUME NEW p \in Ops, operations'[p].run = r
          PROVE  /\ operations'[p].state = "running" => p = o
                 /\ operations'[p].state = "unknown" /\ OnUnity(p)' => s.uncertain
      <3>1. CASE p = o
        BY <2>4, <3>1
      <3>2. CASE p # o
        BY <1>1, <1>2, <2>4, <2>6, <3>2 DEF SessionInv, OnUnity, IsEffect
      <3>3. QED
        BY <3>1, <3>2
    <2>7. SessionInv(r)'
      BY <1>1, <2>1, <2>2, <2>3, <2>4, <2>5, <2>6 DEF SessionInv
    <2>8. Confined(r)
      BY <2>3, <2>4 DEF Confined, RowKept
    <2>9. QED
      BY <1>1, <2>1, <2>2, <2>4, <2>7, <2>8 DEF OwnStep, LeaseSafe
  <1>5. QED
    BY <1>3, <1>4 DEF Claim, MySession

LEMMA AnswerOwn ==
    ASSUME OperationIInv, NEW r \in Runs, Answer(r)
    PROVE  OwnStep(r)
  <1> DEFINE s == sessions[r]
             o == s.op
             t == [s EXCEPT !.pc = "observing"]
  <1>1. /\ InProcess(r) /\ s.pc = "calling" /\ unityLease' = unityLease
        /\ operations[o].state = "running" /\ operations' = SetState(o, "completed")
        /\ sessions' = [sessions EXCEPT ![r].pc = "observing"]
    BY DEF Answer, At, MySession
  <1>2. /\ OperationTypeOK /\ SessionInv(r) /\ sessions \in [Runs -> Session] /\ s \in Session
    BY <1>1, OwnFacts
  <1>3. /\ t \in Session /\ t.pc = "observing" /\ t.op = o /\ t.tool = s.tool
        /\ t.fixed = s.fixed /\ t.owns = s.owns /\ t.uncertain = s.uncertain
    BY <1>2 DEF Session, Steps
  <1>4. sessions'[r] = t /\ sessions' = [sessions EXCEPT ![r] = sessions'[r]]
    BY <1>1, <1>2
  <1>5. /\ WorksOn(r) /\ o \in Ops /\ operations[o].run = r
        /\ s.owns => unityLease = r
    BY <1>1, <1>2 DEF SessionInv, WorksOn
  <1>6. /\ RowsMove /\ RowKept(o) /\ operations'[o].state = "completed"
        /\ \A p \in Ops \ {o} : operations'[p] = operations[p]
    BY <1>1, <1>2, <1>5, RowsSet DEF Forward, States, Active
  <1>7. WorksOn(r)'
    BY <1>3, <1>4, <1>5, <1>6 DEF WorksOn, RowKept
  <1>8. ASSUME NEW p \in Ops, operations'[p].run = r
        PROVE  /\ operations'[p].state # "running"
               /\ operations'[p].state = "unknown" /\ OnUnity(p)' => s.uncertain
    <2>1. CASE p = o
      BY <1>6, <2>1
    <2>2. CASE p # o
      BY <1>1, <1>2, <1>6, <1>8, <2>2 DEF SessionInv, OnUnity, IsEffect
    <2>3. QED
      BY <2>1, <2>2
  <1>9. SessionInv(r)'
    <2>1. /\ sessions'[r].pc = "observing" /\ sessions'[r].op = o
          /\ sessions'[r].owns = s.owns /\ sessions'[r].uncertain = s.uncertain
      BY <1>3, <1>4
    <2>2. /\ WorksOn(r)' /\ operations'[o].state = "completed"
          /\ sessions'[r].owns => unityLease' = r
      BY <1>1, <1>5, <1>6, <1>7, <2>1
    <2>3. \A p \in Ops : operations'[p].run = r =>
             /\ operations'[p].state # "running"
             /\ operations'[p].state = "unknown" /\ OnUnity(p)' => sessions'[r].uncertain
      BY <1>8, <2>1
    <2> HIDE DEF s, o, t
    <2>4. QED
      BY <2>1, <2>2, <2>3 DEF SessionInv
  <1>10. Confined(r)
    BY <1>5, <1>6 DEF Confined, RowKept
  <1>11. QED
    BY <1>1, <1>3, <1>4, <1>6, <1>9, <1>10 DEF OwnStep, LeaseSafe

(* The catch of a call: an effect on the editor whose outcome is unknown   *)
(* keeps the lock, which the run holds since before it claimed it.         *)
LEMMA FailOwn ==
    ASSUME OperationIInv, NEW r \in Runs, InProcess(r),
           sessions[r].pc \in {"sending", "calling", "observing"},
           MarkUncertain(r), UncertainOp(sessions[r].op), unityLease' = unityLease
    PROVE  OwnStep(r)
  <1> DEFINE s == sessions[r]
             o == s.op
             mark == s.uncertain \/ (s.owns /\ Writes(r))
             t == [Idle(s) EXCEPT !.uncertain = mark]
  <1>1. /\ OperationTypeOK /\ SessionInv(r) /\ sessions \in [Runs -> Session] /\ s \in Session
        /\ operations \in [Ops -> Row]
    BY OwnFacts
  <1>2. sessions'[r] = t /\ sessions' = [sessions EXCEPT ![r] = sessions'[r]]
    BY <1>1 DEF MarkUncertain, MySession
  <1>3. mark \in BOOLEAN
    BY <1>1 DEF Session
  <1>4. t \in Session /\ t.pc = "idle" /\ t.owns = s.owns
    <2>1. Idle(s) \in Session /\ Idle(s).pc = "idle" /\ Idle(s).owns = s.owns
      BY <1>1, IdleSession
    <2>2. QED
      BY <1>3, <2>1 DEF Session
  <1>5. t.uncertain = mark
    <2>1. Idle(s) \in Session
      BY <1>1, IdleSession
    <2>2. QED
      BY <2>1 DEF Session
  <1>6. /\ WorksOn(r) /\ o \in Ops /\ operations[o].run = r
        /\ operations[o].state \in {"running", "completed"}
        /\ operations[o].state = "running" /\ OnUnity(o) => s.owns
        /\ s.owns => unityLease = r
    BY <1>1 DEF SessionInv, WorksOn
  <1>7. /\ RowsMove /\ RowKept(o) /\ operations'[o].state # "running"
        /\ operations'[o].state = "unknown" => operations[o].state = "running"
        /\ \A p \in Ops \ {o} : operations'[p] = operations[p]
    <2>1. CASE operations[o].state = "running"
      <3> DEFINE S == {o}
      <3>1. operations' = [p \in Ops |-> IF p \in S THEN Interrupted(operations[p])
                                         ELSE operations[p]]
        BY <1>1, <1>6, <2>1 DEF UncertainOp
      <3>2. S \in SUBSET Ops /\ \A p \in S : operations[p].state \in Active
        BY <1>6, <2>1 DEF Active
      <3> HIDE DEF S
      <3>3. /\ RowsMove
            /\ \A p \in Ops \ S : operations'[p] = operations[p]
            /\ \A p \in S : /\ RowKept(p)
                            /\ operations'[p].state \in {"denied", "unknown"}
                            /\ operations'[p].state = "unknown" => operations[p].state = "running"
        BY <1>1, <3>1, <3>2, RowsInterrupted
      <3>4. QED
        BY <3>3 DEF S
    <2>2. CASE operations[o].state # "running"
      <3>1. operations' = operations
        BY <2>2 DEF UncertainOp
      <3>2. QED
        BY <1>1, <1>6, <2>2, <3>1, RowsUnchanged DEF RowKept
    <2>3. QED
      BY <2>1, <2>2
  <1>8. operations[o].state = "running" /\ OnUnity(o) => mark
    BY <1>6 DEF OnUnity, IsEffect, Writes, WorksOn
  <1>9. ASSUME NEW p \in Ops, operations'[p].run = r
        PROVE  /\ operations'[p].state # "running"
               /\ operations'[p].state = "unknown" /\ OnUnity(p)' => mark
    <2>1. CASE p = o
      BY <1>7, <1>8, <2>1 DEF OnUnity, IsEffect, RowKept
    <2>2. CASE p # o
      BY <1>1, <1>6, <1>7, <1>9, <2>2 DEF SessionInv, OnUnity, IsEffect
    <2>3. QED
      BY <2>1, <2>2
  <1>10. SessionInv(r)'
    BY <1>2, <1>4, <1>5, <1>6, <1>9 DEF SessionInv
  <1>11. Confined(r)
    BY <1>6, <1>7 DEF Confined, RowKept
  <1>12. QED
    BY <1>2, <1>4, <1>7, <1>10, <1>11 DEF OwnStep, LeaseSafe

LEMMA FailObserveOwn ==
    ASSUME OperationIInv, NEW r \in Runs, Fail(r) \/ Observe(r)
    PROVE  OwnStep(r)
  <1>1. /\ InProcess(r) /\ unityLease' = unityLease
        /\ sessions[r].pc \in {"sending", "calling", "observing"}
    BY DEF Fail, Observe, At
  <1>2. CASE MarkUncertain(r) /\ UncertainOp(sessions[r].op)
    BY <1>1, <1>2, FailOwn
  <1>3. CASE Observe(r) /\ Return(r) /\ UNCHANGED operations
    <2>1. sessions \in [Runs -> Session] /\ sessions[r].pc = "observing"
      BY <1>1, <1>3, OwnFacts DEF Observe, At
    <2>2. QED
      BY <1>1, <1>3, <2>1, ReturnStep, ReturnedOwn
  <1>4. QED
    BY <1>2, <1>3 DEF Fail, Observe, MySession

(* close gives the lock back only when no effect of the run is uncertain.  *)
LEMMA CloseOwn ==
    ASSUME OperationIInv, NEW r \in Runs, Close(r)
    PROVE  OwnStep(r)
  <1> DEFINE s == sessions[r]
             t == [s EXCEPT !.pc = "closed"]
  <1>1. /\ InProcess(r) /\ s.pc = "idle" /\ operations' = InterruptRun(operations, r)
        /\ unityLease' = IF s.owns /\ ~s.uncertain /\ unityLease = r THEN Nobody ELSE unityLease
        /\ sessions' = [sessions EXCEPT ![r].pc = "closed"]
    BY DEF Close, At, MySession
  <1>2. /\ OperationTypeOK /\ SessionInv(r) /\ sessions \in [Runs -> Session] /\ s \in Session
    BY <1>1, OwnFacts
  <1>3. /\ t \in Session /\ t.pc = "closed"
    BY <1>2 DEF Session, Steps
  <1>4. sessions'[r] = t /\ sessions' = [sessions EXCEPT ![r] = sessions'[r]]
    BY <1>1, <1>2
  <1>5. /\ RowsMove
        /\ \A o \in Ops : operations[o].run # r => operations'[o] = operations[o]
        /\ \A o \in Ops : operations'[o].run = operations[o].run
        /\ \A o \in Ops : operations'[o].state \in {"running", "unknown"} =>
               operations[o].state \in {"running", "unknown"}
    BY <1>1, <1>2, RowsClosed
  <1>6. \A o \in Ops : operations[o].run = r => operations[o].state # "running"
    BY <1>1, <1>2 DEF SessionInv
  <1>7. \A o \in Ops : operations'[o].run = r => operations'[o].state # "running"
    BY <1>5, <1>6 DEF RowsMove, Moves, Reviewed, Begins, Forward
  <1>8. SessionInv(r)'
    BY <1>3, <1>4, <1>7 DEF SessionInv
  <1>9. Confined(r)
    BY <1>5 DEF Confined
  <1>10. LeaseSafe
    <2>1. ASSUME NEW o \in service.sent, OnUnity(o), operations[o].state \in {"running", "unknown"},
                 unityLease = operations[o].run, s.owns, ~s.uncertain, unityLease = r
          PROVE  FALSE
      BY <1>1, <1>2, <1>6, <2>1 DEF SessionInv, OperationTypeOK
    <2>2. QED
      BY <1>1, <2>1 DEF LeaseSafe
  <1>11. QED
    BY <1>1, <1>3, <1>4, <1>5, <1>8, <1>9, <1>10 DEF OwnStep

LEMMA SessionStepOwn ==
    ASSUME OperationIInv, NEW r \in Runs,
           \/ SessionStep(r) \/ Abort(r) \/ BeginClose(r)
           \/ \E tool \in Tools : CallInternal(r, tool) \/ CallRemote(r, tool)
    PROVE  OwnStep(r) /\ InProcess(r)
  <1>1. OwnStep(r)
    BY ListedOwn, WaitOwn, RelistedOwn, LockOwn, ClaimOwn, SendOwn, AnswerOwn,
       FailObserveOwn, CloseOwn, CallOwn
    DEF SessionStep
  <1>2. InProcess(r)
    BY DEF SessionStep, Listed, Wait, Relisted, Lock, Claim, Send, Answer, Fail, Observe, Close,
           Abort, BeginClose, CallInternal, CallRemote, At
  <1>3. QED
    BY <1>1, <1>2

-------------------------------------------------------------------------------
(* What the rows say of the service stays true when a step sends no more   *)
(* than a running operation, whose run holds the editor if it needs it.    *)
LEMMA SentStep ==
    ASSUME OperationIInv, RowsMove, LeaseSafe,
           service'.sent \in SUBSET Ops,
           \A o \in service'.sent \ service.sent :
               /\ operations'[o].state = "running" /\ operations'[o].run \in Runs
               /\ OnUnity(o)' => unityLease' = operations'[o].run
    PROVE  RefusedIsNotSent' /\ UncertainKeepsLock' /\ SentHasRun' /\ OneOfAKind'
  <1>1. RefusedIsNotSent /\ UncertainKeepsLock /\ SentHasRun /\ OneOfAKind
    BY DEF OperationIInv
  <1>2. ASSUME NEW o \in service'.sent, o \in service.sent PROVE Moves(o) /\ o \in Ops
    BY <1>1, <1>2 DEF RowsMove, Reviewed, Begins, SentHasRun, OperationIInv, OperationTypeOK
  <1>3. RefusedIsNotSent'
    <2>1. ASSUME NEW o \in service'.sent, Effect(operations'[o].tool) # "read", o \in service.sent
          PROVE  operations'[o].state \in {"running", "completed", "unknown"}
      BY <1>1, <1>2, <2>1 DEF Moves, RowKept, Forward, RefusedIsNotSent, IsEffect
    <2>2. QED
      BY <2>1 DEF RefusedIsNotSent
  <1>4. SentHasRun'
    <2>1. ASSUME NEW o \in service'.sent, o \in service.sent
          PROVE  operations'[o].state # "free" /\ operations'[o].run \in Runs
      BY <1>1, <1>2, <2>1 DEF Moves, RowKept, Forward, SentHasRun
    <2>2. QED
      BY <2>1 DEF SentHasRun
  <1>5. UncertainKeepsLock'
    <2>1. ASSUME NEW o \in service'.sent, o \in service.sent, OnUnity(o)',
                 operations'[o].state \in {"running", "unknown"}
          PROVE  unityLease' = operations'[o].run
      <3>1. OnUnity(o) /\ RowKept(o)
        BY <1>2, <2>1 DEF Moves, RowKept, OnUnity, IsEffect
      <3>2. operations[o].state \in {"running", "completed", "unknown"}
        BY <1>1, <2>1, <3>1 DEF RefusedIsNotSent, OnUnity, IsEffect
      <3>3. operations[o].state \in {"running", "unknown"}
        BY <1>2, <2>1, <3>2 DEF Moves, Forward
      <3>4. unityLease = operations[o].run
        BY <1>1, <2>1, <3>1, <3>3 DEF UncertainKeepsLock, OnUnity, IsEffect
      <3>5. unityLease' = unityLease
        BY <2>1, <3>1, <3>3, <3>4 DEF LeaseSafe
      <3>6. QED
        BY <3>1, <3>4, <3>5 DEF RowKept
    <2>2. ASSUME NEW o \in service'.sent, OnUnity(o)',
                 operations'[o].state \in {"running", "unknown"}
          PROVE  unityLease' = operations'[o].run
      BY <2>1, <2>2
    <2>3. QED
      BY <2>2 DEF UncertainKeepsLock, OnUnity, IsEffect
  <1>6. OneOfAKind'
    <2>1. ASSUME NEW o \in Ops, Moves(o), operations'[o].state \in Standing
          PROVE  operations[o].state \in Standing
      BY <2>1 DEF Moves, Forward, Standing, Active
    <2>2. ASSUME NEW o \in Ops, operations'[o].state \in Standing PROVE ~Reviewed(o)
      BY <2>2 DEF Reviewed, Standing, Active
    <2>3. SUFFICES ASSUME NEW o1 \in Ops, NEW o2 \in Ops,
                          Effect(operations'[o1].tool) = "write",
                          operations'[o1].tool = operations'[o2].tool,
                          operations'[o1].config = operations'[o2].config,
                          operations'[o1].state \in Standing,
                          operations'[o2].state \in Standing,
                          o1 # o2
                   PROVE  FALSE
      BY DEF OneOfAKind
    <2>4. CASE Moves(o1) /\ Moves(o2)
      BY <1>1, <2>1, <2>3, <2>4 DEF OneOfAKind, Moves, RowKept
    <2>5. CASE Begins(o1) /\ operations'[o2] = operations[o2]
      BY <2>3, <2>5 DEF Begins
    <2>6. CASE Begins(o2) /\ operations'[o1] = operations[o1]
      BY <2>3, <2>6 DEF Begins
    <2>7. QED
      BY <2>2, <2>3, <2>4, <2>5, <2>6 DEF RowsMove
  <1>7. QED
    BY <1>3, <1>4, <1>5, <1>6

(* The step of one session leaves the sessions of the other live runs as   *)
(* they are.                                                               *)
LEMMA OwnInv ==
    ASSUME OperationIInv, NEW r \in Runs, InProcess(r), OwnStep(r),
           server' \in Record, alive' = alive, bounds' = bounds,
           service' = service \/ Send(r)
    PROVE  OperationIInv'
  <1>1. OperationTypeOK /\ SessionInv(r)
    BY OwnFacts
  <1>2. /\ service' \in [catalog : Catalogs, sent : SUBSET Ops, done : SUBSET Ops]
        /\ \A o \in service'.sent \ service.sent : Send(r) /\ o = sessions[r].op
    <2>1. CASE service' = service
      BY <1>1, <2>1 DEF OperationTypeOK
    <2>2. CASE Send(r)
      <3>1. sessions[r].op \in Ops
        BY <1>1, <2>2 DEF Send, At, SessionInv, WorksOn
      <3>2. service' = [service EXCEPT !.sent = service.sent \cup {sessions[r].op}]
        BY <2>2 DEF Send, MySession
      <3>3. QED
        BY <1>1, <2>2, <3>1, <3>2 DEF OperationTypeOK
    <2>3. QED
      BY <2>1, <2>2
  <1>3. ASSUME NEW o \in service'.sent \ service.sent
        PROVE  /\ operations'[o].state = "running" /\ operations'[o].run \in Runs
               /\ OnUnity(o)' => unityLease' = operations'[o].run
    <2>1. Send(r) /\ o = sessions[r].op
      BY <1>2, <1>3
    <2>2. /\ UNCHANGED <<operations, unityLease>>
          /\ sessions[r].pc = "sending"
      BY <2>1 DEF Send, At
    <2>3. QED
      BY <1>1, <2>1, <2>2 DEF SessionInv, WorksOn, OnUnity, IsEffect
  <1>4. OperationTypeOK'
    <2>1. operations' \in [Ops -> Row] /\ sessions' \in [Runs -> Session]
      BY <1>1 DEF OperationTypeOK, OwnStep, RowsMove
    <2>2. unityLease' \in Runs \cup {Nobody}
      BY <1>1 DEF OperationTypeOK, OwnStep, LeaseSafe
    <2>3. QED
      BY <1>1, <1>2, <2>1, <2>2 DEF OperationTypeOK
  <1>5. RefusedIsNotSent' /\ UncertainKeepsLock' /\ SentHasRun' /\ OneOfAKind'
    BY <1>2, <1>3, SentStep DEF OwnStep
  <1>6. ASSUME NEW q \in Runs, InProcess(q)' PROVE SessionInv(q)'
    <2>1. CASE q = r
      BY <2>1 DEF OwnStep
    <2>2. CASE q # r
      <3>1. SessionInv(q)
        BY <1>6 DEF OperationIInv, InProcess
      <3>2. sessions'[q] = sessions[q]
        BY <1>1, <2>2 DEF OwnStep, OperationTypeOK
      <3>3. \A o \in Ops : RowQuiet(q, o)
        BY <2>2 DEF OwnStep, Confined, RowQuiet, RowKept
      <3>4. unityLease' = unityLease \/ unityLease # q
        BY <2>2, OperationAssumption DEF OwnStep
      <3>5. QED
        BY <3>1, <3>2, <3>3, <3>4, QuietSession
    <2>3. QED
      BY <2>1, <2>2
  <1>7. QED
    BY <1>4, <1>5, <1>6 DEF OperationIInv

LEMMA SessionStepInv ==
    ASSUME OperationIInv, NEW r \in Runs,
           \/ SessionStep(r) \/ Abort(r) \/ BeginClose(r)
           \/ \E tool \in Tools : CallInternal(r, tool) \/ CallRemote(r, tool)
    PROVE  OperationIInv' /\ RowsMove
  <1>1. OwnStep(r) /\ InProcess(r)
    BY SessionStepOwn
  <1>2. alive' = alive /\ bounds' = bounds
    <2>1. CASE SessionStep(r) \/ Abort(r) \/ BeginClose(r)
      BY <2>1 DEF SessionStep, Listed, Mismatch, Wait, Relisted, Lock, Claim, Send, Answer, Fail,
             Observe, Close, Abort, BeginClose
    <2>2. CASE \E tool \in Tools : CallInternal(r, tool) \/ CallRemote(r, tool)
      BY <2>2 DEF CallInternal, CallRemote
    <2>3. QED
      BY <2>1, <2>2
  <1>3. service' = service \/ Send(r)
    BY DEF SessionStep, Listed, Mismatch, Wait, Relisted, Lock, Claim, Answer, Fail, Observe,
           Close, Abort, BeginClose, CallInternal, CallRemote
  <1>4. server' \in Record
    <2>1. /\ server \in Record /\ service.catalog \in Catalogs
      <3>1. OperationTypeOK
        BY DEF OperationIInv
      <3>2. QED
        BY <3>1 DEF OperationTypeOK
    <2>2. \/ server' = server
          \/ server' = [server EXCEPT !.catalog = service.catalog]
      BY DEF SessionStep, Listed, Mismatch, Wait, Relisted, Lock, Claim, Send, Answer, Fail,
             Observe, Close, Abort, BeginClose, CallInternal, CallRemote
    <2>3. QED
      BY <2>1, <2>2 DEF Record
  <1>5. QED
    BY <1>1, <1>2, <1>3, <1>4, OwnInv DEF OwnStep

-------------------------------------------------------------------------------
(* The user and the world.                                                 *)

(* A step that is no session's: the sessions of live runs rely on nothing  *)
(* that it changes.                                                        *)
LEMMA OtherInv ==
    ASSUME OperationIInv, OperationTypeOK', RowsMove, LeaseSafe,
           service'.sent \subseteq service.sent, alive' \subseteq alive,
           \A q \in Runs : InProcess(q) =>
               /\ sessions'[q] = sessions[q]
               /\ \A o \in Ops : RowQuiet(q, o)
               /\ unityLease' = unityLease \/ unityLease # q \/ sessions[q].pc = "closed"
    PROVE  OperationIInv' /\ RowsMove
  <1>1. service'.sent \in SUBSET Ops
    BY DEF OperationTypeOK
  <1>2. RefusedIsNotSent' /\ UncertainKeepsLock' /\ SentHasRun' /\ OneOfAKind'
    BY <1>1, SentStep
  <1>3. ASSUME NEW q \in Runs, InProcess(q)' PROVE SessionInv(q)'
    <2>1. InProcess(q) /\ SessionInv(q)
      BY <1>3 DEF InProcess, OperationIInv
    <2>2. QED
      BY <2>1, QuietSession
  <1>4. QED
    BY <1>2, <1>3 DEF OperationIInv

(* Nothing happens to the registry's rows.                                 *)
LEMMA RowsQuiet ==
    ASSUME OperationTypeOK, UNCHANGED operations
    PROVE  RowsMove /\ \A q \in Runs, o \in Ops : RowQuiet(q, o)
  BY RowsUnchanged DEF RowQuiet, RowKept

LEMMA OutsideInv ==
    ASSUME OperationIInv, UNCHANGED <<operations, sessions, unityLease>>, OperationTypeOK',
           service'.sent \subseteq service.sent, alive' \subseteq alive
    PROVE  OperationIInv' /\ RowsMove
  <1>1. OperationTypeOK
    BY DEF OperationIInv
  <1>2. QED
    BY <1>1, RowsQuiet, OtherInv DEF LeaseSafe

LEMMA OpenInv ==
    ASSUME OperationIInv, NEW r \in Runs, Open(r)
    PROVE  OperationIInv' /\ RowsMove
  <1> DEFINE pc2 == IF server.config.enabled THEN "idle" ELSE "closed"
             t == [sessions[r] EXCEPT !.pc = pc2]
  <1>1. /\ InProcess(r) /\ sessions[r].pc = "off" /\ operations' = Recovered(operations)
        /\ sessions' = [sessions EXCEPT ![r].pc = pc2]
        /\ UNCHANGED <<server, unityLease, service, alive, bounds>>
    BY DEF Open, At
  <1>2. OperationTypeOK /\ SessionInv(r) /\ sessions \in [Runs -> Session] /\ sessions[r] \in Session
    BY <1>1, OwnFacts
  <1>3. /\ t \in Session /\ t.pc = pc2
        /\ t.owns = sessions[r].owns /\ t.uncertain = sessions[r].uncertain
    BY <1>2 DEF Session, Steps
  <1>4. sessions'[r] = t /\ \A q \in Runs \ {r} : sessions'[q] = sessions[q]
    BY <1>1, <1>2
  <1>5. /\ RowsMove
        /\ \A o \in Ops : Process(operations[o].run) \in alive => operations'[o] = operations[o]
        /\ \A o \in Ops : operations'[o].run = operations[o].run
    BY <1>1, <1>2, RowsRecovered
  <1>6. OperationTypeOK'
    BY <1>1, <1>2, <1>3, <1>5 DEF OperationTypeOK, RowsMove
  <1>7. RefusedIsNotSent' /\ UncertainKeepsLock' /\ SentHasRun' /\ OneOfAKind'
    BY <1>1, <1>5, <1>6, SentStep DEF LeaseSafe, OperationTypeOK
  <1>8. SessionInv(r)'
    BY <1>1, <1>2, <1>3, <1>4, <1>5 DEF SessionInv, InProcess, OnUnity, IsEffect
  <1>9. ASSUME NEW q \in Runs, q # r, InProcess(q) PROVE SessionInv(q)'
    <2>1. SessionInv(q)
      BY <1>9 DEF OperationIInv
    <2>2. \A o \in Ops : RowQuiet(q, o)
      BY <1>5, <1>9 DEF RowQuiet, RowKept, InProcess
    <2>3. QED
      BY <1>1, <1>4, <1>9, <2>1, <2>2, QuietSession
  <1>10. QED
    BY <1>1, <1>5, <1>6, <1>7, <1>8, <1>9 DEF OperationIInv, InProcess

LEMMA OpenAdminInv ==
    ASSUME OperationIInv, OpenAdmin
    PROVE  OperationIInv' /\ RowsMove
  <1>1. /\ operations' = Recovered(operations)
        /\ UNCHANGED <<server, sessions, unityLease, service, alive, bounds>>
    BY DEF OpenAdmin
  <1>2. OperationTypeOK
    BY DEF OperationIInv
  <1>3. /\ RowsMove
        /\ \A o \in Ops : Process(operations[o].run) \in alive => operations'[o] = operations[o]
        /\ \A o \in Ops : operations'[o].run = operations[o].run
    BY <1>1, <1>2, RowsRecovered
  <1>4. OperationTypeOK'
    BY <1>1, <1>2, <1>3 DEF OperationTypeOK, RowsMove
  <1>5. \A q \in Runs : InProcess(q) => \A o \in Ops : RowQuiet(q, o)
    BY <1>3 DEF RowQuiet, RowKept, InProcess
  <1>6. QED
    BY <1>1, <1>3, <1>4, <1>5, OtherInv DEF LeaseSafe

LEMMA SaveInv ==
    ASSUME OperationIInv, NEW config \in Hashes, Save(config)
    PROVE  OperationIInv' /\ RowsMove
  <1>1. /\ OperationTypeOK /\ operations \in [Ops -> Row] /\ bounds \in Bounds
        /\ UNCHANGED <<sessions, unityLease, service, alive>>
    BY DEF OperationIInv, OperationTypeOK, Save
  <1>2. bounds' \in Bounds
    BY <1>1 DEF Save, Bounds
  <1>3. CASE UNCHANGED <<server, operations>>
    <2>1. OperationTypeOK'
      BY <1>1, <1>2, <1>3 DEF OperationTypeOK
    <2>2. QED
      BY <1>1, <1>3, <2>1, OutsideInv
  <1>4. CASE /\ server' = [config |-> config, catalog |-> None, authorized |-> None]
             /\ operations' = [o \in Ops |->
                   IF operations[o].state \in {"pending", "approved"}
                   THEN [operations[o] EXCEPT !.state = "denied"] ELSE operations[o]]
    <2>1. ASSUME NEW o \in Ops, operations[o].state \in {"pending", "approved"}
          PROVE  operations'[o] \in Row /\ RowKept(o) /\ operations'[o].state = "denied"
      BY <1>1, <1>4, <2>1 DEF Row, States, RowKept
    <2>2. ASSUME NEW o \in Ops, operations[o].state \notin {"pending", "approved"}
          PROVE  operations'[o] = operations[o]
      BY <1>4, <2>2
    <2>3. operations' \in [Ops -> Row]
      BY <1>1, <1>4, <2>1, <2>2
    <2>4. RowsMove
      BY <2>1, <2>2, <2>3 DEF RowsMove, Moves, RowKept, Forward
    <2>5. \A q \in Runs, o \in Ops : RowQuiet(q, o)
      BY <2>1, <2>2 DEF RowQuiet, RowKept
    <2>6. OperationTypeOK'
      BY <1>1, <1>2, <1>4, <2>3 DEF OperationTypeOK, Record
    <2>7. QED
      BY <1>1, <2>4, <2>5, <2>6, OtherInv DEF LeaseSafe
  <1>5. QED
    BY <1>3, <1>4 DEF Save

LEMMA AdminInv ==
    ASSUME OperationIInv, Configure \/ Disable \/ Probe \/ Authorize
    PROVE  OperationIInv' /\ RowsMove
  <1>1. /\ OperationTypeOK /\ server \in Record /\ server.config \in Hashes
        /\ service.catalog \in Catalogs
    BY DEF OperationIInv, OperationTypeOK, Record
  <1>2. CASE Configure
    <2>1. PICK v \in Versions : Save([version |-> v, enabled |-> TRUE])
      BY <1>2 DEF Configure
    <2>2. [version |-> v, enabled |-> TRUE] \in Hashes
      BY DEF Hashes
    <2>3. QED
      BY <2>1, <2>2, SaveInv
  <1>3. CASE Disable
    <2>1. [server.config EXCEPT !.enabled = FALSE] \in Hashes
      BY <1>1 DEF Hashes
    <2>2. QED
      BY <1>3, <2>1, SaveInv DEF Disable
  <1>4. CASE Probe \/ Authorize
    <2>1. UNCHANGED <<operations, sessions, unityLease, service, alive, bounds>>
      BY <1>4 DEF Probe, Authorize
    <2>2. server' \in Record
      BY <1>1, <1>4 DEF Probe, Authorize, Record
    <2>3. OperationTypeOK'
      BY <1>1, <2>1, <2>2 DEF OperationTypeOK
    <2>4. QED
      BY <2>1, <2>3, OutsideInv
  <1>5. QED
    BY <1>2, <1>3, <1>4

LEMMA DecideInv ==
    ASSUME OperationIInv, NEW o \in Ops, NEW answer \in {"approved", "denied"}, Decide(o, answer)
    PROVE  OperationIInv' /\ RowsMove
  <1>1. /\ OperationTypeOK /\ operations[o].state = "pending" /\ operations' = SetState(o, answer)
        /\ UNCHANGED <<server, sessions, unityLease, service, alive, bounds>>
    BY DEF OperationIInv, Decide
  <1>2. /\ RowsMove /\ RowKept(o) /\ operations'[o].state = answer
        /\ \A p \in Ops \ {o} : operations'[p] = operations[p]
    BY <1>1, RowsSet DEF States, Active, Forward
  <1>3. \A q \in Runs, p \in Ops : RowQuiet(q, p)
    BY <1>1, <1>2 DEF RowQuiet, RowKept
  <1>4. OperationTypeOK'
    BY <1>1, <1>2 DEF OperationTypeOK, RowsMove
  <1>5. QED
    BY <1>1, <1>2, <1>3, <1>4, OtherInv DEF LeaseSafe

LEMMA ReconcileInv ==
    ASSUME OperationIInv, NEW o \in Ops, Reconcile(o)
    PROVE  OperationIInv' /\ RowsMove
  <1> DEFINE row == [operations[o] EXCEPT !.state = "reconciled"]
  <1>1. /\ OperationTypeOK /\ operations \in [Ops -> Row]
        /\ operations[o].state = "unknown"
        /\ operations' = [operations EXCEPT ![o] = row]
        /\ service' = [service EXCEPT !.sent = service.sent \ {o}]
        /\ UNCHANGED <<server, sessions, unityLease, alive, bounds>>
    BY DEF OperationIInv, OperationTypeOK, Reconcile, SetState
  <1>2. row \in Row /\ row.state = "reconciled"
    BY <1>1 DEF Row, States
  <1>3. /\ operations'[o] = row /\ operations' \in [Ops -> Row]
        /\ \A p \in Ops \ {o} : operations'[p] = operations[p]
    BY <1>1, <1>2
  <1>4. RowKept(o)
    BY <1>1, <1>3 DEF RowKept, Row
  <1>5. /\ service' \in [catalog : Catalogs, sent : SUBSET Ops, done : SUBSET Ops]
        /\ service'.sent = service.sent \ {o}
    BY <1>1 DEF OperationTypeOK
  <1>6. RowsMove
    BY <1>1, <1>2, <1>3, <1>4, <1>5 DEF RowsMove, Reviewed, Moves, RowKept, Forward
  <1>7. \A q \in Runs, p \in Ops : RowQuiet(q, p)
    BY <1>1, <1>2, <1>3, <1>4 DEF RowQuiet, RowKept
  <1>8. OperationTypeOK'
    BY <1>1, <1>3, <1>5 DEF OperationTypeOK
  <1>9. QED
    BY <1>1, <1>5, <1>6, <1>7, <1>8, OtherInv DEF LeaseSafe

LEMMA ExpireInv ==
    ASSUME OperationIInv, NEW o \in Ops, Expire(o)
    PROVE  OperationIInv' /\ RowsMove
  <1> DEFINE row == [operations[o] EXCEPT !.late = TRUE]
  <1>1. /\ OperationTypeOK /\ operations \in [Ops -> Row]
        /\ operations' = [operations EXCEPT ![o] = row]
        /\ UNCHANGED <<server, sessions, unityLease, service, alive, bounds>>
    BY DEF OperationIInv, OperationTypeOK, Expire
  <1>2. row \in Row /\ row.state = operations[o].state
    BY <1>1 DEF Row
  <1>3. /\ operations'[o] = row /\ operations' \in [Ops -> Row]
        /\ \A p \in Ops \ {o} : operations'[p] = operations[p]
    BY <1>1, <1>2
  <1>4. RowKept(o)
    BY <1>1, <1>3 DEF RowKept, Row
  <1>5. RowsMove
    BY <1>2, <1>3, <1>4 DEF RowsMove, Moves, RowKept, Forward
  <1>6. \A q \in Runs, p \in Ops : RowQuiet(q, p)
    BY <1>2, <1>3, <1>4 DEF RowQuiet, RowKept
  <1>7. OperationTypeOK'
    BY <1>1, <1>3 DEF OperationTypeOK
  <1>8. QED
    BY <1>1, <1>5, <1>6, <1>7, OtherInv DEF LeaseSafe

(* The lock is removed when no operation is running or unknown.            *)
LEMMA RemoveLockInv ==
    ASSUME OperationIInv, RemoveLock
    PROVE  OperationIInv' /\ RowsMove
  <1>1. /\ OperationTypeOK /\ unityLease' = Nobody
        /\ sessions[unityLease].pc = "closed" \/ ~InProcess(unityLease)
        /\ \A o \in Ops : operations[o].state \notin {"running", "unknown"}
        /\ UNCHANGED <<server, operations, sessions, service, alive, bounds>>
    BY DEF OperationIInv, RemoveLock
  <1>2. OperationTypeOK'
    BY <1>1 DEF OperationTypeOK
  <1>3. LeaseSafe
    BY <1>1 DEF LeaseSafe, OperationTypeOK
  <1>4. QED
    BY <1>1, <1>2, <1>3, RowsQuiet, OtherInv

LEMMA WorldInv ==
    ASSUME OperationIInv,
           \/ \E o \in Ops : Execute(o)
           \/ \E c \in Catalogs : Release(c)
           \/ \E p \in Processes : Crash(p)
    PROVE  OperationIInv' /\ RowsMove
  <1>1. /\ OperationTypeOK /\ bounds \in Bounds
        /\ service \in [catalog : Catalogs, sent : SUBSET Ops, done : SUBSET Ops]
    BY DEF OperationIInv, OperationTypeOK
  <1>2. ASSUME NEW o \in Ops, Execute(o) PROVE OperationIInv' /\ RowsMove
    <2>1. /\ service' = [service EXCEPT !.done = service.done \cup {o}]
          /\ UNCHANGED <<server, operations, sessions, unityLease, alive, bounds>>
      BY <1>2 DEF Execute
    <2>2. OperationTypeOK' /\ service'.sent = service.sent
      BY <1>1, <2>1 DEF OperationTypeOK
    <2>3. QED
      BY <2>1, <2>2, OutsideInv
  <1>3. ASSUME NEW c \in Catalogs, Release(c) PROVE OperationIInv' /\ RowsMove
    <2>1. /\ service' = [service EXCEPT !.catalog = c]
          /\ bounds.releases > 0 /\ bounds' = [bounds EXCEPT !.releases = bounds.releases - 1]
          /\ UNCHANGED <<server, operations, sessions, unityLease, alive>>
      BY <1>3 DEF Release
    <2>2. bounds' \in Bounds
      BY <1>1, <2>1 DEF Bounds
    <2>3. OperationTypeOK' /\ service'.sent = service.sent
      BY <1>1, <2>1, <2>2 DEF OperationTypeOK
    <2>4. QED
      BY <2>1, <2>3, OutsideInv
  <1>4. ASSUME NEW p \in Processes, Crash(p) PROVE OperationIInv' /\ RowsMove
    <2>1. /\ alive' = alive \ {p}
          /\ bounds.crashes > 0 /\ bounds' = [bounds EXCEPT !.crashes = bounds.crashes - 1]
          /\ UNCHANGED <<server, operations, sessions, unityLease, service>>
      BY <1>4 DEF Crash
    <2>2. bounds' \in Bounds
      BY <1>1, <2>1 DEF Bounds
    <2>3. OperationTypeOK'
      BY <1>1, <2>1, <2>2 DEF OperationTypeOK
    <2>4. QED
      BY <2>1, <2>3, OutsideInv
  <1>5. QED
    BY <1>2, <1>3, <1>4

-------------------------------------------------------------------------------
(* The theorems.                                                           *)

LEMMA OperationInitInv == OperationInit => OperationIInv
  <1> SUFFICES ASSUME OperationInit PROVE OperationIInv
    OBVIOUS
  <1>1. OperationTypeOK
    BY OperationTypeInit
  <1>2. /\ service.sent = {}
        /\ \A o \in Ops : operations[o].state = "free" /\ operations[o].run = Nobody
        /\ \A r \in Runs : sessions[r].pc = "off" /\ ~sessions[r].owns
    BY DEF OperationInit, FreeOp, NewSession
  <1>3. RefusedIsNotSent /\ UncertainKeepsLock /\ SentHasRun /\ OneOfAKind
    BY <1>2 DEF RefusedIsNotSent, UncertainKeepsLock, SentHasRun, OneOfAKind, Standing, Active
  <1>4. \A r \in Runs : SessionInv(r)
    BY <1>2 DEF SessionInv
  <1>5. QED
    BY <1>1, <1>3, <1>4 DEF OperationIInv

LEMMA OperationStep ==
    ASSUME OperationIInv, OperationNext
    PROVE  OperationIInv' /\ RowsMove
  <1>1. bounds.tools \subseteq Tools
    BY DEF OperationIInv, OperationTypeOK, Bounds
  <1>2. CASE \E r \in Runs : Open(r)
    BY <1>2, OpenInv
  <1>3. CASE \E r \in Runs : \/ SessionStep(r) \/ Abort(r) \/ BeginClose(r)
                             \/ \E t \in bounds.tools : CallInternal(r, t) \/ CallRemote(r, t)
    BY <1>1, <1>3, SessionStepInv
  <1>4. CASE OpenAdmin
    BY <1>4, OpenAdminInv
  <1>5. CASE Configure \/ Disable \/ Probe \/ Authorize
    BY <1>5, AdminInv
  <1>6. CASE RemoveLock
    BY <1>6, RemoveLockInv
  <1>7. CASE \E o \in Ops : \/ \E answer \in {"approved", "denied"} : Decide(o, answer)
                            \/ Reconcile(o) \/ Expire(o)
    BY <1>7, DecideInv, ReconcileInv, ExpireInv
  <1>8. CASE \/ \E o \in Ops : Execute(o)
             \/ \E c \in Catalogs : Release(c)
             \/ \E p \in Processes : Crash(p)
    BY <1>8, WorldInv
  <1>9. QED
    BY <1>2, <1>3, <1>4, <1>5, <1>6, <1>7, <1>8 DEF OperationNext

LEMMA OperationStutter ==
    ASSUME OperationIInv, UNCHANGED operationVars
    PROVE  OperationIInv' /\ RowsMove
  <1>1. OperationTypeOK' /\ UNCHANGED <<operations, sessions, unityLease, service, alive>>
    BY DEF OperationIInv, OperationTypeOK, operationVars
  <1>2. QED
    BY <1>1, OutsideInv

(* OperationIInv holds: rows, sessions, the editor's lock and the service  *)
(* fit together at every step of every call, over crashes (registry.ts).   *)
THEOREM OperationIInvariant == OperationSpec => []OperationIInv
  <1>1. OperationIInv /\ [OperationNext]_operationVars => OperationIInv'
    BY OperationStep, OperationStutter
  <1>2. QED
    BY <1>1, OperationInitInv, PTL DEF OperationSpec

(* For every configuration, catalog and number of runs, through crashes    *)
(* and recoveries: nothing refused was sent, no write twice, and an        *)
(* uncertain effect keeps the editor (begin, claim, uncertain,             *)
(* interruptRun, recoverInterrupted, UnityLease).                          *)
THEOREM OperationsTell == OperationSpec => []OperationInv
  <1>1. OperationIInv => OperationInv
    <2>1. ASSUME OperationIInv, NEW o1 \in service.sent, NEW o2 \in service.sent,
                 Effect(operations[o1].tool) = "write",
                 operations[o1].tool = operations[o2].tool,
                 operations[o1].config = operations[o2].config
          PROVE  o1 = o2
      <3>1. RefusedIsNotSent /\ OneOfAKind /\ o1 \in Ops /\ o2 \in Ops
        BY <2>1 DEF OperationIInv, OperationTypeOK
      <3>2. /\ operations[o1].state \in {"running", "completed", "unknown"}
            /\ operations[o2].state \in {"running", "completed", "unknown"}
        BY <2>1, <3>1 DEF RefusedIsNotSent
      <3>3. QED
        BY <2>1, <3>1, <3>2 DEF OneOfAKind, Standing, Active
    <2>2. OperationIInv => WriteHappensOnce
      BY <2>1 DEF WriteHappensOnce
    <2>3. QED
      BY <2>2 DEF OperationIInv, OperationInv
  <1>2. QED
    BY <1>1, OperationIInvariant, PTL

(* No step of a session, the user, the service or a crash brings a settled *)
(* operation back or changes its outcome; only review settles an unknown   *)
(* one, and only expiry covers a refusal.                                  *)
THEOREM OutcomesStay == OperationSpec => OutcomeStays
  <1>1. OperationIInv /\ [OperationNext]_operationVars =>
            [\A o \in Ops :
               /\ operations[o].state \in {"completed", "reconciled", "expired"} =>
                      operations'[o].state = operations[o].state
               /\ operations[o].state = "unknown" =>
                      operations'[o].state \in {"unknown", "reconciled"}
               /\ operations[o].state = "denied" =>
                      operations'[o].state \in {"denied", "expired"}]_operationVars
    <2>1. ASSUME OperationIInv, [OperationNext]_operationVars PROVE RowsMove
      BY <2>1, OperationStep, OperationStutter
    <2>2. ASSUME RowsMove, NEW o \in Ops
          PROVE  /\ operations[o].state \in {"completed", "reconciled", "expired"} =>
                        operations'[o].state = operations[o].state
                 /\ operations[o].state = "unknown" =>
                        operations'[o].state \in {"unknown", "reconciled"}
                 /\ operations[o].state = "denied" =>
                        operations'[o].state \in {"denied", "expired"}
      BY <2>2 DEF RowsMove, Moves, Reviewed, Begins, Forward
    <2>3. QED
      BY <2>1, <2>2
  <1>2. QED
    BY <1>1, OperationIInvariant, PTL DEF OperationSpec, OutcomeStays

-------------------------------------------------------------------------------
(* The steps of a call.                                                    *)

LEMMA GuardedJoin ==
    ASSUME NEW s \in Seq(DesktopSteps), NEW t \in Seq(DesktopSteps), Guarded(s), Guarded(t)
    PROVE  s \o t \in Seq(DesktopSteps) /\ Guarded(s \o t)
  <1>1. /\ s \o t \in Seq(DesktopSteps) /\ Len(s \o t) = Len(s) + Len(t)
        /\ Len(s) \in Nat /\ Len(t) \in Nat
        /\ \A i \in 1..Len(s) + Len(t) :
               (s \o t)[i] = IF i <= Len(s) THEN s[i] ELSE t[i - Len(s)]
    BY ConcatProperties
  <1>2. ASSUME NEW i \in 1..Len(s \o t), (s \o t)[i] = "act"
        PROVE  i >= 3 /\ (s \o t)[i - 1] = "window" /\ (s \o t)[i - 2] = "file"
    <2>1. CASE i <= Len(s)
      <3>1. i \in 1..Len(s) /\ s[i] = "act"
        BY <1>1, <1>2, <2>1
      <3>2. i >= 3 /\ s[i - 1] = "window" /\ s[i - 2] = "file"
        BY <3>1 DEF Guarded
      <3>3. QED
        BY <1>1, <2>1, <3>2
    <2>2. CASE i > Len(s)
      <3>1. i - Len(s) \in 1..Len(t) /\ t[i - Len(s)] = "act"
        BY <1>1, <1>2, <2>2
      <3>2. /\ i - Len(s) >= 3 /\ t[(i - Len(s)) - 1] = "window"
            /\ t[(i - Len(s)) - 2] = "file"
        BY <3>1 DEF Guarded
      <3>3. (i - 1) - Len(s) = (i - Len(s)) - 1 /\ (i - 2) - Len(s) = (i - Len(s)) - 2
        BY <1>1
      <3>4. (s \o t)[i - 1] = t[(i - 1) - Len(s)] /\ (s \o t)[i - 2] = t[(i - 2) - Len(s)]
        BY <1>1, <3>2
      <3>5. QED
        BY <1>1, <3>2, <3>3, <3>4
    <2>3. QED
      BY <1>1, <2>1, <2>2
  <1>3. QED
    BY <1>1, <1>2 DEF Guarded

(* Both kinds of call, with and without the start of the session.          *)
LEMMA StepsGuarded ==
    ASSUME NEW steps \in {ObserveSteps, ActSteps}, NEW first \in {<<>>, StartSteps}
    PROVE  first \o steps \in Seq(DesktopSteps) /\ Guarded(first \o steps)
  <1> DEFINE G(s) == s \in Seq(DesktopSteps) /\ Guarded(s)
  <1>1. /\ G(<<>>) /\ G(CheckSteps) /\ G(<<"observed">>) /\ G(<<"limit">>) /\ G(<<"password">>)
        /\ G(<<"version", "watch">>)
    <2> USE DEF Guarded, DesktopSteps, Commands
    <2>1. G(<<>>)
      OBVIOUS
    <2>2. G(CheckSteps)
      BY DEF CheckSteps
    <2>3. G(<<"observed">>) /\ G(<<"limit">>) /\ G(<<"password">>)
      OBVIOUS
    <2>4. G(<<"version", "watch">>)
      OBVIOUS
    <2>5. QED
      BY <2>1, <2>2, <2>3, <2>4
  <1>2. \A c \in Commands : G(Winapp(c))
    <2> SUFFICES ASSUME NEW c \in Commands PROVE G(Winapp(c))
      OBVIOUS
    <2> DEFINE last == <<c>>
    <2>1. /\ CheckSteps \in Seq(DesktopSteps) /\ last \in Seq(DesktopSteps)
          /\ Len(CheckSteps) = 2 /\ CheckSteps[1] = "file" /\ CheckSteps[2] = "window"
          /\ Len(last) = 1
      BY DEF CheckSteps, DesktopSteps
    <2>2. Winapp(c) = CheckSteps \o last
      BY DEF Winapp
    <2> HIDE DEF last
    <2>3. /\ CheckSteps \o last \in Seq(DesktopSteps) /\ Len(CheckSteps \o last) = 3
          /\ (CheckSteps \o last)[1] = "file" /\ (CheckSteps \o last)[2] = "window"
      BY <2>1, ConcatProperties
    <2>4. QED
      BY <2>2, <2>3 DEF Guarded
  <1>3. G(Winapp("inspect")) /\ G(Winapp("act"))
    BY <1>2 DEF Commands
  <1> HIDE DEF G
  <1>4. \A s, t : G(s) /\ G(t) => G(s \o t)
    BY GuardedJoin DEF G
  <1>5. G(StartSteps) /\ G(ObserveSteps) /\ G(ActSteps)
    BY <1>1, <1>3, <1>4 DEF StartSteps, ObserveSteps, ActSteps
  <1>6. QED
    BY <1>1, <1>4, <1>5 DEF G

(* What is left after a step.                                              *)
LEMMA RestGuarded ==
    ASSUME NEW s \in Seq(DesktopSteps), s # <<>>, GuardedRest(s)
    PROVE  /\ Tail(s) \in Seq(DesktopSteps) /\ GuardedRest(Tail(s))
           /\ Tail(s) # <<>> => Head(Tail(s)) = s[2]
           /\ Tail(s) # <<>> /\ Head(Tail(s)) = "act" => Head(s) = "window"
           /\ Len(Tail(s)) >= 2 => Tail(s)[2] = s[3]
           /\ Len(Tail(s)) >= 2 /\ Tail(s)[2] = "act" => Head(s) = "file"
  <1>1. /\ Tail(s) \in Seq(DesktopSteps) /\ Len(s) \in Nat /\ Len(s) > 0
        /\ Len(Tail(s)) = Len(s) - 1 /\ Head(s) = s[1]
        /\ \A i \in 1..Len(Tail(s)) : Tail(s)[i] = s[i + 1]
    OBVIOUS
  <1>2. Tail(s) # <<>> => Len(Tail(s)) >= 1 /\ Head(Tail(s)) = Tail(s)[1]
    BY <1>1
  <1>3. ASSUME NEW i \in 1..Len(Tail(s)), Tail(s)[i] = "act"
        PROVE  /\ i >= 2 => Tail(s)[i - 1] = "window"
               /\ i >= 3 => Tail(s)[i - 2] = "file"
    <2>1. /\ i + 1 \in 1..Len(s) /\ s[i + 1] = "act"
          /\ s[i + 1 - 1] = "window"
          /\ i + 1 >= 3 => s[i + 1 - 2] = "file"
      BY <1>1, <1>3 DEF GuardedRest
    <2>2. /\ i >= 2 => i - 1 \in 1..Len(Tail(s)) /\ Tail(s)[i - 1] = s[i]
          /\ i >= 3 => i - 2 \in 1..Len(Tail(s)) /\ Tail(s)[i - 2] = s[i - 1]
      BY <1>1
    <2>3. QED
      BY <2>1, <2>2
  <1>4. Tail(s) # <<>> /\ Head(Tail(s)) = "act" => Head(s) = "window"
    <2>1. ASSUME Tail(s) # <<>>, Head(Tail(s)) = "act" PROVE 2 \in 1..Len(s) /\ s[2] = "act"
      BY <1>1, <1>2, <2>1
    <2>2. QED
      BY <1>1, <2>1 DEF GuardedRest
  <1>5. Len(Tail(s)) >= 2 /\ Tail(s)[2] = "act" => Head(s) = "file"
    <2>1. ASSUME Len(Tail(s)) >= 2, Tail(s)[2] = "act" PROVE 3 \in 1..Len(s) /\ s[3] = "act"
      BY <1>1, <2>1
    <2>2. QED
      BY <1>1, <2>1 DEF GuardedRest
  <1>6. QED
    BY <1>1, <1>2, <1>3, <1>4, <1>5 DEF GuardedRest

-------------------------------------------------------------------------------
(* The steps.                                                              *)

LEMMA DesktopTypes ==
    ASSUME DesktopIInv
    PROVE  /\ DesktopTypeOK
           /\ desktop.todo \in Seq(DesktopSteps) /\ GuardedRest(desktop.todo)
           /\ desktop.todo # <<>> => Head(desktop.todo) \in DesktopSteps
                                     /\ Tail(desktop.todo) \in Seq(DesktopSteps)
  BY DEF DesktopIInv, DesktopTypeOK, Desktops

(* Nobody is at a first step that is neither a command nor the watcher's.  *)
LEMMA NobodyAtCheck ==
    ASSUME DesktopIInv, desktop.todo # <<>>
    PROVE  /\ Head(desktop.todo) \notin Commands => native = NoChild
           /\ Head(desktop.todo) # "watch" => watcher # "starting"
  BY DEF DesktopIInv, AtFirstStep

(* A step of the call passes or ends it.                                   *)
LEMMA PassOrFail ==
    ASSUME DesktopIInv, DesktopTypeOK', ChildrenAccounted',
           UNCHANGED <<window, grant, late>>, native' = NoChild, watcher' # "starting",
           \/ desktop'.todo = <<>>
           \/ /\ desktop.todo # <<>> /\ desktop'.todo = Tail(desktop.todo)
              /\ Head(desktop.todo) = "file" => ~grant.expired /\ ~grant.stop
              /\ Head(desktop.todo) = "window" => window = grant.of
    PROVE  DesktopIInv'
  <1> DEFINE s == desktop.todo
             t == desktop'.todo
  <1>1. /\ s \in Seq(DesktopSteps) /\ GuardedRest(s) /\ OfGrant /\ NoneAfterLate
        /\ AtFirstStep
    BY DesktopTypes DEF DesktopIInv
  <1>2. CASE t = <<>>
    <2>1. GuardedRest(t) /\ Len(t) = 0
      BY <1>2 DEF GuardedRest
    <2>2. AtFirstStep' /\ OfGrant' /\ NoneAfterLate'
      BY <1>1, <1>2, <2>1 DEF AtFirstStep, OfGrant, NoneAfterLate, Withdrawn
    <2>3. QED
      BY <2>1, <2>2 DEF DesktopIInv
  <1>3. CASE t # <<>>
    <2>1. /\ s # <<>> /\ t = Tail(s)
          /\ Head(s) = "file" => ~grant.expired /\ ~grant.stop
          /\ Head(s) = "window" => window = grant.of
      BY <1>3
    <2>2. /\ GuardedRest(t)
          /\ Head(t) = "act" => Head(s) = "window"
          /\ Len(t) >= 2 /\ t[2] = "act" => Head(s) = "file"
          /\ Head(t) = s[2] /\ Len(s) >= 2
      <3>1. Len(s) \in Nat /\ Len(Tail(s)) = Len(s) - 1 /\ (Tail(s) # <<>> => Len(s) >= 2)
        BY <1>1, <2>1
      <3>2. QED
        BY <1>1, <1>3, <2>1, <3>1, RestGuarded
    <2>3. AtFirstStep' /\ OfGrant'
      BY <1>1, <2>1 DEF AtFirstStep, OfGrant
    <2>4. ASSUME late = 1 PROVE Withdrawn /\ grant.of # NoWindow
      BY <1>1, <2>4 DEF NoneAfterLate
    <2>5. late = 1 => ~(Head(t) = "act")
      BY <1>1, <2>1, <2>2 DEF NoneAfterLate
    <2>6. late = 1 /\ Len(t) >= 2 /\ t[2] = "act" => window # grant.of
      BY <2>1, <2>2, <2>4 DEF Withdrawn
    <2>7. NoneAfterLate'
      BY <1>1, <2>4, <2>5, <2>6 DEF NoneAfterLate, Withdrawn
    <2>8. QED
      BY <2>2, <2>3, <2>7 DEF DesktopIInv
  <1>4. QED
    BY <1>2, <1>3

(* The call stays where it is.                                             *)
LEMMA SameStep ==
    ASSUME DesktopIInv, DesktopTypeOK', ChildrenAccounted',
           desktop'.todo = desktop.todo, late' = late,
           UNCHANGED <<window, grant>>,
           \/ native' = native
           \/ native # NoChild /\ native' # NoChild
              /\ native'.command = native.command /\ native'.state # "none",
           watcher' = "starting" => desktop.todo # <<>> /\ Head(desktop.todo) = "watch"
    PROVE  DesktopIInv'
  <1>1. OfGrant /\ NoneAfterLate /\ AtFirstStep /\ GuardedRest(desktop.todo)
    BY DEF DesktopIInv
  <1>2. GuardedRest(desktop.todo)' /\ OfGrant'
    BY <1>1 DEF OfGrant
  <1>3. AtFirstStep'
    BY <1>1 DEF AtFirstStep
  <1>4. NoneAfterLate'
    BY <1>1 DEF NoneAfterLate, Withdrawn
  <1>5. QED
    BY <1>2, <1>3, <1>4 DEF DesktopIInv

(* The control is given and withdrawn beside the call.                     *)
LEMMA GrantInv ==
    ASSUME DesktopIInv, ListWindows \/ Bind \/ Revoke \/ GrantExpires \/ WindowReplaced
    PROVE  DesktopIInv'
  <1>1. /\ DesktopTypeOK /\ OfGrant /\ NoneAfterLate /\ AtFirstStep
        /\ GuardedRest(desktop.todo) /\ ChildrenAccounted
        /\ UNCHANGED <<desktop, watcher, native, strays, late>>
    BY DEF DesktopIInv, ListWindows, Bind, Revoke, GrantExpires, WindowReplaced
  <1>2. /\ window \in Windows /\ window # NoWindow
        /\ grant \in [shown : Windows \cup {NoWindow}, of : Windows \cup {NoWindow},
                      expired : BOOLEAN, stop : BOOLEAN]
    BY <1>1, DesktopAssumption DEF DesktopTypeOK
  <1>3. /\ window' \in Windows
        /\ grant' \in [shown : Windows \cup {NoWindow}, of : Windows \cup {NoWindow},
                       expired : BOOLEAN, stop : BOOLEAN]
    BY <1>2 DEF ListWindows, Bind, Revoke, GrantExpires, WindowReplaced
  <1>4. /\ grant.of # NoWindow => grant'.of = grant.of /\ grant'.shown = grant.shown
        /\ grant'.of # NoWindow => grant'.of = grant'.shown
    BY <1>1, <1>2 DEF ListWindows, Bind, Revoke, GrantExpires, WindowReplaced, OfGrant
  <1>5. /\ grant.of # NoWindow /\ grant.stop => grant'.stop
        /\ grant.of # NoWindow /\ grant.expired => grant'.expired
        /\ grant.of # NoWindow /\ window # grant.of => window' = window
    BY <1>1, <1>2 DEF ListWindows, Bind, Revoke, GrantExpires, WindowReplaced, OfGrant
  <1>6. OfGrant'
    BY <1>1, <1>4 DEF OfGrant
  <1>7. NoneAfterLate'
    BY <1>1, <1>4, <1>5 DEF NoneAfterLate, Withdrawn
  <1>8. DesktopTypeOK' /\ AtFirstStep' /\ GuardedRest(desktop.todo)' /\ ChildrenAccounted'
    BY <1>1, <1>3 DEF DesktopTypeOK, AtFirstStep, ChildrenAccounted
  <1>9. QED
    BY <1>6, <1>7, <1>8 DEF DesktopIInv

LEMMA DesktopRecord == DesktopTypeOK => desktop \in Desktops
  BY DEF DesktopTypeOK

LEMMA TodoRecord ==
    ASSUME DesktopTypeOK, NEW t \in Seq(DesktopSteps),
           desktop' = [desktop EXCEPT !.todo = t]
    PROVE  /\ desktop' \in Desktops /\ desktop'.todo = t
           /\ desktop'.unconfirmed = desktop.unconfirmed
  BY DEF DesktopTypeOK, Desktops

LEMMA PassFailRecord ==
    ASSUME DesktopTypeOK, desktop.todo # <<>>, Failed \/ Passed
    PROVE  /\ desktop' \in Desktops
           /\ desktop'.unconfirmed = desktop.unconfirmed
           /\ Failed => desktop'.todo = <<>>
           /\ Passed => desktop'.todo = Tail(desktop.todo)
  <1>1. desktop.todo \in Seq(DesktopSteps) /\ Tail(desktop.todo) \in Seq(DesktopSteps)
    BY DEF DesktopTypeOK, Desktops
  <1>2. ASSUME Failed
        PROVE  /\ desktop' \in Desktops /\ desktop'.todo = <<>>
               /\ desktop'.unconfirmed = desktop.unconfirmed
    <2> DEFINE none == <<>>
    <2>1. none \in Seq(DesktopSteps) /\ desktop' = [desktop EXCEPT !.todo = none]
      BY <1>2 DEF Failed
    <2> HIDE DEF none
    <2>2. /\ desktop' \in Desktops /\ desktop'.todo = none
          /\ desktop'.unconfirmed = desktop.unconfirmed
      BY <2>1, TodoRecord
    <2>3. QED
      BY <2>2 DEF none
  <1>3. ASSUME Passed
        PROVE  /\ desktop' \in Desktops /\ desktop'.todo = Tail(desktop.todo)
               /\ desktop'.unconfirmed = desktop.unconfirmed
    BY <1>1, <1>3, TodoRecord DEF Passed
  <1>4. QED
    BY <1>2, <1>3

LEMMA CheckInv ==
    ASSUME DesktopIInv, CheckFile \/ CheckWindow \/ CheckLimit \/ Observed
    PROVE  DesktopIInv'
  <1> DEFINE s == desktop.todo
  <1>1. /\ s # <<>> /\ Head(s) \in {"file", "window", "limit", "observed"}
        /\ UNCHANGED <<window, grant, watcher, native, strays, late>>
    BY DEF CheckFile, CheckWindow, CheckLimit, Observed
  <1>2. native = NoChild /\ watcher # "starting"
    BY <1>1, NobodyAtCheck DEF Commands
  <1>3. /\ DesktopTypeOK /\ Tail(s) \in Seq(DesktopSteps) /\ ChildrenAccounted
        /\ MaxDesktopActions \in Nat /\ desktop.actions \in 0..MaxDesktopActions
    BY <1>1, DesktopTypes, DesktopRecord, DesktopAssumption DEF DesktopIInv, Desktops
  <1>4. /\ desktop' \in Desktops
        /\ desktop'.unconfirmed = desktop.unconfirmed
        /\ \/ desktop'.todo = <<>>
           \/ /\ desktop'.todo = Tail(s)
              /\ Head(s) = "file" => ~grant.expired /\ ~grant.stop
              /\ Head(s) = "window" => window = grant.of
    <2>1. CASE CheckFile \/ CheckWindow
      <3>1. /\ Failed \/ Passed
            /\ ~Failed /\ Head(s) = "file" => ~grant.expired /\ ~grant.stop
            /\ ~Failed /\ Head(s) = "window" => window = grant.of
        BY <2>1 DEF CheckFile, CheckWindow
      <3>2. QED
        BY <1>1, <1>3, <3>1, PassFailRecord
    <2>2. CASE CheckLimit
      <3>1. Head(s) = "limit"
        BY <2>2 DEF CheckLimit
      <3>2. CASE desktop.actions >= MaxDesktopActions \/ ~desktop.snapshot
        <4> DEFINE n == IF desktop.actions < MaxDesktopActions THEN desktop.actions + 1
                        ELSE desktop.actions
        <4>1. desktop' = [desktop EXCEPT !.todo = <<>>, !.actions = n]
          BY <2>2, <3>2 DEF CheckLimit
        <4>2. n \in 0..MaxDesktopActions /\ <<>> \in Seq(DesktopSteps)
          BY <1>3
        <4>3. QED
          BY <1>3, <4>1, <4>2, DesktopRecord DEF Desktops
      <3>3. CASE ~(desktop.actions >= MaxDesktopActions \/ ~desktop.snapshot)
        <4>1. desktop' = [desktop EXCEPT !.todo = Tail(s), !.actions = desktop.actions + 1]
          BY <2>2, <3>3 DEF CheckLimit
        <4>2. desktop.actions + 1 \in 0..MaxDesktopActions
          BY <1>3, <3>3
        <4>3. QED
          BY <1>3, <3>1, <4>1, <4>2, DesktopRecord DEF Desktops
      <3>4. QED
        BY <3>2, <3>3
    <2>3. CASE Observed
      BY <1>1, <1>3, <2>3, DesktopRecord DEF Observed, Desktops
    <2>4. QED
      BY <2>1, <2>2, <2>3
  <1>5. DesktopTypeOK' /\ ChildrenAccounted'
    BY <1>1, <1>3, <1>4 DEF DesktopTypeOK, ChildrenAccounted
  <1>6. QED
    BY <1>1, <1>2, <1>4, <1>5, PassOrFail

LEMMA CallDesktopInv ==
    ASSUME DesktopIInv, CallDesktop
    PROVE  DesktopIInv'
  <1> DEFINE first == IF desktop.started THEN <<>> ELSE StartSteps
  <1>1. /\ grant.of # NoWindow /\ desktop.todo = <<>> /\ desktop.calls < MaxDesktopCalls
        /\ UNCHANGED <<window, grant, watcher, native, strays, late>>
    BY DEF CallDesktop
  <1>2. PICK steps \in {ObserveSteps, ActSteps} :
            desktop' = [desktop EXCEPT !.calls = desktop.calls + 1, !.todo = first \o steps]
    BY DEF CallDesktop
  <1>3. first \in {<<>>, StartSteps}
    OBVIOUS
  <1>4. first \o steps \in Seq(DesktopSteps) /\ Guarded(first \o steps)
    BY <1>3, StepsGuarded
  <1> DEFINE t == first \o steps
  <1> HIDE DEF first
  <1>5. /\ DesktopTypeOK /\ AtFirstStep /\ OfGrant /\ NoneAfterLate /\ ChildrenAccounted
        /\ desktop.calls + 1 \in 0..MaxDesktopCalls
    BY <1>1, DesktopTypes, DesktopRecord, DesktopAssumption DEF DesktopIInv, Desktops
  <1>6. /\ desktop' \in Desktops
        /\ desktop'.todo = t /\ desktop'.unconfirmed = desktop.unconfirmed
    BY <1>2, <1>4, <1>5, DesktopRecord DEF Desktops
  <1> HIDE DEF t
  <1>7. t \in Seq(DesktopSteps) /\ Guarded(t)
    BY <1>4 DEF t
  <1>8. GuardedRest(t)
    BY <1>7 DEF Guarded, GuardedRest
  <1>9. /\ t # <<>> => Head(t) # "act"
        /\ ~(Len(t) >= 2 /\ t[2] = "act")
    <2>1. t # <<>> => Head(t) = t[1] /\ 1 \in 1..Len(t)
      BY <1>7
    <2>2. Len(t) \in Nat
      BY <1>7
    <2>3. QED
      BY <2>1, <2>2, <1>7 DEF Guarded
  <1>10. AtFirstStep'
    BY <1>1, <1>5 DEF AtFirstStep
  <1>11. OfGrant' /\ NoneAfterLate'
    BY <1>1, <1>5, <1>6, <1>9 DEF OfGrant, NoneAfterLate, Withdrawn
  <1>12. DesktopTypeOK' /\ ChildrenAccounted'
    BY <1>1, <1>5, <1>6 DEF DesktopTypeOK, ChildrenAccounted
  <1>13. QED
    BY <1>6, <1>8, <1>10, <1>11, <1>12 DEF DesktopIInv

LEMMA WatcherInv ==
    ASSUME DesktopIInv, SnapshotAges \/ StartWatcher \/ WatcherReady \/ WatcherEnds \/ CloseDesktop
    PROVE  DesktopIInv'
  <1> DEFINE s == desktop.todo
  <1>1. /\ UNCHANGED <<window, grant, native, strays, late>>
        /\ DesktopTypeOK /\ AtFirstStep /\ ChildrenAccounted
    BY DEF DesktopIInv, SnapshotAges, StartWatcher, WatcherReady, WatcherEnds, CloseDesktop
  <1>2. watcher = "starting" =>
            /\ s # <<>> /\ Head(s) = "watch" /\ native = NoChild
            /\ Tail(s) \in Seq(DesktopSteps)
    BY <1>1, DesktopTypes, NobodyAtCheck DEF AtFirstStep, Commands
  <1>3. /\ desktop' \in Desktops
        /\ desktop'.unconfirmed = desktop.unconfirmed
        /\ watcher' \in {"off", "starting", "ready", "gone"}
    <2>1. CASE SnapshotAges \/ StartWatcher
      BY <1>1, <2>1, DesktopRecord DEF DesktopTypeOK, SnapshotAges, StartWatcher, Desktops
    <2>2. CASE WatcherReady \/ WatcherEnds \/ CloseDesktop
      <3> DEFINE t == desktop'.todo
      <3>1. /\ \/ desktop' = [desktop EXCEPT !.todo = t, !.started = TRUE]
               \/ desktop' = [desktop EXCEPT !.todo = t, !.aborted = TRUE]
               \/ desktop' = [desktop EXCEPT !.todo = t, !.stopped = TRUE, !.aborted = TRUE]
            /\ t = s \/ t = <<>> \/ (watcher = "starting" /\ t = Tail(s))
            /\ watcher' \in {"ready", "gone", watcher}
        <4>1. desktop \in Desktops
          BY <1>1, DesktopRecord
        <4>2. CASE WatcherReady
          <5>1. /\ watcher = "starting" /\ watcher' = "ready"
                /\ desktop' = [desktop EXCEPT !.todo = Tail(s), !.started = TRUE]
            BY <1>2, <4>2 DEF WatcherReady
          <5>2. desktop'.todo = Tail(s)
            BY <4>1, <5>1 DEF Desktops
          <5>3. QED
            BY <5>1, <5>2
        <4>3. CASE WatcherEnds
          <5> DEFINE rest == IF watcher = "starting" THEN <<>> ELSE s
          <5>1. watcher' = "gone" /\ desktop' = [desktop EXCEPT !.todo = rest, !.aborted = TRUE]
            BY <4>3 DEF WatcherEnds
          <5>2. rest = s \/ rest = <<>>
            OBVIOUS
          <5> HIDE DEF rest
          <5>3. desktop'.todo = rest
            BY <4>1, <5>1 DEF Desktops
          <5>4. QED
            BY <5>1, <5>2, <5>3
        <4>4. CASE CloseDesktop
          <5> DEFINE rest == IF watcher = "starting" THEN <<>> ELSE s
          <5>1. /\ watcher' \in {"gone", watcher}
                /\ desktop' = [desktop EXCEPT !.todo = rest, !.stopped = TRUE, !.aborted = TRUE]
            BY <4>4 DEF CloseDesktop
          <5>2. rest = s \/ rest = <<>>
            OBVIOUS
          <5> HIDE DEF rest
          <5>3. desktop'.todo = rest
            BY <4>1, <5>1 DEF Desktops
          <5>4. QED
            BY <5>1, <5>2, <5>3
        <4>5. QED
          BY <2>2, <4>2, <4>3, <4>4
      <3>2. t \in Seq(DesktopSteps)
        <4>1. s \in Seq(DesktopSteps) /\ <<>> \in Seq(DesktopSteps)
          BY DesktopTypes
        <4> HIDE DEF t, s
        <4>2. QED
          BY <1>2, <3>1, <4>1, Zenon
      <3> HIDE DEF t
      <3>3. QED
        BY <1>1, <3>1, <3>2, DesktopRecord DEF DesktopTypeOK, Desktops
    <2>3. QED
      BY <2>1, <2>2
  <1>4. DesktopTypeOK' /\ ChildrenAccounted'
    BY <1>1, <1>3 DEF DesktopTypeOK, ChildrenAccounted
  <1>5. \/ desktop'.todo = s /\ (watcher' = "starting" => s # <<>> /\ Head(s) = "watch")
        \/ /\ watcher = "starting" /\ watcher' # "starting"
           /\ desktop'.todo = <<>> \/ desktop'.todo = Tail(s)
    BY <1>1, <1>2, DesktopRecord
    DEF Desktops, AtFirstStep, SnapshotAges, StartWatcher, WatcherReady, WatcherEnds, CloseDesktop
  <1>6. CASE desktop'.todo = s /\ (watcher' = "starting" => s # <<>> /\ Head(s) = "watch")
    BY <1>1, <1>4, <1>6, SameStep
  <1>7. CASE /\ watcher = "starting" /\ watcher' # "starting"
             /\ desktop'.todo = <<>> \/ desktop'.todo = Tail(s)
    BY <1>1, <1>2, <1>4, <1>7, PassOrFail
  <1>8. QED
    BY <1>5, <1>6, <1>7

(* At most one action begins late: after it no check passes up to another. *)
LEMMA SpawnInv ==
    ASSUME DesktopIInv, Spawn
    PROVE  DesktopIInv'
  <1> DEFINE s == desktop.todo
  <1>1. /\ s # <<>> /\ Head(s) \in Commands /\ native = NoChild
        /\ UNCHANGED <<window, grant, watcher, strays>>
    BY DEF Spawn
  <1>2. /\ DesktopTypeOK /\ AtFirstStep /\ OfGrant /\ NoneAfterLate /\ ChildrenAccounted
        /\ GuardedRest(s) /\ s \in Seq(DesktopSteps) /\ watcher # "starting"
    BY <1>1, DesktopTypes, NobodyAtCheck DEF DesktopIInv, Commands
  <1>3. CASE desktop.aborted
    <2>1. Failed /\ UNCHANGED <<native, late>>
      BY <1>3 DEF Spawn
    <2>2. /\ desktop' \in Desktops
          /\ desktop'.unconfirmed = desktop.unconfirmed /\ desktop'.todo = <<>>
      BY <1>1, <1>2, <2>1, PassFailRecord
    <2>3. DesktopTypeOK' /\ ChildrenAccounted'
      BY <1>1, <1>2, <2>1, <2>2 DEF DesktopTypeOK, ChildrenAccounted
    <2>4. QED
      BY <1>1, <1>2, <2>1, <2>2, <2>3, PassOrFail
  <1>4. CASE ~desktop.aborted
    <2>1. /\ native' = [command |-> Head(s), state |-> "running"]
          /\ late' = late + (IF Head(s) = "act" /\ Withdrawn THEN 1 ELSE 0)
          /\ desktop' = desktop
      BY <1>4 DEF Spawn
    <2>2. late = 1 => Head(s) # "act"
      BY <1>1, <1>2 DEF NoneAfterLate
    <2>3. native'.command = Head(s) /\ native'.state = "running" /\ native' # NoChild
      BY <2>1 DEF NoChild
    <2>4. Len(s) >= 2 /\ s[2] = "act" => Head(s) = "window"
      <3>1. Len(s) \in Nat /\ Head(s) = s[1]
        BY <1>1, <1>2
      <3>2. ASSUME Len(s) >= 2, s[2] = "act" PROVE s[1] = "window"
        <4>1. 2 \in 1..Len(s)
          BY <3>1, <3>2
        <4>2. QED
          BY <1>2, <3>2, <4>1 DEF GuardedRest
      <3>3. QED
        BY <3>1, <3>2
    <2>5. late' \in {0, 1} /\ (late' = 1 => late = 1 \/ Withdrawn)
      BY <1>2, <2>1, <2>2 DEF NoneAfterLate
    <2>6. late' = 1 => grant.of # NoWindow /\ Withdrawn
      BY <1>1, <1>2, <2>5 DEF NoneAfterLate, OfGrant
    <2>7. NoneAfterLate'
      BY <1>1, <2>1, <2>3, <2>4, <2>5, <2>6 DEF NoneAfterLate, Withdrawn, Commands
    <2>8. AtFirstStep' /\ OfGrant' /\ GuardedRest(s)' /\ ChildrenAccounted'
      BY <1>1, <1>2, <2>1, <2>3 DEF AtFirstStep, OfGrant, ChildrenAccounted
    <2>9. DesktopTypeOK'
      BY <1>1, <1>2, <2>1, <2>5 DEF DesktopTypeOK
    <2>10. QED
      BY <2>7, <2>8, <2>9 DEF DesktopIInv
  <1>5. QED
    BY <1>3, <1>4

LEMMA ChildInv ==
    ASSUME DesktopIInv, StopChild \/ ChildCloses \/ StopUnconfirmed \/ StrayEnds
    PROVE  DesktopIInv'
  <1> DEFINE s == desktop.todo
  <1>1. /\ UNCHANGED <<window, grant, watcher, late>>
        /\ DesktopTypeOK /\ AtFirstStep /\ ChildrenAccounted
        /\ strays \in Nat /\ desktop.unconfirmed \in Nat
    BY DEF DesktopIInv, DesktopTypeOK, Desktops, StopChild, ChildCloses, StopUnconfirmed, StrayEnds
  <1>2. native # NoChild =>
            /\ s # <<>> /\ Head(s) = native.command /\ Head(s) \in Commands
            /\ Tail(s) \in Seq(DesktopSteps) /\ watcher # "starting"
    BY <1>1, DesktopTypes DEF AtFirstStep, Commands
  <1>3. CASE StopChild \/ StrayEnds
    <2>1. /\ desktop' = desktop
          /\ \/ native' = native
             \/ /\ native # NoChild /\ native' = [native EXCEPT !.state = "stopping"]
                /\ strays' = strays
      BY <1>3 DEF StopChild, StrayEnds, NoChild
    <2>2. native # NoChild => [native EXCEPT !.state = "stopping"].command = native.command
                              /\ [native EXCEPT !.state = "stopping"].state = "stopping"
      BY <1>1 DEF DesktopTypeOK
    <2>3. strays' \in Nat /\ strays' <= strays
      BY <1>1, <1>3 DEF StopChild, StrayEnds
    <2>4. native' \in [command : Commands \cup {"none"}, state : {"none", "running", "stopping"}]
      BY <1>1, <2>1 DEF DesktopTypeOK
    <2>5. DesktopTypeOK' /\ ChildrenAccounted'
      BY <1>1, <2>1, <2>3, <2>4 DEF DesktopTypeOK, ChildrenAccounted
    <2>6. watcher' = "starting" => s # <<>> /\ Head(s) = "watch"
      BY <1>1 DEF AtFirstStep
    <2>7. \/ native' = native
          \/ /\ native # NoChild /\ native' # NoChild
             /\ native'.command = native.command /\ native'.state # "none"
      <3>1. CASE native' = native
        BY <3>1
      <3>2. CASE native # NoChild /\ native' = [native EXCEPT !.state = "stopping"]
        <4>1. native'.command = native.command /\ native'.state = "stopping"
          BY <2>2, <3>2
        <4>2. native' # NoChild
          BY <4>1 DEF NoChild
        <4>3. QED
          BY <3>2, <4>1, <4>2
      <3>3. QED
        BY <2>1, <3>1, <3>2
    <2>8. QED
      BY <1>1, <2>1, <2>5, <2>6, <2>7, SameStep
  <1>4. CASE ChildCloses \/ StopUnconfirmed
    <2>1. native # NoChild /\ native' = NoChild
      BY <1>4 DEF ChildCloses, StopUnconfirmed, NoChild
    <2>2. desktop'.todo = <<>> \/ desktop'.todo = Tail(s)
      <3>1. CASE ChildCloses
        BY <1>1, <1>2, <2>1, <3>1, PassFailRecord DEF ChildCloses
      <3>2. CASE StopUnconfirmed
        BY <1>1, <3>2, DesktopRecord DEF StopUnconfirmed, Desktops
      <3>3. QED
        BY <1>4, <3>1, <3>2
    <2>3. /\ desktop' \in Desktops
          /\ \/ strays' = strays /\ desktop'.unconfirmed = desktop.unconfirmed
             \/ strays' = strays + 1 /\ desktop'.unconfirmed = desktop.unconfirmed + 1
      <3>1. CASE ChildCloses
        <4>1. strays' = strays /\ (Failed \/ Passed)
          BY <3>1 DEF ChildCloses
        <4>2. QED
          BY <1>1, <1>2, <2>1, <4>1, PassFailRecord
      <3>2. CASE StopUnconfirmed
        <4> DEFINE none == <<>>
        <4>1. /\ strays' = strays + 1
              /\ desktop' = [desktop EXCEPT !.todo = none, !.unconfirmed = desktop.unconfirmed + 1]
          BY <3>2 DEF StopUnconfirmed
        <4>2. desktop.unconfirmed + 1 \in Nat /\ none \in Seq(DesktopSteps)
          BY <1>1
        <4>3. desktop \in Desktops
          BY <1>1, DesktopRecord
        <4> HIDE DEF none
        <4>4. desktop' \in Desktops
          BY <4>1, <4>2, <4>3 DEF Desktops
        <4>5. desktop'.unconfirmed = desktop.unconfirmed + 1
          BY <4>1, <4>3 DEF Desktops
        <4>6. QED
          BY <4>1, <4>4, <4>5
      <3>3. QED
        BY <1>4, <3>1, <3>2
    <2>4. NoChild \in [command : Commands \cup {"none"}, state : {"none", "running", "stopping"}]
      BY DEF NoChild
    <2>5. DesktopTypeOK' /\ ChildrenAccounted'
      BY <1>1, <2>1, <2>3, <2>4 DEF DesktopTypeOK, ChildrenAccounted
    <2>6. QED
      BY <1>1, <1>2, <2>1, <2>2, <2>5, PassOrFail DEF Commands
  <1>5. QED
    BY <1>3, <1>4

LEMMA DesktopInitInv == DesktopInit => DesktopIInv
  <1> SUFFICES ASSUME DesktopInit PROVE DesktopIInv
    OBVIOUS
  <1>1. /\ desktop.todo = <<>> /\ native = NoChild /\ watcher = "off"
        /\ strays = 0 /\ late = 0 /\ grant.of = NoWindow /\ desktop.unconfirmed = 0
    BY DEF DesktopInit
  <1>2. DesktopTypeOK
    BY DesktopAssumption DEF DesktopInit, DesktopTypeOK, Desktops, NoChild
  <1>3. GuardedRest(desktop.todo) /\ AtFirstStep /\ OfGrant /\ NoneAfterLate /\ ChildrenAccounted
    BY <1>1 DEF GuardedRest, AtFirstStep, OfGrant, NoneAfterLate, ChildrenAccounted
  <1>4. QED
    BY <1>2, <1>3 DEF DesktopIInv

LEMMA DesktopStepInv ==
    ASSUME DesktopIInv, [DesktopNext]_desktopVars
    PROVE  DesktopIInv'
  <1>1. CASE UNCHANGED desktopVars
    BY <1>1 DEF desktopVars, DesktopIInv, DesktopTypeOK, AtFirstStep, OfGrant, NoneAfterLate,
                Withdrawn, ChildrenAccounted
  <1>2. CASE DesktopNext
    BY <1>2, CheckInv, CallDesktopInv, WatcherInv, SpawnInv, ChildInv, GrantInv
    DEF DesktopNext, DesktopStep
  <1>3. QED
    BY <1>1, <1>2

(* For every number of calls, actions and windows: at most one action      *)
(* begins after the control was withdrawn, and a child that nobody waits   *)
(* for was reported (DesktopSession.check, nativeProcess).                 *)
THEOREM ControlIsKept == DesktopSpec => []ControlInv
  <1>1. DesktopIInv => ControlInv
    BY DEF DesktopIInv, NoneAfterLate, ControlInv, AtMostOneLateAction
  <1>2. QED
    BY <1>1, DesktopInitInv, DesktopStepInv, PTL DEF DesktopSpec

-------------------------------------------------------------------------------
(* The page of a browser.                                                  *)

Observation == [id : Nat, fresh : BOOLEAN, alone : BOOLEAN, elements : [Refs -> MaybeItem],
                actions : 0 .. MaxActions]
Agents == [waits : Calls \cup {NoElement}, shown : SUBSET [id : Nat, refs : Seq(Item)],
           uncertain : BOOLEAN, patience : Nat, latest : Nat]
PageStates == [doc : Nat, nodes : Seq(Nodes), looks : [Nodes -> Looks], changes : Nat]

LEMMA PageTypes ==
    ASSUME PageIInv
    PROVE  /\ page \in PageStates /\ observed \in Observation
           /\ calls \in [Calls -> PageCalls] /\ agent \in Agents
           /\ AloneInv /\ ActsOnShown
           /\ \A c \in Calls : PageCallInv(calls[c])
           /\ \A a \in agent.shown : a.id <= observed.id
  BY DEF PageIInv, PageTypeOK, PageStates, Observation, Agents

LEMMA NoCallType == NoCall \in PageCalls /\ NoCall.pc = "off"
  BY DEF NoCall, PageCalls, MaybeItem

(* The number of interactions stays within the limit.                      *)
LEMMA CountedType ==
    ASSUME observed \in Observation
    PROVE  /\ Counted \in Observation
           /\ Counted.id = observed.id /\ Counted.alone = observed.alone
           /\ Counted.elements = observed.elements
  <1> DEFINE n == IF Spent THEN observed.actions ELSE observed.actions + 1
  <1>1. n \in 0 .. MaxActions
    BY PageAssumption DEF Observation, Spent
  <1>2. Counted = [observed EXCEPT !.actions = n]
    BY DEF Counted, Observation
  <1> HIDE DEF n
  <1>3. QED
    BY <1>1, <1>2 DEF Observation

(* A step that writes no element, and after which nobody takes a snapshot  *)
(* or has concluded one who did not before: what the snapshots rely on     *)
(* stays.                                                                  *)
LEMMA StillInv ==
    ASSUME PageIInv, page' \in PageStates, observed' \in Observation, agent' \in Agents, ActsOnShown',
           observed'.id = observed.id, observed'.alone = observed.alone,
           observed'.elements = observed.elements, agent'.shown = agent.shown,
           calls' \in [Calls -> PageCalls],
           \A c \in Calls : PageCallInv(calls'[c]),
           \A c \in Calls :
               /\ calls'[c].pc \in Taking => calls[c].pc \in Taking /\ calls'[c].refs = calls[c].refs
               /\ calls'[c].pc = "answer" => calls'[c] = calls[c]
    PROVE  PageIInv'
  <1>1. AloneInv'
    <2> SUFFICES ASSUME observed.alone PROVE AloneInv'
      BY DEF AloneInv
    <2>1. NobodyTakes => NobodyTakes'
      BY DEF NobodyTakes
    <2>3. /\ \A c, d \in Calls : calls[c].pc \in Taking /\ calls[d].pc \in Taking => c = d
          /\ \A c \in Calls : calls[c].pc \in Taking => OnRecord(observed.elements, calls[c].refs)
          /\ \A c \in Calls : calls[c].pc = "answer" /\ calls[c].id = observed.id =>
                 OnRecord(observed.elements, calls[c].refs) /\ NobodyTakes
          /\ \A a \in agent.shown : a.id = observed.id =>
                 OnRecord(observed.elements, a.refs) /\ NobodyTakes
      BY PageTypes DEF AloneInv
    <2>4. \A c, d \in Calls : calls'[c].pc \in Taking /\ calls'[d].pc \in Taking => c = d
      BY <2>3
    <2>5. \A c \in Calls : calls'[c].pc \in Taking => OnRecord(observed.elements, calls'[c].refs)
      BY <2>3
    <2>6. \A c \in Calls : calls'[c].pc = "answer" /\ calls'[c].id = observed.id =>
              OnRecord(observed.elements, calls'[c].refs) /\ NobodyTakes'
      BY <2>1, <2>3
    <2>7. \A a \in agent.shown : a.id = observed.id =>
              OnRecord(observed.elements, a.refs) /\ NobodyTakes'
      BY <2>1, <2>3
    <2>8. QED
      BY <2>4, <2>5, <2>6, <2>7 DEF AloneInv
  <1>2. \A c \in Calls : PageCallInv(calls[c])'
    BY DEF PageCallInv
  <1>3. QED
    BY <1>1, <1>2, PageTypes DEF PageIInv, PageTypeOK, PageStates, Observation, Agents

(* One call goes on.                                                       *)
LEMMA OneGoesOn ==
    ASSUME PageIInv, page' \in PageStates, observed' \in Observation, agent' \in Agents, ActsOnShown',
           observed'.id = observed.id, observed'.alone = observed.alone,
           observed'.elements = observed.elements, agent'.shown = agent.shown,
           NEW c \in Calls, NEW k \in PageCalls, calls' = [calls EXCEPT ![c] = k],
           PageCallInv(k), k.pc # "answer",
           k.pc \in Taking => calls[c].pc \in Taking /\ k.refs = calls[c].refs
    PROVE  PageIInv'
  <1>1. calls' \in [Calls -> PageCalls]
        /\ \A d \in Calls : calls'[d] = IF d = c THEN k ELSE calls[d]
    BY PageTypes
  <1>2. \A d \in Calls : PageCallInv(calls'[d])
    BY <1>1, PageTypes
  <1>3. \A d \in Calls :
            /\ calls'[d].pc \in Taking => calls[d].pc \in Taking /\ calls'[d].refs = calls[d].refs
            /\ calls'[d].pc = "answer" => calls'[d] = calls[d]
    BY <1>1
  <1>4. QED
    BY <1>1, <1>2, <1>3, StillInv

LEMMA EndCallInv ==
    ASSUME PageIInv, NEW c \in Calls, EndCall(c), page' \in PageStates, observed' \in Observation,
           observed'.id = observed.id, observed'.alone = observed.alone,
           observed'.elements = observed.elements, UNCHANGED clicks
    PROVE  PageIInv'
  <1>1. agent' \in Agents /\ agent'.shown = agent.shown
    BY PageTypes DEF EndCall, Agents
  <1>2. PageCallInv(NoCall)
    BY NoCallType DEF PageCallInv, Acting
  <1>3. ActsOnShown'
    BY PageTypes DEF ActsOnShown, StoodStill
  <1>4. QED
    BY <1>1, <1>2, <1>3, NoCallType, OneGoesOn DEF EndCall, Taking

(* One call goes on, and only it.                                          *)
LEMMA CallGoesOn ==
    ASSUME PageIInv, NEW c \in Calls, NEW k \in PageCalls, calls' = [calls EXCEPT ![c] = k],
           UNCHANGED <<page, observed, agent, clicks>>, PageCallInv(k), k.pc # "answer",
           k.pc \in Taking => calls[c].pc \in Taking /\ k.refs = calls[c].refs
    PROVE  PageIInv'
  <1>1. ActsOnShown'
    BY PageTypes DEF ActsOnShown, StoodStill
  <1>2. page' \in PageStates /\ observed' \in Observation /\ agent' \in Agents
    BY PageTypes
  <1>3. QED
    BY <1>1, <1>2, OneGoesOn

LEMMA QueryInv ==
    ASSUME PageIInv, NEW c \in Calls, Query(c) PROVE PageIInv'
  <1> DEFINE found == IF Len(page.nodes) > MaxRefs THEN MaxRefs ELSE Len(page.nodes)
             hs == [i \in 1 .. found |-> HandleOf(page.nodes[i])]
             k == [calls[c] EXCEPT !.pc = "collect", !.handles = hs]
  <1>1. calls[c] \in PageCalls /\ calls[c].pc = "query" /\ page \in PageStates
    BY PageTypes DEF Query
  <1>2. found \in Nat /\ found <= Len(page.nodes)
    BY <1>1, PageAssumption DEF PageStates
  <1>3. hs \in Seq(Handle)
    <2>1. \A i \in 1 .. found : HandleOf(page.nodes[i]) \in Handle
      BY <1>1, <1>2 DEF PageStates, HandleOf, Handle
    <2> HIDE DEF found
    <2>2. QED
      BY <1>2, <2>1
  <1>4. calls' = [calls EXCEPT ![c] = k]
    BY PageTypes DEF Query
  <1> HIDE DEF hs
  <1>5. k \in PageCalls /\ k.pc = "collect" /\ k.refs = calls[c].refs
    BY <1>1, <1>3 DEF PageCalls, Taking
  <1> HIDE DEF k
  <1>6. PageCallInv(k)
    BY <1>5 DEF PageCallInv, Acting
  <1>7. QED
    BY <1>1, <1>4, <1>5, <1>6, CallGoesOn DEF Query, Taking

LEMMA SkipInv ==
    ASSUME PageIInv, NEW c \in Calls, Skip(c) PROVE PageIInv'
  <1> DEFINE k == [calls[c] EXCEPT !.handles = Tail(@)]
  <1>1. calls[c] \in PageCalls /\ calls[c].pc = "collect" /\ calls[c].handles # <<>>
    BY PageTypes DEF Skip
  <1>2. Tail(calls[c].handles) \in Seq(Handle)
    BY <1>1 DEF PageCalls
  <1>3. calls' = [calls EXCEPT ![c] = k]
    BY PageTypes DEF Skip
  <1>4. k \in PageCalls /\ k.pc = "collect" /\ k.refs = calls[c].refs
    BY <1>1, <1>2 DEF PageCalls
  <1> HIDE DEF k
  <1>5. PageCallInv(k)
    BY <1>4 DEF PageCallInv, Acting
  <1>6. QED
    BY <1>1, <1>3, <1>4, <1>5, CallGoesOn DEF Skip, Taking

LEMMA ReadLabelInv ==
    ASSUME PageIInv, NEW c \in Calls, ReadLabel(c) PROVE PageIInv'
  <1> DEFINE h == Head(calls[c].handles)
             t == [doc |-> h.doc, node |-> h.node, by |-> calls[c].id,
                   label |-> page.looks[h.node], signed |-> page.looks[h.node]]
             k == [calls[c] EXCEPT !.pc = "sign", !.handles = Tail(@), !.target = t]
  <1>1. calls[c] \in PageCalls /\ calls[c].pc = "collect" /\ calls[c].handles # <<>> /\ page \in PageStates
    BY PageTypes DEF ReadLabel
  <1>2. Tail(calls[c].handles) \in Seq(Handle) /\ h \in Handle
    BY <1>1 DEF PageCalls
  <1>3. t \in Item
    BY <1>1, <1>2 DEF Item, Handle, PageStates, PageCalls
  <1>4. calls' = [calls EXCEPT ![c] = k]
    BY PageTypes DEF ReadLabel
  <1> HIDE DEF t
  <1>5. k \in PageCalls /\ k.pc = "sign" /\ k.refs = calls[c].refs /\ k.target = t
    BY <1>1, <1>2, <1>3 DEF PageCalls, Taking, MaybeItem
  <1> HIDE DEF k
  <1>6. PageCallInv(k)
    BY <1>3, <1>5 DEF PageCallInv, Acting
  <1>7. QED
    BY <1>1, <1>4, <1>5, <1>6, CallGoesOn DEF ReadLabel, Taking

LEMMA ReadSignatureInv ==
    ASSUME PageIInv, NEW c \in Calls, ReadSignature(c) PROVE PageIInv'
  <1> DEFINE t == [calls[c].target EXCEPT !.signed = page.looks[calls[c].target.node]]
             k == [calls[c] EXCEPT !.pc = "record", !.target = t]
  <1>1. calls[c] \in PageCalls /\ calls[c].pc = "sign" /\ page \in PageStates /\ calls[c].target \in Item
    BY PageTypes DEF ReadSignature, PageCallInv
  <1>2. t \in Item
    BY <1>1 DEF Item, PageStates
  <1>3. calls' = [calls EXCEPT ![c] = k]
    BY <1>1, PageTypes DEF ReadSignature, PageCalls
  <1> HIDE DEF t
  <1>4. k \in PageCalls /\ k.pc = "record" /\ k.refs = calls[c].refs /\ k.target = t
    BY <1>1, <1>2 DEF PageCalls, Taking, MaybeItem
  <1> HIDE DEF k
  <1>5. PageCallInv(k)
    BY <1>2, <1>4 DEF PageCallInv, Acting
  <1>6. QED
    BY <1>1, <1>3, <1>4, <1>5, CallGoesOn DEF ReadSignature, Taking

LEMMA FailsInv ==
    ASSUME PageIInv, NEW c \in Calls, Fails(c) PROVE PageIInv'
  BY PageTypes, EndCallInv DEF Fails

(* The check: under the identity of the snapshot, the element on record is *)
(* the one the agent was shown, if the snapshot was taken alone.           *)
LEMMA PageCheckInv ==
    ASSUME PageIInv, NEW c \in Calls, Check(c) PROVE PageIInv'
  <1> DEFINE e == observed.elements[calls[c].ref]
             k == [calls[c] EXCEPT !.pc = "connected", !.target = e, !.alone = observed.alone]
  <1>1. observed' \in Observation /\ observed'.id = observed.id /\ observed'.alone = observed.alone
        /\ observed'.elements = observed.elements
    BY PageTypes, CountedType DEF Check
  <1>2. CASE EndCall(c)
    BY <1>1, <1>2, PageTypes, EndCallInv DEF Check
  <1>3. CASE ~EndCall(c)
    <2>1. calls[c] \in PageCalls /\ calls[c].pc = "check" /\ PageCallInv(calls[c])
          /\ calls[c].ref \in Refs /\ ~Stale(calls[c]) /\ e # NoElement
      BY <1>3, PageTypes DEF Check, PageCallInv
    <2>2. e \in MaybeItem /\ observed.alone \in BOOLEAN
      BY <2>1, PageTypes DEF Observation
    <2>3. calls' = [calls EXCEPT ![c] = k]
      BY <1>3, PageTypes DEF Check
    <2>4. observed.alone => e = calls[c].shown
      <3> SUFFICES ASSUME observed.alone PROVE e = calls[c].shown
        OBVIOUS
      <3>1. PICK a \in agent.shown : calls[c].id = a.id /\ calls[c].ref < Len(a.refs)
                                     /\ calls[c].shown = a.refs[calls[c].ref + 1]
        BY <2>1 DEF PageCallInv
      <3>2. OnRecord(observed.elements, a.refs)
        BY <2>1, <3>1, PageTypes DEF Stale, AloneInv
      <3>3. QED
        BY <2>1, <3>1, <3>2 DEF OnRecord
    <2> HIDE DEF e
    <2>5. k \in PageCalls /\ k.pc = "connected" /\ k.target = e /\ k.shown = calls[c].shown
          /\ k.alone = observed.alone
      BY <2>1, <2>2 DEF PageCalls, Acting
    <2> HIDE DEF k
    <2>6. PageCallInv(k)
      BY <2>4, <2>5 DEF PageCallInv, Acting
    <2>7. ActsOnShown'
      BY <1>3, PageTypes DEF Check, ActsOnShown, StoodStill
    <2>8. page' \in PageStates /\ agent' = agent /\ agent \in Agents
      BY <1>3, PageTypes DEF Check
    <2>9. QED
      BY <1>1, <2>3, <2>5, <2>6, <2>7, <2>8, OneGoesOn DEF Taking
  <1>4. QED
    BY <1>2, <1>3

LEMMA ConnectedInv ==
    ASSUME PageIInv, NEW c \in Calls, Connected(c) PROVE PageIInv'
  <1> DEFINE k == [calls[c] EXCEPT !.pc = "compare"]
  <1>1. CASE EndCall(c)
    BY <1>1, PageTypes, EndCallInv DEF Connected
  <1>2. CASE ~EndCall(c)
    <2>1. calls[c] \in PageCalls /\ calls[c].pc = "connected" /\ PageCallInv(calls[c])
      BY PageTypes DEF Connected
    <2>2. calls' = [calls EXCEPT ![c] = k]
      BY <1>2, PageTypes DEF Connected
    <2>3. k \in PageCalls /\ k.pc = "compare" /\ k.target = calls[c].target
          /\ k.shown = calls[c].shown /\ k.alone = calls[c].alone
      BY <2>1 DEF PageCalls, Acting
    <2> HIDE DEF k
    <2>4. PageCallInv(k)
      BY <2>1, <2>3 DEF PageCallInv, Acting
    <2>5. UNCHANGED <<page, observed, agent, clicks>>
      BY <1>2 DEF Connected
    <2>6. QED
      BY <2>2, <2>3, <2>4, <2>5, CallGoesOn DEF Taking
  <1>3. QED
    BY <1>1, <1>2

LEMMA CompareInv ==
    ASSUME PageIInv, NEW c \in Calls, Compare(c) PROVE PageIInv'
  <1> DEFINE look == page.looks[calls[c].target.node]
             k == [calls[c] EXCEPT !.pc = "act", !.compared = look]
  <1>1. CASE EndCall(c)
    BY <1>1, PageTypes, EndCallInv DEF Compare
  <1>2. CASE ~EndCall(c)
    <2>1. calls[c] \in PageCalls /\ calls[c].pc = "compare" /\ PageCallInv(calls[c])
          /\ calls[c].target # NoElement /\ page \in PageStates
      BY PageTypes DEF Compare, Alive
    <2>2. look \in Looks
      BY <2>1 DEF PageCalls, MaybeItem, Item, PageStates
    <2>3. calls' = [calls EXCEPT ![c] = k] /\ Signature(look) = Signature(calls[c].target.signed)
      BY <1>2, PageTypes DEF Compare
    <2> HIDE DEF look
    <2>4. k \in PageCalls /\ k.pc = "act" /\ k.target = calls[c].target /\ k.compared = look
          /\ k.shown = calls[c].shown /\ k.alone = calls[c].alone
      BY <2>1, <2>2 DEF PageCalls, Acting
    <2> HIDE DEF k
    <2>5. PageCallInv(k)
      BY <2>1, <2>3, <2>4 DEF PageCallInv, Acting
    <2>6. UNCHANGED <<page, observed, agent, clicks>>
      BY <1>2 DEF Compare
    <2>7. QED
      BY <2>3, <2>4, <2>5, <2>6, CallGoesOn DEF Taking
  <1>3. QED
    BY <1>1, <1>2

(* The action: the element in hand is the one shown, and what it looks     *)
(* like follows from the comparison.                                       *)
LEMMA ActInv ==
    ASSUME PageIInv, NEW c \in Calls, Act(c) PROVE PageIInv'
  <1> DEFINE x == [shown |-> calls[c].shown, target |-> calls[c].target, compared |-> calls[c].compared,
                   acted |-> page.looks[calls[c].target.node], alone |-> calls[c].alone]
             k == [calls[c] EXCEPT !.pc = "snapshot", !.target = NoElement]
  <1>1. calls[c] \in PageCalls /\ calls[c].pc = "act" /\ PageCallInv(calls[c])
        /\ calls[c].target # NoElement
    BY PageTypes DEF Act, Attached, Alive
  <1>2. clicks' = clicks \cup {x}
    BY DEF Act
  <1>3. x.alone => x.target = x.shown
    BY <1>1 DEF PageCallInv, Acting
  <1>4. x.alone /\ StoodStill(x) => Signature(x.acted) = Signature(x.shown.label)
    <2> SUFFICES ASSUME x.alone, StoodStill(x) PROVE Signature(x.acted) = Signature(x.shown.label)
      OBVIOUS
    <2>1. Signature(x.compared) = Signature(x.target.signed)
      BY <1>1 DEF PageCallInv
    <2> HIDE DEF x
    <2>2. x.shown.label = x.shown.signed /\ x.acted = x.compared
      BY DEF StoodStill
    <2>3. QED
      BY <1>3, <2>1, <2>2
  <1> HIDE DEF x
  <1>5. ActsOnShown'
    BY <1>2, <1>3, <1>4, PageTypes DEF ActsOnShown, StoodStill
  <1>6. calls' = [calls EXCEPT ![c] = k]
    BY PageTypes DEF Act
  <1>7. k \in PageCalls /\ k.pc = "snapshot"
    BY <1>1 DEF PageCalls, MaybeItem
  <1> HIDE DEF k
  <1>8. PageCallInv(k)
    BY <1>7 DEF PageCallInv, Acting
  <1>9. QED
    BY <1>5, <1>6, <1>7, <1>8, PageTypes, OneGoesOn DEF Act, Taking

LEMMA NavigateInv ==
    ASSUME PageIInv, NEW c \in Calls, Navigate(c) PROVE PageIInv'
  <1> DEFINE k == [calls[c] EXCEPT !.pc = "snapshot"]
  <1>1. observed' \in Observation /\ observed'.id = observed.id /\ observed'.alone = observed.alone
        /\ observed'.elements = observed.elements
    BY PageTypes, CountedType DEF Navigate
  <1>2. page' \in PageStates
    BY PageTypes, PageAssumption DEF Navigate, PageStates, Opened
  <1>3. CASE EndCall(c)
    BY <1>1, <1>2, <1>3, EndCallInv DEF Navigate
  <1>4. CASE ~EndCall(c)
    <2>1. calls[c] \in PageCalls /\ calls[c].pc = "navigate"
      BY PageTypes DEF Navigate
    <2>2. calls' = [calls EXCEPT ![c] = k] /\ UNCHANGED <<agent, clicks>>
      BY <1>4, PageTypes DEF Navigate
    <2>3. k \in PageCalls /\ k.pc = "snapshot"
      BY <2>1 DEF PageCalls
    <2> HIDE DEF k
    <2>4. PageCallInv(k)
      BY <2>3 DEF PageCallInv, Acting
    <2>5. ActsOnShown'
      BY <2>2, PageTypes DEF ActsOnShown, StoodStill
    <2>6. agent' \in Agents /\ agent'.shown = agent.shown
      BY <2>2, PageTypes
    <2>7. QED
      BY <1>1, <1>2, <2>2, <2>3, <2>4, <2>5, <2>6, OneGoesOn DEF Taking
  <1>5. QED
    BY <1>3, <1>4

(* A new call: it names a snapshot the agent was shown.                    *)
LEMMA CallToolInv ==
    ASSUME PageIInv, NEW c \in Calls, CallTool(c) PROVE PageIInv'
  <1>1. agent' \in Agents /\ agent'.shown = agent.shown
    BY PageTypes DEF CallTool, Agents
  <1>2. \E k \in PageCalls : /\ k.pc \in {"snapshot", "navigate", "check"} /\ PageCallInv(k)
                             /\ calls' = [calls EXCEPT ![c] = k]
    <2>1. CASE AskSnapshot(c)
      <3> DEFINE k == [NoCall EXCEPT !.pc = "snapshot"]
      <3>1. k \in PageCalls /\ k.pc = "snapshot"
        BY NoCallType DEF PageCalls
      <3>2. calls' = [calls EXCEPT ![c] = k]
        BY <2>1 DEF AskSnapshot
      <3> HIDE DEF k
      <3>3. QED
        BY <3>1, <3>2 DEF PageCallInv, Acting
    <2>2. CASE AskNavigation(c)
      <3> DEFINE k == [NoCall EXCEPT !.pc = "navigate", !.effect = TRUE]
      <3>1. k \in PageCalls /\ k.pc = "navigate"
        BY NoCallType DEF PageCalls
      <3>2. calls' = [calls EXCEPT ![c] = k]
        BY <2>2 DEF AskNavigation
      <3> HIDE DEF k
      <3>3. QED
        BY <3>1, <3>2 DEF PageCallInv, Acting
    <2>3. CASE AskAction(c)
      <3>1. PICK a \in agent.shown, r \in Refs :
              /\ r < Len(a.refs)
              /\ calls' = [calls EXCEPT ![c] = [NoCall EXCEPT !.pc = "check", !.effect = TRUE, !.id = a.id,
                                                              !.ref = r, !.shown = a.refs[r + 1]]]
        BY <2>3 DEF AskAction
      <3> DEFINE k == [NoCall EXCEPT !.pc = "check", !.effect = TRUE, !.id = a.id,
                                     !.ref = r, !.shown = a.refs[r + 1]]
      <3>2. a \in [id : Nat, refs : Seq(Item)]
        BY PageTypes DEF Agents
      <3>3. r \in Nat /\ a.refs[r + 1] \in Item
        BY <3>1, <3>2, PageAssumption DEF Refs
      <3>4. k \in PageCalls /\ k.pc = "check" /\ k.id = a.id /\ k.ref = r /\ k.shown = a.refs[r + 1]
        BY <3>2, <3>3, NoCallType DEF PageCalls, MaybeItem
      <3> HIDE DEF k
      <3>5. PageCallInv(k)
        BY <3>1, <3>4 DEF PageCallInv, Acting
      <3>6. calls' = [calls EXCEPT ![c] = k]
        BY <3>1 DEF k
      <3>7. QED
        BY <3>4, <3>5, <3>6
    <2>4. QED
      BY <2>1, <2>2, <2>3 DEF CallTool
  <1>3. ActsOnShown'
    BY PageTypes DEF CallTool, ActsOnShown, StoodStill
  <1>4. QED
    BY <1>1, <1>2, <1>3, PageTypes, OneGoesOn DEF CallTool, Taking

(* Calls that were away from the page have their handles disposed of.      *)
LEMMA DisposedInv ==
    ASSUME NEW k \in PageCalls, PageCallInv(k), observed \in Observation
    PROVE  /\ Disposed(k) \in PageCalls /\ Disposed(k).pc = k.pc /\ Disposed(k).id = k.id
           /\ Disposed(k).ref = k.ref /\ Disposed(k).shown = k.shown /\ Disposed(k).alone = k.alone
           /\ Disposed(k).target \in {k.target, NoElement} /\ Disposed(k).compared = k.compared
           /\ k.pc \notin Acting => Disposed(k) = k
  <1> DEFINE d == [k EXCEPT !.target = NoElement]
  <1>1. d \in PageCalls /\ d.pc = k.pc /\ d.id = k.id /\ d.ref = k.ref /\ d.shown = k.shown
        /\ d.alone = k.alone /\ d.target = NoElement /\ d.compared = k.compared
    BY DEF PageCalls, MaybeItem
  <1>2. Disposed(k) = IF k.pc \in Acting /\ k.target \in Range(observed.elements) THEN d ELSE k
    BY DEF Disposed
  <1> HIDE DEF d
  <1>3. QED
    BY <1>1, <1>2

(* The identity of a snapshot that begins is on no answer yet.             *)
LEMMA BeginSnapshotInv ==
    ASSUME PageIInv, NEW c \in Calls, BeginSnapshot(c) PROVE PageIInv'
  <1> DEFINE o == Restart(c)
             k == [NoCall EXCEPT !.pc = "query", !.effect = calls[c].effect, !.id = observed.id + 1]
  <1>1. calls[c] \in PageCalls /\ observed \in Observation /\ agent \in Agents /\ page \in PageStates
    BY PageTypes
  <1>2. o \in Observation /\ o.id = observed.id + 1 /\ o.alone = AloneHere(c)
    <2> DEFINE none == [n \in Refs |-> NoElement]
               b == AloneHere(c)
               i == observed.id + 1
    <2>1. b \in BOOLEAN
      BY DEF AloneHere
    <2>2. none \in [Refs -> MaybeItem] /\ i \in Nat
      BY <1>1 DEF MaybeItem, Observation
    <2>3. o = [observed EXCEPT !.id = i, !.fresh = TRUE, !.alone = b, !.elements = none]
      BY DEF Restart
    <2> HIDE DEF o, none, b, i
    <2>4. o \in Observation /\ o.id = i /\ o.alone = b
      BY <1>1, <2>1, <2>2, <2>3 DEF Observation
    <2>5. QED
      BY <2>4 DEF b, i
  <1>3. k \in PageCalls /\ k.pc = "query" /\ k.refs = <<>>
    <2>1. calls[c].effect \in BOOLEAN /\ observed.id + 1 \in Nat
      BY <1>1 DEF PageCalls, Observation
    <2>2. NoCall.refs = <<>>
      BY DEF NoCall
    <2>3. QED
      BY <2>1, <2>2, NoCallType DEF PageCalls, Taking
  <1>4. observed' = o /\ calls' = [d \in Calls |-> IF d = c THEN k ELSE Disposed(calls[d])]
    BY DEF BeginSnapshot
  <1> HIDE DEF o, k
  <1>5. calls' \in [Calls -> PageCalls]
    BY <1>1, <1>3, <1>4, PageTypes, DisposedInv
  <1>6. \A d \in Calls : calls'[d].pc = IF d = c THEN "query" ELSE calls[d].pc
    BY <1>3, <1>4, PageTypes, DisposedInv
  <1>7. \A d \in Calls : calls'[d].pc = "answer" => calls'[d].id < observed'.id
    <2> SUFFICES ASSUME NEW d \in Calls, calls'[d].pc = "answer" PROVE calls'[d].id < observed'.id
      OBVIOUS
    <2>1. d # c /\ calls[d].pc = "answer" /\ calls'[d] = calls[d]
      BY <1>4, <1>6, PageTypes, DisposedInv DEF Acting
    <2>2. calls[d] \in PageCalls /\ calls[d].id <= observed.id
      BY <2>1, PageTypes DEF PageCallInv
    <2>3. QED
      BY <1>1, <1>2, <1>4, <2>1, <2>2 DEF PageCalls, Observation
  <1>8. \A a \in agent'.shown : a.id < observed'.id
    BY <1>1, <1>2, <1>4, PageTypes DEF BeginSnapshot, Agents, Observation
  <1>9. AloneInv'
    <2> SUFFICES ASSUME observed'.alone PROVE AloneInv'
      BY DEF AloneInv
    <2>1. \A d \in Calls : calls'[d].pc \in Taking => d = c
      BY <1>2, <1>4, <1>6 DEF AloneHere
    <2>2. OnRecord(observed'.elements, calls'[c].refs)
      BY <1>3, <1>4, PageAssumption DEF OnRecord, Refs
    <2>3. \A a \in agent'.shown : a.id # observed'.id
      BY <1>1, <1>2, <1>4, <1>8 DEF BeginSnapshot, Agents, Observation
    <2>4. \A d \in Calls : calls'[d].pc = "answer" => calls'[d].id # observed'.id
      BY <1>2, <1>4, <1>5, <1>7 DEF PageCalls, Observation
    <2>5. QED
      BY <2>1, <2>2, <2>3, <2>4 DEF AloneInv
  <1>10. \A d \in Calls : PageCallInv(calls[d])'
    <2> SUFFICES ASSUME NEW d \in Calls PROVE PageCallInv(calls[d])'
      OBVIOUS
    <2>1. CASE d = c
      BY <1>6, <2>1 DEF PageCallInv, Acting
    <2>2. CASE d # c
      <3>1. calls[d] \in PageCalls /\ PageCallInv(calls[d]) /\ calls'[d] = Disposed(calls[d])
        BY <1>4, <2>2, PageTypes
      <3>2. calls'[d].pc \in {"sign", "record"} => calls'[d].target \in Item
        BY <1>1, <3>1, DisposedInv DEF PageCallInv, Acting
      <3>3. calls'[d].pc = "answer" => calls'[d].id <= observed'.id
        BY <1>2, <1>4, <1>5, <1>7 DEF PageCalls, Observation
      <3>4. calls'[d].pc = "check" =>
               /\ calls'[d].ref \in Refs
               /\ \E a \in agent'.shown : calls'[d].id = a.id /\ calls'[d].ref < Len(a.refs)
                                         /\ calls'[d].shown = a.refs[calls'[d].ref + 1]
        BY <1>1, <3>1, DisposedInv DEF PageCallInv, BeginSnapshot, Acting
      <3>5. calls'[d].pc \in Acting /\ calls'[d].alone /\ calls'[d].target # NoElement =>
                calls'[d].target = calls'[d].shown
        BY <1>1, <3>1, DisposedInv DEF PageCallInv
      <3>6. calls'[d].pc = "act" /\ calls'[d].target # NoElement =>
                Signature(calls'[d].compared) = Signature(calls'[d].target.signed)
        BY <1>1, <3>1, DisposedInv DEF PageCallInv
      <3>7. QED
        BY <3>2, <3>3, <3>4, <3>5, <3>6 DEF PageCallInv
    <2>3. QED
      BY <2>1, <2>2
  <1>11. ActsOnShown'
    BY PageTypes DEF BeginSnapshot, ActsOnShown, StoodStill
  <1>12. \A a \in agent'.shown : a.id <= observed'.id
    BY <1>1, <1>2, <1>4, <1>8 DEF BeginSnapshot, Agents, Observation
  <1>13. page' \in PageStates /\ agent' \in Agents /\ observed' \in Observation
    BY <1>1, <1>2, <1>4 DEF BeginSnapshot
  <1>14. QED
    BY <1>5, <1>9, <1>10, <1>11, <1>12, <1>13
    DEF PageIInv, PageTypeOK, PageStates, Observation, Agents

(* Under a snapshot taken alone, the call that takes it is the only one    *)
(* that writes elements, and nothing of it has been answered.              *)
LEMMA TakesAlone ==
    ASSUME PageIInv, observed.alone, NEW c \in Calls, calls[c].pc \in Taking
    PROVE  /\ \A d \in Calls : calls[d].pc \in Taking => d = c
           /\ OnRecord(observed.elements, calls[c].refs)
           /\ \A d \in Calls : calls[d].pc = "answer" => calls[d].id # observed.id
           /\ \A a \in agent.shown : a.id # observed.id
  BY PageTypes DEF AloneInv, NobodyTakes

LEMMA SetElementInv ==
    ASSUME PageIInv, NEW c \in Calls, SetElement(c) PROVE PageIInv'
  <1> DEFINE t == calls[c].target
             refs == calls[c].refs
             o == [observed EXCEPT !.elements[Len(refs)] = t]
             k == [calls[c] EXCEPT !.pc = "collect", !.refs = Append(@, t), !.target = NoElement]
  <1>1. calls[c] \in PageCalls /\ calls[c].pc = "record" /\ t \in Item /\ refs \in Seq(Item)
        /\ observed \in Observation /\ agent \in Agents /\ page \in PageStates
    BY PageTypes DEF SetElement, PageCallInv, PageCalls
  <1>2. observed' = o /\ calls' = [calls EXCEPT ![c] = k] /\ UNCHANGED <<page, agent, clicks>>
    BY PageTypes DEF SetElement
  <1>3. o \in Observation /\ o.id = observed.id /\ o.alone = observed.alone
    <2>1. [observed.elements EXCEPT ![Len(refs)] = t] \in [Refs -> MaybeItem]
      BY <1>1 DEF Observation, MaybeItem
    <2>2. o = [observed EXCEPT !.elements = [observed.elements EXCEPT ![Len(refs)] = t]]
      BY <1>1 DEF Observation
    <2>3. QED
      BY <1>1, <2>1, <2>2 DEF Observation
  <1>4. o.elements = [observed.elements EXCEPT ![Len(refs)] = t]
    BY <1>1 DEF Observation
  <1>5. Append(refs, t) \in Seq(Item)
    BY <1>1
  <1>6. k \in PageCalls /\ k.pc = "collect" /\ k.refs = Append(refs, t)
    BY <1>1, <1>5 DEF PageCalls, MaybeItem, Taking
  <1> HIDE DEF o, k
  <1>7. OnRecord(observed.elements, refs) => OnRecord(o.elements, Append(refs, t))
    BY <1>1, <1>4, PageAssumption DEF OnRecord, Observation, Refs
  <1>8. calls' \in [Calls -> PageCalls] /\ \A d \in Calls : calls'[d] = IF d = c THEN k ELSE calls[d]
    BY <1>2, <1>6, PageTypes
  <1>9. AloneInv'
    <2> SUFFICES ASSUME observed'.alone PROVE AloneInv'
      BY DEF AloneInv
    <2>1. observed.alone /\ calls[c].pc \in Taking
      BY <1>1, <1>2, <1>3 DEF Taking
    <2>2. \A d \in Calls : calls'[d].pc \in Taking => d = c
      BY <1>8, <2>1, TakesAlone
    <2>3. OnRecord(observed'.elements, calls'[c].refs)
      BY <1>2, <1>6, <1>7, <1>8, <2>1, TakesAlone
    <2>4. \A d \in Calls : calls'[d].pc = "answer" => calls'[d].id # observed'.id
      BY <1>2, <1>3, <1>6, <1>8, <2>1, TakesAlone
    <2>5. \A a \in agent'.shown : a.id # observed'.id
      BY <1>2, <1>3, <2>1, TakesAlone
    <2>6. QED
      BY <2>2, <2>3, <2>4, <2>5 DEF AloneInv
  <1>10. \A d \in Calls : PageCallInv(calls[d])'
    BY <1>2, <1>3, <1>6, <1>8, PageTypes DEF PageCallInv, Acting
  <1>11. ActsOnShown'
    BY <1>2, PageTypes DEF ActsOnShown, StoodStill
  <1>12. QED
    BY <1>1, <1>2, <1>3, <1>8, <1>9, <1>10, <1>11, PageTypes
    DEF PageIInv, PageTypeOK, PageStates, Observation, Agents

LEMMA ConcludeInv ==
    ASSUME PageIInv, NEW c \in Calls, Conclude(c) PROVE PageIInv'
  <1> DEFINE k == [calls[c] EXCEPT !.pc = "answer", !.id = observed.id]
  <1>1. calls[c] \in PageCalls /\ calls[c].pc = "collect" /\ observed \in Observation
    BY PageTypes DEF Conclude
  <1>2. calls' = [calls EXCEPT ![c] = k] /\ UNCHANGED <<page, observed, agent, clicks>>
    BY PageTypes DEF Conclude
  <1>3. k \in PageCalls /\ k.pc = "answer" /\ k.refs = calls[c].refs /\ k.id = observed.id
    BY <1>1 DEF PageCalls, Observation
  <1> HIDE DEF k
  <1>4. calls' \in [Calls -> PageCalls] /\ \A d \in Calls : calls'[d] = IF d = c THEN k ELSE calls[d]
    BY <1>2, <1>3, PageTypes
  <1>5. AloneInv'
    <2> SUFFICES ASSUME observed'.alone PROVE AloneInv'
      BY DEF AloneInv
    <2>1. observed.alone /\ calls[c].pc \in Taking
      BY <1>1, <1>2 DEF Taking
    <2>2. NobodyTakes'
      BY <1>3, <1>4, <2>1, TakesAlone DEF NobodyTakes, Taking
    <2>3. \A d \in Calls : calls'[d].pc = "answer" /\ calls'[d].id = observed'.id =>
              OnRecord(observed'.elements, calls'[d].refs)
      BY <1>2, <1>3, <1>4, <2>1, TakesAlone
    <2>4. \A a \in agent'.shown : a.id # observed'.id
      BY <1>2, <2>1, TakesAlone
    <2>5. QED
      BY <2>2, <2>3, <2>4 DEF AloneInv, NobodyTakes
  <1>6. observed.id <= observed.id
    BY <1>1 DEF Observation
  <1>7. \A d \in Calls : PageCallInv(calls[d])'
    BY <1>2, <1>3, <1>4, <1>6, PageTypes DEF PageCallInv, Acting
  <1>8. ActsOnShown'
    BY <1>2, PageTypes DEF ActsOnShown, StoodStill
  <1>9. QED
    BY <1>2, <1>4, <1>5, <1>7, <1>8, PageTypes
    DEF PageIInv, PageTypeOK, PageStates, Observation, Agents

LEMMA AnswerSnapshotInv ==
    ASSUME PageIInv, NEW c \in Calls, AnswerSnapshot(c) PROVE PageIInv'
  <1> DEFINE new == [id |-> calls[c].id, refs |-> calls[c].refs]
  <1>1. calls[c] \in PageCalls /\ calls[c].pc = "answer" /\ calls[c].id <= observed.id
    BY PageTypes DEF AnswerSnapshot, PageCallInv
  <1>2. new \in [id : Nat, refs : Seq(Item)]
    BY <1>1 DEF PageCalls
  <1>3. calls' = [calls EXCEPT ![c] = NoCall] /\ UNCHANGED <<page, observed, clicks>>
    BY DEF AnswerSnapshot
  <1>4. agent' \in Agents /\ agent.shown \subseteq agent'.shown /\ agent'.shown \subseteq agent.shown \cup {new}
    <2>1. agent.shown \cup {new} \in SUBSET [id : Nat, refs : Seq(Item)]
      BY <1>2, PageTypes DEF Agents
    <2> HIDE DEF new
    <2>2. agent' \in {agent, [agent EXCEPT !.waits = NoElement, !.shown = @ \cup {new}]}
      BY DEF AnswerSnapshot, new
    <2>3. QED
      BY <2>1, <2>2, PageTypes DEF Agents
  <1>5. calls' \in [Calls -> PageCalls] /\ \A d \in Calls : calls'[d] = IF d = c THEN NoCall ELSE calls[d]
    BY <1>3, NoCallType, PageTypes
  <1>6. AloneInv'
    <2> SUFFICES ASSUME observed'.alone PROVE AloneInv'
      BY DEF AloneInv
    <2>1. /\ \A d, e \in Calls : calls[d].pc \in Taking /\ calls[e].pc \in Taking => d = e
          /\ \A d \in Calls : calls[d].pc \in Taking => OnRecord(observed.elements, calls[d].refs)
          /\ \A d \in Calls : calls[d].pc = "answer" /\ calls[d].id = observed.id =>
                 OnRecord(observed.elements, calls[d].refs) /\ NobodyTakes
          /\ \A a \in agent.shown : a.id = observed.id =>
                 OnRecord(observed.elements, a.refs) /\ NobodyTakes
      BY <1>3, PageTypes DEF AloneInv
    <2>2. NobodyTakes => NobodyTakes'
      BY <1>5, NoCallType DEF NobodyTakes, Taking
    <2>3. \A d \in Calls :
              /\ calls'[d].pc \in Taking => calls[d].pc \in Taking /\ calls'[d].refs = calls[d].refs
              /\ calls'[d].pc = "answer" => /\ calls[d].pc = "answer" /\ calls'[d].id = calls[d].id
                                            /\ calls'[d].refs = calls[d].refs
      BY <1>5, NoCallType DEF Taking
    <2>4. \A d, e \in Calls : calls'[d].pc \in Taking /\ calls'[e].pc \in Taking => d = e
      BY <2>1, <2>3
    <2>5. \A d \in Calls : calls'[d].pc \in Taking => OnRecord(observed'.elements, calls'[d].refs)
      BY <1>3, <2>1, <2>3
    <2>6. \A d \in Calls : calls'[d].pc = "answer" /\ calls'[d].id = observed'.id =>
              OnRecord(observed'.elements, calls'[d].refs) /\ NobodyTakes'
      BY <1>3, <2>1, <2>2, <2>3
    <2>7. calls[c].id = observed.id => OnRecord(observed.elements, calls[c].refs) /\ NobodyTakes
      BY <1>1, <2>1
    <2>8. \A a \in agent'.shown : a.id = observed'.id =>
              OnRecord(observed'.elements, a.refs) /\ NobodyTakes'
      BY <1>3, <1>4, <2>1, <2>2, <2>7
    <2>9. QED
      BY <2>4, <2>5, <2>6, <2>8 DEF AloneInv
  <1>7. \A d \in Calls : PageCallInv(calls[d])'
    BY <1>3, <1>4, <1>5, NoCallType, PageTypes DEF PageCallInv, Acting
  <1>8. \A a \in agent'.shown : a.id <= observed'.id
    BY <1>1, <1>3, <1>4, PageTypes
  <1>9. ActsOnShown'
    BY <1>3, PageTypes DEF ActsOnShown, StoodStill
  <1>10. QED
    BY <1>3, <1>4, <1>5, <1>6, <1>7, <1>8, <1>9, PageTypes
    DEF PageIInv, PageTypeOK, PageStates, Observation, Agents

(* The agent gives up or the user reviews, the page changes, time passes.  *)
LEMMA PageOutsideInv ==
    ASSUME PageIInv, UNCHANGED calls, ActsOnShown', page' \in PageStates, observed' \in Observation,
           agent' \in Agents, observed'.id = observed.id, observed'.alone = observed.alone,
           observed'.elements = observed.elements, agent'.shown = agent.shown
    PROVE  PageIInv'
  <1>1. \A c \in Calls :
            /\ calls'[c].pc \in Taking => calls[c].pc \in Taking /\ calls'[c].refs = calls[c].refs
            /\ calls'[c].pc = "answer" => calls'[c] = calls[c]
    OBVIOUS
  <1>2. calls' \in [Calls -> PageCalls] /\ \A c \in Calls : PageCallInv(calls'[c])
    BY PageTypes
  <1>3. QED
    BY <1>1, <1>2, StillInv

LEMMA PageStep ==
    ASSUME PageIInv, PageNext
    PROVE  PageIInv'
  <1>1. CASE \E c \in Calls :
            BeginSnapshot(c) \/ Query(c) \/ Skip(c) \/ ReadLabel(c) \/ ReadSignature(c)
            \/ SetElement(c) \/ Conclude(c) \/ AnswerSnapshot(c) \/ Fails(c) \/ Check(c)
            \/ Connected(c) \/ Compare(c) \/ Act(c) \/ Navigate(c) \/ CallTool(c)
    BY <1>1, BeginSnapshotInv, QueryInv, SkipInv, ReadLabelInv, ReadSignatureInv, SetElementInv,
       ConcludeInv, AnswerSnapshotInv, FailsInv, PageCheckInv, ConnectedInv, CompareInv, ActInv,
       NavigateInv, CallToolInv
  <1>2. ASSUME UNCHANGED clicks PROVE ActsOnShown'
    BY <1>2, PageTypes DEF ActsOnShown, StoodStill
  <1>3. CASE GiveUp \/ UserReviews
    <2>1. agent' \in Agents /\ agent'.shown = agent.shown
      <3>1. CASE GiveUp
        <4>1. calls[agent.waits].effect \in BOOLEAN /\ agent.patience - 1 \in Nat
          BY <3>1, PageTypes DEF GiveUp, Agents, PageCalls
        <4>2. QED
          BY <3>1, <4>1, PageTypes DEF GiveUp, Agents
      <3>2. CASE UserReviews
        BY <3>2, PageTypes DEF UserReviews, Agents
      <3>3. QED
        BY <1>3, <3>1, <3>2
    <2>2. UNCHANGED <<page, observed, calls, clicks>>
      BY <1>3 DEF GiveUp, UserReviews
    <2>3. QED
      BY <1>2, <2>1, <2>2, PageTypes, PageOutsideInv
  <1>4. CASE PageChanges
    <2>1. page' \in PageStates
      <3>1. page \in PageStates /\ page.changes - 1 \in Nat /\ page.doc + 1 \in Nat
        <4>1. page.changes > 0
          BY <1>4 DEF PageChanges
        <4>2. QED
          BY <4>1, PageTypes DEF PageStates
      <3>2. CASE \E d \in PageContents :
                page' \in {Opened(d, page.changes - 1),
                           [page EXCEPT !.nodes = d.nodes, !.changes = @ - 1]}
        <4>1. PICK d \in PageContents :
                page' \in {Opened(d, page.changes - 1),
                           [page EXCEPT !.nodes = d.nodes, !.changes = @ - 1]}
          BY <3>2
        <4>2. d.nodes \in Seq(Nodes) /\ d.looks \in [Nodes -> Looks]
          BY PageAssumption
        <4>3. Opened(d, page.changes - 1) \in PageStates
          BY <3>1, <4>2 DEF Opened, PageStates
        <4>4. [page EXCEPT !.nodes = d.nodes, !.changes = @ - 1] \in PageStates
          BY <3>1, <4>2 DEF PageStates
        <4>5. QED
          BY <4>1, <4>3, <4>4
      <3>3. ASSUME NEW n \in Nodes, NEW look \in Looks,
                   page' = [page EXCEPT !.looks[n] = look, !.changes = @ - 1]
            PROVE  page' \in PageStates
        <4>1. [page.looks EXCEPT ![n] = look] \in [Nodes -> Looks]
          BY <3>1 DEF PageStates
        <4>2. page' = [page EXCEPT !.looks = [page.looks EXCEPT ![n] = look], !.changes = page.changes - 1]
          BY <3>1, <3>3 DEF PageStates
        <4>3. QED
          BY <3>1, <4>1, <4>2 DEF PageStates
      <3>4. QED
        BY <1>4, <3>2, <3>3 DEF PageChanges
    <2>2. UNCHANGED <<observed, calls, agent, clicks>>
      BY <1>4 DEF PageChanges
    <2>3. QED
      BY <1>2, <2>1, <2>2, PageTypes, PageOutsideInv
  <1>5. CASE Ages
    <2>1. page' \in PageStates /\ observed' \in Observation
          /\ observed'.id = observed.id /\ observed'.alone = observed.alone
          /\ observed'.elements = observed.elements
      <3>1. page.changes > 0 /\ observed' = [observed EXCEPT !.fresh = FALSE]
            /\ page' = [page EXCEPT !.changes = @ - 1]
        BY <1>5 DEF Ages
      <3>2. page' \in PageStates
        BY <3>1, PageTypes DEF PageStates
      <3>3. QED
        BY <3>1, <3>2, PageTypes DEF Observation
    <2>2. UNCHANGED <<calls, agent, clicks>>
      BY <1>5 DEF Ages
    <2>3. QED
      BY <1>2, <2>1, <2>2, PageTypes, PageOutsideInv
  <1>6. QED
    BY <1>1, <1>3, <1>4, <1>5 DEF PageNext

LEMMA PageInitInv == PageInit => PageIInv
  <1> SUFFICES ASSUME PageInit PROVE PageIInv
    OBVIOUS
  <1>1. page \in PageStates /\ agent \in Agents /\ agent.shown = {}
    BY PageAssumption DEF PageInit, PageStates, Agents
  <1>2. observed \in Observation
    <2> DEFINE none == [r \in Refs |-> NoElement]
    <2>1. none \in [Refs -> MaybeItem]
      BY DEF MaybeItem
    <2> HIDE DEF none
    <2>2. observed = [id |-> 0, fresh |-> TRUE, alone |-> TRUE, elements |-> none, actions |-> 1]
      BY DEF PageInit, none
    <2>3. QED
      BY <2>1, <2>2, PageAssumption DEF Observation
  <1>3. calls \in [Calls -> PageCalls] /\ \A c \in Calls : calls[c].pc = "off"
    BY NoCallType DEF PageInit
  <1>4. AloneInv
    BY <1>1, <1>3 DEF AloneInv, Taking
  <1>5. \A c \in Calls : PageCallInv(calls[c])
    BY <1>3 DEF PageCallInv, Acting
  <1>6. ActsOnShown
    BY DEF PageInit, ActsOnShown
  <1>7. QED
    BY <1>1, <1>2, <1>3, <1>4, <1>5, <1>6 DEF PageIInv, PageTypeOK, PageStates, Observation, Agents

LEMMA PageInvariant == PageSpec => []PageIInv
  <1>1. PageIInv /\ [PageNext]_pageVars => PageIInv'
    <2>1. PageIInv /\ PageNext => PageIInv'
      BY PageStep
    <2>2. PageIInv /\ UNCHANGED pageVars => PageIInv'
      <3> SUFFICES ASSUME PageIInv, UNCHANGED pageVars PROVE PageIInv'
        OBVIOUS
      <3>1. UNCHANGED <<page, observed, calls, agent, clicks>>
        BY DEF pageVars
      <3>2. ActsOnShown'
        BY <3>1, PageTypes DEF ActsOnShown, StoodStill
      <3>3. QED
        BY <3>1, <3>2, PageTypes, PageOutsideInv
    <2>3. QED
      BY <2>1, <2>2
  <1>2. QED
    BY PageInitInv, <1>1, PTL DEF PageSpec

(* For every page, every number of calls, changes of the page and calls     *)
(* given up: an action is on the element that the agent was shown, if its  *)
(* snapshot was taken alone, and the element then has the signature it was *)
(* shown with, if it stood still while the server read it and acted        *)
(* (snapshot, element).                                                    *)
THEOREM ActsAsShown == PageSpec => []ActsOnShown
  <1>1. PageIInv => ActsOnShown
    BY DEF PageIInv
  <1>2. QED
    BY PageInvariant, <1>1, PTL

-----------------------------------------------------------------------------
(* The resources of browsers.                                              *)

Owned == [of : Browsers, kind : Kinds, open : Nat]

BrowserRecord ==
    [pc : {"idle", "prepare", "claim", "creating", "ready", "closing"}, opens : Nat, left : Int,
     next : Kinds, owned : Seq(Owned), closing : BOOLEAN,
     loop : {"none", "open", "catch", "call", "end"}, todo : Seq(Owned),
     session : {"open", "closing", "draining", "closed"}, failed : BOOLEAN, reported : BOOLEAN]

ResourceTypes ==
    /\ browsers \in [Browsers -> BrowserRecord]
    /\ records \subseteq Owned /\ rescues \in [Rescuers -> SUBSET Owned]
    /\ docker \in [up : BOOLEAN, exists : SUBSET Owned, requested : SUBSET Owned, outages : Int]

(* The kinds that open creates before this one.                            *)
Earlier(kind) == CASE kind = "network" -> {} [] kind = "app" -> {"network"}
                   [] kind = "browser" -> {"network", "app"}

(* Whose turn it is: at most one loop closes a browser, and where a call   *)
(* and the end of its session are.                                         *)
TurnInv(s) ==
    /\ s.loop # "none" => s.closing
    /\ s.pc = "closing" <=> s.loop \in {"open", "catch", "call"}
    /\ s.session = "closing" <=> s.loop = "end"
    /\ s.loop = "none" => s.todo = <<>>
    /\ s.session = "open" /\ s.pc \in {"prepare", "claim", "creating", "ready"} => ~s.closing
    /\ s.session # "open" /\ s.pc \in {"claim", "creating"} => s.closing
    /\ s.session = "closed" => s.loop = "none"

(* A browser and what it has in the daemon.  A request is that of the open *)
(* in progress; what exists is of an earlier open or an earlier kind; what *)
(* is to be closed covers what exists; and while the browser is in use     *)
(* nobody else takes it away.                                              *)
HoldInv(b) ==
    LET s == browsers[b] IN
    /\ \A i \in 1 .. Len(s.owned) : s.owned[i].of = b
    /\ \A i \in 1 .. Len(s.todo) : s.todo[i].of = b
    /\ \A r \in docker.requested : r.of = b =>
           /\ Here(b) /\ s.session = "open" /\ s.pc = "creating"
           /\ r = Resource(b, s.next) /\ r \notin docker.exists
    /\ \A r \in docker.exists : r.of = b =>
           /\ r.open <= s.opens
           /\ s.pc = "claim" /\ r.open = s.opens => r.kind \in Earlier(s.next)
           /\ s.pc = "creating" /\ r.open = s.opens => r.kind \in Earlier(s.next) \cup {s.next}
    /\ ~s.failed =>
           \A r \in docker.exists \cup docker.requested : r.of = b =>
               IF s.loop = "none"
               THEN /\ ~s.closing /\ s.session = "open"
                    /\ \E i \in 1 .. Len(s.owned) : s.owned[i] = r
               ELSE \E i \in 1 .. Len(s.todo) : s.todo[i] = r
    /\ Here(b) /\ s.session = "open" /\ s.pc \in {"claim", "creating"} =>
           \A kind \in Earlier(s.next) : Resource(b, kind) \in docker.exists
    /\ Here(b) /\ s.session = "open" /\ s.pc = "ready" =>
           \A kind \in Kinds : Resource(b, kind) \in docker.exists

(* A process removes what was left by dead ones, and its own when its      *)
(* sessions are closed.                                                    *)
RescueInv(p) ==
    \A r \in rescues[p] : ~Here(r.of) \/ browsers[r.of].session = "closed"

BrowserIInv ==
    /\ ResourceTypes
    /\ docker.exists \cup docker.requested \subseteq records
    /\ \A b \in Browsers : TurnInv(browsers[b]) /\ HoldInv(b)
    /\ \A p \in Rescuers : RescueInv(p)

LEMMA Mirrored == ASSUME NEW n \in Nat, NEW i \in 1 .. n PROVE n - i + 1 \in 1 .. n
  OBVIOUS

LEMMA ReverseCovers ==
    ASSUME NEW S, NEW q \in Seq(S)
    PROVE  /\ Reverse(q) \in Seq(S) /\ Len(Reverse(q)) = Len(q)
           /\ \A i \in 1 .. Len(q) : Reverse(q)[i] = q[Len(q) - i + 1]
           /\ \A i \in 1 .. Len(q) : \E j \in 1 .. Len(q) : Reverse(q)[j] = q[i]
  <1>1. Reverse(q) \in Seq(S) /\ Len(Reverse(q)) = Len(q)
    BY DEF Reverse
  <1>2. \A i \in 1 .. Len(q) : Reverse(q)[i] = q[Len(q) - i + 1]
    BY DEF Reverse
  <1>3. ASSUME NEW i \in 1 .. Len(q) PROVE \E j \in 1 .. Len(q) : Reverse(q)[j] = q[i]
    <2> DEFINE j == Len(q) - i + 1
    <2>1. j \in 1 .. Len(q) /\ Len(q) - j + 1 = i
      OBVIOUS
    <2>2. QED
      BY <1>2, <2>1
  <1>4. QED
    BY <1>1, <1>2, <1>3

(* What a browser relies on changes only by its own steps.                 *)
LEMMA HoldKept ==
    ASSUME NEW b \in Browsers, HoldInv(b), browsers'[b] = browsers[b], Here(b)' <=> Here(b),
           \A r : r.of = b => /\ r \in docker'.exists <=> r \in docker.exists
                              /\ r \in docker'.requested <=> r \in docker.requested
    PROVE  HoldInv(b)'
  <1>1. \A kind : Resource(b, kind)' = Resource(b, kind) /\ Resource(b, kind).of = b
    BY DEF Resource
  <1>2. QED
    BY <1>1 DEF HoldInv

LEMMA OwnStepKeeps ==
    ASSUME BrowserIInv, NEW b \in Browsers, NEW s \in BrowserRecord,
           browsers' = [browsers EXCEPT ![b] = s], UNCHANGED <<rescues, processes>>,
           browsers[b].session = "closed" => s.session = "closed",
           records' \subseteq Owned,
           docker' \in [up : BOOLEAN, exists : SUBSET Owned, requested : SUBSET Owned,
                        outages : Int],
           docker'.exists \cup docker'.requested \subseteq records',
           \A r : r.of # b => /\ r \in docker'.exists <=> r \in docker.exists
                              /\ r \in docker'.requested <=> r \in docker.requested,
           TurnInv(s), HoldInv(b)'
    PROVE  BrowserIInv'
  <1>1. browsers \in [Browsers -> BrowserRecord]
    BY DEF BrowserIInv, ResourceTypes
  <1>2. ResourceTypes'
    BY <1>1 DEF BrowserIInv, ResourceTypes
  <1>3. ASSUME NEW x \in Browsers PROVE TurnInv(browsers'[x]) /\ HoldInv(x)'
    <2>1. CASE x = b
      BY <1>1, <2>1
    <2>2. CASE x # b
      <3>1. browsers'[x] = browsers[x] /\ (Here(x)' <=> Here(x))
        BY <1>1, <2>2 DEF Here
      <3>2. TurnInv(browsers[x]) /\ HoldInv(x)
        BY DEF BrowserIInv
      <3>3. \A r : r.of = x => /\ r \in docker'.exists <=> r \in docker.exists
                               /\ r \in docker'.requested <=> r \in docker.requested
        BY <2>2
      <3>4. HoldInv(x)'
        BY <3>1, <3>2, <3>3, HoldKept
      <3>5. QED
        BY <3>1, <3>2, <3>4
    <2>3. QED
      BY <2>1, <2>2
  <1>4. ASSUME NEW p \in Rescuers PROVE RescueInv(p)'
    <2>1. ASSUME NEW r \in rescues[p] PROVE ~Here(r.of)' \/ browsers'[r.of].session = "closed"
      <3>1. r \in Owned /\ r.of \in Browsers
        BY DEF BrowserIInv, ResourceTypes, Owned
      <3>2. ~Here(r.of) \/ browsers[r.of].session = "closed"
        BY DEF BrowserIInv, RescueInv
      <3>3. Here(r.of)' <=> Here(r.of)
        BY DEF Here
      <3>4. QED
        BY <1>1, <3>1, <3>2, <3>3
    <2>2. QED
      BY <2>1 DEF RescueInv
  <1>5. QED
    BY <1>2, <1>3, <1>4 DEF BrowserIInv

LEMMA BrowserFacts ==
    ASSUME BrowserIInv, NEW b \in Browsers
    PROVE  /\ browsers[b] \in BrowserRecord /\ TurnInv(browsers[b]) /\ HoldInv(b)
           /\ browsers \in [Browsers -> BrowserRecord] /\ records \subseteq Owned
           /\ docker \in [up : BOOLEAN, exists : SUBSET Owned, requested : SUBSET Owned,
                          outages : Int]
           /\ docker.exists \cup docker.requested \subseteq records
           /\ \A kind \in Kinds : /\ Resource(b, kind) \in Owned
                                  /\ Resource(b, kind).of = b /\ Resource(b, kind).kind = kind
                                  /\ Resource(b, kind).open = browsers[b].opens
  <1>1. browsers[b] \in BrowserRecord
    BY DEF BrowserIInv, ResourceTypes
  <1>2. \A kind \in Kinds : /\ Resource(b, kind) \in Owned
                            /\ Resource(b, kind).of = b /\ Resource(b, kind).kind = kind
                            /\ Resource(b, kind).open = browsers[b].opens
    BY <1>1 DEF Resource, Owned, BrowserRecord
  <1>3. QED
    BY <1>1, <1>2 DEF BrowserIInv, ResourceTypes

(* A step that leaves docker and the registry alone.                       *)
LEMMA QuietKeeps ==
    ASSUME BrowserIInv, NEW b \in Browsers, NEW s \in BrowserRecord,
           browsers' = [browsers EXCEPT ![b] = s],
           UNCHANGED <<records, docker, rescues, processes>>,
           browsers[b].session = "closed" => s.session = "closed",
           TurnInv(s), HoldInv(b)'
    PROVE  BrowserIInv'
  BY BrowserFacts, OwnStepKeeps

(* A loop starts over all that is owned, and none of it is being created.  *)
LEMMA LoopingRecord ==
    ASSUME NEW s \in BrowserRecord, NEW who \in {"open", "catch", "call", "end"}
    PROVE  /\ Looping(s, who) \in BrowserRecord
           /\ Looping(s, who) = [s EXCEPT !.closing = TRUE, !.loop = who, !.todo = Reverse(s.owned)]
  <1>1. Reverse(s.owned) \in Seq(Owned)
    BY ReverseCovers DEF BrowserRecord
  <1>2. QED
    BY <1>1 DEF Looping, BrowserRecord

LEMMA LoopStarts ==
    ASSUME BrowserIInv, NEW b \in Browsers, NEW n \in BrowserRecord,
           browsers' = [browsers EXCEPT ![b] = n], UNCHANGED processes,
           browsers[b].loop = "none", n.loop # "none",
           n.todo = Reverse(browsers[b].owned), n.owned = browsers[b].owned,
           n.failed = browsers[b].failed, n.opens = browsers[b].opens, n.next = browsers[b].next,
           n.pc = "closing" \/ (n.session # "open" /\ n.pc = browsers[b].pc),
           docker'.exists = docker.exists, \A r \in docker'.requested : r.of # b
    PROVE  HoldInv(b)'
  <1> DEFINE s == browsers[b]
             q == Reverse(s.owned)
  <1>1. /\ s \in BrowserRecord /\ HoldInv(b) /\ browsers'[b] = n
        /\ s.owned \in Seq(Owned) /\ Len(s.owned) \in Nat
    BY BrowserFacts DEF BrowserRecord
  <1>2. /\ q \in Seq(Owned) /\ Len(q) = Len(s.owned)
        /\ \A i \in 1 .. Len(s.owned) : q[i] = s.owned[Len(s.owned) - i + 1]
        /\ \A i \in 1 .. Len(s.owned) : \E j \in 1 .. Len(s.owned) : q[j] = s.owned[i]
    BY <1>1, ReverseCovers
  <1> HIDE DEF q
  <1>3. \A i \in 1 .. Len(q) : q[i].of = b
    <2>1. ASSUME NEW i \in 1 .. Len(q) PROVE q[i].of = b
      <3>1. Len(s.owned) - i + 1 \in 1 .. Len(s.owned)
        <4>1. Len(s.owned) \in Nat /\ i \in 1 .. Len(s.owned)
          BY <1>1, <1>2
        <4>2. QED
          BY <4>1, Mirrored
      <3>2. s.owned[Len(s.owned) - i + 1].of = b
        BY <1>1, <3>1 DEF HoldInv
      <3>3. q[i] = s.owned[Len(s.owned) - i + 1]
        BY <1>2
      <3>4. QED
        BY <3>2, <3>3
    <2>2. QED
      BY <2>1
  <1>4. ASSUME ~s.failed, NEW r \in docker.exists, r.of = b PROVE \E i \in 1 .. Len(q) : q[i] = r
    <2>1. PICK i \in 1 .. Len(s.owned) : s.owned[i] = r
      BY <1>1, <1>4 DEF HoldInv
    <2>2. QED
      BY <1>2, <2>1
  <1>5. \A r \in docker.exists : r.of = b =>
            /\ r.open <= s.opens /\ (s.pc = "claim" /\ r.open = s.opens => r.kind \in Earlier(s.next))
            /\ s.pc = "creating" /\ r.open = s.opens => r.kind \in Earlier(s.next) \cup {s.next}
    BY <1>1 DEF HoldInv
  <1>6. /\ n.todo = q /\ \A i \in 1 .. Len(n.owned) : n.owned[i].of = b
    BY <1>1 DEF HoldInv, q
  <1>7. QED
    BY <1>1, <1>3, <1>4, <1>5, <1>6 DEF HoldInv

LEMMA CallsKeep ==
    ASSUME BrowserIInv, NEW b \in Browsers, CallOpen(b) \/ CallClose(b)
    PROVE  BrowserIInv'
  <1> DEFINE s == browsers[b]
  <1>1. /\ s \in BrowserRecord /\ TurnInv(s) /\ HoldInv(b) /\ browsers \in [Browsers -> BrowserRecord]
        /\ s.session = "open" /\ s.pc \in {"idle", "ready"}
        /\ UNCHANGED <<records, docker, rescues, processes>>
    BY BrowserFacts DEF CallOpen, CallClose
  <1>10. s.loop = "none"
    BY <1>1 DEF TurnInv, BrowserRecord
  <1>2. CASE CallOpen(b) /\ s.closing
    <2> DEFINE n == [s EXCEPT !.left = @ - 1, !.closing = FALSE, !.pc = "prepare"]
    <2>1. browsers' = [browsers EXCEPT ![b] = n] /\ browsers'[b] = n
      BY <1>1, <1>2 DEF CallOpen, Set
    <2>2. n \in BrowserRecord /\ TurnInv(n)
      <3>1. s.left - 1 \in Int
        BY <1>1 DEF BrowserRecord
      <3>2. n \in BrowserRecord
        BY <1>1, <3>1 DEF BrowserRecord
      <3>3. n.loop = "none" /\ n.todo = <<>> /\ n.session = "open" /\ n.pc = "prepare" /\ n.closing = FALSE
        BY <1>1, <1>2 DEF BrowserRecord, TurnInv
      <3> HIDE DEF n
      <3>4. QED
        BY <3>2, <3>3 DEF TurnInv
    <2>3. HoldInv(b)'
      BY <1>1, <1>2, <2>1 DEF HoldInv, TurnInv, BrowserRecord, Here, Resource
    <2>4. QED
      BY <1>1, <2>1, <2>2, <2>3, QuietKeeps DEF BrowserRecord
  <1>3. CASE ~s.closing
    <2>1. ASSUME NEW n, n \in BrowserRecord, browsers' = [browsers EXCEPT ![b] = n],
                 n.pc = "closing", n.loop \in {"open", "call"}, n.todo = Reverse(s.owned),
                 n.owned = s.owned, n.failed = s.failed, n.opens = s.opens, n.next = s.next,
                 n.closing = TRUE, n.session = s.session
          PROVE  BrowserIInv'
      <3>1. TurnInv(n)
        BY <1>1, <2>1 DEF TurnInv
      <3>2. \A r \in docker'.requested : r.of # b
        BY <1>1 DEF HoldInv
      <3>3. HoldInv(b)'
        BY <1>1, <1>10, <2>1, <3>2, LoopStarts
      <3>4. QED
        BY <1>1, <2>1, <3>1, <3>3, QuietKeeps
    <2>2. CASE CallOpen(b)
      <3> DEFINE m == Looping(s, "open")
                 n == [m EXCEPT !.left = @ - 1, !.pc = "closing"]
      <3>1. /\ m \in BrowserRecord
            /\ m = [s EXCEPT !.closing = TRUE, !.loop = "open", !.todo = Reverse(s.owned)]
        BY <1>1, LoopingRecord
      <3>2. browsers' = [browsers EXCEPT ![b] = n]
        <4>1. Set(b, IF s.closing
                     THEN [s EXCEPT !.left = @ - 1, !.closing = FALSE, !.pc = "prepare"]
                     ELSE n)
          BY <2>2 DEF CallOpen
        <4>2. QED
          BY <1>3, <4>1, Zenon DEF Set
      <3>3. n \in BrowserRecord
        <4>1. ASSUME NEW x \in BrowserRecord
              PROVE  [x EXCEPT !.left = @ - 1, !.pc = "closing"] \in BrowserRecord
          <5>1. x.left - 1 \in Int
            BY DEF BrowserRecord
          <5>2. QED
            BY <5>1 DEF BrowserRecord
        <4>2. QED
          BY <3>1, <4>1
      <3>4. /\ n.pc = "closing" /\ n.loop = "open" /\ n.todo = Reverse(s.owned)
            /\ n.owned = s.owned /\ n.failed = s.failed /\ n.opens = s.opens /\ n.next = s.next
            /\ n.closing = TRUE /\ n.session = s.session
        BY <1>1, <3>1 DEF BrowserRecord
      <3> HIDE DEF n
      <3>5. QED
        BY <2>1, <3>2, <3>3, <3>4
    <2>3. CASE CallClose(b)
      <3> DEFINE m == Looping(s, "call")
                 n == [m EXCEPT !.pc = "closing"]
      <3>1. /\ m \in BrowserRecord
            /\ m = [s EXCEPT !.closing = TRUE, !.loop = "call", !.todo = Reverse(s.owned)]
        BY <1>1, LoopingRecord
      <3>2. browsers' = [browsers EXCEPT ![b] = n]
        BY <2>3 DEF CallClose, Set
      <3> HIDE DEF m
      <3>3. n \in BrowserRecord
        BY <3>1 DEF BrowserRecord
      <3>4. /\ n.pc = "closing" /\ n.loop = "call" /\ n.todo = Reverse(s.owned)
            /\ n.owned = s.owned /\ n.failed = s.failed /\ n.opens = s.opens /\ n.next = s.next
            /\ n.closing = TRUE /\ n.session = s.session
        BY <1>1, <3>1 DEF BrowserRecord
      <3> HIDE DEF n
      <3>5. QED
        BY <2>1, <3>2, <3>3, <3>4
    <2>4. QED
      BY <2>2, <2>3
  <1>4. QED
    BY <1>2, <1>3 DEF CallClose

LEMMA PrepareKeeps ==
    ASSUME BrowserIInv, NEW b \in Browsers, Prepare(b) \/ Created(b) \/ SessionClosed(b)
    PROVE  BrowserIInv'
  <1> DEFINE s == browsers[b]
  <1>1. /\ s \in BrowserRecord /\ TurnInv(s) /\ HoldInv(b) /\ browsers \in [Browsers -> BrowserRecord]
        /\ UNCHANGED <<records, docker, rescues, processes>>
        /\ docker.exists \subseteq Owned
    BY BrowserFacts DEF Prepare, Created, SessionClosed
  <1>2. PICK n : browsers' = [browsers EXCEPT ![b] = n]
                 /\ \/ /\ s.pc = "prepare" /\ s.session = "open"
                       /\ n = [s EXCEPT !.pc = "claim", !.next = "network", !.opens = @ + 1]
                    \/ s.pc = "prepare" /\ n = [s EXCEPT !.pc = "idle"]
                    \/ /\ s.pc = "creating" /\ s.session = "open"
                       /\ Resource(b, s.next) \in docker.exists
                       /\ n = IF s.next = "browser" THEN [s EXCEPT !.pc = "ready"]
                              ELSE [s EXCEPT !.pc = "claim",
                                             !.next = IF @ = "network" THEN "app" ELSE "browser"]
                    \/ /\ s.session = "draining" /\ s.pc \in {"idle", "ready"} /\ s.loop = "none"
                       /\ n = [s EXCEPT !.session = "closed"]
    BY DEF Prepare, Created, SessionClosed, Set
  <1>3. browsers'[b] = n /\ s = browsers[b]
    BY <1>1, <1>2
  <1> HIDE DEF s
  <1>4. ASSUME s.pc = "prepare", s.session = "open",
               n = [s EXCEPT !.pc = "claim", !.next = "network", !.opens = @ + 1]
        PROVE  n \in BrowserRecord /\ TurnInv(n) /\ HoldInv(b)'
    <2>0. s.opens \in Nat /\ s.opens + 1 \in Nat
      BY <1>1 DEF BrowserRecord
    <2>1. /\ n.pc = "claim" /\ n.next = "network" /\ n.opens = s.opens + 1
          /\ n.owned = s.owned /\ n.todo = s.todo /\ n.loop = s.loop /\ n.closing = s.closing
          /\ n.session = "open" /\ n.failed = s.failed
      BY <1>1, <1>4 DEF BrowserRecord
    <2>2. n \in BrowserRecord
      BY <1>1, <1>4, <2>0 DEF BrowserRecord, Kinds
    <2>3. TurnInv(n)
      BY <1>1, <1>4, <2>1 DEF TurnInv
    <2>4. \A r \in docker.exists : r.open \in Nat
      BY <1>1 DEF Owned
    <2>5. HoldInv(b)'
      BY <1>1, <1>3, <1>4, <2>0, <2>1, <2>4 DEF HoldInv, Here, Resource, Earlier
    <2>6. QED
      BY <2>2, <2>3, <2>5
  <1>5. ASSUME s.pc = "prepare", n = [s EXCEPT !.pc = "idle"]
        PROVE  n \in BrowserRecord /\ TurnInv(n) /\ HoldInv(b)'
    <2>1. /\ n.pc = "idle" /\ n.opens = s.opens /\ n.session = s.session /\ n.failed = s.failed
          /\ n.owned = s.owned /\ n.todo = s.todo /\ n.loop = s.loop /\ n.closing = s.closing
      BY <1>1, <1>5 DEF BrowserRecord
    <2>2. n \in BrowserRecord
      BY <1>1, <1>5 DEF BrowserRecord
    <2>3. TurnInv(n)
      BY <1>1, <1>5, <2>1 DEF TurnInv
    <2>4. HoldInv(b)'
      BY <1>1, <1>3, <1>5, <2>1 DEF HoldInv, Here, Resource
    <2>5. QED
      BY <2>2, <2>3, <2>4
  <1>6. ASSUME s.pc = "creating", s.session = "open", Resource(b, s.next) \in docker.exists,
               n = IF s.next = "browser" THEN [s EXCEPT !.pc = "ready"]
                   ELSE [s EXCEPT !.pc = "claim",
                                  !.next = IF @ = "network" THEN "app" ELSE "browser"]
        PROVE  n \in BrowserRecord /\ TurnInv(n) /\ HoldInv(b)'
    <2>0. s.next = "network" \/ s.next = "app" \/ s.next = "browser"
      BY <1>1 DEF BrowserRecord, Kinds
    <2>1. /\ n.opens = s.opens /\ n.session = "open" /\ n.failed = s.failed
          /\ n.owned = s.owned /\ n.todo = s.todo /\ n.loop = s.loop /\ n.closing = s.closing
          /\ \/ s.next = "network" /\ n.pc = "claim" /\ n.next = "app"
             \/ s.next = "app" /\ n.pc = "claim" /\ n.next = "browser"
             \/ s.next = "browser" /\ n.pc = "ready"
      <3>1. CASE s.next = "browser"
        BY <1>1, <1>6, <3>1 DEF BrowserRecord
      <3>2. CASE s.next # "browser"
        BY <1>1, <1>6, <2>0, <3>2 DEF BrowserRecord
      <3>3. QED
        BY <3>1, <3>2
    <2>2. n \in BrowserRecord
      BY <1>1, <1>6 DEF BrowserRecord, Kinds
    <2>3. TurnInv(n)
      BY <1>1, <1>6, <2>1 DEF TurnInv
    <2>4. \A r \in docker.requested : r.of # b
      BY <1>1, <1>3, <1>6 DEF HoldInv
    <2>5. /\ \A r \in docker.exists : r.of = b =>
                 r.open <= n.opens /\ (n.pc = "claim" /\ r.open = n.opens => r.kind \in Earlier(n.next))
          /\ Here(b) /\ n.pc = "claim" =>
                 \A kind \in Earlier(n.next) : Resource(b, kind) \in docker.exists
          /\ Here(b) /\ n.pc = "ready" => \A kind \in Kinds : Resource(b, kind) \in docker.exists
      <3>1. Here(b) => \A kind \in Earlier(s.next) : Resource(b, kind) \in docker.exists
        BY <1>1, <1>3, <1>6 DEF HoldInv
      <3>2. \A r \in docker.exists : r.of = b =>
                 r.open <= n.opens /\ (r.open = n.opens => r.kind \in Earlier(s.next) \cup {s.next})
        BY <1>1, <1>3, <1>6, <2>1 DEF HoldInv
      <3>3. QED
        BY <1>6, <2>1, <3>1, <3>2 DEF Earlier, Kinds
    <2>6. \A kind : Resource(b, kind)' = Resource(b, kind)
      BY <1>3, <2>1 DEF Resource
    <2>7. HoldInv(b)'
      BY <1>1, <1>3, <1>6, <2>1, <2>4, <2>5, <2>6 DEF HoldInv, Here
    <2>8. QED
      BY <2>2, <2>3, <2>7
  <1>7. ASSUME s.session = "draining", s.pc \in {"idle", "ready"}, s.loop = "none",
               n = [s EXCEPT !.session = "closed"]
        PROVE  n \in BrowserRecord /\ TurnInv(n) /\ HoldInv(b)'
    <2>1. /\ n.pc = s.pc /\ n.opens = s.opens /\ n.session = "closed" /\ n.failed = s.failed
          /\ n.owned = s.owned /\ n.todo = s.todo /\ n.loop = "none" /\ n.closing = s.closing
      BY <1>1, <1>7 DEF BrowserRecord
    <2>2. n \in BrowserRecord
      BY <1>1, <1>7 DEF BrowserRecord
    <2>3. TurnInv(n)
      BY <1>1, <1>7, <2>1 DEF TurnInv
    <2>4. HoldInv(b)'
      BY <1>1, <1>3, <1>7, <2>1 DEF HoldInv, Here, Resource
    <2>5. QED
      BY <2>2, <2>3, <2>4
  <1>8. s.session = "closed" => n.session = "closed"
    BY <1>1, <1>2 DEF BrowserRecord
  <1>9. QED
    BY <1>1, <1>2, <1>3, <1>4, <1>5, <1>6, <1>7, <1>8, QuietKeeps

LEMMA NoRequestWhileClosing ==
    ASSUME BrowserIInv, NEW b \in Browsers,
           browsers[b].loop # "none" \/ browsers[b].session # "open" \/ browsers[b].pc # "creating"
    PROVE  \A r \in docker.requested : r.of # b
  <1> DEFINE s == browsers[b]
  <1>1. s \in BrowserRecord /\ TurnInv(s) /\ HoldInv(b)
    BY BrowserFacts
  <1>2. s.loop # "none" => ~(s.session = "open" /\ s.pc = "creating")
    BY <1>1 DEF TurnInv
  <1>3. QED
    BY <1>1, <1>2 DEF HoldInv

LEMMA AfterRecord ==
    ASSUME NEW s \in BrowserRecord, NEW f \in BOOLEAN, s.loop # "none"
    PROVE  /\ After(s, f) \in BrowserRecord
           /\ After(s, f).loop = "none" /\ After(s, f).todo = <<>>
           /\ After(s, f).owned = (IF f THEN s.owned ELSE <<>>)
           /\ After(s, f).opens = s.opens /\ After(s, f).next = s.next
           /\ After(s, f).failed <=> (s.failed \/ f)
           /\ IF s.loop = "end"
              THEN /\ After(s, f).session = "draining" /\ After(s, f).pc = s.pc
                   /\ After(s, f).closing = s.closing
              ELSE /\ After(s, f).session = s.session
                   /\ \/ After(s, f).pc = "prepare" /\ After(s, f).closing = FALSE
                      \/ After(s, f).pc = "idle" /\ After(s, f).closing = s.closing
  <1> DEFINE done == [s EXCEPT !.loop = "none", !.todo = <<>>,
                               !.owned = IF f THEN @ ELSE <<>>,
                               !.failed = @ \/ f]
  <1>1. (s.failed \/ f) \in BOOLEAN /\ (IF f THEN s.owned ELSE <<>>) \in Seq(Owned)
        /\ <<>> \in Seq(Owned)
    BY DEF BrowserRecord
  <1>2. done \in BrowserRecord
    BY <1>1 DEF BrowserRecord
  <1>3. /\ done.loop = "none" /\ done.todo = <<>> /\ done.owned = (IF f THEN s.owned ELSE <<>>)
        /\ done.opens = s.opens /\ done.next = s.next /\ done.session = s.session
        /\ done.pc = s.pc /\ done.closing = s.closing /\ done.failed = (s.failed \/ f)
    BY DEF BrowserRecord
  <1>4. After(s, f) = CASE s.loop = "end" -> [done EXCEPT !.session = "draining", !.reported = f]
                        [] s.loop = "open" /\ ~f -> [done EXCEPT !.pc = "prepare", !.closing = FALSE]
                        [] OTHER -> [done EXCEPT !.pc = "idle"]
    BY DEF After
  <1> HIDE DEF done
  <1>5. CASE s.loop = "end"
    <2>1. After(s, f) = [done EXCEPT !.session = "draining", !.reported = f]
      BY <1>4, <1>5
    <2>2. After(s, f) \in BrowserRecord
      BY <1>2, <2>1 DEF BrowserRecord
    <2>3. /\ After(s, f).loop = done.loop /\ After(s, f).todo = done.todo
          /\ After(s, f).owned = done.owned /\ After(s, f).opens = done.opens
          /\ After(s, f).next = done.next /\ After(s, f).failed = done.failed
      BY <1>2, <2>1 DEF BrowserRecord
    <2>4. /\ After(s, f).session = "draining" /\ After(s, f).pc = done.pc
          /\ After(s, f).closing = done.closing
      BY <1>2, <2>1 DEF BrowserRecord
    <2>5. QED
      BY <1>3, <1>5, <2>2, <2>3, <2>4
  <1>6. CASE s.loop = "open" /\ ~f
    <2>1. After(s, f) = [done EXCEPT !.pc = "prepare", !.closing = FALSE]
      BY <1>4, <1>6
    <2>2. After(s, f) \in BrowserRecord
      BY <1>2, <2>1 DEF BrowserRecord
    <2>3. /\ After(s, f).loop = done.loop /\ After(s, f).todo = done.todo
          /\ After(s, f).owned = done.owned /\ After(s, f).opens = done.opens
          /\ After(s, f).next = done.next /\ After(s, f).failed = done.failed
      BY <1>2, <2>1 DEF BrowserRecord
    <2>4. /\ After(s, f).session = done.session /\ After(s, f).pc = "prepare"
          /\ After(s, f).closing = FALSE
      BY <1>2, <2>1 DEF BrowserRecord
    <2>5. QED
      BY <1>3, <1>6, <2>2, <2>3, <2>4
  <1>7. CASE s.loop # "end" /\ ~(s.loop = "open" /\ ~f)
    <2>1. After(s, f) = [done EXCEPT !.pc = "idle"]
      BY <1>4, <1>7
    <2>2. After(s, f) \in BrowserRecord
      BY <1>2, <2>1 DEF BrowserRecord
    <2>3. /\ After(s, f).loop = done.loop /\ After(s, f).todo = done.todo
          /\ After(s, f).owned = done.owned /\ After(s, f).opens = done.opens
          /\ After(s, f).next = done.next /\ After(s, f).failed = done.failed
      BY <1>2, <2>1 DEF BrowserRecord
    <2>4. /\ After(s, f).session = done.session /\ After(s, f).pc = "idle"
          /\ After(s, f).closing = done.closing
      BY <1>2, <2>1 DEF BrowserRecord
    <2>5. QED
      BY <1>3, <1>7, <2>2, <2>3, <2>4
  <1>8. QED
    BY <1>5, <1>6, <1>7

(* A loop ends, with or without an error.                                  *)
LEMMA LoopEnds ==
    ASSUME BrowserIInv, NEW b \in Browsers, NEW f \in BOOLEAN, browsers[b].loop # "none",
           browsers' = [browsers EXCEPT ![b] = After(browsers[b], f)],
           UNCHANGED <<records, docker, rescues, processes>>,
           ~f => browsers[b].todo = <<>>
    PROVE  BrowserIInv'
  <1> DEFINE s == browsers[b]
             n == After(s, f)
  <1>1. /\ s \in BrowserRecord /\ TurnInv(s) /\ HoldInv(b) /\ browsers \in [Browsers -> BrowserRecord]
        /\ \A r \in docker.requested : r.of # b
    BY BrowserFacts, NoRequestWhileClosing
  <1>2. /\ n \in BrowserRecord /\ n.loop = "none" /\ n.todo = <<>>
        /\ n.owned = (IF f THEN s.owned ELSE <<>>)
        /\ n.opens = s.opens /\ n.next = s.next /\ n.failed <=> (s.failed \/ f)
        /\ IF s.loop = "end"
           THEN n.session = "draining" /\ n.pc = s.pc /\ n.closing = s.closing
           ELSE /\ n.session = s.session
                /\ \/ n.pc = "prepare" /\ n.closing = FALSE
                   \/ n.pc = "idle" /\ n.closing = s.closing
    BY <1>1, AfterRecord
  <1>3. browsers' = [browsers EXCEPT ![b] = n] /\ browsers'[b] = n
    BY <1>1
  <1> HIDE DEF n
  <1>4. TurnInv(n)
    BY <1>1, <1>2 DEF TurnInv, BrowserRecord
  <1>5. s.session = "closed" => n.session = "closed"
    BY <1>1, <1>2 DEF TurnInv
  <1>6. ~n.failed => \A r \in docker.exists : r.of # b
    BY <1>1, <1>2 DEF HoldInv
  <1>7. n.session = "open" => n.pc \in {"prepare", "idle"}
    BY <1>1, <1>2 DEF TurnInv
  <1>8. HoldInv(b)'
    <2>1. \A i \in 1 .. Len(n.owned) : n.owned[i].of = b
      BY <1>1, <1>2 DEF HoldInv
    <2>2. \A r \in docker.exists : r.of = b =>
              /\ r.open <= n.opens
              /\ n.pc = "claim" /\ r.open = n.opens => r.kind \in Earlier(n.next)
              /\ n.pc = "creating" /\ r.open = n.opens => r.kind \in Earlier(n.next) \cup {n.next}
      BY <1>1, <1>2 DEF HoldInv
    <2>3. QED
      BY <1>1, <1>2, <1>3, <1>6, <1>7, <2>1, <2>2 DEF HoldInv
  <1>9. QED
    BY <1>2, <1>3, <1>4, <1>5, <1>8, QuietKeeps

LEMMA CloseOneKeeps ==
    ASSUME BrowserIInv, BrowserWindows = {}, NEW b \in Browsers, CloseOne(b) \/ CloseDone(b)
    PROVE  BrowserIInv'
  <1> DEFINE s == browsers[b]
             r == Head(s.todo)
             n == [s EXCEPT !.todo = Tail(@)]
  <1>1. /\ s \in BrowserRecord /\ TurnInv(s) /\ HoldInv(b) /\ browsers \in [Browsers -> BrowserRecord]
        /\ docker.exists \cup docker.requested \subseteq records /\ records \subseteq Owned
        /\ docker \in [up : BOOLEAN, exists : SUBSET Owned, requested : SUBSET Owned, outages : Int]
        /\ UNCHANGED <<rescues, processes>>
    BY BrowserFacts DEF CloseOne, CloseDone
  <1>2. CASE CloseDone(b)
    BY <1>2, LoopEnds DEF CloseDone, Set
  <1>3. CASE CloseOne(b) /\ r \in records /\ ~docker.up
    <2>1. s.loop # "none"
      BY <1>1, <1>3 DEF CloseOne, TurnInv
    <2>2. browsers' = [browsers EXCEPT ![b] = After(s, TRUE)] /\ UNCHANGED <<records, docker>>
      BY <1>3 DEF CloseOne, Set
    <2>3. QED
      BY <1>1, <2>1, <2>2, LoopEnds
  <1>4. CASE CloseOne(b) /\ (r \notin records \/ docker.up)
    <2>1. /\ s.todo # <<>> /\ browsers' = [browsers EXCEPT ![b] = n]
          /\ \/ r \notin records /\ UNCHANGED <<records, docker>>
             \/ r \in records /\ Removed(r)
      BY <1>4 DEF CloseOne, Set
    <2>2. /\ s.loop # "none" /\ s.todo \in Seq(Owned)
          /\ \A x \in docker.requested : x.of # b
      BY <1>1, <2>1, NoRequestWhileClosing DEF TurnInv, BrowserRecord
    <2>3. /\ r \in Owned /\ r = s.todo[1] /\ Len(s.todo) \in Nat /\ Len(s.todo) > 0
          /\ Tail(s.todo) \in Seq(Owned) /\ Len(Tail(s.todo)) = Len(s.todo) - 1
          /\ \A i \in 1 .. Len(s.todo) - 1 : Tail(s.todo)[i] = s.todo[i + 1]
      BY <2>1, <2>2
    <2>4. r.of = b
      BY <1>1, <2>3 DEF HoldInv
    <2>5. /\ n \in BrowserRecord /\ n.todo = Tail(s.todo) /\ n.owned = s.owned
          /\ n.pc = s.pc /\ n.loop = s.loop /\ n.closing = s.closing /\ n.session = s.session
          /\ n.opens = s.opens /\ n.next = s.next /\ n.failed = s.failed
      BY <1>1, <2>3 DEF BrowserRecord
    <2> HIDE DEF n, r
    <2>6. /\ docker'.exists = docker.exists \ {r} /\ docker'.requested = docker.requested
          /\ docker' \in [up : BOOLEAN, exists : SUBSET Owned, requested : SUBSET Owned, outages : Int]
          /\ records' = records \ {r}
      <3>1. CASE r \notin records /\ UNCHANGED <<records, docker>>
        BY <1>1, <3>1
      <3>2. CASE Removed(r)
        BY <1>1, <3>2 DEF Removed
      <3>3. QED
        BY <2>1, <3>1, <3>2
    <2>7. r \notin docker.requested
      BY <2>2, <2>4
    <2>8. TurnInv(n)
      BY <1>1, <2>2, <2>5 DEF TurnInv
    <2>9. browsers'[b] = n
      BY <1>1, <2>1
    <2>10. ~(s.session = "open" /\ s.pc \in {"claim", "creating", "ready"})
      BY <1>1, <2>2 DEF TurnInv
    <2>11. HoldInv(b)'
      <3>1. \A i \in 1 .. Len(n.todo) : n.todo[i].of = b
        <4>1. ASSUME NEW i \in 1 .. Len(n.todo) PROVE n.todo[i].of = b
          <5>1. i \in 1 .. Len(s.todo) - 1 /\ i + 1 \in 1 .. Len(s.todo)
            BY <2>3, <2>5
          <5>2. QED
            BY <1>1, <2>3, <2>5, <5>1 DEF HoldInv
        <4>2. QED
          BY <4>1
      <3>2. ASSUME ~s.failed, NEW x \in docker'.exists, x.of = b
            PROVE  \E i \in 1 .. Len(n.todo) : n.todo[i] = x
        <4>1. PICK j \in 1 .. Len(s.todo) : s.todo[j] = x
          BY <1>1, <2>2, <2>6, <3>2 DEF HoldInv
        <4>2. j # 1
          BY <2>3, <2>6, <4>1
        <4>3. j - 1 \in 1 .. Len(s.todo) - 1 /\ (j - 1) + 1 = j
          BY <2>3, <4>1, <4>2
        <4>4. n.todo[j - 1] = x /\ j - 1 \in 1 .. Len(n.todo)
          BY <2>3, <2>5, <4>1, <4>3
        <4>5. QED
          BY <4>4
      <3>3. \A x \in docker'.exists : x.of = b =>
                /\ x.open <= n.opens
                /\ n.pc = "claim" /\ x.open = n.opens => x.kind \in Earlier(n.next)
                /\ n.pc = "creating" /\ x.open = n.opens => x.kind \in Earlier(n.next) \cup {n.next}
        BY <1>1, <2>5, <2>6 DEF HoldInv
      <3>4. \A i \in 1 .. Len(n.owned) : n.owned[i].of = b
        BY <1>1, <2>5 DEF HoldInv
      <3>5. QED
        BY <2>2, <2>5, <2>6, <2>9, <2>10, <3>1, <3>2, <3>3, <3>4 DEF HoldInv
    <2>12. /\ docker'.exists \cup docker'.requested \subseteq records' /\ records' \subseteq Owned
           /\ \A x : x.of # b => /\ x \in docker'.exists <=> x \in docker.exists
                                 /\ x \in docker'.requested <=> x \in docker.requested
      BY <1>1, <2>4, <2>6, <2>7
    <2>13. QED
      BY <1>1, <2>1, <2>5, <2>6, <2>8, <2>11, <2>12, OwnStepKeeps
  <1>5. QED
    BY <1>2, <1>3, <1>4

LEMMA ClaimKeeps ==
    ASSUME BrowserIInv, NEW b \in Browsers, ClaimResource(b)
    PROVE  BrowserIInv'
  <1> DEFINE s == browsers[b]
             r == Resource(b, s.next)
             n == [s EXCEPT !.pc = "creating", !.owned = Append(@, r)]
  <1>1. /\ s \in BrowserRecord /\ TurnInv(s) /\ HoldInv(b) /\ browsers \in [Browsers -> BrowserRecord]
        /\ docker.exists \cup docker.requested \subseteq records /\ records \subseteq Owned
        /\ docker \in [up : BOOLEAN, exists : SUBSET Owned, requested : SUBSET Owned, outages : Int]
        /\ s.pc = "claim" /\ Here(b)
        /\ UNCHANGED <<rescues, processes>> /\ records' = records \cup {r}
        /\ \A x \in docker.requested : x.of # b
    BY BrowserFacts, NoRequestWhileClosing DEF ClaimResource
  <1>2. r \in Owned /\ r.of = b /\ r.kind = s.next /\ r.open = s.opens /\ s.next \in Kinds
    BY <1>1, BrowserFacts DEF BrowserRecord
  <1>3. /\ docker'.exists = docker.exists
        /\ docker'.requested = (IF s.session = "open" THEN docker.requested \cup {r} ELSE docker.requested)
        /\ docker' \in [up : BOOLEAN, exists : SUBSET Owned, requested : SUBSET Owned, outages : Int]
    BY <1>1, <1>2 DEF ClaimResource
  <1>4. browsers' = [browsers EXCEPT ![b] = n] /\ browsers'[b] = n
    BY <1>1 DEF ClaimResource, Set
  <1>5. /\ Append(s.owned, r) \in Seq(Owned) /\ Len(s.owned) \in Nat
        /\ Len(Append(s.owned, r)) = Len(s.owned) + 1
        /\ \A i \in 1 .. Len(s.owned) : Append(s.owned, r)[i] = s.owned[i]
        /\ Append(s.owned, r)[Len(s.owned) + 1] = r
    BY <1>1, <1>2 DEF BrowserRecord
  <1>6. /\ n \in BrowserRecord /\ n.pc = "creating" /\ n.owned = Append(s.owned, r) /\ n.todo = s.todo
        /\ n.loop = s.loop /\ n.closing = s.closing /\ n.session = s.session
        /\ n.opens = s.opens /\ n.next = s.next /\ n.failed = s.failed
    BY <1>1, <1>5 DEF BrowserRecord
  <1>7. r \notin docker.exists
    BY <1>1, <1>2 DEF HoldInv, Earlier, Kinds
  <1>8. \A kind : Resource(b, kind)' = Resource(b, kind)
    BY <1>4, <1>6 DEF Resource
  <1>9. r = [of |-> b, kind |-> n.next, open |-> n.opens]
    BY <1>6 DEF Resource
  <1> HIDE DEF n, r
  <1>10. TurnInv(n)
    BY <1>1, <1>6 DEF TurnInv
  <1>11. \A i \in 1 .. Len(n.owned) : n.owned[i].of = b
    <2>1. ASSUME NEW i \in 1 .. Len(n.owned) PROVE n.owned[i].of = b
      <3>1. CASE i = Len(s.owned) + 1
        BY <1>2, <1>5, <1>6, <3>1
      <3>2. CASE i # Len(s.owned) + 1
        <4>1. i \in 1 .. Len(s.owned)
          BY <1>5, <1>6, <3>2
        <4>2. QED
          BY <1>1, <1>5, <1>6, <4>1 DEF HoldInv
      <3>3. QED
        BY <3>1, <3>2
    <2>2. QED
      BY <2>1
  <1>12. ASSUME ~s.failed, NEW x \in docker'.exists \cup docker'.requested, x.of = b
         PROVE  IF s.loop = "none"
                THEN /\ ~s.closing /\ s.session = "open"
                     /\ \E i \in 1 .. Len(n.owned) : n.owned[i] = x
                ELSE \E i \in 1 .. Len(s.todo) : s.todo[i] = x
    <2>1. CASE x \in docker.exists
      <3>1. CASE s.loop = "none"
        <4>1. /\ ~s.closing /\ s.session = "open"
              /\ \E i \in 1 .. Len(s.owned) : s.owned[i] = x
          BY <1>1, <1>12, <2>1, <3>1 DEF HoldInv
        <4>2. PICK i \in 1 .. Len(s.owned) : s.owned[i] = x
          BY <4>1
        <4>3. i \in 1 .. Len(n.owned) /\ n.owned[i] = x
          BY <1>5, <1>6, <4>2
        <4>4. QED
          BY <3>1, <4>1, <4>3
      <3>2. CASE s.loop # "none"
        BY <1>1, <1>12, <2>1, <3>2 DEF HoldInv
      <3>3. QED
        BY <3>1, <3>2
    <2>2. CASE x \notin docker.exists
      <3>1. x = r /\ s.session = "open"
        BY <1>1, <1>3, <1>12, <2>2
      <3>2. s.loop = "none" /\ ~s.closing
        BY <1>1, <3>1 DEF TurnInv, BrowserRecord
      <3>3. Len(s.owned) + 1 \in 1 .. Len(n.owned) /\ n.owned[Len(s.owned) + 1] = x
        BY <1>5, <1>6, <3>1
      <3>4. QED
        BY <3>1, <3>2, <3>3
    <2>3. QED
      BY <2>1, <2>2
  <1>13. HoldInv(b)'
    <2>1. \A x \in docker'.requested : x.of = b => x = r /\ s.session = "open"
      BY <1>1, <1>3
    <2>2. \A x \in docker.exists : x.of = b =>
              x.open <= s.opens /\ (x.open = s.opens => x.kind \in Earlier(s.next))
      BY <1>1 DEF HoldInv
    <2>3. Here(b)'
      BY <1>1 DEF Here
    <2>4. s.session = "open" => \A kind \in Earlier(s.next) : Resource(b, kind) \in docker.exists
      BY <1>1 DEF HoldInv
    <2>5. \A i \in 1 .. Len(n.todo) : n.todo[i].of = b
      BY <1>1, <1>6 DEF HoldInv
    <2>6. \A x \in docker'.requested : x.of = b =>
              /\ n.session = "open" /\ n.pc = "creating" /\ x \notin docker'.exists
              /\ x = [of |-> b, kind |-> n.next, open |-> n.opens]
      BY <1>3, <1>6, <1>7, <1>9, <2>1
    <2>7. \A x \in docker'.exists : x.of = b =>
              /\ x.open <= n.opens
              /\ n.pc = "claim" /\ x.open = n.opens => x.kind \in Earlier(n.next)
              /\ n.pc = "creating" /\ x.open = n.opens => x.kind \in Earlier(n.next) \cup {n.next}
      BY <1>3, <1>6, <2>2
    <2>8. ~n.failed =>
              \A x \in docker'.exists \cup docker'.requested : x.of = b =>
                  IF n.loop = "none"
                  THEN /\ ~n.closing /\ n.session = "open"
                       /\ \E i \in 1 .. Len(n.owned) : n.owned[i] = x
                  ELSE \E i \in 1 .. Len(n.todo) : n.todo[i] = x
      BY <1>6, <1>12
    <2>9. n.session = "open" => \A kind \in Earlier(n.next) : Resource(b, kind)' \in docker'.exists
      BY <1>3, <1>6, <1>8, <2>4
    <2>10. n.pc # "ready"
      BY <1>6
    <2>11. QED
      BY <1>4, <1>11, <2>3, <2>5, <2>6, <2>7, <2>8, <2>9, <2>10 DEF HoldInv, Resource
  <1>14. /\ docker'.exists \cup docker'.requested \subseteq records' /\ records' \subseteq Owned
         /\ \A x : x.of # b => /\ x \in docker'.exists <=> x \in docker.exists
                               /\ x \in docker'.requested <=> x \in docker.requested
    BY <1>1, <1>2, <1>3
  <1>15. QED
    BY <1>1, <1>3, <1>4, <1>6, <1>10, <1>13, <1>14, OwnStepKeeps

LEMMA StopKeeps ==
    ASSUME BrowserIInv, BrowserWindows = {}, NEW b \in Browsers, OpenFails(b) \/ EndSession(b)
    PROVE  BrowserIInv'
  <1> DEFINE s == browsers[b]
  <1>1. /\ s \in BrowserRecord /\ TurnInv(s) /\ HoldInv(b) /\ browsers \in [Browsers -> BrowserRecord]
        /\ docker.exists \cup docker.requested \subseteq records /\ records \subseteq Owned
        /\ docker \in [up : BOOLEAN, exists : SUBSET Owned, requested : SUBSET Owned, outages : Int]
        /\ UNCHANGED <<records, rescues, processes>>
    BY BrowserFacts DEF OpenFails, EndSession
  <1>2. /\ docker'.exists = docker.exists
        /\ docker'.requested = {r \in docker.requested : r.of # b}
        /\ docker' \in [up : BOOLEAN, exists : SUBSET Owned, requested : SUBSET Owned, outages : Int]
    BY <1>1 DEF OpenFails, EndSession, Killed
  <1>3. /\ docker'.exists \cup docker'.requested \subseteq records' /\ records' \subseteq Owned
        /\ \A x : x.of # b => /\ x \in docker'.exists <=> x \in docker.exists
                              /\ x \in docker'.requested <=> x \in docker.requested
        /\ \A x \in docker'.requested : x.of # b
    BY <1>1, <1>2
  <1>4. ASSUME NEW n \in BrowserRecord, browsers' = [browsers EXCEPT ![b] = n], s.closing,
               n.todo = s.todo, n.owned = s.owned, n.loop = s.loop, n.closing = s.closing,
               n.opens = s.opens, n.next = s.next, n.failed = s.failed, n.session # "open",
               s.session = "closed" => n.session = "closed",
               n.pc = s.pc \/ n.pc = "idle", TurnInv(n)
        PROVE  BrowserIInv'
    <2>1. browsers'[b] = n
      BY <1>1, <1>4
    <2>2. HoldInv(b)'
      BY <1>1, <1>2, <1>3, <1>4, <2>1 DEF HoldInv
    <2>3. QED
      BY <1>1, <1>2, <1>3, <1>4, <2>2, OwnStepKeeps
  <1>5. ASSUME NEW n \in BrowserRecord, browsers' = [browsers EXCEPT ![b] = n], ~s.closing,
               n.todo = Reverse(s.owned), n.owned = s.owned, n.loop # "none",
               n.opens = s.opens, n.next = s.next, n.failed = s.failed, s.session # "closed",
               n.pc = "closing" \/ (n.session # "open" /\ n.pc = s.pc), TurnInv(n)
        PROVE  BrowserIInv'
    <2>1. s.loop = "none"
      BY <1>1, <1>5 DEF TurnInv
    <2>2. HoldInv(b)'
      BY <1>1, <1>2, <1>3, <1>5, <2>1, LoopStarts
    <2>3. QED
      BY <1>1, <1>2, <1>3, <1>5, <2>2, OwnStepKeeps
  <1>6. CASE OpenFails(b) /\ s.closing
    <2> DEFINE n == [s EXCEPT !.pc = "idle"]
    <2>1. browsers' = [browsers EXCEPT ![b] = n] /\ s.pc = "creating"
      BY <1>6 DEF OpenFails, Set
    <2>2. /\ n \in BrowserRecord /\ n.pc = "idle" /\ n.todo = s.todo /\ n.owned = s.owned
          /\ n.loop = s.loop /\ n.closing = s.closing /\ n.session = s.session
          /\ n.opens = s.opens /\ n.next = s.next /\ n.failed = s.failed
      BY <1>1 DEF BrowserRecord
    <2> HIDE DEF n
    <2>3. TurnInv(n) /\ n.session # "open"
      BY <1>1, <1>6, <2>1, <2>2 DEF TurnInv
    <2>4. QED
      BY <1>4, <1>6, <2>1, <2>2, <2>3
  <1>7. CASE OpenFails(b) /\ ~s.closing
    <2> DEFINE m == Looping(s, "catch")
               n == [m EXCEPT !.pc = "closing"]
    <2>1. browsers' = [browsers EXCEPT ![b] = n] /\ s.pc = "creating"
      <3>1. Set(b, n) /\ s.pc = "creating"
        BY <1>7 DEF OpenFails
      <3> HIDE DEF n
      <3>2. QED
        BY <3>1 DEF Set
    <2>2. /\ m \in BrowserRecord
          /\ m = [s EXCEPT !.closing = TRUE, !.loop = "catch", !.todo = Reverse(s.owned)]
      BY <1>1, LoopingRecord
    <2>3. n \in BrowserRecord
      <3>1. ASSUME NEW x \in BrowserRecord PROVE [x EXCEPT !.pc = "closing"] \in BrowserRecord
        BY DEF BrowserRecord
      <3>2. QED
        BY <2>2, <3>1
    <2>4. /\ n.pc = "closing" /\ n.todo = Reverse(s.owned) /\ n.owned = s.owned
          /\ n.loop = "catch" /\ n.closing = TRUE /\ n.session = s.session
          /\ n.opens = s.opens /\ n.next = s.next /\ n.failed = s.failed
      BY <1>1, <2>2 DEF BrowserRecord
    <2> HIDE DEF n
    <2>5. TurnInv(n) /\ s.session = "open"
      BY <1>1, <1>7, <2>1, <2>4 DEF TurnInv
    <2>6. QED
      BY <1>5, <1>7, <2>1, <2>3, <2>4, <2>5
  <1>8. CASE EndSession(b) /\ s.closing
    <2> DEFINE n == [s EXCEPT !.session = "draining"]
    <2>1. browsers' = [browsers EXCEPT ![b] = n] /\ s.session = "open"
      BY <1>8 DEF EndSession, Set
    <2>2. /\ n \in BrowserRecord /\ n.pc = s.pc /\ n.todo = s.todo /\ n.owned = s.owned
          /\ n.loop = s.loop /\ n.closing = s.closing /\ n.session = "draining"
          /\ n.opens = s.opens /\ n.next = s.next /\ n.failed = s.failed
      BY <1>1 DEF BrowserRecord
    <2> HIDE DEF n
    <2>3. TurnInv(n)
      BY <1>1, <1>8, <2>1, <2>2 DEF TurnInv
    <2>4. QED
      BY <1>4, <1>8, <2>1, <2>2, <2>3
  <1>9. CASE EndSession(b) /\ ~s.closing
    <2> DEFINE m == Looping(s, "end")
               n == [m EXCEPT !.session = "closing"]
    <2>1. browsers' = [browsers EXCEPT ![b] = n] /\ s.session = "open"
      BY <1>9 DEF EndSession, Set
    <2>2. /\ m \in BrowserRecord
          /\ m = [s EXCEPT !.closing = TRUE, !.loop = "end", !.todo = Reverse(s.owned)]
      BY <1>1, LoopingRecord
    <2>3. n \in BrowserRecord
      <3>1. ASSUME NEW x \in BrowserRecord PROVE [x EXCEPT !.session = "closing"] \in BrowserRecord
        BY DEF BrowserRecord
      <3>2. QED
        BY <2>2, <3>1
    <2>4. /\ n.pc = s.pc /\ n.todo = Reverse(s.owned) /\ n.owned = s.owned
          /\ n.loop = "end" /\ n.closing = TRUE /\ n.session = "closing"
          /\ n.opens = s.opens /\ n.next = s.next /\ n.failed = s.failed
      BY <1>1, <2>2 DEF BrowserRecord
    <2> HIDE DEF n
    <2>5. TurnInv(n)
      BY <1>1, <1>9, <2>1, <2>4 DEF TurnInv
    <2>6. QED
      BY <1>5, <1>9, <2>1, <2>3, <2>4, <2>5
  <1>10. QED
    BY <1>6, <1>7, <1>8, <1>9

-----------------------------------------------------------------------------
(* What processes and the daemon do.                                       *)

(* Recovery and crashes take away only from browsers nobody uses.          *)
LEMMA HoldShrinks ==
    ASSUME NEW b \in Browsers, HoldInv(b), UNCHANGED browsers, Here(b)' => Here(b),
           docker'.exists \subseteq docker.exists, docker'.requested \subseteq docker.requested,
           \A r \in docker'.requested : r.of = b => Here(b)',
           Here(b)' /\ browsers[b].session = "open" =>
               \A r \in docker.exists : r.of = b => r \in docker'.exists
    PROVE  HoldInv(b)'
  <1> DEFINE s == browsers[b]
  <1>1. \A kind : Resource(b, kind)' = Resource(b, kind) /\ Resource(b, kind).of = b
    BY DEF Resource
  <1>2. \A r \in docker'.requested : r.of = b =>
            /\ Here(b)' /\ s.session = "open" /\ s.pc = "creating"
            /\ r = Resource(b, s.next) /\ r \notin docker'.exists
    BY DEF HoldInv
  <1>3. \A r \in docker'.exists : r.of = b =>
            /\ r.open <= s.opens
            /\ s.pc = "claim" /\ r.open = s.opens => r.kind \in Earlier(s.next)
            /\ s.pc = "creating" /\ r.open = s.opens => r.kind \in Earlier(s.next) \cup {s.next}
    BY DEF HoldInv
  <1>4. /\ Here(b)' /\ s.session = "open" /\ s.pc \in {"claim", "creating"} =>
               \A kind \in Earlier(s.next) : Resource(b, kind) \in docker'.exists
        /\ Here(b)' /\ s.session = "open" /\ s.pc = "ready" =>
               \A kind \in Kinds : Resource(b, kind) \in docker'.exists
    BY <1>1 DEF HoldInv
  <1>5. ~s.failed =>
            \A r \in docker'.exists \cup docker'.requested : r.of = b =>
                IF s.loop = "none"
                THEN /\ ~s.closing /\ s.session = "open"
                     /\ \E i \in 1 .. Len(s.owned) : s.owned[i] = r
                ELSE \E i \in 1 .. Len(s.todo) : s.todo[i] = r
    BY DEF HoldInv
  <1>6. /\ \A i \in 1 .. Len(s.owned) : s.owned[i].of = b
        /\ \A i \in 1 .. Len(s.todo) : s.todo[i].of = b
    BY DEF HoldInv
  <1>7. QED
    BY <1>1, <1>2, <1>3, <1>4, <1>5, <1>6 DEF HoldInv

LEMMA RescueKeeps ==
    ASSUME BrowserIInv, BrowserWindows = {}, NEW p \in Rescuers, Rescue(p)
    PROVE  BrowserIInv'
  <1>1. /\ UNCHANGED <<records, docker, browsers, processes>>
        /\ rescues' = [rescues EXCEPT ![p] = Mine(p)]
        /\ Mine(p) \subseteq Owned /\ rescues \in [Rescuers -> SUBSET Owned]
    BY DEF Rescue, Mine, BrowserIInv, ResourceTypes
  <1>2. rescues' \in [Rescuers -> SUBSET Owned]
    BY <1>1
  <1>3. ResourceTypes'
    BY <1>1, <1>2 DEF BrowserIInv, ResourceTypes
  <1>4. ASSUME NEW b \in Browsers PROVE TurnInv(browsers'[b]) /\ HoldInv(b)'
    <2>1. Here(b)' <=> Here(b)
      BY <1>1 DEF Here
    <2>2. HoldInv(b)'
      BY <1>1, <2>1, HoldKept, BrowserFacts
    <2>3. QED
      BY <1>1, <2>2, BrowserFacts
  <1>5. ASSUME NEW x \in Rescuers, NEW r \in rescues'[x]
        PROVE  ~Here(r.of)' \/ browsers'[r.of].session = "closed"
    <2>1. CASE x # p
      <3>1. r \in rescues[x]
        BY <1>1, <1>5, <2>1
      <3>2. QED
        BY <1>1, <3>1 DEF BrowserIInv, RescueInv, Here
    <2>2. CASE x = p
      <3>1. r \in Mine(p) /\ r \in Owned
        BY <1>1, <1>5, <2>2
      <3>2. r.of \in Browsers /\ BrowserProcess(r.of) \notin processes.alive \ {p}
        BY <3>1 DEF Mine, Owned
      <3>3. BrowserProcess(r.of) = p => browsers[r.of].session = "closed"
        BY <3>2 DEF Rescue
      <3>4. QED
        BY <1>1, <3>2, <3>3 DEF Here
    <2>3. QED
      BY <2>1, <2>2
  <1>6. docker'.exists \cup docker'.requested \subseteq records'
    BY <1>1 DEF BrowserIInv
  <1>7. QED
    BY <1>3, <1>4, <1>5, <1>6 DEF BrowserIInv, RescueInv

LEMMA RescueOneKeeps ==
    ASSUME BrowserIInv, BrowserWindows = {}, NEW p \in Rescuers, RescueOne(p)
    PROVE  BrowserIInv'
  <1>1. /\ rescues \in [Rescuers -> SUBSET Owned] /\ records \subseteq Owned
        /\ docker \in [up : BOOLEAN, exists : SUBSET Owned, requested : SUBSET Owned, outages : Int]
        /\ docker.exists \cup docker.requested \subseteq records
        /\ UNCHANGED <<browsers, processes>>
    BY DEF RescueOne, BrowserIInv, ResourceTypes
  <1>2. PICK r \in rescues[p] :
            \/ Removed(r) /\ rescues' = [rescues EXCEPT ![p] = @ \ {r}]
            \/ rescues' = [rescues EXCEPT ![p] = {}] /\ UNCHANGED <<records, docker>>
    BY DEF RescueOne
  <1>3. r \in Owned /\ r.of \in Browsers /\ (~Here(r.of) \/ browsers[r.of].session = "closed")
    BY <1>1 DEF BrowserIInv, RescueInv, Owned
  <1>4. r \notin docker.requested
    BY <1>3, BrowserFacts DEF HoldInv
  <1>5. /\ docker' \in [up : BOOLEAN, exists : SUBSET Owned, requested : SUBSET Owned, outages : Int]
        /\ docker'.requested = docker.requested
        /\ \/ docker'.exists = docker.exists /\ records' = records
           \/ docker'.exists = docker.exists \ {r} /\ records' = records \ {r}
    <2>1. CASE UNCHANGED <<records, docker>>
      BY <1>1, <2>1
    <2>2. CASE Removed(r)
      BY <1>1, <2>2 DEF Removed
    <2>3. QED
      BY <1>2, <2>1, <2>2
  <1>6. rescues' \in [Rescuers -> SUBSET Owned] /\ \A x \in Rescuers : rescues'[x] \subseteq rescues[x]
    BY <1>1, <1>2
  <1>7. ResourceTypes'
    BY <1>1, <1>5, <1>6 DEF BrowserIInv, ResourceTypes
  <1>8. docker'.exists \cup docker'.requested \subseteq records'
    BY <1>1, <1>4, <1>5
  <1>9. ASSUME NEW b \in Browsers PROVE TurnInv(browsers'[b]) /\ HoldInv(b)'
    <2>1. (Here(b)' <=> Here(b)) /\ HoldInv(b) /\ TurnInv(browsers[b])
      BY <1>1, BrowserFacts DEF Here
    <2>2. \A x \in docker'.requested : x.of = b => Here(b)'
      BY <1>5, <2>1 DEF HoldInv
    <2>3. Here(b)' /\ browsers[b].session = "open" =>
              \A x \in docker.exists : x.of = b => x \in docker'.exists
      BY <1>3, <1>5, <2>1
    <2>4. HoldInv(b)'
      BY <1>1, <1>5, <2>1, <2>2, <2>3, HoldShrinks
    <2>5. QED
      BY <1>1, <2>1, <2>4
  <1>10. ASSUME NEW x \in Rescuers PROVE RescueInv(x)'
    BY <1>1, <1>6 DEF BrowserIInv, RescueInv, Here
  <1>11. QED
    BY <1>7, <1>8, <1>9, <1>10 DEF BrowserIInv

LEMMA DaemonKeeps ==
    ASSUME BrowserIInv, NEW r \in docker.requested, DaemonCreates(r)
    PROVE  BrowserIInv'
  <1>1. /\ docker \in [up : BOOLEAN, exists : SUBSET Owned, requested : SUBSET Owned, outages : Int]
        /\ docker.exists \cup docker.requested \subseteq records
        /\ UNCHANGED <<records, browsers, rescues, processes>>
        /\ r \in Owned /\ r.of \in Browsers
    BY DEF DaemonCreates, BrowserIInv, ResourceTypes, Owned
  <1>2. /\ docker' \in [up : BOOLEAN, exists : SUBSET Owned, requested : SUBSET Owned, outages : Int]
        /\ docker'.requested = docker.requested \ {r} /\ docker'.exists = docker.exists \cup {r}
    BY <1>1 DEF DaemonCreates
  <1>3. ResourceTypes'
    BY <1>1, <1>2 DEF BrowserIInv, ResourceTypes
  <1>4. ASSUME NEW b \in Browsers PROVE TurnInv(browsers'[b]) /\ HoldInv(b)'
    <2> DEFINE s == browsers[b]
    <2>1. (Here(b)' <=> Here(b)) /\ HoldInv(b) /\ TurnInv(s) /\ s \in BrowserRecord
      BY <1>1, BrowserFacts DEF Here
    <2>2. CASE r.of # b
      <3>1. HoldInv(b)'
        BY <1>1, <1>2, <2>1, <2>2, HoldKept
      <3>2. QED
        BY <1>1, <2>1, <3>1
    <2>3. CASE r.of = b
      <3>1. /\ Here(b) /\ s.session = "open" /\ s.pc = "creating"
            /\ r = Resource(b, s.next)
        BY <2>1, <2>3 DEF HoldInv
      <3>2. r.kind = s.next /\ r.open = s.opens /\ s.opens \in Nat
        BY <2>1, <3>1 DEF Resource, BrowserRecord
      <3>3. \A x \in docker'.requested : x.of # b
        BY <1>2, <2>1, <3>1 DEF HoldInv
      <3>4. \A x \in docker'.exists : x.of = b =>
                x.open <= s.opens /\ (x.open = s.opens => x.kind \in Earlier(s.next) \cup {s.next})
        BY <1>2, <2>1, <3>1, <3>2 DEF HoldInv
      <3>5. docker'.exists \cup docker'.requested = docker.exists \cup docker.requested
        BY <1>2
      <3>6. \A kind \in Earlier(s.next) : Resource(b, kind)' \in docker'.exists
        BY <1>1, <1>2, <2>1, <3>1 DEF HoldInv, Resource
      <3>7. /\ \A i \in 1 .. Len(s.owned) : s.owned[i].of = b
            /\ \A i \in 1 .. Len(s.todo) : s.todo[i].of = b
            /\ ~s.failed =>
                   \A x \in docker'.exists \cup docker'.requested : x.of = b =>
                       IF s.loop = "none"
                       THEN /\ ~s.closing /\ s.session = "open"
                            /\ \E i \in 1 .. Len(s.owned) : s.owned[i] = x
                       ELSE \E i \in 1 .. Len(s.todo) : s.todo[i] = x
        BY <2>1, <3>5 DEF HoldInv
      <3>8. HoldInv(b)'
        BY <1>1, <3>1, <3>3, <3>4, <3>6, <3>7 DEF HoldInv
      <3>9. QED
        BY <1>1, <2>1, <3>8
    <2>4. QED
      BY <2>2, <2>3
  <1>5. ASSUME NEW x \in Rescuers PROVE RescueInv(x)'
    BY <1>1 DEF BrowserIInv, RescueInv, Here
  <1>6. docker'.exists \cup docker'.requested \subseteq records'
    BY <1>1, <1>2
  <1>7. QED
    BY <1>3, <1>4, <1>5, <1>6 DEF BrowserIInv

LEMMA OutageKeeps ==
    ASSUME BrowserIInv, Outage \/ UNCHANGED browserVars
    PROVE  BrowserIInv'
  <1>1. /\ docker \in [up : BOOLEAN, exists : SUBSET Owned, requested : SUBSET Owned, outages : Int]
        /\ UNCHANGED <<records, browsers, rescues, processes>>
    BY DEF Outage, browserVars, BrowserIInv, ResourceTypes
  <1>2. /\ docker' \in [up : BOOLEAN, exists : SUBSET Owned, requested : SUBSET Owned, outages : Int]
        /\ docker'.requested = docker.requested /\ docker'.exists = docker.exists
    <2>1. CASE Outage
      <3>1. (IF docker.up THEN docker.outages - 1 ELSE docker.outages) \in Int
        BY <1>1
      <3>2. QED
        BY <1>1, <2>1, <3>1 DEF Outage
    <2>2. CASE UNCHANGED browserVars
      BY <1>1, <2>2 DEF browserVars
    <2>3. QED
      BY <2>1, <2>2
  <1>3. ResourceTypes'
    BY <1>1, <1>2 DEF BrowserIInv, ResourceTypes
  <1>4. ASSUME NEW b \in Browsers PROVE TurnInv(browsers'[b]) /\ HoldInv(b)'
    <2>1. (Here(b)' <=> Here(b)) /\ HoldInv(b) /\ TurnInv(browsers[b])
      BY <1>1, BrowserFacts DEF Here
    <2>2. HoldInv(b)'
      BY <1>1, <1>2, <2>1, HoldKept
    <2>3. QED
      BY <1>1, <2>1, <2>2
  <1>5. ASSUME NEW x \in Rescuers PROVE RescueInv(x)'
    BY <1>1 DEF BrowserIInv, RescueInv, Here
  <1>6. docker'.exists \cup docker'.requested \subseteq records'
    BY <1>1, <1>2 DEF BrowserIInv
  <1>7. QED
    BY <1>3, <1>4, <1>5, <1>6 DEF BrowserIInv

LEMMA KillKeeps ==
    ASSUME BrowserIInv, BrowserWindows = {}, NEW p \in processes.alive, KillProcess(p)
    PROVE  BrowserIInv'
  <1>1. /\ docker \in [up : BOOLEAN, exists : SUBSET Owned, requested : SUBSET Owned, outages : Int]
        /\ UNCHANGED <<records, browsers, rescues>> /\ processes'.alive = processes.alive \ {p}
        /\ docker.exists \cup docker.requested \subseteq records
    BY DEF KillProcess, BrowserIInv, ResourceTypes
  <1>2. /\ docker' \in [up : BOOLEAN, exists : SUBSET Owned, requested : SUBSET Owned, outages : Int]
        /\ docker'.requested = {r \in docker.requested : BrowserProcess(r.of) # p}
        /\ docker'.exists = docker.exists
    BY <1>1 DEF KillProcess
  <1>3. ResourceTypes'
    BY <1>1, <1>2 DEF BrowserIInv, ResourceTypes
  <1>4. ASSUME NEW b \in Browsers PROVE TurnInv(browsers'[b]) /\ HoldInv(b)'
    <2>1. (Here(b)' => Here(b)) /\ HoldInv(b) /\ TurnInv(browsers[b])
      BY <1>1, BrowserFacts DEF Here
    <2>2. \A r \in docker'.requested : r.of = b => Here(b)'
      <3>1. ASSUME NEW r \in docker'.requested, r.of = b PROVE Here(b)'
        <4>1. Here(b) /\ BrowserProcess(b) # p
          BY <1>2, <2>1, <3>1 DEF HoldInv
        <4>2. QED
          BY <1>1, <4>1 DEF Here
      <3>2. QED
        BY <3>1
    <2>3. HoldInv(b)'
      BY <1>1, <1>2, <2>1, <2>2, HoldShrinks
    <2>4. QED
      BY <1>1, <2>1, <2>3
  <1>5. ASSUME NEW x \in Rescuers PROVE RescueInv(x)'
    BY <1>1 DEF BrowserIInv, RescueInv, Here
  <1>6. docker'.exists \cup docker'.requested \subseteq records'
    BY <1>1, <1>2
  <1>7. QED
    BY <1>3, <1>4, <1>5, <1>6 DEF BrowserIInv

LEMMA BrowserStarts == BrowserInit => BrowserIInv
  <1> SUFFICES ASSUME BrowserInit PROVE BrowserIInv
    OBVIOUS
  <1>1. PICK budget \in BrowserBudgets :
            /\ docker = [up |-> TRUE, exists |-> {}, requested |-> {}, outages |-> budget.outages]
            /\ browsers = [b \in Browsers |-> NewBrowser(budget.opens[b])]
    BY DEF BrowserInit
  <1>2. budget.outages \in Int /\ budget.opens \in [Browsers -> 0 .. MaxOpens]
    BY BrowserAssumption
  <1>3. ASSUME NEW b \in Browsers
        PROVE  /\ browsers[b] \in BrowserRecord /\ TurnInv(browsers[b]) /\ HoldInv(b)
    <2> DEFINE s == browsers[b]
    <2>1. s = NewBrowser(budget.opens[b]) /\ budget.opens[b] \in Int
      BY <1>1, <1>2
    <2>2. <<>> \in Seq(Owned) /\ Len(<<>>) = 0
      OBVIOUS
    <2>3. /\ s \in BrowserRecord /\ s.pc = "idle" /\ s.loop = "none" /\ s.session = "open"
          /\ s.closing = FALSE /\ s.owned = <<>> /\ s.todo = <<>>
      BY <2>1, <2>2 DEF NewBrowser, BrowserRecord, Kinds
    <2> HIDE DEF s
    <2>4. TurnInv(s)
      BY <2>3 DEF TurnInv
    <2>5. s = browsers[b]
      BY DEF s
    <2>6. HoldInv(b)
      BY <1>1, <2>2, <2>3, <2>5 DEF HoldInv
    <2>7. QED
      BY <2>3, <2>4, <2>5, <2>6
  <1>4. ResourceTypes
    BY <1>1, <1>2, <1>3 DEF BrowserInit, ResourceTypes
  <1>5. docker.exists \cup docker.requested \subseteq records
    BY <1>1
  <1>6. \A p \in Rescuers : RescueInv(p)
    BY DEF BrowserInit, RescueInv
  <1>7. QED
    BY <1>3, <1>4, <1>5, <1>6 DEF BrowserIInv

LEMMA BrowserStepKeeps ==
    ASSUME BrowserIInv, BrowserWindows = {}, [BrowserNext]_browserVars
    PROVE  BrowserIInv'
  <1>1. ASSUME NEW b \in Browsers, BrowserStep(b) \/ CallOpen(b) \/ CallClose(b) \/ EndSession(b)
        PROVE  BrowserIInv'
    BY <1>1, CloseOneKeeps, CallsKeep, PrepareKeeps, ClaimKeeps, StopKeeps DEF BrowserStep
  <1>2. ASSUME NEW p \in Rescuers, Rescue(p) \/ RescueOne(p) PROVE BrowserIInv'
    BY <1>2, RescueKeeps, RescueOneKeeps
  <1>3. ASSUME NEW r \in docker.requested, DaemonCreates(r) PROVE BrowserIInv'
    BY <1>3, DaemonKeeps
  <1>4. ASSUME NEW p \in processes.alive, KillProcess(p) PROVE BrowserIInv'
    BY <1>4, KillKeeps
  <1>5. ASSUME Outage \/ UNCHANGED browserVars PROVE BrowserIInv'
    BY <1>5, OutageKeeps
  <1>6. QED
    BY <1>1, <1>2, <1>3, <1>4, <1>5 DEF BrowserNext

(* A browser, its loops and the daemon stay as their code assumes, through *)
(* opens that fail, ends of sessions, crashes and recovery (sandbox.ts     *)
(* open, close, recoverBrowserResources), when Docker drops what it was    *)
(* asked by a killed command and shows what exists in time.                *)
THEOREM BrowserInvariant == BrowserWindows = {} => (BrowserSpec => []BrowserIInv)
  <1> SUFFICES ASSUME BrowserWindows = {} PROVE BrowserSpec => []BrowserIInv
    OBVIOUS
  <1>1. BrowserIInv /\ [BrowserNext]_browserVars => BrowserIInv'
    BY BrowserStepKeeps
  <1>2. QED
    BY <1>1, BrowserStarts, PTL DEF BrowserSpec

(* Nothing that exists in the daemon is without a record, a session closed *)
(* without a failure has left nothing there, and recovery takes nothing    *)
(* from a session in progress (sandbox.ts claim, close,                    *)
(* recoverBrowserResources).                                               *)
THEOREM BrowsersAreAccounted == BrowserWindows = {} => (BrowserSpec => []BrowserAccounted)
  <1>1. BrowserIInv => BrowserAccounted
    <2> SUFFICES ASSUME BrowserIInv PROVE BrowserAccounted
      OBVIOUS
    <2>1. NothingForgotten
      BY DEF BrowserIInv, NothingForgotten
    <2>2. CleanCloseLeavesNothing
      <3>1. ASSUME NEW b \in Browsers, browsers[b].session = "closed", ~browsers[b].failed
            PROVE  ~\E r \in docker.exists : r.of = b
        <4>1. TurnInv(browsers[b]) /\ HoldInv(b)
          BY BrowserFacts
        <4>2. browsers[b].loop = "none"
          BY <3>1, <4>1 DEF TurnInv
        <4>3. QED
          BY <3>1, <4>1, <4>2 DEF HoldInv
      <3>2. QED
        BY <3>1 DEF CleanCloseLeavesNothing
    <2>3. LiveBrowserKept
      BY BrowserFacts DEF LiveBrowserKept, HoldInv
    <2>4. QED
      BY <2>1, <2>2, <2>3 DEF BrowserAccounted
  <1>2. QED
    BY <1>1, BrowserInvariant, PTL

-----------------------------------------------------------------------------
(* Lists of lists, one after the other.                                    *)

(* h is the recursive function by which FlattenSeq is defined, over n      *)
(* lists.                                                                  *)
Flattens(h, n, q) == h = [i \in 1 .. n |-> IF i = 1 THEN q[i] ELSE h[i - 1] \o q[i]]

LEMMA FlattensStep ==
    ASSUME NEW n \in Nat, NEW q, NEW h, Flattens(h, n, q)
    PROVE  \A i \in 1 .. n : h[i] = IF i = 1 THEN q[i] ELSE h[i - 1] \o q[i]
  BY DEF Flattens

LEMMA FlattensExists ==
    ASSUME NEW k \in Nat, NEW q
    PROVE  \E h : Flattens(h, k, q)
  <1> DEFINE G == {n \in Nat : \E h : Flattens(h, n, q)}
  <1>1. 0 \in G
    <2>1. Flattens([i \in 1 .. 0 |-> 0], 0, q)
      BY DEF Flattens
    <2>2. QED
      BY <2>1
  <1>2. ASSUME NEW n \in Nat, n \in G PROVE n + 1 \in G
    <2>1. PICK h : Flattens(h, n, q)
      BY <1>2
    <2> DEFINE g == [i \in 1 .. n + 1 |-> IF i = n + 1
                                          THEN IF n = 0 THEN q[1] ELSE h[n] \o q[n + 1]
                                          ELSE h[i]]
    <2>2. \A i \in 1 .. n : h[i] = IF i = 1 THEN q[i] ELSE h[i - 1] \o q[i]
      BY <2>1, FlattensStep
    <2>3. ASSUME NEW i \in 1 .. n + 1
          PROVE  g[i] = IF i = 1 THEN q[i] ELSE g[i - 1] \o q[i]
      <3>1. CASE i = n + 1 /\ n = 0
        BY <3>1
      <3>2. CASE i = n + 1 /\ n # 0
        <4>1. i # 1 /\ i - 1 = n /\ n \in 1 .. n + 1 /\ n # n + 1
          BY <3>2
        <4>2. g[i] = h[n] \o q[n + 1] /\ g[n] = h[n]
          BY <3>2, <4>1
        <4>3. QED
          BY <3>2, <4>1, <4>2
      <3>3. CASE i # n + 1 /\ i = 1
        BY <2>2, <3>3
      <3>4. CASE i # n + 1 /\ i # 1
        <4>1. i \in 1 .. n /\ i - 1 \in 1 .. n + 1 /\ i - 1 # n + 1
          BY <3>4
        <4>2. g[i] = h[i] /\ g[i - 1] = h[i - 1]
          BY <3>4, <4>1
        <4> HIDE DEF g
        <4>3. QED
          BY <2>2, <3>4, <4>1, <4>2
      <3>5. QED
        BY <3>1, <3>2, <3>3, <3>4
    <2>4. g = [i \in 1 .. n + 1 |-> g[i]]
      OBVIOUS
    <2> HIDE DEF g
    <2>5. Flattens(g, n + 1, q)
      BY <2>3, <2>4 DEF Flattens
    <2>6. QED
      BY <2>5
  <1> HIDE DEF G
  <1>3. k \in G
    BY <1>1, <1>2, CountingUp
  <1>4. QED
    BY <1>3 DEF G

LEMMA FlattenSeqIs ==
    ASSUME NEW T, NEW q \in Seq(T), q # <<>>
    PROVE  \E h : Flattens(h, Len(q), q) /\ FlattenSeq(q) = h[Len(q)]
  <1> DEFINE k == Len(q)
             flatten == CHOOSE h : Flattens(h, k, q)
  <1>1. k \in Nat /\ k # 0
    OBVIOUS
  <1>2. Flattens(flatten, k, q)
    BY <1>1, FlattensExists
  <1>3. FlattenSeq(q) = flatten[k]
    BY <1>1 DEF FlattenSeq, Flattens
  <1>4. QED
    BY <1>2, <1>3

LEMMA AppendIs ==
    ASSUME NEW S, NEW q \in Seq(S), NEW x \in S
    PROVE  /\ Append(q, x) \in Seq(S) /\ Len(Append(q, x)) = Len(q) + 1 /\ Append(q, x) # <<>>
           /\ Len(q) \in Nat /\ Append(q, x)[Len(q) + 1] = x
           /\ \A i \in 1 .. Len(q) : Append(q, x)[i] = q[i]
  OBVIOUS

(* The lists and one more.                                                 *)
LEMMA FlattenAppends ==
    ASSUME NEW T, NEW q \in Seq(Seq(T)), NEW x \in Seq(T)
    PROVE  FlattenSeq(Append(q, x)) = FlattenSeq(q) \o x
  <1> DEFINE p == Append(q, x)
             n == Len(q)
  <1>1. /\ p \in Seq(Seq(T)) /\ Len(p) = n + 1 /\ p # <<>> /\ n \in Nat
        /\ p[n + 1] = x /\ \A i \in 1 .. n : p[i] = q[i]
    BY AppendIs
  <1> HIDE DEF p
  <1>2. PICK g : Flattens(g, n + 1, p) /\ FlattenSeq(p) = g[n + 1]
    BY <1>1, FlattenSeqIs
  <1>3. \A i \in 1 .. n + 1 : g[i] = IF i = 1 THEN p[i] ELSE g[i - 1] \o p[i]
    BY <1>1, <1>2, FlattensStep
  <1>4. CASE q = <<>>
    <2>1. n = 0 /\ FlattenSeq(q) = <<>>
      BY <1>4 DEF FlattenSeq
    <2>2. g[1] = x /\ FlattenSeq(p) = x
      BY <1>1, <1>2, <1>3, <2>1
    <2>3. QED
      BY <2>1, <2>2 DEF p
  <1>5. CASE q # <<>>
    <2>1. PICK h : Flattens(h, n, q) /\ FlattenSeq(q) = h[n]
      BY <1>5, FlattenSeqIs
    <2>2. \A i \in 1 .. n : h[i] = IF i = 1 THEN q[i] ELSE h[i - 1] \o q[i]
      BY <1>1, <2>1, FlattensStep
    <2> DEFINE G == {i \in Nat : i \in 1 .. n => g[i] = h[i]}
    <2>3. 0 \in G
      OBVIOUS
    <2>4. ASSUME NEW i \in Nat, i \in G PROVE i + 1 \in G
      <3>1. SUFFICES ASSUME i + 1 \in 1 .. n PROVE g[i + 1] = h[i + 1]
        OBVIOUS
      <3>2. i + 1 \in 1 .. n + 1 /\ (i + 1) - 1 = i /\ (i + 1 # 1 => i \in 1 .. n)
        BY <1>1, <3>1
      <3>3. p[i + 1] = q[i + 1]
        BY <1>1, <3>1
      <3>4. CASE i + 1 = 1
        BY <1>3, <2>2, <3>1, <3>2, <3>3, <3>4
      <3>5. CASE i + 1 # 1
        <4>1. g[i] = h[i]
          BY <2>4, <3>2, <3>5
        <4>2. g[i + 1] = g[i] \o p[i + 1] /\ h[i + 1] = h[i] \o q[i + 1]
          BY <1>3, <2>2, <3>1, <3>2, <3>5
        <4>3. QED
          BY <3>3, <4>1, <4>2
      <3>6. QED
        BY <3>4, <3>5
    <2> HIDE DEF G
    <2>5. n \in G
      BY <1>1, <2>3, <2>4, CountingUp
    <2>6. n \in 1 .. n /\ n + 1 \in 1 .. n + 1 /\ n + 1 # 1 /\ (n + 1) - 1 = n
      BY <1>1, <1>5
    <2>7. g[n] = h[n]
      BY <2>5, <2>6 DEF G
    <2>8. g[n + 1] = g[n] \o x
      BY <1>1, <1>3, <2>6
    <2>9. QED
      BY <1>2, <2>1, <2>7, <2>8 DEF p
  <1>6. QED
    BY <1>4, <1>5

-----------------------------------------------------------------------------
(* The reading of a catalog.                                               *)

(* A walk goes from the first page along the cursors.                      *)
Walk(w) ==
    /\ w \in Seq(Cursors \cup {First})
    /\ \A i \in 1 .. Len(w) :
           w[i] = IF i = 1 THEN First ELSE offered[w[i - 1]].next
    /\ \A i \in 2 .. Len(w) : w[i] \in Cursors

ToolsOf(w) == [i \in 1 .. Len(w) |-> offered[w[i]].tools]

(* What was read are the pages of a walk, and no cursor came twice.        *)
Followed(w) ==
    /\ Walk(w)
    /\ reader.cursor = (IF w = <<>> THEN First ELSE offered[w[Len(w)]].next)
    /\ reader.tools = FlattenSeq(ToolsOf(w))
    /\ IF reader.outcome = "accepted"
       THEN reader.cursor = End /\ Len(w) = Cardinality(reader.cursors) + 1
       ELSE /\ w # <<>> => reader.cursor \in Cursors
            /\ Len(w) = Cardinality(reader.cursors)

ReaderRecord ==
    [cursor : Cursors \cup {First, End}, cursors : SUBSET Cursors, tools : Seq(ToolNames),
     pages : Nat, outcome : {"none", "accepted", "refused"}]

ReaderIInv ==
    /\ offered \in [Cursors \cup {First} -> Pages]
    /\ reader \in ReaderRecord
    /\ IsInjective(reader.tools)
    /\ reader.outcome # "refused" => \E w : Followed(w)

(* c is the recursive function by which Chain is defined.                  *)
Chains(c, n) ==
    c = [i \in 1 .. n |->
            IF i = 1 THEN <<First>>
            ELSE LET d == c[i - 1] IN
                 IF offered[Last(d)].next = End THEN d ELSE Append(d, offered[Last(d)].next)]

LEMMA ChainsStep ==
    ASSUME NEW n \in Nat, NEW c, Chains(c, n)
    PROVE  \A i \in 1 .. n : c[i] = IF i = 1 THEN <<First>>
               ELSE IF offered[Last(c[i - 1])].next = End THEN c[i - 1]
               ELSE Append(c[i - 1], offered[Last(c[i - 1])].next)
  BY DEF Chains

LEMMA ChainsExists ==
    ASSUME NEW k \in Nat
    PROVE  \E c : Chains(c, k)
  <1> DEFINE G == {n \in Nat : \E c : Chains(c, n)}
             More(d) == IF offered[Last(d)].next = End THEN d
                        ELSE Append(d, offered[Last(d)].next)
  <1>1. 0 \in G
    <2>1. Chains([i \in 1 .. 0 |-> 0], 0)
      BY DEF Chains
    <2>2. QED
      BY <2>1
  <1>2. ASSUME NEW n \in Nat, n \in G PROVE n + 1 \in G
    <2>1. PICK c : Chains(c, n)
      BY <1>2
    <2>2. \A i \in 1 .. n : c[i] = IF i = 1 THEN <<First>> ELSE More(c[i - 1])
      BY <2>1, ChainsStep
    <2> HIDE DEF More
    <2> DEFINE g == [i \in 1 .. n + 1 |-> IF i = n + 1
                                          THEN IF n = 0 THEN <<First>> ELSE More(c[n])
                                          ELSE c[i]]
    <2>3. ASSUME NEW i \in 1 .. n + 1
          PROVE  g[i] = IF i = 1 THEN <<First>> ELSE More(g[i - 1])
      <3>1. CASE i = n + 1 /\ n = 0
        BY <3>1
      <3>2. CASE i = n + 1 /\ n # 0
        <4>1. i # 1 /\ i - 1 = n /\ n \in 1 .. n + 1 /\ n # n + 1
          BY <3>2
        <4>2. g[i] = More(c[n]) /\ g[n] = c[n]
          BY <3>2, <4>1
        <4>3. QED
          BY <3>2, <4>1, <4>2
      <3>3. CASE i # n + 1 /\ i = 1
        BY <2>2, <3>3
      <3>4. CASE i # n + 1 /\ i # 1
        <4>1. i \in 1 .. n /\ i - 1 \in 1 .. n + 1 /\ i - 1 # n + 1
          BY <3>4
        <4>2. g[i] = c[i] /\ g[i - 1] = c[i - 1]
          BY <3>4, <4>1
        <4> HIDE DEF g
        <4>3. QED
          BY <2>2, <3>4, <4>1, <4>2
      <3>5. QED
        BY <3>1, <3>2, <3>3, <3>4
    <2>4. g = [i \in 1 .. n + 1 |-> g[i]]
      OBVIOUS
    <2> HIDE DEF g
    <2>5. g = [i \in 1 .. n + 1 |-> IF i = 1 THEN <<First>> ELSE More(g[i - 1])]
      BY <2>3, <2>4
    <2>6. Chains(g, n + 1)
      BY <2>5 DEF Chains, More
    <2>7. QED
      BY <2>6
  <1> HIDE DEF G
  <1>3. k \in G
    BY <1>1, <1>2, CountingUp
  <1>4. QED
    BY <1>3 DEF G

(* A walk that ends at the last page is the chain, of any length allowed.  *)
LEMMA ChainIsWalk ==
    ASSUME NEW w, Walk(w), w # <<>>, offered[w[Len(w)]].next = End, End \notin Cursors,
           NEW k \in Nat, Len(w) <= k
    PROVE  Chain(k) = w
  <1> DEFINE S == Cursors \cup {First}
             m == Len(w)
             chain == CHOOSE c : Chains(c, k)
             Upto(i) == IF i <= m THEN i ELSE m
             G == {i \in Nat : i \in 1 .. k =>
                      /\ chain[i] \in Seq(S) /\ Len(chain[i]) = Upto(i)
                      /\ \A j \in 1 .. Upto(i) : chain[i][j] = w[j]}
  <1>1. m \in Nat /\ m # 0 /\ m <= k /\ w \in Seq(S)
    BY DEF Walk
  <1>2. Chains(chain, k)
    BY ChainsExists
  <1>3. Chain(k) = chain[k]
    BY DEF Chain, Chains
  <1> HIDE DEF chain
  <1>4. \A i \in 1 .. k : chain[i] = IF i = 1 THEN <<First>>
            ELSE IF offered[Last(chain[i - 1])].next = End THEN chain[i - 1]
            ELSE Append(chain[i - 1], offered[Last(chain[i - 1])].next)
    BY <1>2, ChainsStep
  <1>5. 0 \in G
    OBVIOUS
  <1>6. ASSUME NEW n \in Nat, n \in G PROVE n + 1 \in G
    <2>1. SUFFICES ASSUME n + 1 \in 1 .. k
          PROVE  /\ chain[n + 1] \in Seq(S) /\ Len(chain[n + 1]) = Upto(n + 1)
                 /\ \A j \in 1 .. Upto(n + 1) : chain[n + 1][j] = w[j]
      OBVIOUS
    <2>2. CASE n = 0
      <3>1. n + 1 = 1 /\ 1 \in 1 .. k /\ 1 \in 1 .. m
        BY <1>1, <2>1, <2>2
      <3>2. w[1] = First
        BY <3>1 DEF Walk
      <3>3. chain[1] = <<First>>
        BY <1>4, <3>1
      <3>4. <<First>> \in Seq(S) /\ Len(<<First>>) = 1 /\ <<First>>[1] = First
        OBVIOUS
      <3>5. Upto(1) = 1
        BY <3>1
      <3>6. \A j \in 1 .. 1 : j = 1
        OBVIOUS
      <3>7. QED
        BY <3>1, <3>2, <3>3, <3>4, <3>5, <3>6
    <2>3. CASE n # 0
      <3> DEFINE d == chain[n]
      <3>1. /\ n \in 1 .. k /\ n + 1 # 1 /\ (n + 1) - 1 = n
            /\ d \in Seq(S) /\ Len(d) = Upto(n) /\ \A j \in 1 .. Upto(n) : d[j] = w[j]
        BY <1>6, <2>1, <2>3
      <3>2. chain[n + 1] = IF offered[Last(d)].next = End THEN d
                           ELSE Append(d, offered[Last(d)].next)
        BY <1>4, <2>1, <3>1
      <3> HIDE DEF d
      <3>3. Upto(n) \in 1 .. Upto(n) /\ Last(d) = w[Upto(n)]
        BY <1>1, <3>1 DEF Last
      <3>4. CASE n < m
        <4>1. Upto(n) = n /\ Upto(n + 1) = n + 1 /\ n + 1 \in 2 .. m /\ n + 1 \in 1 .. m
          BY <1>1, <3>1, <3>4
        <4>2. w[n + 1] = offered[w[n]].next /\ w[n + 1] \in Cursors
          BY <3>1, <4>1 DEF Walk
        <4>3. chain[n + 1] = Append(d, w[n + 1])
          BY <3>2, <3>3, <4>1, <4>2
        <4>4. w[n + 1] \in S
          BY <4>2
        <4>5. QED
          BY <3>1, <4>1, <4>3, <4>4, AppendIs
      <3>5. CASE ~(n < m)
        <4>1. Upto(n) = m /\ Upto(n + 1) = m
          BY <1>1, <3>1, <3>5
        <4>2. chain[n + 1] = d
          BY <3>2, <3>3, <4>1
        <4>3. QED
          BY <3>1, <4>1, <4>2
      <3>6. QED
        BY <3>4, <3>5
    <2>4. QED
      BY <2>2, <2>3
  <1> HIDE DEF G
  <1>7. k \in G
    BY <1>5, <1>6, CountingUp
  <1>8. k \in 1 .. k /\ Upto(k) = m
    BY <1>1
  <1>9. chain[k] \in Seq(S) /\ Len(chain[k]) = m /\ \A j \in 1 .. m : chain[k][j] = w[j]
    BY <1>7, <1>8 DEF G
  <1>10. QED
    BY <1>1, <1>3, <1>9, SeqEqual

LEMMA ReaderStarts == ReaderInit => ReaderIInv
  <1> SUFFICES ASSUME ReaderInit PROVE ReaderIInv
    OBVIOUS
  <1>1. /\ offered \in [Cursors \cup {First} -> Pages]
        /\ reader = [cursor |-> First, cursors |-> {}, tools |-> <<>>, pages |-> 0, outcome |-> "none"]
    BY DEF ReaderInit
  <1>2. reader \in ReaderRecord
    BY <1>1 DEF ReaderRecord
  <1>3. IsInjective(reader.tools)
    BY <1>1 DEF IsInjective
  <1>4. Followed(<<>>)
    <2>1. Walk(<<>>) /\ ToolsOf(<<>>) = <<>>
      <3>1. <<>> \in Seq(Cursors \cup {First}) /\ 1 .. Len(<<>>) = {} /\ 2 .. Len(<<>>) = {}
        OBVIOUS
      <3>2. Walk(<<>>)
        BY <3>1 DEF Walk
      <3>3. ToolsOf(<<>>) = <<>>
        BY <3>1 DEF ToolsOf
      <3>4. QED
        BY <3>2, <3>3
    <2>2. FlattenSeq(<<>>) = <<>> /\ Len(<<>>) = 0 /\ Cardinality({}) = 0
      BY FS_EmptySet DEF FlattenSeq
    <2>3. QED
      BY <1>1, <2>1, <2>2 DEF Followed
  <1>5. QED
    BY <1>1, <1>2, <1>3, <1>4 DEF ReaderIInv

(* A page read is the next of the walk.                                    *)
LEMMA WalkGoesOn ==
    ASSUME ReaderIInv, NEW w, Followed(w), reader.outcome = "none"
    PROVE  /\ reader.cursor \in Cursors \cup {First}
           /\ Walk(Append(w, reader.cursor))
           /\ Len(Append(w, reader.cursor)) = Len(w) + 1 /\ Len(w) \in Nat
           /\ Append(w, reader.cursor) # <<>>
           /\ Append(w, reader.cursor)[Len(w) + 1] = reader.cursor
           /\ FlattenSeq(ToolsOf(Append(w, reader.cursor)))
                  = reader.tools \o offered[reader.cursor].tools
  <1> DEFINE S == Cursors \cup {First}
             c == reader.cursor
             v == Append(w, c)
             n == Len(w)
  <1>1. w \in Seq(S) /\ n \in Nat /\ Walk(w) /\ offered \in [S -> Pages]
    BY DEF Followed, Walk, ReaderIInv
  <1>2. c \in S /\ c = (IF w = <<>> THEN First ELSE offered[w[n]].next) /\ (w # <<>> => c \in Cursors)
    BY DEF Followed
  <1> HIDE DEF c
  <1>3. /\ v \in Seq(S) /\ Len(v) = n + 1 /\ v # <<>> /\ v[n + 1] = c
        /\ \A i \in 1 .. n : v[i] = w[i]
    BY <1>1, <1>2, AppendIs
  <1> HIDE DEF v
  <1>4. w # <<>> => n # 0
    BY <1>1
  <1>5. ASSUME NEW i \in 1 .. Len(v)
        PROVE  /\ v[i] = IF i = 1 THEN First ELSE offered[v[i - 1]].next
               /\ i \in 2 .. Len(v) => v[i] \in Cursors
    <2>1. CASE i \in 1 .. n
      <3>1. v[i] = w[i] /\ (i # 1 => i - 1 \in 1 .. n /\ v[i - 1] = w[i - 1])
        BY <1>1, <1>3, <2>1
      <3>2. i \in 2 .. Len(v) => i \in 2 .. n
        BY <1>1, <2>1
      <3>3. QED
        BY <1>1, <2>1, <3>1, <3>2 DEF Walk
    <2>2. CASE i \notin 1 .. n
      <3>1. i = n + 1 /\ v[i] = c
        BY <1>1, <1>3, <2>2
      <3>2. CASE n = 0
        <4>1. w = <<>> /\ i = 1 /\ i \notin 2 .. Len(v)
          BY <1>1, <3>1, <3>2
        <4>2. QED
          BY <1>2, <3>1, <4>1
      <3>3. CASE n # 0
        <4>1. w # <<>> /\ i # 1 /\ i - 1 = n /\ n \in 1 .. n
          BY <1>1, <3>1, <3>3
        <4>2. v[i - 1] = w[n]
          BY <1>3, <4>1
        <4>3. QED
          BY <1>2, <3>1, <4>1, <4>2
      <3>4. QED
        BY <3>2, <3>3
    <2>3. QED
      BY <2>1, <2>2
  <1>6. Walk(v)
    <2>1. \A i \in 2 .. Len(v) : i \in 1 .. Len(v)
      BY <1>1, <1>3
    <2>2. QED
      BY <1>3, <1>5, <2>1 DEF Walk
  <1>7. FlattenSeq(ToolsOf(v)) = reader.tools \o offered[c].tools
    <2> DEFINE q == ToolsOf(w)
               x == offered[c].tools
    <2>1. \A d \in S : offered[d].tools \in Seq(ToolNames)
      BY <1>1, CatalogAssumption DEF Pages
    <2>2. q \in Seq(Seq(ToolNames)) /\ Len(q) = n /\ \A i \in 1 .. n : q[i] = offered[w[i]].tools
      BY <1>1, <2>1 DEF ToolsOf
    <2>3. x \in Seq(ToolNames)
      BY <1>2, <2>1
    <2>4. /\ ToolsOf(v) \in Seq(Seq(ToolNames)) /\ Len(ToolsOf(v)) = n + 1
          /\ \A i \in 1 .. n + 1 : ToolsOf(v)[i] = offered[v[i]].tools
      <3>1. \A i \in 1 .. n + 1 : v[i] \in S
        BY <1>3
      <3>2. QED
        BY <1>1, <1>3, <2>1, <3>1 DEF ToolsOf
    <2> HIDE DEF q, x
    <2>5. /\ Append(q, x) \in Seq(Seq(ToolNames)) /\ Len(Append(q, x)) = n + 1
          /\ Append(q, x)[n + 1] = x /\ \A i \in 1 .. n : Append(q, x)[i] = q[i]
      BY <2>2, <2>3, AppendIs
    <2>6. ASSUME NEW i \in 1 .. n + 1 PROVE ToolsOf(v)[i] = Append(q, x)[i]
      <3>1. CASE i = n + 1
        BY <1>3, <2>4, <2>5, <3>1 DEF x
      <3>2. CASE i # n + 1
        <4>1. i \in 1 .. n
          BY <1>1, <3>2
        <4>2. QED
          BY <1>3, <2>2, <2>4, <2>5, <4>1
      <3>3. QED
        BY <3>1, <3>2
    <2>7. ToolsOf(v) = Append(q, x)
      BY <2>4, <2>5, <2>6, SeqEqual
    <2>8. FlattenSeq(Append(q, x)) = FlattenSeq(q) \o x
      BY <2>2, <2>3, FlattenAppends
    <2>9. reader.tools = FlattenSeq(q)
      BY DEF Followed, q
    <2>10. QED
      BY <2>7, <2>8, <2>9 DEF x
  <1>8. QED
    BY <1>1, <1>2, <1>3, <1>6, <1>7 DEF c, v

LEMMA ReadKeeps ==
    ASSUME ReaderIInv, ReadPage
    PROVE  ReaderIInv'
  <1> DEFINE answer == offered[reader.cursor]
  <1>1. /\ offered \in [Cursors \cup {First} -> Pages] /\ reader \in ReaderRecord
        /\ IsInjective(reader.tools) /\ reader.outcome = "none" /\ UNCHANGED offered
    BY DEF ReaderIInv, ReadPage, Reading
  <1>2. PICK w : Followed(w)
    BY <1>1 DEF ReaderIInv
  <1>3. PICK v : v = Append(w, reader.cursor)
    OBVIOUS
  <1>4. /\ reader.cursor \in Cursors \cup {First}
        /\ Walk(v) /\ Len(v) = Len(w) + 1 /\ Len(w) \in Nat /\ v # <<>>
        /\ v[Len(v)] = reader.cursor
        /\ FlattenSeq(ToolsOf(v)) = reader.tools \o answer.tools
    BY <1>1, <1>2, <1>3, WalkGoesOn
  <1>5. answer \in Pages /\ answer.tools \in Seq(ToolNames) /\ answer.next \in Cursors \cup {End}
    BY <1>1, <1>4, CatalogAssumption DEF Pages
  <1>6. Len(w) = Cardinality(reader.cursors)
    BY <1>1, <1>2 DEF Followed
  <1>7. CASE reader' = [reader EXCEPT !.outcome = "refused"]
    BY <1>1, <1>7 DEF ReaderIInv, ReaderRecord
  <1>8. CASE /\ ~RefusedPage(answer.tools) /\ answer.next \notin reader.cursors
             /\ reader' = [reader EXCEPT
                    !.pages = @ + 1, !.tools = @ \o answer.tools, !.cursor = answer.next,
                    !.cursors = IF answer.next = End THEN @ ELSE @ \cup {answer.next},
                    !.outcome = IF answer.next = End THEN "accepted" ELSE @]
    <2>1. /\ reader'.tools = reader.tools \o answer.tools /\ reader'.cursor = answer.next
          /\ reader'.cursors = (IF answer.next = End THEN reader.cursors
                                ELSE reader.cursors \cup {answer.next})
          /\ reader'.outcome = (IF answer.next = End THEN "accepted" ELSE "none")
      BY <1>1, <1>8 DEF ReaderRecord
    <2>2. reader' \in ReaderRecord
      <3>1. reader.tools \o answer.tools \in Seq(ToolNames) /\ reader.pages + 1 \in Nat
        BY <1>1, <1>5 DEF ReaderRecord
      <3>2. (IF answer.next = End THEN reader.cursors ELSE reader.cursors \cup {answer.next})
                \in SUBSET Cursors
        BY <1>1, <1>5 DEF ReaderRecord
      <3>3. answer.next \in Cursors \cup {First, End}
        BY <1>5
      <3> HIDE DEF answer
      <3>4. QED
        BY <1>1, <1>8, <3>1, <3>2, <3>3 DEF ReaderRecord
    <2>3. IsInjective(reader'.tools)
      BY <1>8, <2>1 DEF RefusedPage
    <2>4. Walk(v)' /\ ToolsOf(v)' = ToolsOf(v) /\ offered'[v[Len(v)]].next = reader'.cursor
      BY <1>1, <1>4, <2>1 DEF Walk, ToolsOf
    <2>5. reader'.tools = FlattenSeq(ToolsOf(v))'
      BY <1>4, <2>1, <2>4
    <2>6. CASE answer.next = End
      <3>1. Followed(v)'
        BY <1>4, <1>6, <2>1, <2>4, <2>5, <2>6 DEF Followed
      <3>2. QED
        BY <1>1, <2>2, <2>3, <3>1 DEF ReaderIInv
    <2>7. CASE answer.next # End
      <3>1. answer.next \in Cursors /\ reader'.cursors = reader.cursors \cup {answer.next}
        BY <1>5, <2>1, <2>7
      <3>2. IsFiniteSet(reader.cursors)
        BY <1>1, CatalogAssumption, FS_Subset DEF ReaderRecord
      <3>3. Cardinality(reader'.cursors) = Cardinality(reader.cursors) + 1
        BY <1>8, <3>1, <3>2, FS_AddElement
      <3>4. Followed(v)'
        BY <1>4, <1>6, <2>1, <2>4, <2>5, <2>7, <3>1, <3>3 DEF Followed
      <3>5. QED
        BY <1>1, <2>2, <2>3, <3>4 DEF ReaderIInv
    <2>8. QED
      BY <2>6, <2>7
  <1>9. QED
    BY <1>7, <1>8 DEF ReadPage, Ended

LEMMA ReaderStepKeeps ==
    ASSUME ReaderIInv, [ReaderNext]_readerVars
    PROVE  ReaderIInv'
  <1>1. CASE ReadPage
    BY <1>1, ReadKeeps
  <1>2. CASE TooManyPages \/ RequestFails
    <2>1. UNCHANGED offered /\ reader' = [reader EXCEPT !.outcome = "refused"]
      BY <1>2 DEF TooManyPages, RequestFails, Ended
    <2>2. QED
      BY <2>1 DEF ReaderIInv, ReaderRecord
  <1>3. CASE ConnectionOpens \/ ConnectFails \/ AbortConnection \/ UNCHANGED readerVars
    <2>1. UNCHANGED <<offered, reader>>
      BY <1>3 DEF ConnectionOpens, ConnectFails, AbortConnection, readerVars
    <2>2. \A w : Followed(w)' <=> Followed(w)
      BY <2>1 DEF Followed, Walk, ToolsOf
    <2>3. QED
      BY <2>1, <2>2 DEF ReaderIInv
  <1>4. QED
    BY <1>1, <1>2, <1>3 DEF ReaderNext, ReaderStep

(* What a reader holds are the pages along the cursors from the first, in  *)
(* order, each once (wire.ts readCatalog).                                 *)
THEOREM ReaderInvariant == ReaderSpec => []ReaderIInv
  BY ReaderStarts, ReaderStepKeeps, PTL DEF ReaderSpec

(* A catalog that is accepted is the whole one, each tool once, whatever   *)
(* the service answers and whenever the connection closes (wire.ts         *)
(* readCatalog).                                                           *)
THEOREM CatalogsAreWhole == ReaderSpec => []AcceptedIsWhole
  <1>1. ReaderIInv => AcceptedIsWhole
    <2> SUFFICES ASSUME ReaderIInv, reader.outcome = "accepted" PROVE AcceptedIsWhole
      BY DEF AcceptedIsWhole
    <2> DEFINE k == Cardinality(Cursors) + 1
    <2>1. PICK w : Followed(w)
      BY DEF ReaderIInv
    <2>2. /\ Cardinality(reader.cursors) \in Nat /\ Cardinality(Cursors) \in Nat
          /\ Cardinality(reader.cursors) <= Cardinality(Cursors)
      <3>1. reader.cursors \subseteq Cursors
        BY DEF ReaderIInv, ReaderRecord
      <3>2. QED
        BY <3>1, CatalogAssumption, FS_Subset, FS_CardinalityType
    <2>3. /\ Walk(w) /\ Len(w) = Cardinality(reader.cursors) + 1 /\ reader.cursor = End
          /\ reader.tools = FlattenSeq(ToolsOf(w))
      BY <2>1 DEF Followed
    <2>4. w \in Seq(Cursors \cup {First}) /\ w # <<>> /\ DOMAIN w = 1 .. Len(w)
      BY <2>2, <2>3 DEF Walk
    <2>5. offered[w[Len(w)]].next = End
      BY <2>1, <2>3, <2>4 DEF Followed
    <2>6. k \in Nat /\ Len(w) <= k
      BY <2>2, <2>3
    <2>7. Chain(k) = w
      BY <2>3, <2>4, <2>5, <2>6, CatalogAssumption, ChainIsWalk
    <2>8. w[Len(w)] = Last(Chain(k)) /\ ToolsOf(w) = [i \in DOMAIN w |-> offered[w[i]].tools]
      BY <2>4, <2>7 DEF Last, ToolsOf
    <2>9. IsInjective(reader.tools)
      BY DEF ReaderIInv
    <2>10. QED
      BY <2>3, <2>5, <2>7, <2>8, <2>9 DEF AcceptedIsWhole
  <1>2. QED
    BY <1>1, ReaderInvariant, PTL
-----------------------------------------------------------------------------
(* The five instances together, as they are checked, and their types,      *)
(* whatever goes wrong besides.                                            *)

(* The numbers of opens of a browser: an open that has begun takes one of  *)
(* those left, and gives it to the count when it gets as far as its first  *)
(* resource.                                                               *)
Pending(s) == IF s.pc = "prepare" \/ s.loop = "open" THEN 1 ELSE 0

OpensInv(s) ==
    /\ s \in BrowserRecord
    /\ s.left >= 0 /\ s.opens + s.left + Pending(s) <= MaxOpens
    /\ s.pc \in {"claim", "creating", "ready"} => s.opens >= 1
    /\ \A i \in 1 .. Len(s.owned) : s.owned[i] \in Resources
    /\ s.loop # "none" => s.closing
    /\ s.pc = "closing" <=> s.loop \in {"open", "catch", "call"}
    /\ s.session = "closing" <=> s.loop = "end"

CountedInv ==
    /\ DOMAIN browsers = Browsers
    /\ \A b \in Browsers : OpensInv(browsers[b])
    /\ records \subseteq Resources
    /\ docker \in [up : BOOLEAN, exists : SUBSET Resources, requested : SUBSET Resources,
                   outages : Int]

LEMMA CountedFacts ==
    ASSUME CountedInv, NEW b \in Browsers
    PROVE  /\ browsers[b] \in BrowserRecord /\ OpensInv(browsers[b])
           /\ docker \in [up : BOOLEAN, exists : SUBSET Resources, requested : SUBSET Resources,
                          outages : Int]
           /\ records \subseteq Resources
  BY DEF CountedInv, OpensInv

LEMMA CountedStep ==
    ASSUME CountedInv, NEW b \in Browsers, NEW s, OpensInv(s),
           browsers' = [browsers EXCEPT ![b] = s], records' \subseteq Resources,
           docker' \in [up : BOOLEAN, exists : SUBSET Resources, requested : SUBSET Resources,
                        outages : Int]
    PROVE  CountedInv'
  <1>1. DOMAIN browsers' = Browsers
    BY DEF CountedInv
  <1>2. \A x \in Browsers : OpensInv(browsers'[x])
    BY DEF CountedInv
  <1>3. QED
    BY <1>1, <1>2 DEF CountedInv

(* A loop starts where there is none.                                      *)
LEMMA LoopCounted ==
    ASSUME NEW s, OpensInv(s), s.loop = "none", NEW n \in BrowserRecord,
           n.closing, n.owned = s.owned, n.opens = s.opens,
           \/ n.loop \in {"open", "catch", "call"} /\ n.pc = "closing" /\ n.session = s.session
           \/ n.loop = "end" /\ n.pc = s.pc /\ n.session = "closing",
           n.left = IF n.loop = "open" THEN s.left - 1 ELSE s.left, n.left >= 0
    PROVE  OpensInv(n)
  <1>1. s \in BrowserRecord
    BY DEF OpensInv
  <1>2. n.left + Pending(n) <= s.left + Pending(s)
    BY <1>1 DEF Pending, BrowserRecord
  <1>3. n.opens + n.left + Pending(n) <= MaxOpens
    BY <1>1, <1>2, BrowserAssumption DEF OpensInv, Pending, BrowserRecord
  <1>4. QED
    BY <1>1, <1>3 DEF OpensInv, BrowserRecord

(* The end of a loop: what an open took is given to what follows it.       *)
LEMMA AfterCounted ==
    ASSUME NEW s, OpensInv(s), NEW f \in BOOLEAN, s.todo # <<>> \/ s.loop # "none"
    PROVE  OpensInv(After(s, f))
  <1> DEFINE done == [s EXCEPT !.loop = "none", !.todo = <<>>,
                               !.owned = IF f THEN @ ELSE <<>>,
                               !.failed = @ \/ f]
  <1>1. s \in BrowserRecord
    BY DEF OpensInv
  <1>2. (s.failed \/ f) \in BOOLEAN /\ (IF f THEN s.owned ELSE <<>>) \in Seq(Owned)
        /\ <<>> \in Seq(Owned)
    BY <1>1 DEF BrowserRecord
  <1>3. done \in BrowserRecord
    BY <1>1, <1>2 DEF BrowserRecord
  <1>4. /\ done.loop = "none" /\ done.owned = (IF f THEN s.owned ELSE <<>>)
        /\ done.opens = s.opens /\ done.left = s.left /\ done.session = s.session
        /\ done.pc = s.pc /\ done.closing = s.closing
    BY <1>1 DEF BrowserRecord
  <1>5. After(s, f) = CASE s.loop = "end" -> [done EXCEPT !.session = "draining", !.reported = f]
                        [] s.loop = "open" /\ ~f -> [done EXCEPT !.pc = "prepare", !.closing = FALSE]
                        [] OTHER -> [done EXCEPT !.pc = "idle"]
    BY DEF After
  <1>6. \A i \in 1 .. Len(done.owned) : done.owned[i] \in Resources
    BY <1>4 DEF OpensInv
  <1> HIDE DEF done
  <1>7. ASSUME NEW n \in BrowserRecord, n.loop = "none", n.owned = done.owned, n.opens = s.opens,
               n.left = s.left, n.session # "closing",
               \/ n.pc = s.pc /\ s.loop = "end"
               \/ n.pc = "prepare" /\ s.loop = "open"
               \/ n.pc = "idle"
        PROVE  OpensInv(n)
    <2>1. Pending(n) <= Pending(s) /\ Pending(n) \in Nat /\ Pending(s) \in Nat
      BY <1>1, <1>7 DEF Pending
    <2>2. n.opens + n.left + Pending(n) <= MaxOpens
      BY <1>1, <1>7, <2>1, BrowserAssumption DEF OpensInv, BrowserRecord
    <2>3. n.pc # "closing"
      BY <1>7 DEF OpensInv
    <2>4. n.pc \in {"claim", "creating", "ready"} => n.opens >= 1
      BY <1>7 DEF OpensInv
    <2>5. QED
      BY <1>6, <1>7, <2>2, <2>3, <2>4 DEF OpensInv
  <1>8. CASE s.loop = "end"
    <2>1. After(s, f) = [done EXCEPT !.session = "draining", !.reported = f]
      BY <1>5, <1>8
    <2>2. QED
      BY <1>3, <1>4, <1>7, <1>8, <2>1 DEF BrowserRecord
  <1>9. CASE s.loop = "open" /\ ~f
    <2>1. After(s, f) = [done EXCEPT !.pc = "prepare", !.closing = FALSE]
      BY <1>5, <1>9
    <2>2. s.session # "closing"
      BY <1>9 DEF OpensInv
    <2>3. QED
      BY <1>3, <1>4, <1>7, <1>9, <2>1, <2>2 DEF BrowserRecord
  <1>10. CASE s.loop # "end" /\ ~(s.loop = "open" /\ ~f)
    <2>1. After(s, f) = [done EXCEPT !.pc = "idle"]
      BY <1>5, <1>10
    <2>2. s.session # "closing"
      BY <1>10 DEF OpensInv
    <2>3. QED
      BY <1>3, <1>4, <1>7, <1>10, <2>1, <2>2 DEF BrowserRecord
  <1>11. QED
    BY <1>8, <1>9, <1>10

LEMMA CloseCounted ==
    ASSUME CountedInv, NEW b \in Browsers, CloseOne(b) \/ CloseDone(b)
    PROVE  CountedInv'
  <1> DEFINE s == browsers[b]
  <1>1. /\ s \in BrowserRecord /\ OpensInv(s) /\ records \subseteq Resources
        /\ docker \in [up : BOOLEAN, exists : SUBSET Resources, requested : SUBSET Resources,
                       outages : Int]
    BY CountedFacts
  <1>2. CASE CloseDone(b)
    <2>1. browsers' = [browsers EXCEPT ![b] = After(s, FALSE)] /\ UNCHANGED <<records, docker>>
          /\ s.loop # "none"
      BY <1>2 DEF CloseDone, Set
    <2>2. OpensInv(After(s, FALSE))
      BY <1>1, <2>1, AfterCounted
    <2>3. QED
      BY <1>1, <2>1, <2>2, CountedStep
  <1>3. CASE CloseOne(b)
    <2>1. s.todo # <<>>
      BY <1>3 DEF CloseOne
    <2> DEFINE n == [s EXCEPT !.todo = Tail(@)]
    <2>2. OpensInv(n)
      <3>1. Tail(s.todo) \in Seq(Owned)
        BY <1>1, <2>1 DEF BrowserRecord
      <3>2. /\ n \in BrowserRecord /\ n.pc = s.pc /\ n.opens = s.opens /\ n.left = s.left
            /\ n.owned = s.owned /\ n.closing = s.closing /\ n.loop = s.loop
            /\ n.session = s.session
        BY <1>1, <3>1 DEF BrowserRecord
      <3> HIDE DEF n
      <3>3. QED
        BY <1>1, <3>2 DEF OpensInv, Pending
    <2>3. OpensInv(After(s, TRUE))
      BY <1>1, <2>1, AfterCounted
    <2>4. CASE Head(s.todo) \notin records
      <3>1. browsers' = [browsers EXCEPT ![b] = n] /\ UNCHANGED <<records, docker>>
        BY <1>3, <2>4 DEF CloseOne, Set
      <3> HIDE DEF n
      <3>2. QED
        BY <1>1, <2>2, <3>1, CountedStep
    <2>5. CASE Head(s.todo) \in records /\ docker.up
      <3>1. browsers' = [browsers EXCEPT ![b] = n] /\ Removed(Head(s.todo))
        BY <1>3, <2>5 DEF CloseOne, Set
      <3> HIDE DEF n
      <3>2. records' \subseteq Resources
        BY <1>1, <3>1 DEF Removed
      <3>3. docker' \in [up : BOOLEAN, exists : SUBSET Resources, requested : SUBSET Resources,
                         outages : Int]
        BY <1>1, <3>1 DEF Removed
      <3>4. QED
        BY <2>2, <3>1, <3>2, <3>3, CountedStep
    <2>6. CASE Head(s.todo) \in records /\ ~docker.up
      <3>1. browsers' = [browsers EXCEPT ![b] = After(s, TRUE)] /\ UNCHANGED <<records, docker>>
        BY <1>3, <2>6 DEF CloseOne, Set
      <3>2. QED
        BY <1>1, <2>3, <3>1, CountedStep
    <2>7. QED
      BY <2>4, <2>5, <2>6
  <1>4. QED
    BY <1>2, <1>3

LEMMA ClosingRecord ==
    ASSUME NEW m \in BrowserRecord, NEW n, n = [m EXCEPT !.pc = "closing"]
    PROVE  /\ n \in BrowserRecord /\ n.pc = "closing" /\ n.left = m.left
           /\ n.closing = m.closing /\ n.loop = m.loop /\ n.owned = m.owned
           /\ n.opens = m.opens /\ n.session = m.session
  BY DEF BrowserRecord

LEMMA CallsCounted ==
    ASSUME CountedInv, NEW b \in Browsers, CallOpen(b) \/ CallClose(b)
    PROVE  CountedInv'
  <1> DEFINE s == browsers[b]
  <1>1. /\ s \in BrowserRecord /\ OpensInv(s) /\ records \subseteq Resources
        /\ docker \in [up : BOOLEAN, exists : SUBSET Resources, requested : SUBSET Resources,
                       outages : Int]
    BY CountedFacts
  <1>2. UNCHANGED <<records, docker>> /\ s.session = "open" /\ s.pc \in {"idle", "ready"}
    BY DEF CallOpen, CallClose
  <1>3. s.loop = "none"
    BY <1>1, <1>2 DEF OpensInv, BrowserRecord
  <1>4. ASSUME NEW n, OpensInv(n), Set(b, n) PROVE CountedInv'
    BY <1>1, <1>2, <1>4, CountedStep DEF Set
  <1>5. CASE CallOpen(b) /\ s.closing
    <2> DEFINE n == [s EXCEPT !.left = @ - 1, !.closing = FALSE, !.pc = "prepare"]
    <2>1. Set(b, n) /\ s.left > 0
      BY <1>5 DEF CallOpen
    <2>2. /\ n \in BrowserRecord /\ n.pc = "prepare" /\ n.opens = s.opens /\ n.left = s.left - 1
          /\ n.owned = s.owned /\ n.closing = FALSE /\ n.loop = "none" /\ n.session = "open"
      <3>1. s.left - 1 \in Int
        BY <1>1 DEF BrowserRecord
      <3>2. QED
        BY <1>1, <1>2, <1>3, <3>1 DEF BrowserRecord
    <2> HIDE DEF n
    <2>3. n.left >= 0 /\ n.opens + n.left + Pending(n) <= MaxOpens
      BY <1>1, <1>2, <1>3, <2>1, <2>2, BrowserAssumption DEF OpensInv, Pending, BrowserRecord
    <2>4. OpensInv(n)
      BY <1>1, <2>2, <2>3 DEF OpensInv
    <2>5. QED
      BY <1>4, <2>1, <2>4
  <1>6. CASE CallOpen(b) /\ ~s.closing
    <2> DEFINE m == Looping(s, "open")
               n == [m EXCEPT !.left = @ - 1, !.pc = "closing"]
    <2>1. /\ m \in BrowserRecord
          /\ m = [s EXCEPT !.closing = TRUE, !.loop = "open", !.todo = Reverse(s.owned)]
      BY <1>1, LoopingRecord
    <2>2. Set(b, n) /\ s.left > 0
      BY <1>6 DEF CallOpen
    <2>3. m.closing = TRUE /\ m.loop = "open" /\ m.owned = s.owned /\ m.opens = s.opens
          /\ m.left = s.left /\ m.session = s.session
      BY <1>1, <2>1 DEF BrowserRecord
    <2> HIDE DEF m
    <2>4. ASSUME NEW x \in BrowserRecord, NEW y \in BrowserRecord,
                 y = [x EXCEPT !.left = @ - 1, !.pc = "closing"]
          PROVE  /\ y.pc = "closing" /\ y.left = x.left - 1 /\ y.closing = x.closing
                 /\ y.loop = x.loop /\ y.owned = x.owned /\ y.opens = x.opens
                 /\ y.session = x.session
      BY <2>4 DEF BrowserRecord
    <2>5. /\ n \in BrowserRecord /\ n.pc = "closing" /\ n.left = s.left - 1 /\ n.closing
          /\ n.loop = "open" /\ n.owned = s.owned /\ n.opens = s.opens /\ n.session = s.session
      <3>1. ASSUME NEW x \in BrowserRecord
            PROVE  [x EXCEPT !.left = @ - 1, !.pc = "closing"] \in BrowserRecord
        <4>1. x.left - 1 \in Int
          BY DEF BrowserRecord
        <4>2. QED
          BY <4>1 DEF BrowserRecord
      <3>2. n \in BrowserRecord
        BY <2>1, <3>1
      <3>3. n = [m EXCEPT !.left = @ - 1, !.pc = "closing"]
        OBVIOUS
      <3> HIDE DEF n
      <3>4. /\ n.pc = "closing" /\ n.left = m.left - 1 /\ n.closing = m.closing
            /\ n.loop = m.loop /\ n.owned = m.owned /\ n.opens = m.opens
            /\ n.session = m.session
        <4>1. m \in BrowserRecord
          BY <2>1
        <4>2. QED
          BY <2>4, <3>2, <3>3, <4>1
      <3>5. QED
        BY <2>3, <3>2, <3>4
    <2> HIDE DEF n
    <2>6. n.left >= 0
      <3>1. s.left \in Int
        BY <1>1 DEF BrowserRecord
      <3>2. QED
        BY <2>2, <2>5, <3>1
    <2>7. OpensInv(n)
      <3>1. n.left = IF n.loop = "open" THEN s.left - 1 ELSE s.left
        BY <2>5
      <3>2. QED
        BY <1>1, <1>3, <2>5, <2>6, <3>1, LoopCounted
    <2>8. QED
      BY <1>4, <2>2, <2>7
  <1>7. CASE CallClose(b)
    <2> DEFINE m == Looping(s, "call")
               n == [m EXCEPT !.pc = "closing"]
    <2>1. /\ m \in BrowserRecord
          /\ m = [s EXCEPT !.closing = TRUE, !.loop = "call", !.todo = Reverse(s.owned)]
      BY <1>1, LoopingRecord
    <2>2. Set(b, n)
      BY <1>7 DEF CallClose
    <2>3. m.closing = TRUE /\ m.loop = "call" /\ m.owned = s.owned /\ m.opens = s.opens
          /\ m.left = s.left /\ m.session = s.session
      BY <1>1, <2>1 DEF BrowserRecord
    <2> HIDE DEF m
    <2>4. /\ n \in BrowserRecord /\ n.pc = "closing" /\ n.left = s.left /\ n.closing
          /\ n.loop = "call" /\ n.owned = s.owned /\ n.opens = s.opens /\ n.session = s.session
      <3>1. m \in BrowserRecord /\ n = [m EXCEPT !.pc = "closing"]
        BY <2>1
      <3> HIDE DEF n
      <3>2. QED
        BY <2>3, <3>1, ClosingRecord
    <2> HIDE DEF n
    <2>5. OpensInv(n)
      <3>1. n.left = (IF n.loop = "open" THEN s.left - 1 ELSE s.left) /\ n.left >= 0
        BY <1>1, <2>4 DEF OpensInv
      <3>2. s.loop = "none"
        BY <1>3
      <3>3. QED
        BY <1>1, <2>4, <3>1, <3>2, LoopCounted
    <2>6. QED
      BY <1>4, <2>2, <2>5
  <1>8. QED
    BY <1>5, <1>6, <1>7

(* What is stopped is no longer requested.                                 *)
LEMMA KilledFewer ==
    ASSUME NEW b, docker \in [up : BOOLEAN, exists : SUBSET Resources,
                              requested : SUBSET Resources, outages : Int]
    PROVE  [docker EXCEPT !.requested = Killed(b)]
               \in [up : BOOLEAN, exists : SUBSET Resources, requested : SUBSET Resources,
                    outages : Int]
  <1>1. Killed(b) \subseteq Resources
    BY DEF Killed
  <1>2. QED
    BY <1>1

LEMMA StopCounted ==
    ASSUME CountedInv, NEW b \in Browsers, OpenFails(b) \/ EndSession(b)
    PROVE  CountedInv'
  <1> DEFINE s == browsers[b]
  <1>1. /\ s \in BrowserRecord /\ OpensInv(s) /\ records \subseteq Resources
        /\ docker \in [up : BOOLEAN, exists : SUBSET Resources, requested : SUBSET Resources,
                       outages : Int]
    BY CountedFacts
  <1>2. /\ UNCHANGED records
        /\ docker' \in [up : BOOLEAN, exists : SUBSET Resources, requested : SUBSET Resources,
                        outages : Int]
    BY <1>1, KilledFewer DEF OpenFails, EndSession
  <1>3. ASSUME NEW n, OpensInv(n), Set(b, n) PROVE CountedInv'
    BY <1>1, <1>2, <1>3, CountedStep DEF Set
  <1>4. CASE OpenFails(b) /\ s.closing
    <2> DEFINE n == [s EXCEPT !.pc = "idle"]
    <2>1. Set(b, n) /\ s.pc = "creating"
      BY <1>4 DEF OpenFails
    <2>2. /\ n \in BrowserRecord /\ n.pc = "idle" /\ n.opens = s.opens /\ n.left = s.left
          /\ n.owned = s.owned /\ n.closing = s.closing /\ n.loop = s.loop /\ n.session = s.session
      BY <1>1 DEF BrowserRecord
    <2> HIDE DEF n
    <2>3. OpensInv(n)
      BY <1>1, <2>1, <2>2 DEF OpensInv, Pending
    <2>4. QED
      BY <1>3, <2>1, <2>3
  <1>5. CASE OpenFails(b) /\ ~s.closing
    <2> DEFINE m == Looping(s, "catch")
               n == [m EXCEPT !.pc = "closing"]
    <2>1. /\ m \in BrowserRecord
          /\ m = [s EXCEPT !.closing = TRUE, !.loop = "catch", !.todo = Reverse(s.owned)]
      BY <1>1, LoopingRecord
    <2>2. Set(b, n) /\ s.loop = "none"
      BY <1>1, <1>5 DEF OpenFails, OpensInv
    <2>3. m.closing = TRUE /\ m.loop = "catch" /\ m.owned = s.owned /\ m.opens = s.opens
          /\ m.left = s.left /\ m.session = s.session
      BY <1>1, <2>1 DEF BrowserRecord
    <2> HIDE DEF m
    <2>4. /\ n \in BrowserRecord /\ n.pc = "closing" /\ n.left = s.left /\ n.closing
          /\ n.loop = "catch" /\ n.owned = s.owned /\ n.opens = s.opens /\ n.session = s.session
      <3>1. m \in BrowserRecord /\ n = [m EXCEPT !.pc = "closing"]
        BY <2>1
      <3> HIDE DEF n
      <3>2. QED
        BY <2>3, <3>1, ClosingRecord
    <2> HIDE DEF n
    <2>5. OpensInv(n)
      <3>1. n.left = (IF n.loop = "open" THEN s.left - 1 ELSE s.left) /\ n.left >= 0
        BY <1>1, <2>4 DEF OpensInv
      <3>2. s.loop = "none"
        BY <2>2
      <3>3. QED
        BY <1>1, <2>4, <3>1, <3>2, LoopCounted
    <2>6. QED
      BY <1>3, <2>2, <2>5
  <1>6. CASE EndSession(b) /\ s.closing
    <2> DEFINE n == [s EXCEPT !.session = "draining"]
    <2>1. Set(b, n) /\ s.session = "open"
      BY <1>6 DEF EndSession
    <2>2. /\ n \in BrowserRecord /\ n.pc = s.pc /\ n.opens = s.opens /\ n.left = s.left
          /\ n.owned = s.owned /\ n.closing = s.closing /\ n.loop = s.loop
          /\ n.session = "draining"
      BY <1>1 DEF BrowserRecord
    <2> HIDE DEF n
    <2>3. OpensInv(n)
      BY <1>1, <2>1, <2>2 DEF OpensInv, Pending
    <2>4. QED
      BY <1>3, <2>1, <2>3
  <1>7. CASE EndSession(b) /\ ~s.closing
    <2> DEFINE m == Looping(s, "end")
               n == [m EXCEPT !.session = "closing"]
    <2>1. /\ m \in BrowserRecord
          /\ m = [s EXCEPT !.closing = TRUE, !.loop = "end", !.todo = Reverse(s.owned)]
      BY <1>1, LoopingRecord
    <2>2. Set(b, n) /\ s.loop = "none"
      BY <1>1, <1>7 DEF EndSession, OpensInv
    <2>3. m.closing = TRUE /\ m.loop = "end" /\ m.owned = s.owned /\ m.opens = s.opens
          /\ m.left = s.left /\ m.pc = s.pc
      BY <1>1, <2>1 DEF BrowserRecord
    <2> HIDE DEF m
    <2>4. /\ n \in BrowserRecord /\ n.pc = s.pc /\ n.left = s.left /\ n.closing
          /\ n.loop = "end" /\ n.owned = s.owned /\ n.opens = s.opens /\ n.session = "closing"
      BY <2>1, <2>3 DEF BrowserRecord
    <2> HIDE DEF n
    <2>5. OpensInv(n)
      BY <1>1, <2>2, <2>4, LoopCounted DEF OpensInv
    <2>6. QED
      BY <1>3, <2>2, <2>5
  <1>8. QED
    BY <1>4, <1>5, <1>6, <1>7

LEMMA OpenCounted ==
    ASSUME CountedInv, NEW b \in Browsers,
           Prepare(b) \/ ClaimResource(b) \/ Created(b) \/ SessionClosed(b)
    PROVE  CountedInv'
  <1> DEFINE s == browsers[b]
  <1>1. /\ s \in BrowserRecord /\ OpensInv(s) /\ records \subseteq Resources
        /\ docker \in [up : BOOLEAN, exists : SUBSET Resources, requested : SUBSET Resources,
                       outages : Int]
    BY CountedFacts
  <1>2. ASSUME NEW n, OpensInv(n), Set(b, n), UNCHANGED <<records, docker>> PROVE CountedInv'
    BY <1>1, <1>2, CountedStep DEF Set
  <1>3. CASE Prepare(b)
    <2> DEFINE n == [s EXCEPT !.pc = "claim", !.next = "network", !.opens = @ + 1]
               m == [s EXCEPT !.pc = "idle"]
    <2>1. (s.session = "open" /\ Set(b, n)) \/ Set(b, m)
      BY <1>3 DEF Prepare
    <2>2. s.pc = "prepare" /\ UNCHANGED <<records, docker>>
      BY <1>3 DEF Prepare
    <2>3. OpensInv(n)
      <3>1. s.opens + 1 \in Nat /\ s.opens + 1 >= 1 /\ "network" \in Kinds
        BY <1>1 DEF BrowserRecord, Kinds
      <3>2. /\ n \in BrowserRecord /\ n.pc = "claim" /\ n.opens = s.opens + 1 /\ n.left = s.left
            /\ n.owned = s.owned /\ n.closing = s.closing /\ n.loop = s.loop
            /\ n.session = s.session
        BY <1>1, <3>1 DEF BrowserRecord
      <3> HIDE DEF n
      <3>3. Pending(s) = 1 /\ Pending(n) = 0 /\ s.loop # "open"
        BY <1>1, <2>2, <3>2 DEF OpensInv, Pending
      <3>4. n.opens + n.left + Pending(n) <= MaxOpens
        BY <1>1, <3>2, <3>3, BrowserAssumption DEF OpensInv, BrowserRecord
      <3>5. QED
        BY <1>1, <2>2, <3>1, <3>2, <3>4 DEF OpensInv
    <2>4. OpensInv(m)
      <3>1. /\ m \in BrowserRecord /\ m.pc = "idle" /\ m.opens = s.opens /\ m.left = s.left
            /\ m.owned = s.owned /\ m.closing = s.closing /\ m.loop = s.loop
            /\ m.session = s.session
        BY <1>1 DEF BrowserRecord
      <3> HIDE DEF m
      <3>2. s.opens \in Nat /\ s.left \in Int
        BY <1>1 DEF BrowserRecord
      <3>3. Pending(m) <= Pending(s) /\ Pending(m) \in Nat /\ Pending(s) \in Nat
        BY <2>2, <3>1 DEF Pending
      <3>4. m.opens + m.left + Pending(m) <= MaxOpens
        BY <1>1, <3>1, <3>2, <3>3, BrowserAssumption DEF OpensInv
      <3>5. QED
        BY <1>1, <2>2, <3>1, <3>4 DEF OpensInv
    <2> HIDE DEF n, m
    <2>5. QED
      BY <1>2, <2>1, <2>2, <2>3, <2>4
  <1>4. CASE ClaimResource(b)
    <2> DEFINE r == Resource(b, s.next)
               n == [s EXCEPT !.pc = "creating", !.owned = Append(@, r)]
    <2>1. /\ s.pc = "claim" /\ records' = records \cup {r} /\ Set(b, n)
          /\ docker' = [docker EXCEPT !.requested = IF s.session = "open" THEN @ \cup {r} ELSE @]
      BY <1>4 DEF ClaimResource
    <2>2. r \in Resources
      <3>1. s.opens \in Nat /\ s.left \in Int /\ s.next \in Kinds /\ Pending(s) \in Nat
        BY <1>1 DEF BrowserRecord, Pending
      <3>2. s.opens \in 1 .. MaxOpens
        BY <1>1, <2>1, <3>1, BrowserAssumption DEF OpensInv
      <3>3. QED
        BY <3>1, <3>2 DEF Resource, Resources
    <2>3. r \in Owned
      BY <2>2, BrowserAssumption DEF Resources, Owned
    <2>4. /\ s.owned \in Seq(Owned)
          /\ Append(s.owned, r) \in Seq(Owned) /\ Len(s.owned) \in Nat
          /\ Len(Append(s.owned, r)) = Len(s.owned) + 1
          /\ \A i \in 1 .. Len(s.owned) : Append(s.owned, r)[i] = s.owned[i]
          /\ Append(s.owned, r)[Len(s.owned) + 1] = r
      BY <1>1, <2>3 DEF BrowserRecord
    <2>5. /\ n \in BrowserRecord /\ n.pc = "creating" /\ n.opens = s.opens /\ n.left = s.left
          /\ n.owned = Append(s.owned, r) /\ n.closing = s.closing /\ n.loop = s.loop
          /\ n.session = s.session
      BY <1>1, <2>4 DEF BrowserRecord
    <2>6. records' \subseteq Resources
      BY <1>1, <2>1, <2>2
    <2>7. docker' \in [up : BOOLEAN, exists : SUBSET Resources, requested : SUBSET Resources,
                       outages : Int]
      BY <1>1, <2>1, <2>2
    <2>8. browsers' = [browsers EXCEPT ![b] = n]
      BY <2>1 DEF Set
    <2> HIDE DEF n, r
    <2>9. \A i \in 1 .. Len(n.owned) : n.owned[i] \in Resources
      <3>1. ASSUME NEW i \in 1 .. Len(n.owned) PROVE n.owned[i] \in Resources
        <4>1. CASE i = Len(s.owned) + 1
          BY <2>2, <2>4, <2>5, <4>1
        <4>2. CASE i # Len(s.owned) + 1
          <5>1. i \in 1 .. Len(s.owned)
            BY <2>4, <2>5, <4>2
          <5>2. QED
            BY <1>1, <2>4, <2>5, <5>1 DEF OpensInv
        <4>3. QED
          BY <4>1, <4>2
      <3>2. QED
        BY <3>1
    <2>10. OpensInv(n)
      BY <1>1, <2>1, <2>5, <2>9 DEF OpensInv, Pending
    <2>11. QED
      BY <2>6, <2>7, <2>8, <2>10, CountedStep
  <1>5. CASE Created(b)
    <2> DEFINE n == [s EXCEPT !.pc = "ready"]
               m == [s EXCEPT !.pc = "claim", !.next = IF @ = "network" THEN "app" ELSE "browser"]
    <2>1. s.pc = "creating" /\ UNCHANGED <<records, docker>> /\ (Set(b, n) \/ Set(b, m))
      BY <1>5 DEF Created
    <2>2. ASSUME NEW x \in BrowserRecord, x.pc \in {"ready", "claim"}, x.opens = s.opens,
                 x.left = s.left, x.owned = s.owned, x.closing = s.closing, x.loop = s.loop,
                 x.session = s.session
          PROVE  OpensInv(x)
      BY <1>1, <2>1, <2>2 DEF OpensInv, Pending
    <2>3. OpensInv(n)
      BY <1>1, <2>2 DEF BrowserRecord
    <2>4. OpensInv(m)
      <3>1. PICK kind \in Kinds : kind = IF s.next = "network" THEN "app" ELSE "browser"
        BY DEF Kinds
      <3>2. m = [s EXCEPT !.pc = "claim", !.next = kind]
        BY <3>1
      <3> HIDE DEF m
      <3>3. QED
        BY <1>1, <2>2, <3>2 DEF BrowserRecord
    <2> HIDE DEF n, m
    <2>5. QED
      BY <1>2, <2>1, <2>3, <2>4
  <1>6. CASE SessionClosed(b)
    <2> DEFINE n == [s EXCEPT !.session = "closed"]
    <2>1. /\ s.pc \in {"idle", "ready"} /\ UNCHANGED <<records, docker>> /\ Set(b, n)
          /\ s.loop = "none"
      BY <1>6 DEF SessionClosed
    <2>2. /\ n \in BrowserRecord /\ n.pc = s.pc /\ n.opens = s.opens /\ n.left = s.left
          /\ n.owned = s.owned /\ n.closing = s.closing /\ n.loop = s.loop
          /\ n.session = "closed"
      BY <1>1 DEF BrowserRecord
    <2> HIDE DEF n
    <2>3. OpensInv(n)
      BY <1>1, <2>1, <2>2 DEF OpensInv, Pending
    <2>4. QED
      BY <1>2, <2>1, <2>3
  <1>7. QED
    BY <1>3, <1>4, <1>5, <1>6

LEMMA OutsideCounted ==
    ASSUME CountedInv, UNCHANGED browsers,
           \/ \E p \in Rescuers : Rescue(p) \/ RescueOne(p)
           \/ \E r \in docker.requested : DaemonCreates(r)
           \/ \E p \in processes.alive : KillProcess(p)
           \/ Outage
    PROVE  CountedInv'
  <1>1. /\ records \subseteq Resources
        /\ docker \in [up : BOOLEAN, exists : SUBSET Resources, requested : SUBSET Resources,
                       outages : Int]
    BY DEF CountedInv
  <1>2. ASSUME records' \subseteq Resources,
               docker' \in [up : BOOLEAN, exists : SUBSET Resources,
                            requested : SUBSET Resources, outages : Int]
        PROVE  CountedInv'
    BY <1>2 DEF CountedInv
  <1>3. CASE UNCHANGED <<records, docker>>
    BY <1>1, <1>2, <1>3
  <1>4. ASSUME NEW r, Removed(r) PROVE CountedInv'
    BY <1>1, <1>2, <1>4 DEF Removed
  <1>5. CASE \E r \in docker.requested : DaemonCreates(r)
    BY <1>1, <1>2, <1>5 DEF DaemonCreates
  <1>6. CASE \E p \in processes.alive : KillProcess(p)
    <2>1. UNCHANGED records
      BY <1>6 DEF KillProcess
    <2>2. docker' \in [up : BOOLEAN, exists : SUBSET Resources, requested : SUBSET Resources,
                       outages : Int]
      BY <1>1, <1>6 DEF KillProcess
    <2>3. QED
      BY <1>1, <1>2, <2>1, <2>2
  <1>7. CASE Outage
    <2>1. UNCHANGED records
      BY <1>7 DEF Outage
    <2>2. docker' \in [up : BOOLEAN, exists : SUBSET Resources, requested : SUBSET Resources,
                       outages : Int]
      <3>1. (IF docker.up THEN docker.outages - 1 ELSE docker.outages) \in Int
        BY <1>1
      <3>2. QED
        BY <1>1, <1>7, <3>1 DEF Outage
    <2>3. QED
      BY <1>1, <1>2, <2>1, <2>2
  <1>8. CASE \E p \in Rescuers : Rescue(p) \/ RescueOne(p)
    BY <1>3, <1>4, <1>8 DEF Rescue, RescueOne
  <1>9. QED
    BY <1>5, <1>6, <1>7, <1>8

LEMMA CountedStarts == BrowserInit => CountedInv
  <1> SUFFICES ASSUME BrowserInit PROVE CountedInv
    OBVIOUS
  <1>1. PICK budget \in BrowserBudgets :
            /\ docker = [up |-> TRUE, exists |-> {}, requested |-> {},
                         outages |-> budget.outages]
            /\ browsers = [b \in Browsers |-> NewBrowser(budget.opens[b])]
    BY DEF BrowserInit
  <1>2. budget.outages \in Nat /\ \A b \in Browsers : budget.opens[b] \in 0 .. MaxOpens
    BY BrowserAssumption
  <1>3. ASSUME NEW b \in Browsers PROVE OpensInv(browsers[b])
    <2> DEFINE s == NewBrowser(budget.opens[b])
    <2>1. budget.opens[b] \in Nat /\ budget.opens[b] <= MaxOpens /\ <<>> \in Seq(Owned)
      BY <1>2, BrowserAssumption
    <2>2. /\ s \in BrowserRecord /\ s.pc = "idle" /\ s.opens = 0 /\ s.left = budget.opens[b]
          /\ s.owned = <<>> /\ s.closing = FALSE /\ s.loop = "none" /\ s.session = "open"
      BY <2>1 DEF NewBrowser, BrowserRecord, Kinds
    <2> HIDE DEF s
    <2>3. OpensInv(s)
      BY <2>1, <2>2, BrowserAssumption DEF OpensInv, Pending
    <2>4. QED
      BY <1>1, <2>3 DEF s
  <1>4. records = {} /\ DOMAIN browsers = Browsers
    BY <1>1 DEF BrowserInit
  <1>5. docker \in [up : BOOLEAN, exists : SUBSET Resources, requested : SUBSET Resources,
                    outages : Int]
    BY <1>1, <1>2
  <1>6. QED
    BY <1>3, <1>4, <1>5 DEF CountedInv

LEMMA CountedGoesOn == CountedInv /\ [BrowserNext]_browserVars => CountedInv'
  <1> SUFFICES ASSUME CountedInv, [BrowserNext]_browserVars PROVE CountedInv'
    OBVIOUS
  <1>1. ASSUME NEW b \in Browsers, BrowserStep(b) \/ CallOpen(b) \/ CallClose(b) \/ EndSession(b)
        PROVE  CountedInv'
    BY <1>1, CloseCounted, CallsCounted, StopCounted, OpenCounted DEF BrowserStep
  <1>2. CASE \/ \E p \in Rescuers : Rescue(p) \/ RescueOne(p)
             \/ \E r \in docker.requested : DaemonCreates(r)
             \/ \E p \in processes.alive : KillProcess(p)
             \/ Outage
    <2>1. UNCHANGED browsers
      BY <1>2 DEF Rescue, RescueOne, DaemonCreates, KillProcess, Outage
    <2>2. QED
      BY <1>2, <2>1, OutsideCounted
  <1>3. CASE UNCHANGED browserVars
    BY <1>3 DEF browserVars, CountedInv
  <1>4. QED
    BY <1>1, <1>2, <1>3 DEF BrowserNext

(* The registry and the daemon hold the resources of opens that were made, *)
(* and whoever runs the loop of close has set the flag, whatever the       *)
(* windows: a loop is one call's, or the session's at its end              *)
(* (BrowserSandbox.open, close).                                           *)
THEOREM BrowserTypes == BrowserSpec => []BrowserTypeOK
  <1>1. CountedInv => BrowserTypeOK
    <2> SUFFICES ASSUME CountedInv PROVE BrowserTypeOK
      OBVIOUS
    <2>1. ASSUME NEW b \in Browsers
          PROVE  Range(browsers[b].owned) \subseteq Resources
                 /\ (browsers[b].loop # "none" => browsers[b].closing)
      <3>1. OpensInv(browsers[b]) /\ browsers[b].owned \in Seq(Owned)
        BY CountedFacts DEF BrowserRecord
      <3>2. DOMAIN browsers[b].owned = 1 .. Len(browsers[b].owned)
        BY <3>1
      <3>3. QED
        BY <3>1, <3>2 DEF OpensInv, Range
    <2>2. QED
      BY <2>1 DEF CountedInv, BrowserTypeOK
  <1>2. QED
    BY <1>1, CountedStarts, CountedGoesOn, PTL DEF BrowserSpec

(* A browser in use.  Its call is not beside a loop of close, a loop has   *)
(* its own resources in hand, and a closed session has ended its calls;    *)
(* and what the open has created exists.                                   *)
UseInv(b, s) ==
    /\ s.session = "open" /\ s.pc \in {"prepare", "claim", "creating", "ready"} => ~s.closing
    /\ s.session = "closed" => s.loop = "none" /\ s.pc \in {"idle", "ready"}
    /\ s.loop = "none" => s.todo = <<>>
    /\ \A i \in 1 .. Len(s.owned) : s.owned[i].of = b
    /\ \A i \in 1 .. Len(s.todo) : s.todo[i].of = b

HasOpened(b, s, exists) ==
    s.session = "open" =>
        /\ s.pc \in {"claim", "creating"} =>
               \A kind \in Earlier(s.next) : [of |-> b, kind |-> kind, open |-> s.opens] \in exists
        /\ s.pc = "ready" =>
               \A kind \in Kinds : [of |-> b, kind |-> kind, open |-> s.opens] \in exists

LiveIInv ==
    /\ CountedInv
    /\ rescues \in [Rescuers -> SUBSET Resources]
    /\ \A b \in Browsers : UseInv(b, browsers[b])
    /\ \A b \in Browsers : Here(b) => HasOpened(b, browsers[b], docker.exists)
    /\ \A p \in Rescuers : RescueInv(p)

LEMMA UseFacts ==
    ASSUME LiveIInv, NEW b \in Browsers
    PROVE  /\ DOMAIN browsers = Browsers /\ browsers[b] \in BrowserRecord
           /\ OpensInv(browsers[b]) /\ UseInv(b, browsers[b])
           /\ Here(b) => HasOpened(b, browsers[b], docker.exists)
           /\ records \subseteq Resources
           /\ docker \in [up : BOOLEAN, exists : SUBSET Resources, requested : SUBSET Resources,
                          outages : Int]
  BY DEF LiveIInv, CountedInv, OpensInv

(* A step of a browser's own takes nothing from the others.                *)
LEMMA OwnUse ==
    ASSUME LiveIInv, CountedInv', NEW b \in Browsers, NEW n,
           browsers' = [browsers EXCEPT ![b] = n], UNCHANGED <<rescues, processes>>,
           browsers[b].session = "closed" => n.session = "closed",
           \A r \in docker.exists : r.of # b => r \in docker'.exists,
           UseInv(b, n), Here(b) => HasOpened(b, n, docker'.exists)
    PROVE  LiveIInv'
  <1>1. DOMAIN browsers = Browsers
    BY UseFacts
  <1>2. ASSUME NEW x \in Browsers
        PROVE  /\ UseInv(x, browsers'[x])
               /\ Here(x)' => HasOpened(x, browsers'[x], docker'.exists)
               /\ browsers[x].session = "closed" => browsers'[x].session = "closed"
    <2>1. Here(x)' <=> Here(x)
      BY DEF Here
    <2>2. CASE x = b
      BY <1>1, <2>1, <2>2
    <2>3. CASE x # b
      <3>1. browsers'[x] = browsers[x]
        BY <1>1, <2>3
      <3>2. UseInv(x, browsers[x]) /\ (Here(x) => HasOpened(x, browsers[x], docker.exists))
        BY UseFacts
      <3>3. HasOpened(x, browsers[x], docker.exists) => HasOpened(x, browsers[x], docker'.exists)
        BY <2>3 DEF HasOpened
      <3>4. QED
        BY <2>1, <3>1, <3>2, <3>3
    <2>4. QED
      BY <2>2, <2>3
  <1>3. ASSUME NEW p \in Rescuers PROVE RescueInv(p)'
    <2>1. ASSUME NEW r \in rescues[p] PROVE ~Here(r.of)' \/ browsers'[r.of].session = "closed"
      <3>1. r.of \in Browsers /\ (~Here(r.of) \/ browsers[r.of].session = "closed")
        BY DEF LiveIInv, RescueInv, Resources
      <3>2. Here(r.of)' <=> Here(r.of)
        BY DEF Here
      <3>3. QED
        BY <1>2, <3>1, <3>2
    <2>2. QED
      BY <2>1 DEF RescueInv
  <1>4. QED
    BY <1>2, <1>3 DEF LiveIInv

(* Where the browser is not in use there is nothing to keep.               *)
LEMMA NotInUse ==
    ASSUME NEW b, NEW n, NEW exists,
           n.session # "open" \/ n.pc \notin {"claim", "creating", "ready"}
    PROVE  HasOpened(b, n, exists)
  BY DEF HasOpened

LEMMA CloseUse ==
    ASSUME LiveIInv, CountedInv', NEW b \in Browsers, CloseOne(b) \/ CloseDone(b)
    PROVE  LiveIInv'
  <1> DEFINE s == browsers[b]
  <1>1. /\ s \in BrowserRecord /\ OpensInv(s) /\ UseInv(b, s)
        /\ Here(b) => HasOpened(b, s, docker.exists)
    BY UseFacts
  <1>2. s.loop # "none" /\ s.session # "closed"
    BY <1>1 DEF CloseOne, CloseDone, UseInv
  <1>3. UNCHANGED <<rescues, processes>>
    BY DEF CloseOne, CloseDone
  <1>4. ASSUME NEW f \in BOOLEAN, browsers' = [browsers EXCEPT ![b] = After(s, f)], UNCHANGED docker
        PROVE  LiveIInv'
    <2> DEFINE n == After(s, f)
    <2>1. /\ n.loop = "none" /\ n.todo = <<>> /\ n.owned = (IF f THEN s.owned ELSE <<>>)
          /\ IF s.loop = "end"
             THEN n.session = "draining" /\ n.pc = s.pc
             ELSE /\ n.session = s.session
                  /\ \/ n.pc = "prepare" /\ n.closing = FALSE
                     \/ n.pc = "idle"
      BY <1>1, <1>2, AfterRecord
    <2> HIDE DEF n
    <2>2. UseInv(b, n)
      BY <1>1, <1>2, <2>1 DEF UseInv
    <2>3. HasOpened(b, n, docker.exists)
      BY <2>1, NotInUse
    <2>4. QED
      BY <1>2, <1>3, <1>4, <2>2, <2>3, OwnUse DEF n
  <1>5. ASSUME s.todo # <<>>, browsers' = [browsers EXCEPT ![b] = [s EXCEPT !.todo = Tail(@)]],
               \A r \in docker.exists : r # Head(s.todo) => r \in docker'.exists
        PROVE  LiveIInv'
    <2> DEFINE n == [s EXCEPT !.todo = Tail(@)]
    <2>1. /\ s.todo \in Seq(Owned) /\ Len(s.todo) \in Nat /\ Len(s.todo) >= 1
          /\ Head(s.todo) = s.todo[1] /\ Len(Tail(s.todo)) = Len(s.todo) - 1
          /\ \A i \in 1 .. Len(s.todo) - 1 : Tail(s.todo)[i] = s.todo[i + 1]
      BY <1>1, <1>5 DEF BrowserRecord
    <2>2. /\ n.todo = Tail(s.todo) /\ n.loop = s.loop /\ n.session = s.session /\ n.pc = s.pc
          /\ n.closing = s.closing /\ n.owned = s.owned
      BY <1>1 DEF BrowserRecord
    <2> HIDE DEF n
    <2>3. ASSUME NEW i \in 1 .. Len(n.todo) PROVE n.todo[i].of = b
      <3>1. i \in 1 .. Len(s.todo) - 1 /\ i + 1 \in 1 .. Len(s.todo)
        BY <2>1, <2>2
      <3>2. QED
        BY <1>1, <2>1, <2>2, <3>1 DEF UseInv
    <2>4. UseInv(b, n)
      BY <1>1, <1>2, <2>2, <2>3 DEF UseInv
    <2>5. s.session = "open" => s.pc \notin {"claim", "creating", "ready"}
      BY <1>1, <1>2 DEF OpensInv, UseInv
    <2>6. HasOpened(b, n, docker'.exists)
      BY <2>2, <2>5, NotInUse
    <2>7. \A r \in docker.exists : r.of # b => r \in docker'.exists
      <3>1. Head(s.todo).of = b
        BY <1>1, <2>1 DEF UseInv
      <3>2. QED
        BY <1>5, <3>1
    <2>8. browsers' = [browsers EXCEPT ![b] = n]
      BY <1>5 DEF n
    <2>9. QED
      BY <1>2, <1>3, <2>4, <2>6, <2>7, <2>8, OwnUse
  <1>6. CASE CloseDone(b)
    BY <1>4, <1>6 DEF CloseDone, Set
  <1>7. CASE CloseOne(b)
    <2>1. CASE s.todo # <<>> /\ Head(s.todo) \notin records
      BY <1>5, <1>7, <2>1 DEF CloseOne, Set
    <2>2. CASE s.todo # <<>> /\ Head(s.todo) \in records /\ docker.up
      <3>1. browsers' = [browsers EXCEPT ![b] = [s EXCEPT !.todo = Tail(@)]]
            /\ Removed(Head(s.todo))
        BY <1>7, <2>2 DEF CloseOne, Set
      <3>2. \A r \in docker.exists : r # Head(s.todo) => r \in docker'.exists
        BY <3>1, UseFacts DEF Removed
      <3>3. QED
        BY <1>5, <2>2, <3>1, <3>2
    <2>3. CASE s.todo # <<>> /\ Head(s.todo) \in records /\ ~docker.up
      BY <1>4, <1>7, <2>3 DEF CloseOne, Set
    <2>4. QED
      BY <1>7, <2>1, <2>2, <2>3 DEF CloseOne
  <1>8. QED
    BY <1>6, <1>7

LEMMA StartUse ==
    ASSUME LiveIInv, CountedInv', NEW b \in Browsers,
           CallOpen(b) \/ CallClose(b) \/ OpenFails(b) \/ EndSession(b)
    PROVE  LiveIInv'
  <1> DEFINE s == browsers[b]
  <1>1. /\ s \in BrowserRecord /\ OpensInv(s) /\ UseInv(b, s)
        /\ docker \in [up : BOOLEAN, exists : SUBSET Resources, requested : SUBSET Resources,
                       outages : Int]
    BY UseFacts
  <1>2. /\ UNCHANGED <<rescues, processes>> /\ s.session # "closed"
        /\ docker'.exists = docker.exists
    BY <1>1 DEF CallOpen, CallClose, OpenFails, EndSession, UseInv
  <1>3. ASSUME NEW n, Set(b, n), UseInv(b, n),
               n.session # "open" \/ n.pc \notin {"claim", "creating", "ready"}
        PROVE  LiveIInv'
    BY <1>2, <1>3, OwnUse, NotInUse DEF Set
  <1>4. ASSUME NEW who \in {"open", "catch", "call", "end"}, NEW n,
               \/ n = [Looping(s, who) EXCEPT !.pc = "closing"]
               \/ \E left \in Int : n = [Looping(s, who) EXCEPT !.left = left, !.pc = "closing"]
               \/ n = [Looping(s, who) EXCEPT !.session = "closing"]
        PROVE  UseInv(b, n) /\ (n.session # "open" \/ n.pc = "closing")
    <2> DEFINE m == Looping(s, who)
    <2>1. m \in BrowserRecord
          /\ m = [s EXCEPT !.closing = TRUE, !.loop = who, !.todo = Reverse(s.owned)]
      BY <1>1, LoopingRecord
    <2>2. /\ m.closing = TRUE /\ m.loop = who /\ m.todo = Reverse(s.owned) /\ m.owned = s.owned
          /\ m.session = s.session
      BY <1>1, <2>1 DEF BrowserRecord
    <2> HIDE DEF m
    <2>3. /\ n.loop = who /\ n.todo = Reverse(s.owned) /\ n.owned = s.owned
          /\ n.session = "closing" \/ (n.session = s.session /\ n.pc = "closing")
      <3>1. \/ n = [m EXCEPT !.pc = "closing"]
            \/ \E left \in Int : n = [m EXCEPT !.left = left, !.pc = "closing"]
            \/ n = [m EXCEPT !.session = "closing"]
        BY <1>4 DEF m
      <3>2. m \in BrowserRecord
        BY <2>1
      <3>3. CASE \/ n = [m EXCEPT !.pc = "closing"]
                 \/ \E left \in Int : n = [m EXCEPT !.left = left, !.pc = "closing"]
        <4>1. /\ n.loop = m.loop /\ n.todo = m.todo /\ n.owned = m.owned
              /\ n.session = m.session /\ n.pc = "closing"
          BY <3>2, <3>3 DEF BrowserRecord
        <4>2. QED
          BY <2>2, <4>1
      <3>4. CASE n = [m EXCEPT !.session = "closing"]
        <4>1. n.loop = m.loop /\ n.todo = m.todo /\ n.owned = m.owned /\ n.session = "closing"
          BY <3>2, <3>4 DEF BrowserRecord
        <4>2. QED
          BY <2>2, <4>1
      <3>5. QED
        BY <3>1, <3>3, <3>4
    <2>4. \A i \in 1 .. Len(n.todo) : n.todo[i].of = b
      <3>1. s.owned \in Seq(Owned)
        BY <1>1 DEF BrowserRecord
      <3>2. /\ Len(Reverse(s.owned)) = Len(s.owned)
            /\ \A i \in 1 .. Len(s.owned) : Reverse(s.owned)[i] = s.owned[Len(s.owned) - i + 1]
        BY <3>1, ReverseCovers
      <3>3. ASSUME NEW i \in 1 .. Len(s.owned) PROVE s.owned[Len(s.owned) - i + 1].of = b
        <4>1. Len(s.owned) - i + 1 \in 1 .. Len(s.owned)
          BY <3>1, Mirrored
        <4>2. QED
          BY <1>1, <4>1 DEF UseInv
      <3>4. QED
        BY <2>3, <3>2, <3>3
    <2>5. \A i \in 1 .. Len(s.owned) : s.owned[i].of = b
      BY <1>1 DEF UseInv
    <2>6. n.session # "closed" /\ (n.session # "open" \/ n.pc = "closing") /\ n.loop # "none"
      BY <1>2, <2>3
    <2>7. \A i \in 1 .. Len(n.owned) : n.owned[i].of = b
      BY <2>3, <2>5
    <2>8. QED
      BY <2>4, <2>6, <2>7 DEF UseInv
  <1>5. CASE CallOpen(b) /\ s.closing
    <2> DEFINE n == [s EXCEPT !.left = @ - 1, !.closing = FALSE, !.pc = "prepare"]
    <2>1. Set(b, n)
      BY <1>5 DEF CallOpen
    <2>2. /\ n.pc = "prepare" /\ n.closing = FALSE /\ n.session = s.session /\ n.loop = s.loop
          /\ n.todo = s.todo /\ n.owned = s.owned
      BY <1>1 DEF BrowserRecord
    <2> HIDE DEF n
    <2>3. UseInv(b, n)
      <3>1. /\ s.loop = "none" => s.todo = <<>>
            /\ \A i \in 1 .. Len(s.owned) : s.owned[i].of = b
            /\ \A i \in 1 .. Len(s.todo) : s.todo[i].of = b
        BY <1>1 DEF UseInv
      <3>2. QED
        BY <1>2, <2>2, <3>1 DEF UseInv
    <2>4. QED
      BY <1>3, <2>1, <2>2, <2>3
  <1>6. CASE CallOpen(b) /\ ~s.closing
    <2>1. s.left - 1 \in Int
      BY <1>1 DEF BrowserRecord
    <2>2. PICK left \in Int : Set(b, [Looping(s, "open") EXCEPT !.left = left, !.pc = "closing"])
      <3>1. s.left = Looping(s, "open").left
        <4>1. ASSUME NEW x \in BrowserRecord, NEW todo
              PROVE  [x EXCEPT !.closing = TRUE, !.loop = "open", !.todo = todo].left = x.left
          BY DEF BrowserRecord
        <4>2. QED
          BY <1>1, <4>1 DEF Looping
      <3>2. Set(b, [Looping(s, "open") EXCEPT !.left = @ - 1, !.pc = "closing"])
        BY <1>6 DEF CallOpen
      <3>3. QED
        BY <2>1, <3>1, <3>2
    <2>3. QED
      BY <1>3, <1>4, <2>2
  <1>7. CASE CallClose(b) \/ (OpenFails(b) /\ ~s.closing)
    <2>1. \E who \in {"call", "catch"} : Set(b, [Looping(s, who) EXCEPT !.pc = "closing"])
      BY <1>7 DEF CallClose, OpenFails
    <2>2. QED
      BY <1>3, <1>4, <2>1
  <1>8. CASE EndSession(b) /\ ~s.closing
    <2>1. Set(b, [Looping(s, "end") EXCEPT !.session = "closing"])
      BY <1>8 DEF EndSession
    <2>2. QED
      BY <1>3, <1>4, <2>1
  <1>9. CASE OpenFails(b) /\ s.closing
    <2> DEFINE n == [s EXCEPT !.pc = "idle"]
    <2>1. Set(b, n)
      BY <1>9 DEF OpenFails
    <2>2. /\ n.pc = "idle" /\ n.session = s.session /\ n.loop = s.loop
          /\ n.todo = s.todo /\ n.owned = s.owned
      BY <1>1 DEF BrowserRecord
    <2> HIDE DEF n
    <2>3. UseInv(b, n)
      BY <1>1, <1>2, <2>2 DEF UseInv
    <2>4. QED
      BY <1>3, <2>1, <2>2, <2>3
  <1>10. CASE EndSession(b) /\ s.closing
    <2> DEFINE n == [s EXCEPT !.session = "draining"]
    <2>1. Set(b, n)
      BY <1>10 DEF EndSession
    <2>2. /\ n.session = "draining" /\ n.loop = s.loop /\ n.todo = s.todo /\ n.owned = s.owned
      BY <1>1 DEF BrowserRecord
    <2> HIDE DEF n
    <2>3. UseInv(b, n)
      BY <1>1, <2>2 DEF UseInv
    <2>4. QED
      BY <1>3, <2>1, <2>2, <2>3
  <1>11. QED
    BY <1>5, <1>6, <1>7, <1>8, <1>9, <1>10

LEMMA OpenUse ==
    ASSUME LiveIInv, CountedInv', NEW b \in Browsers,
           Prepare(b) \/ ClaimResource(b) \/ Created(b) \/ SessionClosed(b)
    PROVE  LiveIInv'
  <1> DEFINE s == browsers[b]
  <1>1. /\ s \in BrowserRecord /\ OpensInv(s) /\ UseInv(b, s)
        /\ Here(b) => HasOpened(b, s, docker.exists)
        /\ docker \in [up : BOOLEAN, exists : SUBSET Resources, requested : SUBSET Resources,
                       outages : Int]
    BY UseFacts
  <1>2. /\ UNCHANGED <<rescues, processes>> /\ Here(b)
        /\ s.session # "closed"
        /\ docker'.exists = docker.exists
    BY <1>1 DEF Prepare, ClaimResource, Created, SessionClosed, UseInv
  <1>3. ASSUME NEW n, Set(b, n), UseInv(b, n), HasOpened(b, n, docker.exists) PROVE LiveIInv'
    BY <1>2, <1>3, OwnUse DEF Set
  <1>4. CASE Prepare(b)
    <2> DEFINE n == [s EXCEPT !.pc = "claim", !.next = "network", !.opens = @ + 1]
               m == [s EXCEPT !.pc = "idle"]
    <2>1. Set(b, n) \/ Set(b, m)
      BY <1>4 DEF Prepare
    <2>2. s.pc = "prepare"
      BY <1>4 DEF Prepare
    <2>3. /\ n.pc = "claim" /\ n.next = "network" /\ n.closing = s.closing /\ n.loop = s.loop
          /\ n.session = s.session /\ n.todo = s.todo /\ n.owned = s.owned
      BY <1>1 DEF BrowserRecord
    <2>4. /\ m.pc = "idle" /\ m.closing = s.closing /\ m.loop = s.loop
          /\ m.session = s.session /\ m.todo = s.todo /\ m.owned = s.owned
      BY <1>1 DEF BrowserRecord
    <2> HIDE DEF n, m
    <2>5. UseInv(b, n) /\ UseInv(b, m)
      BY <1>1, <1>2, <2>2, <2>3, <2>4 DEF UseInv
    <2>6. HasOpened(b, n, docker.exists) /\ HasOpened(b, m, docker.exists)
      BY <2>3, <2>4 DEF HasOpened, Earlier
    <2>7. QED
      BY <1>3, <2>1, <2>5, <2>6
  <1>5. CASE ClaimResource(b)
    <2> DEFINE r == Resource(b, s.next)
               n == [s EXCEPT !.pc = "creating", !.owned = Append(@, r)]
    <2>1. s.pc = "claim" /\ Set(b, n)
      BY <1>5 DEF ClaimResource
    <2>2. r.of = b /\ s.owned \in Seq(Owned)
      BY <1>1 DEF Resource, BrowserRecord
    <2> HIDE DEF r
    <2>3. /\ n.pc = "creating" /\ n.next = s.next /\ n.opens = s.opens /\ n.closing = s.closing
          /\ n.loop = s.loop /\ n.session = s.session /\ n.todo = s.todo
          /\ n.owned = Append(s.owned, r)
      BY <1>1 DEF BrowserRecord
    <2> HIDE DEF n
    <2>4. \A i \in 1 .. Len(n.owned) : n.owned[i].of = b
      <3>1. /\ Len(s.owned) \in Nat /\ Len(n.owned) = Len(s.owned) + 1
            /\ n.owned[Len(s.owned) + 1] = r
            /\ \A i \in 1 .. Len(s.owned) : n.owned[i] = s.owned[i]
        BY <2>2, <2>3
      <3>2. ASSUME NEW i \in 1 .. Len(n.owned) PROVE n.owned[i].of = b
        <4>1. i = Len(s.owned) + 1 \/ i \in 1 .. Len(s.owned)
          BY <3>1
        <4>2. QED
          BY <1>1, <2>2, <3>1, <4>1 DEF UseInv
      <3>3. QED
        BY <3>2
    <2>5. UseInv(b, n)
      BY <1>1, <1>2, <2>1, <2>3, <2>4 DEF UseInv
    <2>6. HasOpened(b, n, docker.exists)
      BY <1>1, <1>2, <2>1, <2>3 DEF HasOpened
    <2>7. QED
      BY <1>3, <2>1, <2>5, <2>6
  <1>6. CASE Created(b)
    <2> DEFINE r == [of |-> b, kind |-> s.next, open |-> s.opens]
    <2>1. s.pc = "creating" /\ r \in docker.exists /\ s.session = "open"
      BY <1>6 DEF Created, Resource
    <2>2. \A kind \in Earlier(s.next) \cup {s.next} :
              [of |-> b, kind |-> kind, open |-> s.opens] \in docker.exists
      BY <1>1, <1>2, <2>1 DEF HasOpened
    <2>3. CASE s.next = "browser"
      <3> DEFINE n == [s EXCEPT !.pc = "ready"]
      <3>1. Set(b, n)
        BY <1>6, <2>3 DEF Created
      <3>2. /\ n.pc = "ready" /\ n.opens = s.opens /\ n.closing = s.closing
            /\ n.loop = s.loop /\ n.session = s.session /\ n.todo = s.todo /\ n.owned = s.owned
        BY <1>1 DEF BrowserRecord
      <3> HIDE DEF n
      <3>3. UseInv(b, n)
        BY <1>1, <1>2, <2>1, <3>2 DEF UseInv
      <3>4. Kinds = Earlier(s.next) \cup {s.next}
        BY <2>3 DEF Kinds, Earlier
      <3>5. HasOpened(b, n, docker.exists)
        BY <2>2, <3>2, <3>4 DEF HasOpened
      <3>6. QED
        BY <1>3, <3>1, <3>3, <3>5
    <2>4. CASE s.next # "browser"
      <3>1. PICK kind \in Kinds : kind = IF s.next = "network" THEN "app" ELSE "browser"
        BY DEF Kinds
      <3> DEFINE n == [s EXCEPT !.pc = "claim", !.next = kind]
      <3>2. Set(b, n)
        BY <1>6, <2>4, <3>1 DEF Created
      <3>3. /\ n.pc = "claim" /\ n.next = kind /\ n.opens = s.opens /\ n.closing = s.closing
            /\ n.loop = s.loop /\ n.session = s.session /\ n.todo = s.todo /\ n.owned = s.owned
        BY <1>1 DEF BrowserRecord
      <3> HIDE DEF n
      <3>4. UseInv(b, n)
        BY <1>1, <1>2, <2>1, <3>3 DEF UseInv
      <3>5. Earlier(kind) = Earlier(s.next) \cup {s.next}
        BY <1>1, <2>4, <3>1 DEF Earlier, BrowserRecord, Kinds
      <3>6. HasOpened(b, n, docker.exists)
        BY <2>2, <3>3, <3>5 DEF HasOpened
      <3>7. QED
        BY <1>3, <3>2, <3>4, <3>6
    <2>5. QED
      BY <2>3, <2>4
  <1>7. CASE SessionClosed(b)
    <2> DEFINE n == [s EXCEPT !.session = "closed"]
    <2>1. Set(b, n) /\ s.pc \in {"idle", "ready"} /\ s.loop = "none"
      BY <1>7 DEF SessionClosed
    <2>2. /\ n.pc = s.pc /\ n.session = "closed" /\ n.loop = s.loop
          /\ n.todo = s.todo /\ n.owned = s.owned
      BY <1>1 DEF BrowserRecord
    <2> HIDE DEF n
    <2>3. UseInv(b, n) /\ HasOpened(b, n, docker.exists)
      BY <1>1, <2>1, <2>2 DEF UseInv, HasOpened
    <2>4. QED
      BY <1>3, <2>1, <2>3
  <1>8. QED
    BY <1>4, <1>5, <1>6, <1>7

(* Nobody else takes anything from a browser in use.                       *)
LEMMA OutsideUse ==
    ASSUME LiveIInv, CountedInv', "same" \notin BrowserWindows,
           \/ \E p \in Rescuers : Rescue(p) \/ RescueOne(p)
           \/ \E r \in docker.requested : DaemonCreates(r)
           \/ \E p \in processes.alive : KillProcess(p)
           \/ Outage
    PROVE  LiveIInv'
  <1>1. /\ records \subseteq Resources /\ rescues \in [Rescuers -> SUBSET Resources]
        /\ docker \in [up : BOOLEAN, exists : SUBSET Resources, requested : SUBSET Resources,
                       outages : Int]
    BY DEF LiveIInv, CountedInv
  <1>2. UNCHANGED browsers /\ processes'.alive \subseteq processes.alive
    <2>1. CASE \E p \in processes.alive : KillProcess(p)
      <3>1. PICK p \in processes.alive : KillProcess(p)
        BY <2>1
      <3>2. UNCHANGED browsers /\ processes'.alive = processes.alive \ {p}
        BY <3>1 DEF KillProcess
      <3>3. QED
        BY <3>2
    <2>2. CASE \/ \E p \in Rescuers : Rescue(p) \/ RescueOne(p)
               \/ \E r \in docker.requested : DaemonCreates(r)
               \/ Outage
      BY <2>2 DEF Rescue, RescueOne, DaemonCreates, Outage
    <2>3. QED
      BY <2>1, <2>2
  <1>3. \A b \in Browsers : Here(b)' => Here(b)
    BY <1>2 DEF Here
  <1>4. ASSUME NEW b \in Browsers, NEW kept,
               \A r \in docker.exists : r.of = b => r \in kept,
               HasOpened(b, browsers[b], docker.exists)
        PROVE  HasOpened(b, browsers[b], kept)
    BY <1>4 DEF HasOpened
  <1>5. ASSUME rescues' \in [Rescuers -> SUBSET Resources],
               \A b \in Browsers : Here(b)' /\ browsers[b].session = "open" =>
                   \A r \in docker.exists : r.of = b => r \in docker'.exists,
               \A p \in Rescuers : \A r \in rescues'[p] :
                   ~Here(r.of) \/ browsers[r.of].session = "closed"
        PROVE  LiveIInv'
    <2>1. ASSUME NEW b \in Browsers, Here(b)' PROVE HasOpened(b, browsers[b], docker'.exists)
      <3>1. HasOpened(b, browsers[b], docker.exists)
        BY <1>3, <2>1 DEF LiveIInv
      <3>2. CASE browsers[b].session = "open"
        BY <1>4, <1>5, <2>1, <3>1, <3>2
      <3>3. CASE browsers[b].session # "open"
        BY <3>3, NotInUse
      <3>4. QED
        BY <3>2, <3>3
    <2>2. \A p \in Rescuers : RescueInv(p)'
      <3>1. ASSUME NEW p \in Rescuers, NEW r \in rescues'[p]
            PROVE  ~Here(r.of)' \/ browsers'[r.of].session = "closed"
        <4>1. r.of \in Browsers
          BY <1>5 DEF Resources
        <4>2. QED
          BY <1>2, <1>3, <1>5, <4>1
      <3>2. QED
        BY <3>1 DEF RescueInv
    <2>3. QED
      BY <1>2, <1>5, <2>1, <2>2 DEF LiveIInv
  <1>6. \A p \in Rescuers : \A r \in rescues[p] : ~Here(r.of) \/ browsers[r.of].session = "closed"
    BY DEF LiveIInv, RescueInv
  <1>7. ASSUME NEW p \in Rescuers, Rescue(p) PROVE LiveIInv'
    <2>1. UNCHANGED docker /\ rescues' = [rescues EXCEPT ![p] = Mine(p)] /\ Mine(p) \subseteq Resources
      BY <1>1, <1>7 DEF Rescue, Mine
    <2>2. ASSUME NEW r \in Mine(p) PROVE ~Here(r.of) \/ browsers[r.of].session = "closed"
      <3>1. r.of \in Browsers /\ BrowserProcess(r.of) \notin processes.alive \ {p}
        BY <1>1, <2>2 DEF Mine, Resources
      <3>2. BrowserProcess(r.of) = p => browsers[r.of].session = "closed"
        BY <1>7, <3>1 DEF Rescue
      <3>3. QED
        BY <3>1, <3>2 DEF Here
    <2>3. rescues' \in [Rescuers -> SUBSET Resources]
      BY <1>1, <2>1
    <2>4. \A x \in Rescuers : \A r \in rescues'[x] :
              ~Here(r.of) \/ browsers[r.of].session = "closed"
      BY <1>1, <1>6, <2>1, <2>2
    <2>5. QED
      BY <1>5, <2>1, <2>3, <2>4
  <1>8. ASSUME NEW p \in Rescuers, RescueOne(p) PROVE LiveIInv'
    <2>1. PICK r \in rescues[p] :
              \/ Removed(r) /\ rescues' = [rescues EXCEPT ![p] = @ \ {r}]
              \/ rescues' = [rescues EXCEPT ![p] = {}] /\ UNCHANGED <<records, docker>>
      BY <1>8 DEF RescueOne
    <2>2. UNCHANGED processes
      BY <1>8 DEF RescueOne
    <2>3. rescues' \in [Rescuers -> SUBSET Resources] /\ \A x \in Rescuers : rescues'[x] \subseteq rescues[x]
      BY <1>1, <2>1
    <2>4. docker'.exists = docker.exists \/ docker'.exists = docker.exists \ {r}
      BY <1>1, <2>1 DEF Removed
    <2>5. \A b \in Browsers : Here(b)' /\ browsers[b].session = "open" =>
              \A x \in docker.exists : x.of = b => x \in docker'.exists
      BY <1>3, <1>6, <2>4
    <2>6. QED
      BY <1>5, <1>6, <2>3, <2>5
  <1>9. CASE \/ \E r \in docker.requested : DaemonCreates(r)
             \/ \E p \in processes.alive : KillProcess(p)
             \/ Outage
    <2>1. UNCHANGED rescues
      BY <1>9 DEF DaemonCreates, KillProcess, Outage
    <2>2. docker.exists \subseteq docker'.exists
      BY <1>1, <1>9 DEF DaemonCreates, KillProcess, Outage
    <2>3. QED
      BY <1>1, <1>5, <1>6, <2>1, <2>2
  <1>10. QED
    BY <1>7, <1>8, <1>9

(* Recovery takes nothing from a browser in use, whether or not Docker     *)
(* creates what a killed command asked for and shows in time what exists,  *)
(* if a process does not recover while sessions of its own are open        *)
(* (recoverBrowserResources, which takes the records of its own process    *)
(* for those of a dead one).                                               *)
THEOREM LiveBrowsersAreKept ==
    ASSUME "same" \notin BrowserWindows PROVE BrowserSpec => []LiveBrowserKept
  <1>1. BrowserInit => LiveIInv
    <2> SUFFICES ASSUME BrowserInit PROVE LiveIInv
      OBVIOUS
    <2>1. PICK budget \in BrowserBudgets : browsers = [b \in Browsers |-> NewBrowser(budget.opens[b])]
      BY DEF BrowserInit
    <2>2. ASSUME NEW b \in Browsers
          PROVE  UseInv(b, browsers[b]) /\ HasOpened(b, browsers[b], docker.exists)
      <3>1. /\ browsers[b].pc = "idle" /\ browsers[b].owned = <<>> /\ browsers[b].todo = <<>>
            /\ browsers[b].loop = "none" /\ browsers[b].session = "open"
        BY <2>1 DEF NewBrowser
      <3>2. QED
        BY <3>1 DEF UseInv, HasOpened
    <2>3. rescues \in [Rescuers -> SUBSET Resources] /\ \A p \in Rescuers : RescueInv(p)
      BY DEF BrowserInit, RescueInv
    <2>4. QED
      BY <2>2, <2>3, CountedStarts DEF LiveIInv
  <1>2. LiveIInv /\ [BrowserNext]_browserVars => LiveIInv'
    <2> SUFFICES ASSUME LiveIInv, [BrowserNext]_browserVars PROVE LiveIInv'
      OBVIOUS
    <2>1. CountedInv'
      BY CountedGoesOn DEF LiveIInv
    <2>2. ASSUME NEW b \in Browsers, BrowserStep(b) \/ CallOpen(b) \/ CallClose(b) \/ EndSession(b)
          PROVE  LiveIInv'
      BY <2>1, <2>2, CloseUse, StartUse, OpenUse DEF BrowserStep
    <2>3. CASE UNCHANGED browserVars
      BY <2>1, <2>3 DEF browserVars, LiveIInv, Here, RescueInv
    <2>4. QED
      BY <2>1, <2>2, <2>3, OutsideUse DEF BrowserNext
  <1>3. LiveIInv => LiveBrowserKept
    BY DEF LiveIInv, HasOpened, LiveBrowserKept, Resource
  <1>4. QED
    BY <1>1, <1>2, <1>3, PTL DEF BrowserSpec

(* The page, the snapshot on record and the calls are what the server      *)
(* takes them for, although a call the agent has given up on goes on       *)
(* beside the next: the number of interactions stays within the limit, and *)
(* what is acted on is an element (server.ts mutate, element).             *)
THEOREM PageKeepsTypes == PageSpec => []PageTypeOK
  <1>1. PageIInv => PageTypeOK
    BY DEF PageIInv
  <1>2. QED
    BY PageInvariant, <1>1, PTL

(* Every step of the whole is a step of each instance, or leaves it alone. *)
LEMMA WholeInit ==
    MCInit => /\ OperationInit /\ BrowserInit /\ PageInit /\ DesktopInit
              /\ which = "catalog" => ReaderInit
  BY DEF MCInit

LEMMA WholeNext ==
    [MCNext]_mcVars => /\ [OperationNext]_operationVars /\ [BrowserNext]_browserVars
                       /\ [PageNext]_pageVars /\ [DesktopNext]_desktopVars
                       /\ [ReaderNext]_readerVars
  BY DEF MCNext, mcVars

(* Operations, browsers, a page and a window: a behaviour of the whole is  *)
(* a behaviour of each of its parts, fair where the part is; of the        *)
(* catalog where it is about one.                                          *)
THEOREM PartsOfTheIntegrations ==
    MCFairSpec => /\ OperationSpec /\ BrowserSpec /\ PageSpec /\ DesktopSpec
                  /\ which = "catalog" => ReaderSpec
  <1>1. QED
    BY WholeInit, WholeNext, PTL
    DEF MCFairSpec, MCSpec, OperationSpec, BrowserSpec, PageSpec, DesktopSpec, ReaderSpec

(* The records of operations, browsers, pages and windows keep their types *)
(* for any runs, tools, budgets and windows of failure: every operation is *)
(* in a state of the registry, an open that fails gives nothing to the     *)
(* next, and no counter leaves its range.                                  *)
THEOREM IntegrationsTypes == MCSpec => []IntegrationsTypeOK
  <1>1. MCSpec => BrowserSpec /\ PageSpec
    BY WholeInit, WholeNext, PTL DEF MCSpec, BrowserSpec, PageSpec
  <1>2. MCSpec => []OperationIInv
    <2>1. OperationIInv /\ [OperationNext]_operationVars => OperationIInv'
      BY OperationStep, OperationStutter
    <2>2. QED
      BY <2>1, WholeInit, WholeNext, OperationInitInv, PTL DEF MCSpec
  <1>3. MCSpec => []DesktopIInv
    BY WholeInit, WholeNext, DesktopInitInv, DesktopStepInv, PTL DEF MCSpec
  <1>4. OperationIInv /\ BrowserTypeOK /\ PageTypeOK /\ DesktopIInv => IntegrationsTypeOK
    BY DEF OperationIInv, DesktopIInv, IntegrationsTypeOK
  <1>5. QED
    BY <1>1, <1>2, <1>3, <1>4, BrowserTypes, PageKeepsTypes, PTL
=============================================================================
