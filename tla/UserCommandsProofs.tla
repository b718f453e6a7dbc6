-------------------------- MODULE UserCommandsProofs --------------------------
(* Theorems about the two models of MCUserCommands for any values of the   *)
(* constants: first GoalCommands, then Presentation.                       *)
EXTENDS MCUserCommands, TLAPS

Busy == {"retry", "check", "patch", "patched", "recover", "drive"} \cup Controls

(* A process at work holds the lock, so there is one; it works on a goal   *)
(* that has not ended, except to apply one that is done.                   *)
LockInv == \A p \in Processes : pc[p] # "idle" => lock = p /\ on[p] \in Goals

WorkInv == \A p \in Processes :
    pc[p] \in Controls \cup {"retry", "recover", "drive"} => state[on[p]] \notin Terminal

(* Whoever is about to patch has found the checkout unchanged.             *)
PatchInv ==
    /\ \A p \in Processes : pc[p] = "patch" => ~SourceChanged
    /\ \A p \in Processes : pc[p] \in {"check", "patch", "patched"} => Unresolved(on[p])

IInv == TypeOK /\ LockInv /\ WorkInv /\ PatchInv /\ SourcePatchedOnce

(* All commands start like this.                                           *)
Issued(p, g) ==
    /\ pc[p] = "idle" /\ lock \in {NoOne, Dead}
    /\ lock' = p /\ on' = [on EXCEPT ![p] = g]
    /\ \E step \in Busy : pc' = [pc EXCEPT ![p] = step]
    /\ UNCHANGED <<state, applied>>

(* What the other steps of a process do to the lock and to itself.         *)
Moved(p) ==
    \/ \E step \in Busy : pc' = [pc EXCEPT ![p] = step] /\ UNCHANGED <<lock, on>>
    \/ /\ pc' = [pc EXCEPT ![p] = "idle"]
       /\ lock' \in {NoOne, Dead} /\ on' = [on EXCEPT ![p] = NoOne]

LEMMA InitIInv == Init => IInv
  <1> SUFFICES ASSUME Init PROVE IInv
    OBVIOUS
  <1> USE GoalCommandsAssumption DEF GoalCommandsAssumption, Init
  <1>1. TypeOK
    BY DEF TypeOK, GoalState, TaskRecord
  <1>2. LockInv /\ WorkInv /\ PatchInv /\ SourcePatchedOnce
    BY DEF LockInv, WorkInv, PatchInv, SourcePatchedOnce, Controls, SourceChanged
  <1>3. QED
    BY <1>1, <1>2 DEF IInv

LEMMA TypeStep == IInv /\ [Next]_vars => TypeOK'
  <1> SUFFICES ASSUME IInv, [Next]_vars PROVE TypeOK'
    OBVIOUS
  <1> TypeOK /\ LockInv
    BY DEF IInv
  <1> USE GoalCommandsAssumption
      DEF GoalCommandsAssumption, TypeOK, At, GoTo, Command, Issue, TakeLock, Leave, Unlock,
          SetState, goals, source, env
  <1>1. ASSUME NEW p \in Processes, NEW g \in Goals, User(p, g) PROVE TypeOK'
    <2>1. ASSUME NEW a \in Controls, LockForControl(p, g, a) PROVE TypeOK'
      BY <2>1 DEF LockForControl
    <2>2. CASE LockForRun(p, g)
      BY <2>2 DEF LockForRun
    <2>3. CASE LockForRetry(p, g)
      BY <2>3 DEF LockForRetry
    <2>4. CASE LockForApply(p, g)
      BY <2>4 DEF LockForApply
    <2>5. QED
      BY <1>1, <2>1, <2>2, <2>3, <2>4 DEF User
  <1>2. ASSUME NEW p \in Processes, Controller(p) PROVE TypeOK'
    <2>1. on[p] \in Goals
      BY <1>2 DEF Controller, Poll, Deadline, Recovered, DriveTask, EndTask, Finish, Throw,
                  Running, LockInv
    <2>2. task[on[p]] \in TaskRecord
      BY <2>1
    <2>3. CASE Poll(p)
      BY <2>1, <2>3 DEF Poll
    <2>4. CASE Deadline(p)
      BY <2>4 DEF Deadline
    <2>5. CASE Recovered(p)
      BY <2>1, <2>2, <2>5 DEF Recovered, RecoveredTask, SetTask, GoalState, TaskRecord
    <2>6. CASE DriveTask(p)
      <3>1. PICK r \in TaskRecord : task' = [task EXCEPT ![on[p]] = r]
        <4>1. CASE /\ task[on[p]].attempt < MaxAttempts
                   /\ task' = [task EXCEPT ![on[p]] =
                                  [status |-> "running", attempt |-> task[on[p]].attempt + 1]]
          <5>1. [status |-> "running", attempt |-> task[on[p]].attempt + 1] \in TaskRecord
            BY <2>2, <4>1 DEF TaskRecord
          <5>2. QED
            BY <4>1, <5>1
        <4>2. CASE SetTask(on[p], "pending")
          <5>1. [task[on[p]] EXCEPT !.status = "pending"] \in TaskRecord
            BY <2>2 DEF TaskRecord
          <5>2. task' = [task EXCEPT ![on[p]] = [task[on[p]] EXCEPT !.status = "pending"]]
            BY <4>2 DEF SetTask
          <5>3. QED
            BY <5>1, <5>2
        <4>3. QED
          BY <2>6, <4>1, <4>2 DEF DriveTask
      <3>2. task' \in [Goals -> TaskRecord]
        BY <2>1, <3>1
      <3>3. QED
        BY <2>6, <3>2 DEF DriveTask
    <2>7. CASE EndTask(p)
      BY <2>1, <2>2, <2>7 DEF EndTask, SetTask, TaskRecord
    <2>8. CASE Finish(p)
      BY <2>1, <2>8 DEF Finish, Settle, GoalState, Terminal
    <2>9. CASE Throw(p)
      BY <2>1, <2>9 DEF Throw, Settle, Outcome, GoalState, Terminal
    <2>10. QED
      BY <1>2, <2>3, <2>4, <2>5, <2>6, <2>7, <2>8, <2>9 DEF Controller
  <1>3. ASSUME NEW p \in Processes, Handler(p) PROVE TypeOK'
    <2>1. on[p] \in Goals
      BY <1>3 DEF Handler, Control, RetryTask, RefuseApply, CheckSource, PatchSource, EndApply,
                  LockInv, Controls
    <2>2. task[on[p]] \in TaskRecord
      BY <2>1
    <2>3. CASE Control(p)
      BY <2>1, <2>2, <2>3 DEF Control, RecoveredTask, Target, GoalState, TaskRecord, Terminal
    <2>4. CASE RetryTask(p)
      BY <2>1, <2>2, <2>4 DEF RetryTask, SetTask, TaskRecord
    <2>5. CASE RefuseApply(p)
      BY <2>5 DEF RefuseApply
    <2>6. CASE CheckSource(p)
      BY <2>6 DEF CheckSource
    <2>7. CASE PatchSource(p)
      BY <2>7 DEF PatchSource
    <2>8. CASE EndApply(p)
      BY <2>8 DEF EndApply
    <2>9. QED
      BY <1>3, <2>3, <2>4, <2>5, <2>6, <2>7, <2>8 DEF Handler
  <1>4. ASSUME NEW p \in Processes, Crash(p) PROVE TypeOK'
    BY <1>4 DEF Crash
  <1>5. ASSUME NEW g \in Goals, NEW a \in Controls, RequestControl(g, a) PROVE TypeOK'
    BY <1>5 DEF RequestControl
  <1>6. CASE PolicyChange
    BY <1>6 DEF PolicyChange, Controls
  <1>7. CASE UNCHANGED vars
    BY <1>7 DEF vars
  <1>8. QED
    BY <1>1, <1>2, <1>3, <1>4, <1>5, <1>6, <1>7 DEF Next
LEMMA UserIssues ==
    ASSUME NEW p \in Processes, NEW g \in Goals, User(p, g)
    PROVE  Issued(p, g)
  <1>1. ASSUME NEW a \in Controls, LockForControl(p, g, a) PROVE Issued(p, g)
    BY <1>1 DEF LockForControl, Issued, Issue, At, GoTo, TakeLock, Busy, goals, source
  <1>2. QED
    BY <1>1 DEF User, LockForRun, LockForRetry, LockForApply, Issued, Issue, At, GoTo, TakeLock,
                Busy, goals, source

LEMMA ProcessMoves ==
    ASSUME IInv, NEW p \in Processes, Controller(p) \/ Handler(p) \/ Crash(p)
    PROVE  pc[p] # "idle" /\ lock = p /\ Moved(p)
  <1> USE DEF Moved, Busy, At, GoTo, Unlock, Leave, Running
  <1>1. pc[p] # "idle"
    BY DEF Controller, Poll, Deadline, Recovered, DriveTask, EndTask, Finish, Throw,
           Handler, Control, RetryTask, RefuseApply, CheckSource, PatchSource, EndApply, Crash,
           Controls
  <1>2. lock = p /\ pc \in [Processes -> Busy \cup {"idle"}]
    BY <1>1 DEF IInv, LockInv, TypeOK
  <1>3. CASE Controller(p)
    <2>1. CASE Poll(p) \/ Deadline(p)
      <3>1. pc' = [pc EXCEPT ![p] = pc[p]] /\ pc[p] \in Busy
        BY <1>2, <2>1 DEF Poll, Deadline
      <3>2. QED
        BY <1>1, <1>2, <2>1, <3>1 DEF Poll, Deadline
    <2>2. CASE DriveTask(p) \/ EndTask(p)
      <3>1. pc' = [pc EXCEPT ![p] = pc[p]] /\ pc[p] \in Busy
        BY <1>2, <2>2 DEF DriveTask, EndTask
      <3>2. QED
        BY <1>1, <1>2, <2>2, <3>1 DEF DriveTask, EndTask
    <2>3. CASE Recovered(p)
      BY <1>1, <1>2, <2>3 DEF Recovered
    <2>4. CASE Finish(p) \/ Throw(p)
      BY <1>1, <1>2, <2>4 DEF Finish, Throw, Settle
    <2>5. QED
      BY <1>3, <2>1, <2>2, <2>3, <2>4 DEF Controller
  <1>4. CASE Handler(p)
    BY <1>1, <1>2, <1>4 DEF Handler, Control, RetryTask, RefuseApply, CheckSource, PatchSource,
                            EndApply
  <1>5. CASE Crash(p)
    BY <1>1, <1>2, <1>5 DEF Crash
  <1>6. QED
    BY <1>3, <1>4, <1>5

LEMMA LockStep == IInv /\ [Next]_vars => LockInv'
  <1> SUFFICES ASSUME IInv, [Next]_vars PROVE LockInv'
    OBVIOUS
  <1> /\ LockInv
      /\ pc \in [Processes -> Busy \cup {"idle"}]
      /\ on \in [Processes -> Goals \cup {NoOne}]
    BY DEF IInv, TypeOK, Busy
  <1> USE GoalCommandsAssumption DEF GoalCommandsAssumption, LockInv
  <1>1. ASSUME NEW p \in Processes, NEW g \in Goals, User(p, g) PROVE LockInv'
    BY <1>1, UserIssues DEF Issued
  <1>2. ASSUME NEW p \in Processes, Controller(p) \/ Handler(p) \/ Crash(p) PROVE LockInv'
    BY <1>2, ProcessMoves DEF Moved
  <1>3. ASSUME NEW g \in Goals, NEW a \in Controls, RequestControl(g, a) PROVE LockInv'
    BY <1>3 DEF RequestControl
  <1>4. CASE PolicyChange \/ UNCHANGED vars
    BY <1>4 DEF PolicyChange, vars
  <1>5. QED
    BY <1>1, <1>2, <1>3, <1>4 DEF Next
(* One process works at a time, so what holds of the one that moves holds  *)
(* of no other.                                                            *)
LEMMA Others ==
    ASSUME IInv, NEW p \in Processes, pc[p] # "idle" \/ lock \in {NoOne, Dead},
           NEW q \in Processes, q # p
    PROVE  pc[q] = "idle"
  BY GoalCommandsAssumption DEF GoalCommandsAssumption, IInv, LockInv

LEMMA WorkStep == IInv /\ [Next]_vars => WorkInv'
  <1> SUFFICES ASSUME IInv, [Next]_vars PROVE WorkInv'
    OBVIOUS
  <1> TypeOK /\ LockInv /\ WorkInv
    BY DEF IInv
  <1> USE DEF WorkInv, Terminal, Controls
  <1>1. ASSUME NEW p \in Processes, NEW g \in Goals, User(p, g) PROVE WorkInv'
    <2>1. \A q \in Processes \ {p} : pc'[q] = "idle"
      BY <1>1, UserIssues, Others DEF Issued, TypeOK
    <2>2. pc'[p] \in Controls \cup {"retry", "recover", "drive"} => state'[on'[p]] \notin Terminal
      BY <1>1 DEF User, LockForControl, LockForRetry, LockForApply, LockForRun, Issue, GoTo, goals,
                  TypeOK
    <2>3. QED
      BY <2>1, <2>2
  <1>2. ASSUME NEW p \in Processes, Controller(p) \/ Handler(p) \/ Crash(p) PROVE WorkInv'
    <2>1. \A q \in Processes \ {p} : pc'[q] = "idle"
      BY <1>2, ProcessMoves, Others DEF Moved, TypeOK
    <2>2. on[p] \in Goals
      BY <1>2, ProcessMoves DEF LockInv
    <2>3. pc'[p] \in Controls \cup {"retry", "recover", "drive"} => state'[on'[p]] \notin Terminal
      <3>1. CASE Controller(p)
        BY <1>2, <2>2, <3>1
           DEF Controller, Poll, Deadline, Recovered, DriveTask, EndTask, Finish, Throw, Settle,
               Unlock, Leave, GoTo, At, Running, SetState, TypeOK, goals
      <3>2. CASE Handler(p)
        BY <2>2, <3>2 DEF Handler, Control, RetryTask, RefuseApply, CheckSource, PatchSource,
                           EndApply, Unlock, Leave, GoTo, At, goals, TypeOK
      <3>3. CASE Crash(p)
        BY <3>3 DEF Crash, Leave, GoTo, TypeOK
      <3>4. QED
        BY <1>2, <3>1, <3>2, <3>3
    <2>4. QED
      BY <2>1, <2>3
  <1>3. ASSUME NEW g \in Goals, NEW a \in Controls, RequestControl(g, a) PROVE WorkInv'
    BY <1>3 DEF RequestControl
  <1>4. CASE PolicyChange \/ UNCHANGED vars
    BY <1>4 DEF PolicyChange, vars, goals
  <1>5. QED
    BY <1>1, <1>2, <1>3, <1>4 DEF Next

LEMMA PatchStep == IInv /\ [Next]_vars => PatchInv' /\ SourcePatchedOnce'
  <1> DEFINE PInv == PatchInv /\ SourcePatchedOnce
  <1> SUFFICES ASSUME IInv, [Next]_vars PROVE PInv'
    OBVIOUS
  <1> TypeOK /\ LockInv /\ PatchInv /\ SourcePatchedOnce
    BY DEF IInv
  <1> USE DEF PatchInv, SourcePatchedOnce, SourceChanged, Unresolved
  <1>1. ASSUME NEW p \in Processes, NEW g \in Goals, User(p, g) PROVE PInv'
    <2>1. (\A q \in Processes \ {p} : pc'[q] = "idle") /\ applied' = applied
      BY <1>1, UserIssues, Others DEF Issued, TypeOK
    <2>2. /\ pc'[p] # "patch"
          /\ pc'[p] \in {"check", "patched"} => patch'[on'[p]] = "started"
      BY <1>1 DEF User, LockForControl, LockForRetry, LockForApply, LockForRun, Issue, GoTo,
                  TypeOK, Controls
    <2>3. QED
      BY <2>1, <2>2
  <1>2. ASSUME NEW p \in Processes, Controller(p) \/ Handler(p) \/ Crash(p) PROVE PInv'
    <2>1. \A q \in Processes \ {p} : pc'[q] = "idle"
      BY <1>2, ProcessMoves, Others DEF Moved, TypeOK
    <2>2. on[p] \in Goals
      BY <1>2, ProcessMoves DEF LockInv
    <2>3. CASE UNCHANGED source /\ pc'[p] \notin {"check", "patch", "patched"}
      BY <2>1, <2>3 DEF source
    <2>4. CASE Controller(p)
      BY <2>3, <2>4 DEF Controller, Poll, Deadline, Recovered, DriveTask, EndTask, Finish, Throw,
                        Settle, Unlock, Leave, GoTo, At, Running, TypeOK
    <2>5. CASE Control(p) \/ RetryTask(p) \/ Crash(p)
      BY <2>3, <2>5 DEF Control, RetryTask, Crash, Unlock, Leave, GoTo, TypeOK
    <2>6. CASE RefuseApply(p) \/ EndApply(p)
      BY <2>1, <2>6 DEF RefuseApply, EndApply, Unlock, Leave, GoTo, TypeOK
    <2>7. CASE CheckSource(p)
      BY <2>1, <2>2, <2>7 DEF CheckSource, GoTo, At, source, TypeOK
    <2>8. CASE PatchSource(p)
      <3>1. /\ \A g \in Goals : applied[g] = 0
            /\ pc'[p] = "patched" /\ on' = on /\ patch' = patch
            /\ Unresolved(on[p])
        BY <2>8 DEF PatchSource, GoTo, At, TypeOK
      <3>2. \/ applied' = [applied EXCEPT ![on[p]] = 1]
            \/ applied' = applied
        BY <2>2, <2>8, <3>1 DEF PatchSource
      <3>3. SourcePatchedOnce'
        BY <2>2, <3>1, <3>2 DEF TypeOK
      <3>4. QED
        BY <2>1, <3>1, <3>3
    <2>9. QED
      BY <1>2, <2>4, <2>5, <2>6, <2>7, <2>8 DEF Handler
  <1>3. ASSUME NEW g \in Goals, NEW a \in Controls, RequestControl(g, a) PROVE PInv'
    BY <1>3 DEF RequestControl, source
  <1>4. CASE PolicyChange \/ UNCHANGED vars
    BY <1>4 DEF PolicyChange, vars, source
  <1>5. QED
    BY <1>1, <1>2, <1>3, <1>4 DEF Next

(* The invariants above hold together.                                     *)
THEOREM InductiveInvariant == Spec => []IInv
  <1>1. Init => IInv
    BY InitIInv
  <1>2. IInv /\ [Next]_vars => IInv'
    BY TypeStep, LockStep, WorkStep, PatchStep DEF IInv
  <1>3. QED
    BY <1>1, <1>2, PTL DEF Spec

(* Every variable keeps its type.                                          *)
THEOREM TypeCorrect == Spec => []TypeOK
  <1>1. IInv => TypeOK
    BY DEF IInv
  <1>2. QED
    BY <1>1, InductiveInvariant, PTL

(* The checkout receives at most one patch, once.                          *)
THEOREM PatchedOnce == Spec => []SourcePatchedOnce
  <1>1. IInv => SourcePatchedOnce
    BY DEF IInv
  <1>2. QED
    BY <1>1, InductiveInvariant, PTL

(* No command and no controller moves a goal that has ended.               *)
THEOREM EndedGoalsStay == Spec => TerminalIsFinal
  <1> DEFINE Final == \A g \in Goals : state[g] \in Terminal => state'[g] = state[g]
  <1>1. IInv /\ [Next]_vars => [Final]_vars
    <2> SUFFICES ASSUME IInv, [Next]_vars, UNCHANGED vars \/ Next PROVE Final \/ UNCHANGED vars
      OBVIOUS
    <2>1. ASSUME NEW p \in Processes, NEW g \in Goals, User(p, g) PROVE Final
      BY <2>1, UserIssues DEF Issued
    <2>2. ASSUME NEW p \in Processes, Controller(p) \/ Handler(p) \/ Crash(p) PROVE Final
      <3>1. on[p] \in Goals /\ state \in [Goals -> GoalState]
        BY <2>2, ProcessMoves DEF IInv, LockInv, TypeOK
      <3>2. \/ state' = state
            \/ /\ pc[p] \in Controls \cup {"retry", "recover", "drive"}
               /\ \E s \in GoalState : state' = [state EXCEPT ![on[p]] = s]
        BY <2>2 DEF Controller, Poll, Deadline, Recovered, DriveTask, EndTask, Finish, Throw,
                    Handler, Control, RetryTask, RefuseApply, CheckSource, PatchSource, EndApply,
                    Crash, SetState, GoalState, Terminal, Target, Outcome, At, Running, goals
      <3>3. QED
        BY <3>1, <3>2, <2>2 DEF IInv, WorkInv
    <2>3. ASSUME NEW g \in Goals, NEW a \in Controls, RequestControl(g, a) PROVE Final
      BY <2>3 DEF RequestControl
    <2>4. CASE PolicyChange
      BY <2>4 DEF PolicyChange
    <2>5. QED
      BY <2>1, <2>2, <2>3, <2>4 DEF Next
  <1>2. QED
    BY <1>1, InductiveInvariant, PTL DEF Spec, TerminalIsFinal

(* An apply that was cut short is left alone by everything that follows.   *)
THEOREM AppliedAtMostOnce == Spec => UncertainNotReplayed
  <1> DEFINE Left == \A g \in Goals : Abandoned(g) => Abandoned(g)' /\ UNCHANGED <<patch[g], applied[g]>>
  <1>1. IInv /\ [Next]_vars => [Left]_vars
    <2> SUFFICES ASSUME IInv, Next, NEW g \in Goals, Abandoned(g)
                 PROVE  Abandoned(g)' /\ UNCHANGED <<patch[g], applied[g]>>
      BY DEF vars
    <2> TypeOK /\ LockInv
      BY DEF IInv
    <2> DEFINE Kept == /\ UNCHANGED <<patch[g], applied[g]>>
                       /\ \A p \in Processes : ~Applying(p, g)'
    <2>1. SUFFICES Kept
      BY <2>1 DEF Abandoned, Unresolved
    <2>2. ASSUME NEW p \in Processes, NEW h \in Goals, User(p, h) PROVE Kept
      <3>1. CASE LockForApply(p, h)
        <4>1. h # g
          BY <3>1 DEF LockForApply, Abandoned
        <4>2. QED
          BY <3>1, <4>1 DEF LockForApply, Issue, GoTo, Abandoned, Applying, TypeOK
      <3>2. CASE ~LockForApply(p, h)
        <4>1. UNCHANGED source /\ ~(pc'[p] \in {"check", "patch", "patched"})
          BY <2>2, <3>2 DEF User, LockForControl, LockForRetry, LockForRun, Issue, GoTo, TypeOK,
                            Controls
        <4>2. \A q \in Processes \ {p} : pc'[q] = pc[q] /\ on'[q] = on[q]
          BY <2>2, UserIssues DEF Issued, TypeOK
        <4>3. QED
          BY <4>1, <4>2 DEF Abandoned, Applying, source
      <3>3. QED
        BY <3>1, <3>2
    <2>3. ASSUME NEW p \in Processes, Controller(p) \/ Handler(p) \/ Crash(p) PROVE Kept
      <3>1. \A q \in Processes \ {p} : pc'[q] = pc[q] /\ on'[q] = on[q]
        BY <2>3, ProcessMoves DEF Moved, TypeOK
      <3>2. on[p] \in Goals
        BY <2>3, ProcessMoves DEF LockInv
      <3>3. CASE RefuseApply(p) \/ CheckSource(p) \/ PatchSource(p) \/ EndApply(p)
        <4>1. on[p] # g /\ (on'[p] = on[p] \/ pc'[p] = "idle")
          BY <3>3 DEF RefuseApply, CheckSource, PatchSource, EndApply, At, Abandoned, Applying,
                      Unlock, Leave, GoTo, TypeOK
        <4>2. UNCHANGED <<patch[g], applied[g]>>
          BY <3>2, <3>3, <4>1
             DEF RefuseApply, CheckSource, PatchSource, EndApply, source, TypeOK
        <4>3. QED
          BY <3>1, <4>1, <4>2 DEF Abandoned, Applying
      <3>4. CASE Control(p) \/ RetryTask(p) \/ Crash(p)
        <4>1. UNCHANGED source /\ pc'[p] = "idle"
          BY <3>4 DEF Control, RetryTask, Crash, Unlock, Leave, GoTo, TypeOK
        <4>2. QED
          BY <3>1, <4>1 DEF Abandoned, Applying, source
      <3>5. CASE Controller(p)
        <4>1. UNCHANGED source /\ ~(pc'[p] \in {"check", "patch", "patched"})
          BY <3>5 DEF Controller, Poll, Deadline, Recovered, DriveTask, EndTask, Finish, Throw,
                      Settle, Unlock, Leave, GoTo, At, Running, TypeOK
        <4>2. QED
          BY <3>1, <4>1 DEF Abandoned, Applying, source
      <3>6. QED
        BY <2>3, <3>3, <3>4, <3>5 DEF Handler
    <2>4. ASSUME NEW h \in Goals, NEW a \in Controls, RequestControl(h, a) PROVE Kept
      BY <2>4 DEF RequestControl, source, Abandoned, Applying
    <2>5. CASE PolicyChange
      BY <2>5 DEF PolicyChange, source, Abandoned, Applying
    <2>6. QED
      BY <2>2, <2>3, <2>4, <2>5 DEF Next
  <1>2. QED
    BY <1>1, InductiveInvariant, PTL DEF Spec, UncertainNotReplayed

(* What has ended stays: no command, no controller and no policy change    *)
(* moves an ended goal or repeats an apply that was cut short.             *)
THEOREM EndedStays == Spec => EndingsStay
  <1>1. QED
    BY EndedGoalsStay, AppliedAtMostOnce DEF EndingsStay
-----------------------------------------------------------------------------
(* The engine and its interface.  EngineIInv and ConsentIInv are the       *)
(* inductive invariants: what an intent in its await has checked, what a   *)
(* folder in flight or an open dialog still says.                          *)

Snapshots == [folder : Folders, busy : BOOLEAN, goal : {"none", "PAUSED", "RUNNING", "DONE"}, version : Nat]
FolderGoals == [state : {"none", "PAUSED", "RUNNING", "DONE"}, request : BOOLEAN, version : Nat]
Engines == [workspace : Folders, active : Work \cup {Nothing}, aborted : BOOLEAN, studio : BOOLEAN,
            auth : {"none", "starting", "prompt", "saving"}, authAborted : BOOLEAN, timer : BOOLEAN,
            last : Snapshots \cup {Nothing}, phase : Phases, drain : Nat]
Intents == [kind : Kinds, folder : Folders, version : Nat]

UiRecordInv ==
    /\ engine \in Engines
    /\ goalOf \in [Folders -> FolderGoals]
    /\ queue \in Seq(Intents)
    /\ ui = [view |-> ui.view, connected |-> ui.connected, dialog |-> ui.dialog,
             consented |-> ui.consented, quitting |-> ui.quitting]
    /\ ui.view \in Snapshots /\ ui.dialog \in Folders \cup {Nothing}
    /\ channel \in Seq(Snapshots)
    /\ awaiting \in BOOLEAN /\ (awaiting => queue # <<>>)

(* What an intent has checked before its await still holds after it.       *)
AwaitInv == awaiting /\ First.kind \in {"trial", "workspace"} => Idling(engine)

(* Nobody types after the shutdown, and no trial is left when it waited    *)
(* for the trials.                                                         *)
ClosingInv ==
    /\ engine.phase \notin {"open", "dead"} =>
           ui.quitting /\ \A i \in DOMAIN queue : queue[i].kind # "trial"
    /\ engine.phase \in {"draining", "asking", "waiting", "closed"} => ~engine.studio
    /\ engine.phase = "closed" => engine.active = Nothing

ActivityInv == OneActivity /\ ActiveInFolder /\ AwaitInv

EngineIInv == UiRecordInv /\ ActivityInv /\ ClosingInv

(* While the dialog is open, and until its intent is performed, the engine *)
(* stays in the folder that was shown; a plan is approved as it was shown. *)
DialogShown ==
    ui.dialog # Nothing => ui.dialog = engine.workspace /\ \A i \in DOMAIN queue : queue[i].kind # "workspace"

FolderShown ==
    \A i \in DOMAIN queue : queue[i].kind = "contributor" =>
        /\ queue[i].folder = engine.workspace /\ <<queue[i].folder>> \in ui.consented
        /\ \A j \in 1..(i - 1) : queue[j].kind # "workspace"

PlanShown ==
    \A i \in DOMAIN queue : queue[i].kind = "approve" =>
        <<queue[i].folder, queue[i].version>> \in ui.consented

ShownInv == DialogShown /\ FolderShown /\ PlanShown

ConsentIInv == UiRecordInv /\ ShownInv /\ ConsentAsShown

(* The fields of the engine that say what it does.                         *)
Becomes(w, a, s, u, p) ==
    /\ engine' \in Engines /\ channel' \in Seq(Snapshots)
    /\ engine'.workspace = w /\ engine'.active = a /\ engine'.studio = s
    /\ engine'.auth = u /\ engine'.phase = p

LEMMA FactsShown ==
    ASSUME NEW e \in Engines, NEW gs \in [Folders -> FolderGoals] PROVE Facts(e, gs) \in Snapshots
  <1>1. e.workspace \in Folders
    BY DEF Engines
  <1>2. gs[e.workspace] \in FolderGoals
    BY <1>1
  <1>3. gs[e.workspace].state \in {"none", "PAUSED", "RUNNING", "DONE"} /\ gs[e.workspace].version \in Nat
    BY <1>2 DEF FolderGoals
  <1>4. QED
    BY <1>1, <1>3 DEF Facts, Snapshots

(* A publication changes what was last sent, and nothing of the engine's   *)
(* work.                                                                   *)
LEMMA Published ==
    ASSUME NEW e \in Engines, NEW gs \in [Folders -> FolderGoals], channel \in Seq(Snapshots),
           Publish(e, gs)
    PROVE  Becomes(e.workspace, e.active, e.studio, e.auth, e.phase)
  <1> DEFINE s == Facts(e, gs)
  <1>1. s \in Snapshots
    BY FactsShown
  <1> HIDE DEF s
  <1>2. CASE engine' = e /\ UNCHANGED channel
    BY <1>2 DEF Becomes
  <1>3. CASE engine' = [e EXCEPT !.last = s] /\ channel' = Append(channel, s)
    <2>1. engine' \in Engines /\ engine'.workspace = e.workspace /\ engine'.active = e.active
          /\ engine'.studio = e.studio /\ engine'.auth = e.auth /\ engine'.phase = e.phase
      BY <1>1, <1>3 DEF Engines
    <2>2. channel' \in Seq(Snapshots)
      BY <1>1, <1>3
    <2>3. QED
      BY <2>1, <2>2 DEF Becomes
  <1>4. QED
    BY <1>2, <1>3 DEF Publish, s

LEMMA FinishedIs ==
    ASSUME engine \in Engines
    PROVE  /\ Finished(engine) \in Engines
           /\ Finished(engine).workspace = engine.workspace /\ Finished(engine).active = engine.active
           /\ Finished(engine).studio = engine.studio /\ Finished(engine).auth = engine.auth
           /\ Finished(engine).phase = engine.phase
  <1>1. (IF engine.drain > 0 THEN engine.drain - 1 ELSE 0) \in Nat
    BY DEF Engines
  <1>2. QED
    BY <1>1 DEF Finished, Engines

LEMMA ActiveIs ==
    ASSUME NEW e \in Engines, NEW kind \in {"goal", "verification", "preparation"}, NEW f \in Folders
    PROVE  /\ Active(e, kind, f) \in Engines
           /\ Active(e, kind, f).workspace = e.workspace
           /\ Active(e, kind, f).active = [kind |-> kind, folder |-> f]
           /\ Active(e, kind, f).studio = e.studio /\ Active(e, kind, f).auth = e.auth
           /\ Active(e, kind, f).phase = e.phase
  <1>1. [kind |-> kind, folder |-> f] \in Work
    BY DEF Work
  <1>2. QED
    BY <1>1 DEF Active, Engines

LEMMA GoalsKept ==
    ASSUME NEW gs \in [Folders -> FolderGoals], NEW f \in Folders
    PROVE  GoalRuns(gs, f) \in [Folders -> FolderGoals] /\ Controlled(gs, f) \in [Folders -> FolderGoals]
  BY DEF GoalRuns, Controlled, FolderGoals

LEMMA FirstIsIntent ==
    ASSUME UiRecordInv, queue # <<>>
    PROVE  /\ First \in Intents /\ First.kind \in Kinds /\ First.folder \in Folders
           /\ Len(queue) >= 1 /\ 1 \in DOMAIN queue
  <1>1. queue \in Seq(Intents)
    BY DEF UiRecordInv
  <1>2. Len(queue) \in Nat /\ Len(queue) # 0
    BY <1>1
  <1>3. First \in Intents /\ 1 \in DOMAIN queue
    BY <1>1, <1>2 DEF First
  <1>4. QED
    BY <1>2, <1>3 DEF Intents

LEMMA AnsweredIs ==
    ASSUME UiRecordInv, queue # <<>>, Answered
    PROVE  /\ queue' \in Seq(Intents) /\ awaiting' = FALSE
           /\ \A i \in DOMAIN queue' : i \in Nat /\ i + 1 \in DOMAIN queue /\ queue'[i] = queue[i + 1]
  <1>1. queue \in Seq(Intents) /\ queue' = Tail(queue)
    BY DEF UiRecordInv, Answered
  <1>2. QED
    BY <1>1 DEF Answered

LEMMA DispatchedIs ==
    ASSUME UiRecordInv, NEW a \in Intents, Dispatched(a)
    PROVE  /\ queue' \in Seq(Intents) /\ queue' # <<>>
           /\ Len(queue) \in Nat /\ DOMAIN queue = 1..Len(queue) /\ DOMAIN queue' = 1..(Len(queue) + 1)
           /\ \A i \in DOMAIN queue : queue'[i] = queue[i]
           /\ queue'[Len(queue) + 1] = a
  <1>1. queue \in Seq(Intents) /\ queue' = Append(queue, a)
    BY DEF UiRecordInv, Dispatched
  <1>2. QED
    BY <1>1

(* What each step makes of the engine.                                     *)
Same == Becomes(engine.workspace, engine.active, engine.studio, engine.auth, engine.phase)

LEMMA RefuseIs ==
    ASSUME UiRecordInv, Refuse \/ FinishFailed PROVE Same
  <1>1. Publish(Finished(engine), goalOf)
    BY DEF Refuse, FinishFailed
  <1>2. QED
    BY <1>1, Published, FinishedIs DEF UiRecordInv, Same

LEMMA EnterIs ==
    ASSUME UiRecordInv, Enter \/ StoreChange PROVE Same
  <1>1. PICK b \in BOOLEAN : engine' = [engine EXCEPT !.aborted = b] \/ engine' = [engine EXCEPT !.timer = b]
    <2>1. CASE Enter
      <3>1. (engine.aborted \/ (First.kind = "pause" /\ engine.active # Nothing /\ engine.active.kind # "goal"))
               \in BOOLEAN
        OBVIOUS
      <3>2. QED
        BY <2>1, <3>1 DEF Enter
    <2>2. CASE StoreChange
      BY <2>2 DEF StoreChange
    <2>3. QED
      BY <2>1, <2>2
  <1>2. engine \in Engines /\ channel' = channel
    BY DEF UiRecordInv, Enter, StoreChange
  <1>3. engine' \in Engines /\ engine'.workspace = engine.workspace /\ engine'.active = engine.active
        /\ engine'.studio = engine.studio /\ engine'.auth = engine.auth /\ engine'.phase = engine.phase
    BY <1>1, <1>2 DEF Engines
  <1>4. QED
    BY <1>2, <1>3 DEF Same, Becomes, UiRecordInv

LEMMA GoalsStep ==
    ASSUME UiRecordInv, [UiNext]_uiVars PROVE goalOf' \in [Folders -> FolderGoals]
  <1>1. goalOf \in [Folders -> FolderGoals] /\ engine.workspace \in Folders
    BY DEF UiRecordInv, Engines
  <1>2. CASE Perform
    BY <1>1, <1>2, FirstIsIntent, GoalsKept DEF Perform
  <1>3. CASE FinishIntent
    <2>1. queue # <<>>
      BY <1>3 DEF FinishIntent, UiRecordInv
    <2>2. QED
      BY <1>1, <1>3, <2>1, FirstIsIntent, GoalsKept DEF FinishIntent
  <1>4. ASSUME engine.active # Nothing PROVE engine.active.folder \in Folders
    BY <1>4 DEF UiRecordInv, Engines, Work
  <1>5. CASE StoreChange
    <2>1. engine.active.folder \in Folders
      BY <1>4, <1>5 DEF StoreChange
    <2>2. QED
      BY <1>1, <1>5, <2>1 DEF StoreChange, FolderGoals
  <1>6. CASE ActiveEnds
    <2>1. engine.active.folder \in Folders
      BY <1>4, <1>6 DEF ActiveEnds
    <2>2. \/ goalOf' = goalOf
          \/ \E s \in {"PAUSED", "DONE"} :
                goalOf' = [goalOf EXCEPT ![engine.active.folder].state = s, ![engine.active.folder].request = FALSE]
      BY <1>6 DEF ActiveEnds
    <2>3. QED
      BY <1>1, <2>1, <2>2 DEF FolderGoals
  <1>7. CASE AskPause
    BY <1>1, <1>7, GoalsKept DEF AskPause
  <1>8. CASE UNCHANGED goalOf
    BY <1>1, <1>8
  <1>9. QED
    BY <1>2, <1>3, <1>5, <1>6, <1>7, <1>8
    DEF UiNext, EngineStep, uiVars, Refuse, Enter, FinishFailed, Wake, StudiosClosed, Drained,
        Dispose, StudioEnds, AuthPrompts, AuthEnds, Shutdown, EngineCrash, Receive, OpenDialog,
        Confirm, CancelDialog, Send, ChooseFolder

LEMMA PerformIs ==
    ASSUME UiRecordInv, Perform
    PROVE  \/ First.kind \in {"cancel", "approve"} /\ Same
           \/ /\ Idling(engine) /\ InScope(First)
              /\ \E k \in {"goal", "verification", "preparation"} :
                    Becomes(engine.workspace, [kind |-> k, folder |-> First.folder], engine.studio,
                            engine.auth, engine.phase)
           \/ /\ Idling(engine)
              /\ Becomes(engine.workspace, engine.active, engine.studio, "starting", engine.phase)
           \/ /\ engine.auth = "prompt"
              /\ Becomes(engine.workspace, engine.active, engine.studio, "saving", engine.phase)
  <1> DEFINE e == Finished(engine)
  <1>1. /\ queue # <<>> /\ engine \in Engines /\ channel \in Seq(Snapshots)
        /\ goalOf' \in [Folders -> FolderGoals] /\ UiNext
    BY GoalsStep DEF Perform, UiRecordInv, UiNext, EngineStep
  <1>2. /\ e \in Engines /\ e.workspace = engine.workspace /\ e.active = engine.active
        /\ e.studio = engine.studio /\ e.auth = engine.auth /\ e.phase = engine.phase
    BY <1>1, FinishedIs
  <1>3. First.kind \in Kinds /\ First.folder \in Folders
    BY <1>1, FirstIsIntent
  <1>4. First.kind \in {"resume", "reverify", "prepare", "login", "answer", "cancel", "approve"}
    BY <1>3 DEF Perform, Kinds, NeedsIdle, Awaits
  <1> HIDE DEF e
  <1>5. ASSUME NEW k \in {"goal", "verification", "preparation"}, Publish(Active(e, k, First.folder), goalOf')
        PROVE  Becomes(engine.workspace, [kind |-> k, folder |-> First.folder], engine.studio,
                       engine.auth, engine.phase)
    <2>1. /\ Active(e, k, First.folder) \in Engines
          /\ Active(e, k, First.folder).workspace = engine.workspace
          /\ Active(e, k, First.folder).active = [kind |-> k, folder |-> First.folder]
          /\ Active(e, k, First.folder).studio = engine.studio
          /\ Active(e, k, First.folder).auth = engine.auth
          /\ Active(e, k, First.folder).phase = engine.phase
      BY <1>2, <1>3, ActiveIs
    <2>2. PICK x \in Engines : x = Active(e, k, First.folder)
      BY <2>1
    <2>3. Becomes(x.workspace, x.active, x.studio, x.auth, x.phase)
      BY <1>1, <1>5, <2>2, Published
    <2>4. QED
      BY <2>1, <2>2, <2>3
  <1>6. CASE First.kind \in {"resume", "reverify", "prepare"}
    <2>1. Idling(engine) /\ InScope(First)
      BY <1>6 DEF Perform, Refuses, NeedsIdle
    <2>2. \E k \in {"goal", "verification", "preparation"} : Publish(Active(e, k, First.folder), goalOf')
      BY <1>6 DEF Perform, e
    <2>3. QED
      BY <1>5, <2>1, <2>2
  <1>7. CASE First.kind = "login"
    <2>1. Idling(engine)
      BY <1>7 DEF Perform, Refuses, NeedsIdle
    <2>2. PICK x : x = [e EXCEPT !.auth = "starting", !.authAborted = FALSE]
      OBVIOUS
    <2>3. Publish(x, goalOf')
      BY <1>7, <2>2 DEF Perform, e
    <2>4. /\ x \in Engines /\ x.workspace = engine.workspace /\ x.active = engine.active
          /\ x.studio = engine.studio /\ x.auth = "starting" /\ x.phase = engine.phase
      BY <1>2, <2>2 DEF Engines
    <2>5. QED
      BY <1>1, <2>1, <2>3, <2>4, Published
  <1>8. CASE First.kind = "answer"
    <2>1. engine.auth = "prompt"
      BY <1>8 DEF Perform, Refuses
    <2>2. PICK x : x = [e EXCEPT !.auth = "saving"]
      OBVIOUS
    <2>3. Publish(x, goalOf')
      BY <1>8, <2>2 DEF Perform, e
    <2>4. /\ x \in Engines /\ x.workspace = engine.workspace /\ x.active = engine.active
          /\ x.studio = engine.studio /\ x.auth = "saving" /\ x.phase = engine.phase
      BY <1>2, <2>2 DEF Engines
    <2>5. QED
      BY <1>1, <2>1, <2>3, <2>4, Published
  <1>9. CASE First.kind = "cancel"
    <2>1. PICK x : x = [e EXCEPT !.authAborted = e.auth # "none"]
      OBVIOUS
    <2>2. Publish(x, goalOf')
      BY <1>9, <2>1 DEF Perform, e
    <2>3. /\ x \in Engines /\ x.workspace = engine.workspace /\ x.active = engine.active
          /\ x.studio = engine.studio /\ x.auth = engine.auth /\ x.phase = engine.phase
      BY <1>2, <2>1 DEF Engines
    <2>4. QED
      BY <1>1, <1>9, <2>2, <2>3, Published DEF Same
  <1>10. CASE First.kind = "approve"
    <2>1. Publish(e, goalOf')
      BY <1>10 DEF Perform, e
    <2>2. QED
      BY <1>1, <1>2, <1>10, <2>1, Published DEF Same
  <1>11. QED
    BY <1>4, <1>6, <1>7, <1>8, <1>9, <1>10

LEMMA FinishIs ==
    ASSUME UiRecordInv, FinishIntent
    PROVE  \/ First.kind \notin {"trial", "workspace"} /\ Same
           \/ /\ Idling(engine)
              /\ Becomes(engine.workspace, [kind |-> "goal", folder |-> engine.workspace], engine.studio,
                         engine.auth, engine.phase)
           \/ /\ First.kind = "trial"
              /\ Becomes(engine.workspace, engine.active, TRUE, engine.auth, engine.phase)
           \/ /\ First.kind = "workspace"
              /\ Becomes(First.folder, engine.active, engine.studio, engine.auth, engine.phase)
  <1> DEFINE e == Finished(engine)
  <1>1. /\ queue # <<>> /\ engine \in Engines /\ channel \in Seq(Snapshots)
        /\ goalOf' \in [Folders -> FolderGoals] /\ UiNext
    BY GoalsStep DEF FinishIntent, UiRecordInv, UiNext, EngineStep
  <1>2. /\ e \in Engines /\ e.workspace = engine.workspace /\ e.active = engine.active
        /\ e.studio = engine.studio /\ e.auth = engine.auth /\ e.phase = engine.phase
    BY <1>1, FinishedIs
  <1>3. First.folder \in Folders
    BY <1>1, FirstIsIntent
  <1>4. engine.workspace \in Folders
    BY <1>1 DEF Engines
  <1> HIDE DEF e
  <1>5. CASE First.kind = "goal" /\ Idling(e)
    <2>1. PICK x : x = Active(e, "goal", e.workspace)
      OBVIOUS
    <2>2. Publish(x, goalOf')
      BY <1>5, <2>1 DEF FinishIntent, e
    <2>3. /\ x \in Engines /\ x.workspace = engine.workspace
          /\ x.active = [kind |-> "goal", folder |-> engine.workspace]
          /\ x.studio = engine.studio /\ x.auth = engine.auth /\ x.phase = engine.phase
      BY <1>2, <1>4, <2>1, ActiveIs
    <2>4. Idling(engine)
      BY <1>2, <1>5 DEF Idling
    <2>5. QED
      BY <1>1, <2>2, <2>3, <2>4, Published
  <1>6. CASE First.kind = "trial"
    <2>1. PICK x : x = [e EXCEPT !.studio = TRUE]
      OBVIOUS
    <2>2. Publish(x, goalOf')
      BY <1>6, <2>1 DEF FinishIntent, e
    <2>3. /\ x \in Engines /\ x.workspace = engine.workspace /\ x.active = engine.active
          /\ x.studio = TRUE /\ x.auth = engine.auth /\ x.phase = engine.phase
      BY <1>2, <2>1 DEF Engines
    <2>4. QED
      BY <1>1, <1>6, <2>2, <2>3, Published
  <1>7. CASE First.kind = "workspace"
    <2>1. PICK x : x = [e EXCEPT !.workspace = First.folder]
      OBVIOUS
    <2>2. Publish(x, goalOf')
      BY <1>7, <2>1 DEF FinishIntent, e
    <2>3. /\ x \in Engines /\ x.workspace = First.folder /\ x.active = engine.active
          /\ x.studio = engine.studio /\ x.auth = engine.auth /\ x.phase = engine.phase
      BY <1>2, <1>3, <2>1 DEF Engines
    <2>4. QED
      BY <1>1, <1>7, <2>2, <2>3, Published
  <1>8. CASE First.kind \notin {"trial", "workspace"} /\ ~(First.kind = "goal" /\ Idling(e))
    <2>1. Publish(e, goalOf')
      BY <1>8 DEF FinishIntent, e
    <2>2. QED
      BY <1>1, <1>2, <1>8, <2>1, Published DEF Same
  <1>9. QED
    BY <1>5, <1>6, <1>7, <1>8

(* What goes on beside the intents, and the phases of dispose.             *)
LEMMA BesideIs ==
    ASSUME UiRecordInv
    PROVE  /\ Wake => Same
           /\ ActiveEnds => Becomes(engine.workspace, Nothing, engine.studio, engine.auth, engine.phase)
           /\ StudioEnds => Becomes(engine.workspace, engine.active, FALSE, engine.auth, engine.phase)
           /\ AuthPrompts => /\ engine.auth = "starting"
                             /\ Becomes(engine.workspace, engine.active, engine.studio, "prompt", engine.phase)
           /\ AuthEnds => Becomes(engine.workspace, engine.active, engine.studio, "none", engine.phase)
  <1>1. engine \in Engines /\ goalOf \in [Folders -> FolderGoals] /\ channel \in Seq(Snapshots)
    BY DEF UiRecordInv
  <1>2. ASSUME Wake PROVE Same
    <2>1. PICK x : x = [engine EXCEPT !.timer = FALSE]
      OBVIOUS
    <2>2. Publish(x, goalOf)
      BY <1>2, <2>1 DEF Wake
    <2>3. /\ x \in Engines /\ x.workspace = engine.workspace /\ x.active = engine.active
          /\ x.studio = engine.studio /\ x.auth = engine.auth /\ x.phase = engine.phase
      BY <1>1, <2>1 DEF Engines
    <2>4. QED
      BY <1>1, <2>2, <2>3, Published DEF Same
  <1>3. ASSUME ActiveEnds
        PROVE  Becomes(engine.workspace, Nothing, engine.studio, engine.auth, engine.phase)
    <2>1. PICK x : x = [engine EXCEPT !.active = Nothing, !.aborted = FALSE]
      OBVIOUS
    <2>2. Publish(x, goalOf') /\ goalOf' \in [Folders -> FolderGoals]
      BY <1>3, <2>1, GoalsStep DEF ActiveEnds, UiNext
    <2>3. /\ x \in Engines /\ x.workspace = engine.workspace /\ x.active = Nothing
          /\ x.studio = engine.studio /\ x.auth = engine.auth /\ x.phase = engine.phase
      BY <1>1, <2>1 DEF Engines
    <2>4. QED
      BY <1>1, <2>2, <2>3, Published
  <1>4. ASSUME StudioEnds
        PROVE  Becomes(engine.workspace, engine.active, FALSE, engine.auth, engine.phase)
    <2>1. PICK x : x = [engine EXCEPT !.studio = FALSE]
      OBVIOUS
    <2>2. Publish(x, goalOf)
      BY <1>4, <2>1 DEF StudioEnds
    <2>3. /\ x \in Engines /\ x.workspace = engine.workspace /\ x.active = engine.active
          /\ x.studio = FALSE /\ x.auth = engine.auth /\ x.phase = engine.phase
      BY <1>1, <2>1 DEF Engines
    <2>4. QED
      BY <1>1, <2>2, <2>3, Published
  <1>5. ASSUME AuthPrompts
        PROVE  /\ engine.auth = "starting"
               /\ Becomes(engine.workspace, engine.active, engine.studio, "prompt", engine.phase)
    <2>1. engine' = [engine EXCEPT !.auth = "prompt"] /\ channel' = channel /\ engine.auth = "starting"
      BY <1>5 DEF AuthPrompts
    <2>2. /\ engine' \in Engines /\ engine'.workspace = engine.workspace /\ engine'.active = engine.active
          /\ engine'.studio = engine.studio /\ engine'.auth = "prompt" /\ engine'.phase = engine.phase
      BY <1>1, <2>1 DEF Engines
    <2>3. QED
      BY <1>1, <2>1, <2>2 DEF Becomes
  <1>6. ASSUME AuthEnds
        PROVE  Becomes(engine.workspace, engine.active, engine.studio, "none", engine.phase)
    <2>1. PICK x : x = [engine EXCEPT !.auth = "none", !.authAborted = FALSE]
      OBVIOUS
    <2>2. Publish(x, goalOf)
      BY <1>6, <2>1 DEF AuthEnds
    <2>3. /\ x \in Engines /\ x.workspace = engine.workspace /\ x.active = engine.active
          /\ x.studio = engine.studio /\ x.auth = "none" /\ x.phase = engine.phase
      BY <1>1, <2>1 DEF Engines
    <2>4. QED
      BY <1>1, <2>2, <2>3, Published
  <1>7. QED
    BY <1>2, <1>3, <1>4, <1>5, <1>6

Phase(p) == Becomes(engine.workspace, engine.active, engine.studio, engine.auth, p)

LEMMA ClosingIs ==
    ASSUME UiRecordInv
    PROVE  /\ Shutdown => engine.phase = "open" /\ Phase("studios")
           /\ StudiosClosed => engine.phase = "studios" /\ ~engine.studio /\ Phase("draining")
           /\ Drained => /\ engine.phase = "draining"
                         /\ (engine.active = Nothing /\ Phase("closed")) \/ Phase("asking")
           /\ AskPause => engine.phase = "asking" /\ Phase("waiting")
           /\ Dispose => engine.phase = "waiting" /\ engine.active = Nothing /\ Phase("closed")
           /\ EngineCrash => Becomes(engine.workspace, Nothing, FALSE, engine.auth, "dead")
  <1> USE DEF Phases
  <1>1. engine \in Engines /\ channel \in Seq(Snapshots)
    BY DEF UiRecordInv
  <1>2. ASSUME NEW p \in Phases, engine' = [engine EXCEPT !.phase = p], channel' = channel PROVE Phase(p)
    <2>1. /\ engine' \in Engines /\ engine'.workspace = engine.workspace /\ engine'.active = engine.active
          /\ engine'.studio = engine.studio /\ engine'.auth = engine.auth /\ engine'.phase = p
      BY <1>1, <1>2 DEF Engines
    <2>2. QED
      BY <1>1, <1>2, <2>1 DEF Phase, Becomes
  <1>3. ASSUME StudiosClosed PROVE Phase("draining")
    <2>1. Len(queue) \in Nat
      BY DEF UiRecordInv
    <2>2. engine' = [engine EXCEPT !.phase = "draining", !.drain = Len(queue)] /\ channel' = channel
      BY <1>3 DEF StudiosClosed
    <2>3. /\ engine' \in Engines /\ engine'.workspace = engine.workspace /\ engine'.active = engine.active
          /\ engine'.studio = engine.studio /\ engine'.auth = engine.auth /\ engine'.phase = "draining"
      BY <1>1, <2>1, <2>2 DEF Engines
    <2>4. QED
      BY <1>1, <2>2, <2>3 DEF Phase, Becomes
  <1>4. ASSUME Drained PROVE (engine.active = Nothing /\ Phase("closed")) \/ Phase("asking")
    <2>1. PICK a \in BOOLEAN, b \in BOOLEAN, p \in {"closed", "asking"} :
             /\ engine' = [engine EXCEPT !.authAborted = a, !.aborted = b, !.phase = p]
             /\ p = "closed" => engine.active = Nothing
      <3>1. (engine.auth # "none") \in BOOLEAN /\
            (engine.active # Nothing /\ engine.active.kind # "goal") \in BOOLEAN
        OBVIOUS
      <3>2. QED
        BY <1>4, <3>1 DEF Drained
    <2>2. channel' = channel
      BY <1>4 DEF Drained
    <2>3. /\ engine' \in Engines /\ engine'.workspace = engine.workspace /\ engine'.active = engine.active
          /\ engine'.studio = engine.studio /\ engine'.auth = engine.auth /\ engine'.phase = p
      BY <1>1, <2>1 DEF Engines
    <2>4. QED
      BY <1>1, <2>1, <2>2, <2>3 DEF Phase, Becomes
  <1>5. ASSUME EngineCrash PROVE Becomes(engine.workspace, Nothing, FALSE, engine.auth, "dead")
    <2>1. engine' = [engine EXCEPT !.phase = "dead", !.active = Nothing, !.studio = FALSE] /\ channel' = channel
      BY <1>5 DEF EngineCrash
    <2>2. /\ engine' \in Engines /\ engine'.workspace = engine.workspace /\ engine'.active = Nothing
          /\ engine'.studio = FALSE /\ engine'.auth = engine.auth /\ engine'.phase = "dead"
      BY <1>1, <2>1 DEF Engines
    <2>3. QED
      BY <1>1, <2>1, <2>2 DEF Becomes
  <1>6. QED
    BY <1>2, <1>3, <1>4, <1>5 DEF Shutdown, StudiosClosed, Drained, AskPause, Dispose

(* The user's part.                                                        *)
UserStep ==
    \/ Receive \/ OpenDialog \/ Confirm \/ CancelDialog
    \/ (\E k \in Kinds : Send(k)) \/ (\E f \in Folders : ChooseFolder(f))

LEMMA UserLeavesEngine == ASSUME UserStep PROVE UNCHANGED <<engine, goalOf, policy, awaiting>>
  BY DEF UserStep, Receive, OpenDialog, Confirm, CancelDialog, Send, ChooseFolder

LEMMA EngineLeavesUser ==
    ASSUME UiRecordInv, UiNext, ~UserStep
    PROVE  /\ ui' \in {ui, [ui EXCEPT !.quitting = TRUE], [ui EXCEPT !.connected = FALSE]}
           /\ \/ queue' = queue /\ (awaiting' = awaiting \/ (awaiting' = TRUE /\ queue # <<>>))
              \/ Answered /\ queue # <<>>
  BY DEF UiNext, UserStep, EngineStep, Refuse, Enter, Perform, FinishIntent, FinishFailed, Wake,
     StudiosClosed, Drained, AskPause, Dispose, StoreChange, ActiveEnds, StudioEnds, AuthPrompts,
     AuthEnds, Shutdown, EngineCrash, UiRecordInv

(* An intent the interface sends is about what it shows.                   *)
LEMMA UserSends ==
    ASSUME UiRecordInv, UserStep
    PROVE  \/ queue' = queue /\ (Receive \/ OpenDialog \/ CancelDialog)
           \/ \E a \in Intents :
                 /\ Dispatched(a) /\ MayType
                 /\ \/ /\ a.kind \notin {"contributor", "workspace", "approve"} /\ ui'.dialog = ui.dialog
                       /\ ui'.consented = ui.consented
                    \/ /\ a.kind = "approve" /\ ui'.dialog = ui.dialog
                       /\ ui'.consented = ui.consented \cup {<<a.folder, a.version>>}
                    \/ a.kind = "workspace" /\ ui.dialog = Nothing /\ ui' = ui
                    \/ /\ a.kind = "contributor" /\ a.folder = ui.dialog /\ ui.dialog # Nothing
                       /\ ui'.dialog = Nothing /\ ui'.consented = ui.consented \cup {<<a.folder>>}
  <1> DEFINE Sent == \E a \in Intents :
                 /\ Dispatched(a) /\ MayType
                 /\ \/ /\ a.kind \notin {"contributor", "workspace", "approve"} /\ ui'.dialog = ui.dialog
                       /\ ui'.consented = ui.consented
                    \/ /\ a.kind = "approve" /\ ui'.dialog = ui.dialog
                       /\ ui'.consented = ui.consented \cup {<<a.folder, a.version>>}
                    \/ a.kind = "workspace" /\ ui.dialog = Nothing /\ ui' = ui
                    \/ /\ a.kind = "contributor" /\ a.folder = ui.dialog /\ ui.dialog # Nothing
                       /\ ui'.dialog = Nothing /\ ui'.consented = ui.consented \cup {<<a.folder>>}
  <1>1. /\ ui = [view |-> ui.view, connected |-> ui.connected, dialog |-> ui.dialog,
                 consented |-> ui.consented, quitting |-> ui.quitting]
        /\ ui.view.folder \in Folders /\ ui.view.version \in Nat
    BY DEF UiRecordInv, Snapshots
  <1>2. ASSUME NEW k \in Kinds, Send(k) PROVE Sent
    <2>1. PICK a : a = [kind |-> k, folder |-> ui.view.folder, version |-> ui.view.version]
      OBVIOUS
    <2>2. a \in Intents /\ a.kind = k /\ a.folder = ui.view.folder /\ a.version = ui.view.version
      BY <1>1, <2>1 DEF Intents
    <2>3. Dispatched(a) /\ MayType /\ k \notin {"contributor", "workspace"}
      BY <1>2, <2>1 DEF Send
    <2>4. ui'.dialog = ui.dialog
          /\ ui'.consented = IF k = "approve" THEN ui.consented \cup {<<a.folder, a.version>>} ELSE ui.consented
      BY <1>1, <1>2, <2>2 DEF Send
    <2>5. QED
      BY <2>2, <2>3, <2>4
  <1>3. ASSUME NEW f \in Folders, ChooseFolder(f) PROVE Sent
    <2>1. PICK a : a = [kind |-> "workspace", folder |-> f, version |-> 0]
      OBVIOUS
    <2>2. a \in Intents /\ a.kind = "workspace"
      BY <2>1 DEF Intents, Kinds, NeedsIdle
    <2>3. QED
      BY <1>3, <2>1, <2>2 DEF ChooseFolder
  <1>4. CASE Confirm
    <2>1. PICK a : a = [kind |-> "contributor", folder |-> ui.dialog, version |-> 0]
      OBVIOUS
    <2>2. ui.dialog \in Folders
      BY <1>4 DEF Confirm, UiRecordInv
    <2>3. a \in Intents /\ a.kind = "contributor" /\ a.folder = ui.dialog
      BY <2>1, <2>2 DEF Intents, Kinds, Awaits
    <2>4. Dispatched(a) /\ MayType /\ ui.dialog # Nothing
      BY <1>4, <2>1 DEF Confirm
    <2>5. ui'.dialog = Nothing /\ ui'.consented = ui.consented \cup {<<a.folder>>}
      BY <1>1, <1>4, <2>3 DEF Confirm
    <2>6. QED
      BY <2>3, <2>4, <2>5
  <1>5. CASE Receive \/ OpenDialog \/ CancelDialog
    BY <1>5 DEF Receive, OpenDialog, CancelDialog
  <1>6. QED
    BY <1>2, <1>3, <1>4, <1>5 DEF UserStep

LEMMA UiRecordInit == UiInit => UiRecordInv
  <1> SUFFICES ASSUME UiInit PROVE UiRecordInv
    OBVIOUS
  <1>1. goalOf \in [Folders -> FolderGoals]
    <2>1. goalOf \in [Folders -> [state : {"none", "PAUSED"}, request : {FALSE}, version : {0}]]
      BY DEF UiInit
    <2>2. \A f \in Folders : goalOf[f] \in FolderGoals
      <3> SUFFICES ASSUME NEW f \in Folders PROVE goalOf[f] \in FolderGoals
        OBVIOUS
      <3>1. PICK s \in {"none", "PAUSED"} : goalOf[f] = [state |-> s, request |-> FALSE, version |-> 0]
        BY <2>1
      <3>2. QED
        BY <3>1 DEF FolderGoals
    <2>3. QED
      BY <2>1, <2>2
  <1>2. engine \in Engines
    BY UiAssumption DEF UiInit, UiAssumption, Engines, Phases
  <1>3. Facts(engine, goalOf) \in Snapshots
    BY <1>1, <1>2, FactsShown
  <1>4. /\ ui = [view |-> ui.view, connected |-> ui.connected, dialog |-> ui.dialog,
                 consented |-> ui.consented, quitting |-> ui.quitting]
        /\ ui.view = Facts(engine, goalOf) /\ ui.dialog = Nothing
    BY DEF UiInit
  <1>5. queue \in Seq(Intents) /\ channel \in Seq(Snapshots) /\ awaiting = FALSE
    BY DEF UiInit
  <1>6. QED
    BY <1>1, <1>2, <1>3, <1>4, <1>5 DEF UiRecordInv

LEMMA UiRecordStep == ASSUME UiRecordInv, [UiNext]_uiVars PROVE UiRecordInv'
  <1> DEFINE Shape(u) == u = [view |-> u.view, connected |-> u.connected, dialog |-> u.dialog,
                              consented |-> u.consented, quitting |-> u.quitting]
                         /\ u.view \in Snapshots /\ u.dialog \in Folders \cup {Nothing}
  <1>1. engine \in Engines /\ channel \in Seq(Snapshots) /\ queue \in Seq(Intents) /\ Shape(ui)
        /\ awaiting \in BOOLEAN /\ (awaiting => queue # <<>>)
    BY DEF UiRecordInv
  <1>2. goalOf' \in [Folders -> FolderGoals]
    BY GoalsStep
  <1>3. ASSUME engine' \in Engines, channel' \in Seq(Snapshots), queue' \in Seq(Intents), Shape(ui'),
               awaiting' \in BOOLEAN, awaiting' => queue' # <<>>
        PROVE  UiRecordInv'
    BY <1>2, <1>3 DEF UiRecordInv
  <1>4. CASE UNCHANGED uiVars
    BY <1>1, <1>3, <1>4 DEF uiVars
  <1>5. CASE UserStep
    <2>1. engine' = engine /\ awaiting' = awaiting
      BY <1>5, UserLeavesEngine
    <2>2. queue' \in Seq(Intents) /\ (queue' = queue \/ queue' # <<>>)
      BY <1>1, <1>5, UserSends, DispatchedIs
    <2>3. CASE Receive
      <3>1. channel # <<>> /\ channel' = Tail(channel) /\ ui' = [ui EXCEPT !.view = Head(channel)]
        BY <2>3 DEF Receive
      <3>2. channel' \in Seq(Snapshots) /\ Head(channel) \in Snapshots
        BY <1>1, <3>1
      <3>3. Shape(ui')
        BY <1>1, <3>1, <3>2
      <3>4. QED
        BY <1>1, <1>3, <2>1, <2>2, <3>2, <3>3
    <2>4. CASE ~Receive
      <3>1. channel' = channel
        BY <1>5, <2>4 DEF UserStep, OpenDialog, Confirm, CancelDialog, Send, ChooseFolder
      <3>2. \/ ui' = ui \/ ui' = [ui EXCEPT !.dialog = Nothing] \/ ui' = [ui EXCEPT !.dialog = ui.view.folder]
            \/ \E c : ui' = [ui EXCEPT !.consented = c] \/ ui' = [ui EXCEPT !.consented = c, !.dialog = Nothing]
        BY <1>5, <2>4 DEF UserStep, OpenDialog, Confirm, CancelDialog, Send, ChooseFolder
      <3>3. ui.view.folder \in Folders
        BY <1>1 DEF Snapshots
      <3>4. Shape(ui')
        BY <1>1, <3>2, <3>3
      <3>5. QED
        BY <1>1, <1>3, <2>1, <2>2, <3>1, <3>4
    <2>5. QED
      BY <2>3, <2>4
  <1>6. CASE UiNext /\ ~UserStep
    <2>1. engine' \in Engines /\ channel' \in Seq(Snapshots)
      BY <1>6, RefuseIs, EnterIs, PerformIs, FinishIs, BesideIs, ClosingIs
      DEF UiNext, UserStep, EngineStep, Same, Phase, Becomes
    <2>2. Shape(ui')
      <3>1. \/ ui' = ui \/ ui' = [ui EXCEPT !.quitting = TRUE] \/ ui' = [ui EXCEPT !.connected = FALSE]
        BY <1>6, EngineLeavesUser
      <3>2. QED
        BY <1>1, <3>1
    <2>3. queue' \in Seq(Intents) /\ awaiting' \in BOOLEAN /\ (awaiting' => queue' # <<>>)
      <3>1. CASE Answered /\ queue # <<>>
        <4>1. queue' \in Seq(Intents) /\ awaiting' = FALSE
          BY <3>1, AnsweredIs
        <4>2. QED
          BY <4>1
      <3>2. CASE queue' = queue /\ awaiting' = awaiting
        BY <1>1, <3>2
      <3>3. CASE queue' = queue /\ awaiting' = TRUE /\ queue # <<>>
        BY <1>1, <3>3
      <3>4. QED
        BY <1>6, <3>1, <3>2, <3>3, EngineLeavesUser
    <2>4. QED
      BY <1>3, <2>1, <2>2, <2>3
  <1>7. QED
    BY <1>4, <1>5, <1>6

LEMMA ActivityStep ==
    ASSUME UiRecordInv, ActivityInv, [UiNext]_uiVars PROVE ActivityInv'
  <1> USE DEF ActivityInv, OneActivity, ActiveInFolder, AwaitInv, Idling
  <1>1. CASE UNCHANGED uiVars
    BY <1>1 DEF uiVars, First
  <1>2. CASE UserStep
    <2>1. UNCHANGED <<engine, awaiting>>
      BY <1>2, UserLeavesEngine
    <2>2. awaiting => First' = First
      <3>1. SUFFICES ASSUME awaiting PROVE First' = First
        OBVIOUS
      <3>2. 1 \in DOMAIN queue
        BY <3>1, FirstIsIntent DEF UiRecordInv
      <3>3. queue'[1] = queue[1]
        BY <1>2, <3>2, UserSends, DispatchedIs
      <3>4. QED
        BY <3>3 DEF First
    <2>3. QED
      BY <2>1, <2>2
  <1>3. CASE Refuse \/ FinishFailed
    <2>1. Same
      BY <1>3, RefuseIs
    <2>2. awaiting' = FALSE
      BY <1>3 DEF Refuse, FinishFailed, Answered
    <2>3. QED
      BY <2>1, <2>2 DEF Same, Becomes
  <1>4. CASE Enter \/ StoreChange
    <2>1. Same /\ queue' = queue
      BY <1>4, EnterIs DEF Enter, StoreChange
    <2>2. Enter /\ First.kind \in {"trial", "workspace"} => Idling(engine)
      BY DEF Enter, Refuses, NeedsIdle
    <2>3. StoreChange => awaiting' = awaiting
      BY DEF StoreChange
    <2>4. QED
      BY <1>4, <2>1, <2>2, <2>3 DEF Same, Becomes, First
  <1>5. CASE Perform
    <2>1. awaiting' = FALSE
      BY <1>5 DEF Perform, Answered
    <2>2. InScope(First) => First.folder = engine.workspace
      BY DEF InScope
    <2>3. QED
      BY <1>5, <2>1, <2>2, PerformIs DEF Same, Becomes
  <1>6. CASE FinishIntent
    <2>1. awaiting' = FALSE /\ awaiting
      BY <1>6 DEF FinishIntent, Answered
    <2>2. First.kind \in {"trial", "workspace"} => Idling(engine)
      BY <2>1
    <2>3. CASE Same
      BY <2>1, <2>3 DEF Same, Becomes
    <2>4. CASE /\ Idling(engine)
               /\ Becomes(engine.workspace, [kind |-> "goal", folder |-> engine.workspace], engine.studio,
                          engine.auth, engine.phase)
      BY <2>1, <2>4 DEF Becomes
    <2>5. CASE /\ First.kind = "trial"
               /\ Becomes(engine.workspace, engine.active, TRUE, engine.auth, engine.phase)
      BY <2>1, <2>2, <2>5 DEF Becomes
    <2>6. CASE /\ First.kind = "workspace"
               /\ Becomes(First.folder, engine.active, engine.studio, engine.auth, engine.phase)
      BY <2>1, <2>2, <2>6 DEF Becomes
    <2>7. QED
      BY <1>6, <2>3, <2>4, <2>5, <2>6, FinishIs
  <1>7. CASE Wake \/ ActiveEnds \/ StudioEnds \/ AuthPrompts \/ AuthEnds
    <2>1. UNCHANGED <<awaiting, queue>>
      BY <1>7 DEF Wake, ActiveEnds, StudioEnds, AuthPrompts, AuthEnds
    <2>2. QED
      BY <1>7, <2>1, BesideIs DEF Same, Becomes, First
  <1>8. CASE Shutdown \/ StudiosClosed \/ Drained \/ AskPause \/ Dispose \/ EngineCrash
    <2>1. UNCHANGED <<awaiting, queue>>
      BY <1>8 DEF Shutdown, StudiosClosed, Drained, AskPause, Dispose, EngineCrash
    <2>2. QED
      BY <1>8, <2>1, ClosingIs DEF Phase, Becomes, First
  <1>9. QED
    BY <1>1, <1>2, <1>3, <1>4, <1>5, <1>6, <1>7, <1>8 DEF UiNext, UserStep, EngineStep

LEMMA ClosingStep ==
    ASSUME "late" \notin UiWindows, UiRecordInv, ClosingInv, [UiNext]_uiVars PROVE ClosingInv'
  <1> DEFINE NoTrial == \A i \in DOMAIN queue : queue[i].kind # "trial"
  <1>1. CASE UNCHANGED uiVars
    BY <1>1 DEF uiVars, ClosingInv
  <1>2. CASE UserStep
    <2>1. engine' = engine
      BY <1>2, UserLeavesEngine
    <2>2. ui'.quitting = ui.quitting
      BY <1>2 DEF UserStep, Receive, OpenDialog, Confirm, CancelDialog, Send, ChooseFolder, UiRecordInv
    <2>3. engine.phase \notin {"open", "dead"} => queue' = queue
      BY <1>2, UserSends DEF MayType, ClosingInv
    <2>4. QED
      BY <2>1, <2>2, <2>3 DEF ClosingInv
  <1>3. CASE UiNext /\ ~UserStep
    <2>1. ui.quitting = TRUE => ui'.quitting = TRUE
      BY <1>3, EngineLeavesUser DEF UiRecordInv
    <2>2. NoTrial => NoTrial'
      <3>1. CASE queue' = queue
        BY <3>1
      <3>2. CASE Answered /\ queue # <<>>
        BY <3>2, AnsweredIs
      <3>3. QED
        BY <1>3, <3>1, <3>2, EngineLeavesUser
    <2>3. CASE Shutdown
      <3>1. NoTrial' /\ ui'.quitting = TRUE
        BY <2>3 DEF Shutdown, UiRecordInv
      <3>2. Phase("studios")
        BY <2>3, ClosingIs
      <3>3. QED
        BY <3>1, <3>2 DEF Phase, Becomes, ClosingInv
    <2>4. CASE StudiosClosed \/ Drained \/ AskPause \/ Dispose \/ EngineCrash
      <3>1. ui' = ui \/ EngineCrash
        BY <2>4 DEF StudiosClosed, Drained, AskPause, Dispose
      <3>2. UNCHANGED queue
        BY <2>4 DEF StudiosClosed, Drained, AskPause, Dispose, EngineCrash
      <3>3. QED
        BY <2>4, <3>1, <3>2, ClosingIs DEF Phase, Becomes, ClosingInv
    <2>5. ASSUME Alive, ui' = ui, engine'.phase = engine.phase,
                 engine.phase # "open" => engine'.studio = FALSE \/ engine'.studio = engine.studio
          PROVE  ClosingInv'
      BY <2>2, <2>5 DEF ClosingInv, Alive
    <2>6. CASE FinishIntent
      <3>1. Alive /\ ui' = ui /\ awaiting
        BY <2>6 DEF FinishIntent
      <3>2. engine'.phase = engine.phase
        BY <2>6, FinishIs DEF Same, Becomes
      <3>3. 1 \in DOMAIN queue
        BY <3>1, FirstIsIntent DEF UiRecordInv
      <3>4. engine.phase # "open" => First.kind # "trial"
        BY <3>1, <3>3 DEF ClosingInv, First, Alive
      <3>5. engine.phase # "open" => engine'.studio = engine.studio
        BY <2>6, <3>4, FinishIs DEF Same, Becomes
      <3>6. QED
        BY <2>5, <3>1, <3>2, <3>5
    <2>7. CASE Perform
      <3>1. Alive /\ ui' = ui
        BY <2>7 DEF Perform
      <3>2. engine'.phase = engine.phase /\ engine'.studio = engine.studio
        BY <2>7, PerformIs DEF Same, Becomes
      <3>3. QED
        BY <2>5, <3>1, <3>2
    <2>8. CASE Refuse \/ FinishFailed \/ Enter \/ StoreChange
      <3>1. Alive /\ ui' = ui
        BY <2>8 DEF Refuse, FinishFailed, Enter, StoreChange
      <3>2. Same
        BY <2>8, RefuseIs, EnterIs
      <3>3. QED
        BY <2>5, <3>1, <3>2 DEF Same, Becomes
    <2>9. CASE Wake \/ ActiveEnds \/ StudioEnds \/ AuthPrompts \/ AuthEnds
      <3>1. Alive /\ ui' = ui
        BY <2>9 DEF Wake, ActiveEnds, StudioEnds, AuthPrompts, AuthEnds
      <3>2. engine'.phase = engine.phase /\ (engine'.studio = FALSE \/ engine'.studio = engine.studio)
        BY <2>9, BesideIs DEF Same, Becomes
      <3>3. QED
        BY <2>5, <3>1, <3>2
    <2>10. QED
      BY <1>3, <2>3, <2>4, <2>6, <2>7, <2>8, <2>9 DEF UiNext, UserStep, EngineStep
  <1>4. QED
    BY <1>1, <1>2, <1>3

(* EngineIInv holds for any folders, intents and changes, when the user    *)
(* sends nothing after the shutdown and no trial waits in the queue then   *)
(* (App takes the focus from its composer; with "late" TLC finds           *)
(* ClosedMeansStopped violated).                                           *)
THEOREM EngineInvariant ==
    ASSUME "late" \notin UiWindows PROVE UiSpec => []EngineIInv
  <1>1. UiInit => EngineIInv
    <2> SUFFICES ASSUME UiInit PROVE EngineIInv
      OBVIOUS
    <2>1. engine.phase = "open" /\ engine.active = Nothing /\ engine.studio = FALSE /\ engine.auth = "none"
          /\ awaiting = FALSE
      BY DEF UiInit
    <2>2. ActivityInv /\ ClosingInv
      BY <2>1 DEF ActivityInv, OneActivity, ActiveInFolder, AwaitInv, ClosingInv
    <2>3. QED
      BY <2>2, UiRecordInit DEF EngineIInv
  <1>2. EngineIInv /\ [UiNext]_uiVars => EngineIInv'
    BY UiRecordStep, ActivityStep, ClosingStep DEF EngineIInv
  <1>3. QED
    BY <1>1, <1>2, PTL DEF UiSpec

(* At most one activity, in the folder of the engine, and none once it is  *)
(* closed (perform, beside it a login and trials, dispose), under the same *)
(* condition.                                                              *)
THEOREM OneThingAtATime ==
    ASSUME "late" \notin UiWindows PROVE UiSpec => []EngineInv
  <1>1. EngineIInv => EngineInv
    BY DEF EngineIInv, ActivityInv, ClosingInv, EngineInv, ClosedMeansStopped
  <1>2. QED
    BY <1>1, EngineInvariant, PTL

(* Whoever types when, and whatever another process changes: at most one    *)
(* activity, and whatever goes on is of the folder the engine is in        *)
(* (perform, its checks before and after each await).                      *)
THEOREM OneActivityAlways == UiSpec => [](OneActivity /\ ActiveInFolder)
  <1> DEFINE Inv == UiRecordInv /\ ActivityInv
  <1>1. UiInit => Inv
    <2> SUFFICES ASSUME UiInit PROVE Inv
      OBVIOUS
    <2>1. engine.active = Nothing /\ engine.studio = FALSE /\ awaiting = FALSE
      BY DEF UiInit
    <2>2. ActivityInv
      BY <2>1 DEF ActivityInv, OneActivity, ActiveInFolder, AwaitInv
    <2>3. QED
      BY <2>2, UiRecordInit
  <1>2. Inv /\ [UiNext]_uiVars => Inv'
    BY UiRecordStep, ActivityStep
  <1>3. Inv => OneActivity /\ ActiveInFolder
    BY DEF ActivityInv
  <1>4. QED
    BY <1>1, <1>2, <1>3, PTL DEF UiSpec

LEMMA ShownStep ==
    ASSUME "folder" \notin UiWindows, UiRecordInv, ShownInv, ConsentAsShown, [UiNext]_uiVars
    PROVE  ShownInv' /\ ConsentAsShown'
  <1> DEFINE NoFolder == \A i \in DOMAIN queue : queue[i].kind # "workspace"
  <1>1. CASE UNCHANGED uiVars
    BY <1>1 DEF uiVars, ShownInv, DialogShown, FolderShown, PlanShown, ConsentAsShown
  <1>2. CASE UserStep
    <2>1. engine' = engine /\ policy' = policy
      BY <1>2, UserLeavesEngine
    <2>2. CASE queue' = queue /\ ui'.consented = ui.consented
               /\ (ui'.dialog \in {ui.dialog, Nothing} \/ OpenDialog)
      <3>1. OpenDialog => ui'.dialog = engine.workspace /\ NoFolder
        BY DEF OpenDialog, FolderInFlight, UiRecordInv
      <3>2. QED
        BY <2>1, <2>2, <3>1 DEF ShownInv, DialogShown, FolderShown, PlanShown, ConsentAsShown
    <2>3. ASSUME NEW a \in Intents, Dispatched(a), ui.consented \subseteq ui'.consented,
                 a.kind = "workspace" => ui.dialog = Nothing,
                 a.kind = "contributor" => /\ a.folder = ui.dialog /\ ui.dialog # Nothing
                                           /\ <<a.folder>> \in ui'.consented,
                 a.kind = "approve" => <<a.folder, a.version>> \in ui'.consented,
                 ui'.dialog \in {ui.dialog, Nothing}
          PROVE  ShownInv' /\ ConsentAsShown'
      <3>1. /\ Len(queue) \in Nat /\ DOMAIN queue = 1..Len(queue) /\ DOMAIN queue' = 1..(Len(queue) + 1)
            /\ \A i \in DOMAIN queue : queue'[i] = queue[i]
            /\ queue'[Len(queue) + 1] = a
        BY <2>3, DispatchedIs
      <3>2. ui'.dialog # Nothing => ui'.dialog = engine'.workspace /\ NoFolder'
        BY <2>1, <2>3, <3>1 DEF ShownInv, DialogShown, FolderShown, PlanShown
      <3>3. ASSUME NEW i \in DOMAIN queue', queue'[i].kind = "contributor"
            PROVE  /\ queue'[i].folder = engine'.workspace /\ <<queue'[i].folder>> \in ui'.consented
                   /\ \A j \in 1..(i - 1) : queue'[j].kind # "workspace"
        <4>1. CASE i \in DOMAIN queue
          BY <2>1, <2>3, <3>1, <3>3, <4>1 DEF ShownInv, DialogShown, FolderShown, PlanShown
        <4>2. CASE i = Len(queue) + 1
          BY <2>1, <2>3, <3>1, <3>3, <4>2 DEF ShownInv, DialogShown, FolderShown, PlanShown
        <4>3. QED
          BY <3>1, <4>1, <4>2
      <3>4. ASSUME NEW i \in DOMAIN queue', queue'[i].kind = "approve"
            PROVE  <<queue'[i].folder, queue'[i].version>> \in ui'.consented
        <4>1. CASE i \in DOMAIN queue
          BY <2>3, <3>1, <3>4, <4>1 DEF ShownInv, DialogShown, FolderShown, PlanShown
        <4>2. CASE i = Len(queue) + 1
          BY <2>3, <3>1, <3>4, <4>2
        <4>3. QED
          BY <3>1, <4>1, <4>2
      <3>5. ConsentAsShown'
        BY <2>1, <2>3 DEF ConsentAsShown
      <3>6. QED
        BY <3>2, <3>3, <3>4, <3>5 DEF ShownInv, DialogShown, FolderShown, PlanShown
    <2>4. CASE Receive \/ OpenDialog \/ CancelDialog
      BY <2>2, <2>4 DEF Receive, OpenDialog, CancelDialog, UiRecordInv
    <2>5. CASE ~(Receive \/ OpenDialog \/ CancelDialog)
      BY <1>2, <2>3, <2>5, UserSends
    <2>6. QED
      BY <2>4, <2>5
  <1>3. CASE UiNext /\ ~UserStep
    <2>1. ui'.consented = ui.consented /\ ui'.dialog = ui.dialog
      BY <1>3, EngineLeavesUser DEF UiRecordInv
    <2>2. CASE queue' = queue /\ policy' = policy /\ engine'.workspace = engine.workspace
      BY <2>1, <2>2 DEF ShownInv, DialogShown, FolderShown, PlanShown, ConsentAsShown
    <2>3. CASE Answered /\ queue # <<>>
      <3>1. \A i \in DOMAIN queue' : i \in Nat /\ i + 1 \in DOMAIN queue /\ queue'[i] = queue[i + 1]
        BY <2>3, AnsweredIs
      <3>2. 1 \in DOMAIN queue /\ DOMAIN queue = 1..Len(queue) /\ Len(queue) \in Nat /\ First = queue[1]
        BY SMTT(30), <2>3, FirstIsIntent DEF UiRecordInv, First
      <3>3. ConsentAsShown'
        <4>1. CASE FinishIntent
          <5>1. First.kind = "contributor" => <<engine.workspace>> \in ui.consented
            BY <3>2 DEF ShownInv, DialogShown, FolderShown, PlanShown
          <5>2. QED
            BY <2>1, <4>1, <5>1 DEF FinishIntent, ConsentAsShown
        <4>2. CASE Perform
          <5>1. First.kind = "approve" => /\ goalOf[First.folder].version = First.version
                                          /\ <<First.folder, First.version>> \in ui.consented
            BY <3>2, <4>2 DEF ShownInv, DialogShown, FolderShown, PlanShown, Perform, Refuses
          <5>2. QED
            BY <2>1, <4>2, <5>1 DEF Perform, ConsentAsShown
        <4>3. CASE policy' = policy
          BY <2>1, <4>3 DEF ConsentAsShown
        <4>4. QED
          BY <1>3, <4>1, <4>2, <4>3 DEF UiNext, UserStep, EngineStep, Refuse, Enter, FinishFailed,
             Wake, StudiosClosed, Drained, AskPause, Dispose, StoreChange, ActiveEnds, StudioEnds,
             AuthPrompts, AuthEnds, Shutdown, EngineCrash
      <3>4. CASE engine'.workspace = engine.workspace
        <4>1. NoFolder => NoFolder'
          BY <3>1
        <4>2. ASSUME NEW i \in DOMAIN queue', queue'[i].kind = "contributor"
              PROVE  /\ queue'[i].folder = engine'.workspace /\ <<queue'[i].folder>> \in ui'.consented
                     /\ \A j \in 1..(i - 1) : queue'[j].kind # "workspace"
          <5>1. i \in Nat /\ i + 1 \in DOMAIN queue /\ queue'[i] = queue[i + 1]
            BY <3>1, <4>2
          <5>2. \A j \in 1..i : queue[j].kind # "workspace"
            <6>1. \A j \in 1..((i + 1) - 1) : queue[j].kind # "workspace"
              BY <4>2, <5>1 DEF ShownInv, DialogShown, FolderShown, PlanShown
            <6>2. (i + 1) - 1 = i
              BY <5>1
            <6>3. QED
              BY <6>1, <6>2
          <5>3. ASSUME NEW j \in 1..(i - 1) PROVE queue'[j].kind # "workspace"
            <6>1. DOMAIN queue' = 1..Len(queue') /\ Len(queue') \in Nat
              BY <2>3, AnsweredIs
            <6>2. j \in DOMAIN queue' /\ j + 1 \in 1..i
              BY <4>2, <6>1
            <6>3. QED
              BY <3>1, <5>2, <6>2
          <5>4. QED
            BY <2>1, <3>4, <4>2, <5>1, <5>3 DEF ShownInv, DialogShown, FolderShown, PlanShown
        <4>3. ASSUME NEW i \in DOMAIN queue', queue'[i].kind = "approve"
              PROVE  <<queue'[i].folder, queue'[i].version>> \in ui'.consented
          BY <2>1, <3>1, <4>3 DEF ShownInv, DialogShown, FolderShown, PlanShown
        <4>4. ui'.dialog # Nothing => ui'.dialog = engine'.workspace /\ NoFolder'
          BY <2>1, <3>4, <4>1 DEF ShownInv, DialogShown, FolderShown, PlanShown
        <4>5. DialogShown' /\ FolderShown' /\ PlanShown'
          <5>1. DialogShown'
            BY <4>4 DEF DialogShown
          <5>2. FolderShown'
            BY <4>2 DEF FolderShown
          <5>3. PlanShown'
            BY <4>3 DEF PlanShown
          <5>4. QED
            BY <5>1, <5>2, <5>3
        <4>6. QED
          BY <3>3, <4>5 DEF ShownInv
      <3>5. CASE engine'.workspace # engine.workspace
        <4>1. FinishIntent /\ First.kind = "workspace"
          BY <1>3, <2>3, <3>5, RefuseIs, PerformIs, FinishIs, EnterIs, BesideIs, ClosingIs
          DEF UiNext, UserStep, EngineStep, Same, Phase, Becomes
        <4>2. ui.dialog = Nothing
          BY <3>2, <4>1 DEF ShownInv, DialogShown, FolderShown, PlanShown
        <4>3. ASSUME NEW i \in DOMAIN queue PROVE queue[i].kind # "contributor"
          <5>1. CASE i = 1
            BY <3>2, <4>1, <5>1
          <5>2. CASE i # 1
            <6>1. 1 \in 1..(i - 1)
              BY <3>2, <5>2
            <6>2. QED
              BY <3>2, <4>1, <6>1 DEF ShownInv, DialogShown, FolderShown, PlanShown
          <5>3. QED
            BY <5>1, <5>2
        <4>4. \A i \in DOMAIN queue' : queue'[i].kind # "contributor"
          BY <3>1, <4>3
        <4>5. ASSUME NEW i \in DOMAIN queue', queue'[i].kind = "approve"
              PROVE  <<queue'[i].folder, queue'[i].version>> \in ui'.consented
          BY <2>1, <3>1, <4>5 DEF ShownInv, DialogShown, FolderShown, PlanShown
        <4>6. ui'.dialog = Nothing
          BY <2>1, <4>2
        <4>7. DialogShown' /\ FolderShown'
          BY <4>4, <4>6 DEF DialogShown, FolderShown
        <4>8. PlanShown'
          BY <4>5 DEF PlanShown
        <4>9. QED
          BY <3>3, <4>7, <4>8 DEF ShownInv
      <3>6. QED
        BY <3>4, <3>5
    <2>4. Refuse \/ FinishFailed \/ Perform \/ FinishIntent => Answered /\ queue # <<>>
      BY DEF Refuse, FinishFailed, Perform, FinishIntent, UiRecordInv
    <2>5. CASE Enter \/ StoreChange
      BY <2>2, <2>5, EnterIs DEF Enter, StoreChange, Same, Becomes
    <2>6. CASE Wake \/ ActiveEnds \/ StudioEnds \/ AuthPrompts \/ AuthEnds
      <3>1. queue' = queue /\ policy' = policy
        BY <2>6 DEF Wake, ActiveEnds, StudioEnds, AuthPrompts, AuthEnds
      <3>2. QED
        BY <2>2, <2>6, <3>1, BesideIs DEF Same, Becomes
    <2>7. CASE Shutdown \/ StudiosClosed \/ Drained \/ AskPause \/ Dispose \/ EngineCrash
      <3>1. queue' = queue /\ policy' = policy
        BY <2>7 DEF Shutdown, StudiosClosed, Drained, AskPause, Dispose, EngineCrash
      <3>2. QED
        BY <2>2, <2>7, <3>1, ClosingIs DEF Phase, Becomes
    <2>8. QED
      BY <1>3, <2>3, <2>4, <2>5, <2>6, <2>7 DEF UiNext, UserStep, EngineStep
  <1>4. QED
    BY <1>1, <1>2, <1>3

(* Consent is recorded for the folder, and a plan approved in the version, *)
(* that the user saw, for any folders, intents and changes, when the       *)
(* dialog is not opened during a change of folder (requestContributor,     *)
(* approve).                                                               *)
THEOREM ConsentIsAsShown ==
    ASSUME "folder" \notin UiWindows PROVE UiSpec => []ConsentAsShown
  <1>1. UiInit => ConsentIInv
    <2> SUFFICES ASSUME UiInit PROVE ConsentIInv
      OBVIOUS
    <2>1. queue = <<>> /\ policy = {} /\ ui.dialog = Nothing
      BY DEF UiInit
    <2>2. ShownInv /\ ConsentAsShown
      BY <2>1 DEF ShownInv, DialogShown, FolderShown, PlanShown, ConsentAsShown
    <2>3. QED
      BY <2>2, UiRecordInit DEF ConsentIInv
  <1>2. ConsentIInv /\ [UiNext]_uiVars => ConsentIInv'
    BY UiRecordStep, ShownStep DEF ConsentIInv
  <1>3. ConsentIInv => ConsentAsShown
    BY DEF ConsentIInv
  <1>4. QED
    BY <1>1, <1>2, <1>3, PTL DEF UiSpec
-----------------------------------------------------------------------------
(* The two together, as they are checked.                                  *)

(* What the user still sends and what waits in the queue is what the user  *)
(* had; what is recorded is of folders and of versions that came to be.    *)
Consents == Seq(Folders \cup 0..MaxChanges)

SentInv ==
    /\ script \in [kinds : UiInstances, left : Nat]
    /\ Len(queue) + script.left <= MaxIntents

RecordedInv ==
    /\ \A f \in Folders : goalOf[f].version \in 0..MaxChanges
    /\ policy \subseteq Consents

LEMMA Sending ==
    ASSUME UiRecordInv, SentInv, NEW a \in Intents, Dispatched(a), MayType PROVE SentInv'
  <1>1. /\ script' = [script EXCEPT !.left = script.left - 1] /\ script.left \in Nat /\ script.left > 0
        /\ queue' = Append(queue, a) /\ queue \in Seq(Intents)
    BY DEF Dispatched, SentInv, MayType, UiRecordInv
  <1>2. Len(queue') = Len(queue) + 1 /\ Len(queue) \in Nat
    BY <1>1
  <1>3. script' \in [kinds : UiInstances, left : Nat] /\ script'.left = script.left - 1
    <2>1. script.left - 1 \in Nat
      BY <1>1
    <2>2. QED
      BY <1>1, <2>1 DEF SentInv
  <1>4. QED
    BY <1>1, <1>2, <1>3, UiAssumption DEF SentInv, UiAssumption

LEMMA SentStep == ASSUME UiRecordInv, SentInv, [UiNext]_uiVars PROVE SentInv'
  <1>1. CASE UNCHANGED <<queue, script>>
    BY <1>1 DEF SentInv
  <1>2. CASE UserStep
    <2>1. CASE Receive \/ OpenDialog \/ CancelDialog
      BY <1>1, <2>1 DEF Receive, OpenDialog, CancelDialog
    <2>2. CASE ~(Receive \/ OpenDialog \/ CancelDialog)
      BY <1>2, <2>2, UserSends, Sending
    <2>3. QED
      BY <2>1, <2>2
  <1>3. CASE UiNext /\ ~UserStep
    <2>1. script' = script
      BY <1>3 DEF UiNext, UserStep, EngineStep, Refuse, Enter, Perform, FinishIntent, FinishFailed, Wake,
         StudiosClosed, Drained, AskPause, Dispose, StoreChange, ActiveEnds, StudioEnds, AuthPrompts,
         AuthEnds, Shutdown, EngineCrash
    <2>2. CASE queue' = queue
      BY <1>1, <2>1, <2>2
    <2>3. CASE Answered /\ queue # <<>>
      <3>1. queue \in Seq(Intents) /\ queue' = Tail(queue)
        BY <2>3 DEF Answered, UiRecordInv
      <3>2. Len(queue') = Len(queue) - 1 /\ Len(queue) \in Nat
        BY <2>3, <3>1
      <3>3. QED
        BY <2>1, <3>2, UiAssumption DEF SentInv, UiAssumption
    <2>4. QED
      BY <1>3, <2>2, <2>3, EngineLeavesUser
  <1>4. QED
    BY <1>1, <1>2, <1>3 DEF uiVars

(* A version is the number of changes of the store.                        *)
LEMMA VersionsBounded ==
    ASSUME UiRecordInv, RecordedInv, [UiNext]_uiVars
    PROVE  \A f \in Folders : goalOf'[f].version \in 0..MaxChanges
  <1> DEFINE Kept == \A f \in Folders : goalOf'[f].version \in 0..MaxChanges
  <1>1. goalOf \in [Folders -> FolderGoals] /\ engine.workspace \in Folders
        /\ \A f \in Folders : goalOf[f].version \in 0..MaxChanges
    BY DEF UiRecordInv, Engines, RecordedInv
  <1>2. ASSUME NEW f \in Folders, goalOf' \in {goalOf, GoalRuns(goalOf, f), Controlled(goalOf, f)} PROVE Kept
    BY <1>1, <1>2 DEF GoalRuns, Controlled, FolderGoals
  <1>3. CASE Perform
    BY <1>1, <1>2, <1>3, FirstIsIntent DEF Perform
  <1>4. CASE FinishIntent
    <2>1. queue # <<>>
      BY <1>4 DEF FinishIntent, UiRecordInv
    <2>2. First.folder \in Folders
      BY <2>1, FirstIsIntent
    <2>3. goalOf' \in {goalOf, GoalRuns(goalOf, engine.workspace), Controlled(goalOf, First.folder)}
      BY <1>4 DEF FinishIntent
    <2>4. QED
      BY <1>1, <1>2, <2>2, <2>3
  <1>5. ASSUME engine.active # Nothing PROVE engine.active.folder \in Folders
    BY <1>5 DEF UiRecordInv, Engines, Work
  <1>6. CASE StoreChange
    <2>1. PICK f \in Folders : /\ goalOf[f].version < MaxChanges
                               /\ goalOf' = [goalOf EXCEPT ![f].version = goalOf[f].version + 1]
      BY <1>5, <1>6 DEF StoreChange
    <2>2. goalOf[f].version + 1 \in 0..MaxChanges
      BY <1>1, <2>1, UiAssumption DEF UiAssumption
    <2>3. QED
      BY <1>1, <2>1, <2>2 DEF FolderGoals
  <1>7. CASE ActiveEnds
    <2>1. engine.active.folder \in Folders
      BY <1>5, <1>7 DEF ActiveEnds
    <2>2. \/ goalOf' = goalOf
          \/ \E s \in {"PAUSED", "DONE"} :
                goalOf' = [goalOf EXCEPT ![engine.active.folder].state = s, ![engine.active.folder].request = FALSE]
      BY <1>7 DEF ActiveEnds
    <2>3. QED
      BY <1>1, <2>1, <2>2 DEF FolderGoals
  <1>8. CASE AskPause
    BY <1>1, <1>2, <1>8 DEF AskPause
  <1>9. CASE UNCHANGED goalOf
    BY <1>1, <1>9
  <1>10. QED
    BY <1>3, <1>4, <1>6, <1>7, <1>8, <1>9
    DEF UiNext, EngineStep, uiVars, Refuse, Enter, FinishFailed, Wake, StudiosClosed, Drained,
        Dispose, StudioEnds, AuthPrompts, AuthEnds, Shutdown, EngineCrash, Receive, OpenDialog,
        Confirm, CancelDialog, Send, ChooseFolder

LEMMA ConsentTyped ==
    ASSUME NEW f \in Folders, NEW v \in 0..MaxChanges PROVE <<f>> \in Consents /\ <<f, v>> \in Consents
  BY DEF Consents

LEMMA PolicyTyped ==
    ASSUME UiRecordInv, RecordedInv, [UiNext]_uiVars PROVE policy' \subseteq Consents
  <1>1. policy \subseteq Consents /\ engine.workspace \in Folders
    BY DEF RecordedInv, UiRecordInv, Engines
  <1>2. CASE Perform
    <2>1. First.folder \in Folders
      BY <1>2, FirstIsIntent DEF Perform
    <2>2. <<First.folder, goalOf[First.folder].version>> \in Consents
      BY <2>1, ConsentTyped DEF RecordedInv
    <2>3. QED
      BY <1>1, <1>2, <2>2 DEF Perform
  <1>3. CASE FinishIntent
    <2>1. 0 \in 0..MaxChanges
      BY UiAssumption DEF UiAssumption
    <2>2. <<engine.workspace>> \in Consents
      BY <1>1, <2>1, ConsentTyped
    <2>3. QED
      BY <1>1, <1>3, <2>2 DEF FinishIntent
  <1>4. CASE UNCHANGED policy
    BY <1>1, <1>4
  <1>5. QED
    BY <1>2, <1>3, <1>4
    DEF UiNext, EngineStep, uiVars, Refuse, Enter, FinishFailed, Wake, StudiosClosed, Drained,
        AskPause, Dispose, StoreChange, ActiveEnds, StudioEnds, AuthPrompts, AuthEnds, Shutdown,
        EngineCrash, Receive, OpenDialog, Confirm, CancelDialog, Send, ChooseFolder

UiTypeInv == UiRecordInv /\ SentInv /\ RecordedInv

LEMMA UiTypeInit == UiInit => UiTypeInv
  <1> SUFFICES ASSUME UiInit PROVE UiTypeInv
    OBVIOUS
  <1>1. script \in [kinds : UiInstances, left : Nat] /\ script.left = MaxIntents
    BY UiAssumption DEF UiInit, UiAssumption
  <1>2. Len(queue) = 0 /\ policy = {}
    BY DEF UiInit
  <1>3. \A f \in Folders : goalOf[f].version \in 0..MaxChanges
    <2> SUFFICES ASSUME NEW f \in Folders PROVE goalOf[f].version \in 0..MaxChanges
      OBVIOUS
    <2>1. goalOf[f] \in [state : {"none", "PAUSED"}, request : {FALSE}, version : {0}]
      BY DEF UiInit
    <2>2. goalOf[f].version = 0
      BY <2>1
    <2>3. 0 \in 0..MaxChanges
      BY UiAssumption DEF UiAssumption
    <2>4. QED
      BY <2>2, <2>3
  <1>4. QED
    BY <1>1, <1>2, <1>3, UiAssumption, UiRecordInit DEF UiTypeInv, SentInv, RecordedInv, UiAssumption

LEMMA UiTypeStep == UiTypeInv /\ [UiNext]_uiVars => UiTypeInv'
  <1> SUFFICES ASSUME UiTypeInv, [UiNext]_uiVars PROVE UiTypeInv'
    OBVIOUS
  <1>1. UiRecordInv' /\ SentInv'
    BY UiRecordStep, SentStep DEF UiTypeInv
  <1>2. RecordedInv'
    BY VersionsBounded, PolicyTyped DEF UiTypeInv, RecordedInv
  <1>3. QED
    BY <1>1, <1>2 DEF UiTypeInv

LEMMA UiTyped == UiTypeInv => UiTypeOK
  <1> SUFFICES ASSUME UiTypeInv PROVE UiTypeOK
    OBVIOUS
  <1>1. Len(queue) <= MaxIntents
    <2>1. Len(queue) \in Nat /\ script.left \in Nat /\ Len(queue) + script.left <= MaxIntents
      BY DEF UiTypeInv, UiRecordInv, SentInv
    <2>2. QED
      BY <2>1, UiAssumption DEF UiAssumption
  <1>2. \A i \in DOMAIN queue : queue[i] \in Intents
    BY DEF UiTypeInv, UiRecordInv
  <1>3. engine.active \in Work \cup {Nothing} /\ engine.phase \in Phases
        /\ engine.auth \in {"none", "starting", "prompt", "saving"}
    BY DEF UiTypeInv, UiRecordInv, Engines
  <1>4. ui.view.folder \in Folders /\ ui.dialog \in Folders \cup {Nothing} /\ (awaiting => queue # <<>>)
    BY DEF UiTypeInv, UiRecordInv, Snapshots
  <1>5. policy \subseteq Seq(Folders \cup 0..MaxChanges)
    BY DEF UiTypeInv, RecordedInv, Consents
  <1>6. QED
    BY <1>1, <1>2, <1>3, <1>4, <1>5 DEF UiTypeOK, Intents

(* A behaviour of the two instances is one of each.                        *)
LEMMA WholeInit == MCInit => Init /\ UiInit
  BY DEF MCInit

LEMMA WholeNext == [MCNext]_<<which, vars, uiVars>> => [Next]_vars /\ [UiNext]_uiVars
  BY DEF MCNext

(* Commands on goals, or a user at the interface: a behaviour of its part, *)
(* fair where the part is.                                                 *)
THEOREM PartsOfTheCommands == MCFairSpec => Spec /\ UiSpec
  <1>1. QED
    BY WholeInit, WholeNext, PTL DEF MCFairSpec, MCSpec, Spec, UiSpec

(* The records of the commands and of the interface keep their types, for  *)
(* any processes, goals, folders and intents, also after a shutdown.       *)
THEOREM UserCommandsTypes == MCSpec => []UserCommandsTypeOK
  <1>1. MCSpec => Spec /\ UiInit /\ [][UiNext]_uiVars
    BY WholeInit, WholeNext, PTL DEF MCSpec, Spec
  <1>2. TypeOK /\ UiTypeInv => UserCommandsTypeOK
    BY UiTyped DEF UserCommandsTypeOK
  <1>3. QED
    BY <1>1, <1>2, TypeCorrect, UiTypeInit, UiTypeStep, PTL
===============================================================================
