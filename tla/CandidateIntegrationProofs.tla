---------------------- MODULE CandidateIntegrationProofs ----------------------
(* Theorems about CandidateIntegration for every value of its constants.   *)
EXTENDS CandidateIntegration, TLAPS

LEMMA TypeInit == Init => TypeOK
  <1> SUFFICES ASSUME Init PROVE TypeOK
    OBVIOUS
  <1> USE ConstantsAssumption DEF ConstantsAssumption, Init, Revision
  <1>1. intent \in [Intents -> {NoIntent} \cup Intent]
    OBVIOUS
  <1>2. local \in [Controllers -> Local]
    BY DEF Local
  <1>3. /\ head \in Revision /\ candidate \in Revision
        /\ result \in [Tasks -> Revision]
        /\ attempt \in [Tasks -> 0 .. MaxAttempts]
        /\ crashes \in 0 .. MaxCrashes /\ drift \in 0 .. MaxDrift
    OBVIOUS
  <1>4. /\ author \in [1 .. MaxRevision -> Tasks \cup {Manual}]
        /\ dirty \in BOOLEAN
        /\ status \in [Tasks -> TaskStatus]
        /\ lock \in Controllers \cup {NoOne, Dead}
        /\ pc \in [Controllers -> Step]
    BY DEF TaskStatus, Step
  <1>5. QED
    BY <1>1, <1>2, <1>3, <1>4 DEF TypeOK

(* An intent in progress has a task of the plan.                           *)
LEMMA OpenIsIntent ==
    ASSUME TypeOK, NEW i \in Intents, Open(i)
    PROVE  intent[i] \in Intent
  BY DEF TypeOK, Open, NoIntent

LEMMA WorkingOnIntent ==
    ASSUME IInv, NEW c \in Controllers,
           pc[c] \in {"apply", "commit", "committed", "record", "error"}
    PROVE  /\ local[c].op \in Intents
           /\ intent[local[c].op] \in Intent
           /\ intent[local[c].op].task \in Tasks
  <1>1. local[c].op \in Intents /\ Open(local[c].op)
    BY DEF IInv, StepInv, WorkingOn
  <1>2. intent[local[c].op] \in Intent
    BY <1>1, OpenIsIntent DEF IInv
  <1>3. QED
    BY <1>1, <1>2 DEF Intent

LEMMA TypeStep == IInv /\ [Next]_vars => TypeOK'
  <1> SUFFICES ASSUME IInv, [Next]_vars PROVE TypeOK'
    OBVIOUS
  <1> TypeOK
    BY DEF IInv
  <1> USE ConstantsAssumption
      DEF ConstantsAssumption, TypeOK, Revision, TaskStatus, Step, At, GoTo, git, store, env
  <1>1. ASSUME NEW c \in Controllers, OpenGoal(c) PROVE TypeOK'
    BY <1>1 DEF OpenGoal, Local
  <1>2. ASSUME NEW c \in Controllers, Lock(c) PROVE TypeOK'
    BY <1>2 DEF Lock
  <1>3. ASSUME NEW c \in Controllers, Unlock(c) PROVE TypeOK'
    BY <1>3 DEF Unlock
  <1>4. ASSUME NEW c \in Controllers, Crash(c) PROVE TypeOK'
    BY <1>4 DEF Crash
  <1>5. ASSUME NEW c \in Controllers, Recovery(c) PROVE TypeOK'
    <2>1. CASE InspectCandidate(c)
      <3>1. local' \in [Controllers -> Local]
        <4>1. \/ local' = local
              \/ local' = [local EXCEPT ![c].revision = head]
          BY <2>1 DEF InspectCandidate
        <4>2. [local[c] EXCEPT !.revision = head] \in Local
          BY DEF Local
        <4>3. QED
          BY <4>1, <4>2
      <3>2. pc' \in [Controllers -> Step]
        BY <2>1 DEF InspectCandidate
      <3>3. QED
        BY <2>1, <3>1, <3>2 DEF InspectCandidate
    <2>2. ASSUME NEW i \in Intents, Reconcile(c, i) PROVE TypeOK'
      <3>1. intent[i] \in Intent
        BY <2>2, OpenIsIntent DEF Reconcile
      <3>2. intent[i].task \in Tasks /\ [intent[i] EXCEPT !.status = "completed"] \in Intent
        BY <3>1 DEF Intent
      <3>3. local[c].revision \in 0 .. MaxRevision
        BY DEF Local
      <3>4. /\ intent' \in [Intents -> {NoIntent} \cup Intent]
            /\ status' \in [Tasks -> TaskStatus]
            /\ result' \in [Tasks -> Revision]
        BY <2>2, <3>1, <3>2, <3>3 DEF Reconcile
      <3>5. pc' \in [Controllers -> Step]
        BY <2>2 DEF Reconcile
      <3>6. QED
        BY <2>2, <3>4, <3>5 DEF Reconcile
    <2>3. CASE Reconciled(c) BY <2>3 DEF Reconciled
    <2>4. ASSUME NEW t \in Tasks, InterruptTask(c, t) PROVE TypeOK'
      BY <2>4 DEF InterruptTask
    <2>5. CASE Interrupted(c) BY <2>5 DEF Interrupted
    <2>6. CASE AdoptRevision(c) BY <2>6 DEF AdoptRevision, Local
    <2>7. QED BY <1>5, <2>1, <2>2, <2>3, <2>4, <2>5, <2>6 DEF Recovery
  <1>6. ASSUME NEW c \in Controllers, Drive(c) PROVE TypeOK'
    <2>1. ASSUME NEW t \in Tasks, Assign(c, t) PROVE TypeOK'
      BY <2>1 DEF Assign
    <2>2. ASSUME NEW t \in Tasks, Finish(c, t) PROVE TypeOK'
      BY <2>2 DEF Finish
    <2>3. ASSUME NEW t \in Tasks, Retry(c, t) PROVE TypeOK'
      BY <2>3 DEF Retry
    <2>4. ASSUME NEW t \in Tasks, NEW i \in Intents, StartIntegration(c, t, i) PROVE TypeOK'
      BY ZenonT(30), <2>4 DEF StartIntegration, Local, Intent
    <2>5. CASE Stop(c) BY <2>5 DEF Stop
    <2>6. QED BY <1>6, <2>1, <2>2, <2>3, <2>4, <2>5 DEF Drive
  <1>7. ASSUME NEW c \in Controllers, Integrate(c) PROVE TypeOK'
    <2>1. CASE ApplyPatch(c) BY ZenonT(30), <2>1 DEF ApplyPatch, Local
    <2>2. CASE CommitPatch(c) 
      <3>1. intent[local[c].op].task \in Tasks
        BY <2>2, WorkingOnIntent DEF CommitPatch
      <3>2. head + 1 \in 0 .. MaxRevision
        BY <2>2 DEF CommitPatch
      <3>3. QED
        BY <2>2, <3>1, <3>2 DEF CommitPatch
    <2>3. CASE ResetPatch(c) BY <2>3 DEF ResetPatch, Local
    <2>4. CASE ReadCommit(c) BY <2>4 DEF ReadCommit, Local
    <2>5. CASE RecordAccepted(c) 
      <3> DEFINE i == local[c].op
      <3>1. i \in Intents /\ intent[i] \in Intent
        BY <2>5, WorkingOnIntent DEF RecordAccepted
      <3>2. [intent[i] EXCEPT !.status = "completed"] \in Intent
        BY <3>1 DEF Intent
      <3>3. local[c].revision \in 0 .. MaxRevision
        BY DEF Local
      <3>4. QED
        BY <2>5, <3>1, <3>2, <3>3 DEF RecordAccepted
    <2>6. CASE ArtifactFails(c) BY <2>6 DEF ArtifactFails
    <2>7. CASE RollBack(c) 
      <3> DEFINE i == local[c].op
      <3>1. i \in Intents /\ intent[i] \in Intent
        BY <2>7, WorkingOnIntent DEF RollBack
      <3>2. [intent[i] EXCEPT !.status = "completed"] \in Intent
        BY <3>1 DEF Intent
      <3>3. local[c].revision \in 0 .. MaxRevision
        BY DEF Local
      <3>4. QED
        BY <2>7, <3>1, <3>2, <3>3 DEF RollBack
    <2>8. CASE MarkFailed(c) BY <2>8 DEF MarkFailed
    <2>9. CASE ReadFails(c) BY <2>9 DEF ReadFails
    <2>10. QED
      BY <1>7, <2>1, <2>2, <2>3, <2>4, <2>5, <2>6, <2>7, <2>8, <2>9 DEF Integrate
  <1>8. CASE User 
    <2>1. CASE ManualCommit BY <2>1 DEF ManualCommit, MayDrift
    <2>2. CASE ManualEdit BY <2>2 DEF ManualEdit
    <2>3. CASE CleanUp BY <2>3 DEF CleanUp
    <2>4. QED BY <1>8, <2>1, <2>2, <2>3 DEF User
  <1>9. CASE UNCHANGED vars BY <1>9 DEF vars
  <1>10. QED
    BY <1>1, <1>2, <1>3, <1>4, <1>5, <1>6, <1>7, <1>8, <1>9 DEF Next, Controller

-------------------------------------------------------------------------------
(* The inductive invariant holds initially.                                *)
LEMMA InitInv == Init => IInv
  <1> SUFFICES ASSUME Init PROVE IInv
    OBVIOUS
  <1>1. TypeOK
    BY TypeInit
  <1>2. MutualExclusion
    BY DEF Init, MutualExclusion
  <1>3. NoneOpen
    BY DEF Init, NoneOpen, Open, NoIntent
  <1>4. DataInv
    <2>1. OneOpenIntent /\ OpenIntentInv
      BY <1>3 DEF NoneOpen, OneOpenIntent, OpenIntentInv
    <2>2. AcceptedIsInCandidate /\ candidate <= head
      BY DEF Init, AcceptedIsInCandidate
    <2>3. IntegratedOnce /\ BookedUpTo(candidate) /\ LandedInv
      BY DEF Init, IntegratedOnce, BookedUpTo, LandedInv
    <2>4. QED
      BY <2>1, <2>2, <2>3 DEF DataInv
  <1>5. \A c \in Controllers : StepInv(c)
    BY DEF Init, StepInv
  <1>6. QED
    BY <1>1, <1>2, <1>4, <1>5 DEF IInv

(* A workspace is handed over only when it is free or its process is dead. *)
LEMMA MutexStep == TypeOK /\ MutualExclusion /\ [Next]_vars => MutualExclusion'
  <1> SUFFICES ASSUME TypeOK, MutualExclusion, [Next]_vars PROVE MutualExclusion'
    OBVIOUS
  <1> pc \in [Controllers -> Step] /\ lock \in Controllers \cup {NoOne, Dead}
    BY DEF TypeOK
  <1> USE ConstantsAssumption DEF ConstantsAssumption, MutualExclusion, At, GoTo
  <1>1. ASSUME NEW c \in Controllers, OpenGoal(c) PROVE MutualExclusion'
    BY <1>1 DEF OpenGoal
  <1>2. ASSUME NEW c \in Controllers, Lock(c) PROVE MutualExclusion'
    BY <1>2 DEF Lock
  <1>3. ASSUME NEW c \in Controllers, Unlock(c) PROVE MutualExclusion'
    BY <1>3 DEF Unlock
  <1>4. ASSUME NEW c \in Controllers, Crash(c) PROVE MutualExclusion'
    BY <1>4 DEF Crash
  <1>5. ASSUME NEW c \in Controllers, Recovery(c) PROVE MutualExclusion'
    BY <1>5 DEF Recovery, InspectCandidate, Reconcile, Reconciled, InterruptTask,
                Interrupted, AdoptRevision
  <1>6. ASSUME NEW c \in Controllers, Drive(c) PROVE MutualExclusion'
    BY <1>6 DEF Drive, Assign, Finish, Retry, StartIntegration, Stop
  <1>7. ASSUME NEW c \in Controllers, Integrate(c) PROVE MutualExclusion'
    BY <1>7 DEF Integrate, ApplyPatch, CommitPatch, ResetPatch, ReadCommit, ReadFails,
                RecordAccepted, ArtifactFails, RollBack, MarkFailed
  <1>8. CASE User
    BY <1>8 DEF User, ManualCommit, ManualEdit, CleanUp
  <1>9. CASE UNCHANGED vars
    BY <1>9 DEF vars
  <1>10. QED
    BY <1>1, <1>2, <1>3, <1>4, <1>5, <1>6, <1>7, <1>8, <1>9 DEF Next, Controller

(* While one controller works, the others are before the lock.             *)
LEMMA OthersWait ==
    ASSUME MutualExclusion, NEW c \in Controllers, pc[c] \notin {"idle", "opened"}
    PROVE  \A d \in Controllers \ {c} : pc[d] \in {"idle", "opened"}
  BY DEF MutualExclusion

(* The step invariant asks nothing of a controller outside recovery and    *)
(* the drive loop.                                                         *)
LEMMA StepInvOutside ==
    ASSUME NEW c \in Controllers,
           pc'[c] \in {"idle", "opened", "recover", "release"}
    PROVE  StepInv(c)'
  BY DEF StepInv

LEMMA StepInvKept ==
    ASSUME NEW c \in Controllers, StepInv(c),
           UNCHANGED <<head, author, candidate, status, result, intent>>,
           pc'[c] = pc[c], local'[c] = local[c]
    PROVE  StepInv(c)'
  BY DEF StepInv, WorkingOn, NoneOpen, Open, ResultsUpTo, BookedUpTo

LEMMA DataInvKept ==
    ASSUME DataInv, UNCHANGED <<head, author, candidate, status, result, intent>>
    PROVE  DataInv'
  BY DEF DataInv, OneOpenIntent, AcceptedIsInCandidate, IntegratedOnce, BookedUpTo,
         LandedInv, OpenIntentInv, Open

(* With no open intent everything in git is recorded.                      *)
LEMMA NothingPending ==
    ASSUME DataInv, NoneOpen
    PROVE  BookedUpTo(head)
  BY DEF DataInv, LandedInv, NoneOpen, BookedUpTo

-------------------------------------------------------------------------------
(* A task that is not accepted changes its status while no integration is  *)
(* open.                                                                   *)
LEMMA StatusMove ==
    ASSUME IInv, NoneOpen,
           NEW t \in Tasks, status[t] # "accepted",
           NEW s \in TaskStatus, s # "accepted",
           status' = [status EXCEPT ![t] = s],
           UNCHANGED <<head, author, candidate, result, intent>>
    PROVE  DataInv' /\ NoneOpen'
  <1> DataInv /\ status \in [Tasks -> TaskStatus]
    BY DEF IInv, TypeOK
  <1>1. NoneOpen'
    BY DEF NoneOpen, Open
  <1>2. OneOpenIntent' /\ OpenIntentInv'
    BY <1>1 DEF NoneOpen, OneOpenIntent, OpenIntentInv
  <1>3. \A u \in Tasks : status'[u] = "accepted" <=> status[u] = "accepted"
    OBVIOUS
  <1>4. AcceptedIsInCandidate' /\ IntegratedOnce' /\ (candidate <= head)'
    BY <1>3 DEF DataInv, AcceptedIsInCandidate, IntegratedOnce
  <1>5. BookedUpTo(candidate)'
    BY <1>3 DEF DataInv, BookedUpTo
  <1>6. LandedInv'
    BY <1>3, NothingPending DEF BookedUpTo, LandedInv
  <1>7. QED
    BY <1>1, <1>2, <1>4, <1>5, <1>6 DEF DataInv

LEMMA ReconcileStep ==
    ASSUME IInv, NEW c \in Controllers, NEW i \in Intents, Reconcile(c, i)
    PROVE  DataInv' /\ StepInv(c)'
  <1> DEFINE t == intent[i].task
             rev == local[c].revision
  <1>1. TypeOK /\ DataInv /\ StepInv(c) /\ pc[c] = "reconcile" /\ Open(i)
    BY DEF IInv, Reconcile, At
  <1>2. intent[i] \in Intent /\ t \in Tasks /\ intent[i].before \in Nat
    BY <1>1, OpenIsIntent, ConstantsAssumption
       DEF Intent, Revision, ConstantsAssumption
  <1>3. head \in Nat /\ candidate \in Nat /\ rev \in Nat /\ head \in 0 .. MaxRevision
    BY <1>1, ConstantsAssumption DEF TypeOK, Local, Revision, ConstantsAssumption
  <1>4. /\ candidate <= rev /\ rev <= head
        /\ \A r \in rev + 1 .. head : author[r] \notin Tasks
    BY <1>1 DEF StepInv
  <1>5. \A j \in Intents : Open(j) => j = i
    BY <1>1 DEF DataInv, OneOpenIntent
  <1>6. /\ intent \in [Intents -> {NoIntent} \cup Intent]
        /\ status \in [Tasks -> TaskStatus]
        /\ result \in [Tasks -> Revision]
        /\ pc \in [Controllers -> Step]
    BY <1>1 DEF TypeOK
  <1>7. CASE /\ rev = intent[i].before
             /\ intent' = [intent EXCEPT ![i].status = "completed"]
             /\ UNCHANGED <<status, result, pc>>
    <2>1. NoneOpen'
      BY <1>5, <1>6, <1>7 DEF NoneOpen, Open
    <2>2. UNCHANGED <<head, author, candidate, local, status, result, pc>>
      BY <1>7 DEF Reconcile, git
    <2>3. BookedUpTo(rev)
      BY <1>1, <1>7 DEF DataInv, OpenIntentInv
    <2>4. BookedUpTo(head)
      BY <2>3, <1>3, <1>4 DEF BookedUpTo
    <2>5. LandedInv'
      BY <2>2, <2>4 DEF LandedInv, BookedUpTo
    <2>6. OneOpenIntent' /\ OpenIntentInv'
      BY <2>1 DEF NoneOpen, OneOpenIntent, OpenIntentInv
    <2>7. AcceptedIsInCandidate' /\ IntegratedOnce' /\ (candidate <= head)' /\ BookedUpTo(candidate)'
      BY <1>1, <2>2 DEF DataInv, AcceptedIsInCandidate, IntegratedOnce, BookedUpTo
    <2>8. StepInv(c)'
      BY <1>1, <1>4, <2>2 DEF StepInv
    <2>9. QED
      BY <2>5, <2>6, <2>7, <2>8 DEF DataInv
  <1>8. CASE /\ rev # intent[i].before
             /\ Announced(i)
             /\ status' = [status EXCEPT ![t] = "accepted"]
             /\ result' = [result EXCEPT ![t] = rev]
             /\ intent' = [intent EXCEPT ![i].status = "completed"]
             /\ UNCHANGED pc
    <2>1. NoneOpen'
      BY <1>5, <1>6, <1>8 DEF NoneOpen, Open
    <2>2. UNCHANGED <<head, author, candidate, local, pc>>
      BY <1>8 DEF Reconcile, git
    <2>3. \A u \in Tasks : status'[u] = "accepted" <=> (status[u] = "accepted" \/ u = t)
      BY <1>2, <1>6, <1>8
    <2>4. \A r \in 1 .. head : author[r] \in Tasks => status[author[r]] = "accepted" \/ author[r] = t
      BY <1>1, <1>5 DEF DataInv, LandedInv
    <2>5. LandedInv'
      BY <2>2, <2>3, <2>4 DEF LandedInv
    <2>6. OneOpenIntent' /\ OpenIntentInv'
      BY <2>1 DEF NoneOpen, OneOpenIntent, OpenIntentInv
    <2>7. AcceptedIsInCandidate'
      BY <1>1, <1>2, <1>3, <1>4, <1>6, <1>8, <2>2, <2>3 DEF DataInv, AcceptedIsInCandidate
    <2>8. IntegratedOnce' /\ (candidate <= head)' /\ BookedUpTo(candidate)'
      BY <1>1, <2>2, <2>3 DEF DataInv, IntegratedOnce, BookedUpTo
    <2>9. StepInv(c)'
      BY <1>1, <1>4, <2>2 DEF StepInv
    <2>10. QED
      BY <2>5, <2>6, <2>7, <2>8, <2>9 DEF DataInv
  <1>9. CASE GoTo(c, "release") /\ UNCHANGED <<status, result, intent>>
    <2>1. pc'[c] = "release"
      BY <1>6, <1>9 DEF GoTo
    <2>2. DataInv'
      BY <1>1, <1>9, DataInvKept DEF Reconcile, git
    <2>3. QED
      BY <2>1, <2>2, StepInvOutside
  <1>10. QED
    BY <1>7, <1>8, <1>9 DEF Reconcile

LEMMA AdoptStep ==
    ASSUME IInv, NEW c \in Controllers, AdoptRevision(c)
    PROVE  DataInv' /\ StepInv(c)'
  <1>1. TypeOK /\ DataInv /\ StepInv(c) /\ pc[c] = "adopt"
    BY DEF IInv, AdoptRevision, At
  <1>2. /\ NoneOpen /\ local[c].revision <= head
    BY <1>1 DEF StepInv
  <1>3. /\ UNCHANGED <<head, author, status, result, intent>>
        /\ candidate' = local[c].revision
        /\ pc'[c] = "drive"
    BY <1>1 DEF AdoptRevision, GoTo, git, TypeOK
  <1>4. head \in Nat /\ candidate' \in Nat
    BY <1>1, <1>3, ConstantsAssumption DEF TypeOK, Local, Revision, ConstantsAssumption
  <1>5. BookedUpTo(candidate)'
    BY <1>1, <1>2, <1>3, <1>4, NothingPending DEF BookedUpTo
  <1>7. NoneOpen'
    BY <1>2, <1>3 DEF NoneOpen, Open
  <1>9. OneOpenIntent' /\ OpenIntentInv'
    BY <1>7 DEF NoneOpen, OneOpenIntent, OpenIntentInv
  <1>10. AcceptedIsInCandidate' /\ IntegratedOnce' /\ (candidate <= head)'
    BY <1>1, <1>2, <1>3 DEF DataInv, AcceptedIsInCandidate, IntegratedOnce
  <1>11. LandedInv'
    BY <1>1, <1>2, <1>3, NothingPending DEF LandedInv, BookedUpTo
  <1>6. DataInv'
    BY <1>5, <1>9, <1>10, <1>11 DEF DataInv
  <1>8. QED
    BY <1>3, <1>6, <1>7 DEF StepInv

LEMMA StartStep ==
    ASSUME IInv, NEW c \in Controllers, NEW t \in Tasks, NEW i \in Intents,
           StartIntegration(c, t, i)
    PROVE  DataInv' /\ StepInv(c)'
  <1>1. TypeOK /\ DataInv /\ StepInv(c) /\ pc[c] = "drive"
    BY DEF IInv, StartIntegration, At
  <1>2. NoneOpen /\ BookedUpTo(head)
    BY <1>1, NothingPending DEF StepInv
  <1>3. /\ UNCHANGED <<head, author, candidate, status, result>>
        /\ status[t] = "produced"
        /\ intent' = [intent EXCEPT ![i] =
                        [status |-> "started", task |-> t, before |-> candidate]]
        /\ local' = [local EXCEPT ![c].goal = candidate, ![c].op = i]
        /\ pc' = [pc EXCEPT ![c] = "apply"]
    BY DEF StartIntegration, GoTo, git
  <1>4. /\ pc'[c] = "apply"
        /\ local'[c].op = i /\ local'[c].goal = candidate
        /\ intent'[i] = [status |-> "started", task |-> t, before |-> candidate]
        /\ \A j \in Intents \ {i} : intent'[j] = intent[j]
    BY <1>1, <1>3 DEF TypeOK, Local
  <1>5. \A j \in Intents : Open(j)' <=> j = i
    BY <1>2, <1>4 DEF NoneOpen, Open
  <1>6. candidate \in Nat
    BY <1>1, ConstantsAssumption DEF TypeOK, Revision, ConstantsAssumption
  <1>7. OneOpenIntent'
    BY <1>5 DEF OneOpenIntent
  <1>8. OpenIntentInv'
    BY <1>1, <1>3, <1>4, <1>5, <1>6 DEF OpenIntentInv, DataInv, BookedUpTo
  <1>9. AcceptedIsInCandidate' /\ IntegratedOnce' /\ (candidate <= head)' /\ BookedUpTo(candidate)'
    BY <1>1, <1>3 DEF DataInv, AcceptedIsInCandidate, IntegratedOnce, BookedUpTo
  <1>10. BookedUpTo(head)' /\ LandedInv'
    BY <1>2, <1>3 DEF LandedInv, BookedUpTo
  <1>11. WorkingOn(c)'
    BY <1>3, <1>4, <1>5 DEF WorkingOn
  <1>12. StepInv(c)'
    BY <1>4, <1>10, <1>11 DEF StepInv
  <1>13. QED
    BY <1>7, <1>8, <1>9, <1>10, <1>12 DEF DataInv

(* What the steps of an integration know.                                  *)
LEMMA Working ==
    ASSUME IInv, NEW c \in Controllers,
           pc[c] \in {"apply", "commit", "committed", "record", "error"}
    PROVE  /\ WorkingOn(c)
           /\ intent[local[c].op].task \in Tasks
           /\ \A j \in Intents : Open(j) => j = local[c].op
           /\ head \in Nat /\ candidate \in Nat /\ local[c].revision \in Nat
  <1>1. TypeOK /\ DataInv /\ WorkingOn(c)
    BY DEF IInv, StepInv
  <1>2. intent[local[c].op].task \in Tasks
    BY WorkingOnIntent
  <1>3. \A j \in Intents : Open(j) => j = local[c].op
    BY <1>1 DEF DataInv, OneOpenIntent, WorkingOn
  <1>4. head \in Nat /\ candidate \in Nat /\ local[c].revision \in Nat
    BY <1>1, ConstantsAssumption DEF TypeOK, Local, Revision, ConstantsAssumption
  <1>5. QED
    BY <1>1, <1>2, <1>3, <1>4

LEMMA ApplyStep ==
    ASSUME IInv, NEW c \in Controllers, ApplyPatch(c)
    PROVE  DataInv' /\ StepInv(c)'
  <1>1. TypeOK /\ DataInv /\ StepInv(c) /\ pc[c] = "apply"
    BY DEF IInv, ApplyPatch, At
  <1>2. WorkingOn(c) /\ BookedUpTo(head) /\ head \in Nat
    BY <1>1, Working DEF StepInv
  <1>3. /\ UNCHANGED <<head, author, candidate, status, result, intent>>
        /\ pc'[c] \in {"error", "record", "commit"}
        /\ local'[c].revision = head
        /\ local'[c].op = local[c].op
        /\ local'[c].goal = local[c].goal
    BY <1>1 DEF ApplyPatch, GoTo, store, TypeOK, Local
  <1>4. DataInv'
    BY <1>1, <1>3, DataInvKept
  <1>5. WorkingOn(c)'
    BY <1>2, <1>3 DEF WorkingOn, Open
  <1>6. BookedUpTo(head)' /\ BookedUpTo(local[c].revision)'
    BY <1>2, <1>3 DEF BookedUpTo
  <1>7. ResultsUpTo(local[c].revision)'
    BY <1>1, <1>3 DEF DataInv, AcceptedIsInCandidate, ResultsUpTo
  <1>8. (candidate <= local[c].revision)' /\ (local[c].revision <= head)'
    BY <1>1, <1>2, <1>3 DEF DataInv
  <1>9. StepInv(c)'
    BY <1>3, <1>5, <1>6, <1>7, <1>8 DEF StepInv
  <1>10. QED
    BY <1>4, <1>9

LEMMA CommitStep ==
    ASSUME IInv, NEW c \in Controllers, CommitPatch(c)
    PROVE  DataInv' /\ StepInv(c)'
  <1> DEFINE t == intent[local[c].op].task
  <1>1. TypeOK /\ DataInv /\ StepInv(c) /\ pc[c] = "commit"
    BY DEF IInv, CommitPatch, At
  <1>2. /\ WorkingOn(c) /\ t \in Tasks /\ head \in Nat /\ candidate \in Nat
        /\ local[c].revision \in Nat
        /\ status[t] = "produced" /\ Open(local[c].op) /\ local[c].op \in Intents
    BY <1>1, Working DEF WorkingOn
  <1>3. /\ BookedUpTo(head) /\ BookedUpTo(local[c].revision)
        /\ candidate <= local[c].revision /\ local[c].revision <= head
        /\ ResultsUpTo(local[c].revision)
    BY <1>1 DEF StepInv
  <1>4. /\ UNCHANGED <<candidate, status, result, intent, local>>
        /\ head' = head + 1
        /\ author' = [author EXCEPT ![head + 1] = t]
        /\ pc'[c] = "committed"
    BY <1>1 DEF CommitPatch, GoTo, store, TypeOK
  <1>5. head < MaxRevision /\ author \in [1 .. MaxRevision -> Tasks \cup {Manual}] /\ MaxRevision \in Nat
    BY <1>1, ConstantsAssumption DEF CommitPatch, TypeOK, ConstantsAssumption
  <1>6. author'[head + 1] = t /\ \A r \in 1 .. head : author'[r] = author[r]
    BY <1>2, <1>4, <1>5
  <1>7. \A r \in 1 .. head : author[r] # t
    BY <1>2, <1>3 DEF BookedUpTo
  <1>8. IntegratedOnce'
    BY <1>1, <1>2, <1>4, <1>6, <1>7 DEF DataInv, IntegratedOnce
  <1>9. LandedInv'
    <2>1. ASSUME NEW r \in 1 .. head + 1, author'[r] \in Tasks
          PROVE  status[author'[r]] = "accepted" \/ author'[r] = t
      BY <2>1, <1>2, <1>3, <1>6 DEF BookedUpTo
    <2>2. QED
      BY <2>1, <1>2, <1>4 DEF LandedInv, Open
  <1>10. OneOpenIntent' /\ AcceptedIsInCandidate' /\ (candidate <= head)'
    <2>1. \A u \in Tasks : result[u] \in Nat
      BY <1>1, ConstantsAssumption DEF TypeOK, Revision, ConstantsAssumption
    <2>2. QED
      BY <2>1, <1>1, <1>2, <1>4 DEF DataInv, OneOpenIntent, AcceptedIsInCandidate, Open
  <1>12. OpenIntentInv'
    <2>1. ASSUME NEW j \in Intents, Open(j) PROVE BookedUpTo(intent[j].before)'
      <3>1. intent[j].before \in Nat /\ intent[j].before <= candidate /\ BookedUpTo(intent[j].before)
        BY <2>1, <1>1, OpenIsIntent, ConstantsAssumption
           DEF DataInv, OpenIntentInv, Intent, Revision, ConstantsAssumption
      <3>2. intent[j].before \in 0 .. head
        BY <3>1, <1>1, <1>2 DEF DataInv
      <3>3. QED
        BY <3>1, <3>2, <1>2, <1>4, <1>6 DEF BookedUpTo
    <2>2. QED
      BY <2>1, <1>1, <1>4 DEF DataInv, OpenIntentInv, Open
  <1>13. BookedUpTo(candidate)' /\ BookedUpTo(local[c].revision)'
    <2>1. candidate \in 0 .. head /\ local[c].revision \in 0 .. head
      BY <1>1, <1>2, <1>3 DEF DataInv
    <2>2. BookedUpTo(candidate) /\ BookedUpTo(local[c].revision)
      BY <1>1, <1>3 DEF DataInv
    <2>3. \A r \in 1 .. candidate : author'[r] = author[r]
      BY <2>1, <1>2, <1>6
    <2>4. \A r \in 1 .. local[c].revision : author'[r] = author[r]
      BY <2>1, <1>2, <1>6
    <2>5. QED
      BY <2>2, <2>3, <2>4, <1>4 DEF BookedUpTo
  <1>14. DataInv'
    BY <1>8, <1>9, <1>10, <1>12, <1>13 DEF DataInv
  <1>15. WorkingOn(c)'
    BY <1>2, <1>4 DEF WorkingOn, Open
  <1>16. /\ (candidate <= local[c].revision)' /\ (local[c].revision <= head)'
         /\ ResultsUpTo(local[c].revision)'
    BY <1>2, <1>3, <1>4 DEF ResultsUpTo
  <1>17. StepInv(c)'
    BY <1>4, <1>13, <1>15, <1>16 DEF StepInv
  <1>18. QED
    BY <1>14, <1>17

(* The reset goes back to the revision read before the patch, which no     *)
(* accepted task and no recorded commit lies above.                        *)
LEMMA ResetStep ==
    ASSUME IInv, NEW c \in Controllers, ResetPatch(c)
    PROVE  DataInv' /\ StepInv(c)'
  <1> DEFINE rev == local[c].revision
  <1>1. TypeOK /\ DataInv /\ StepInv(c) /\ pc[c] \in {"commit", "committed"}
    BY DEF IInv, ResetPatch
  <1>2. WorkingOn(c) /\ head \in Nat /\ candidate \in Nat /\ rev \in Nat
    BY <1>1, Working
  <1>3. candidate <= rev /\ rev <= head /\ ResultsUpTo(rev) /\ BookedUpTo(rev)
    BY <1>1 DEF StepInv
  <1>4. /\ UNCHANGED <<author, candidate, status, result, intent, local>>
        /\ head' = rev
        /\ pc'[c] = "error"
    BY <1>1 DEF ResetPatch, GoTo, store, TypeOK
  <1>5. IntegratedOnce' /\ (candidate <= head)' /\ BookedUpTo(candidate)'
    BY <1>1, <1>2, <1>3, <1>4 DEF DataInv, IntegratedOnce, BookedUpTo
  <1>6. AcceptedIsInCandidate' /\ LandedInv'
    BY <1>3, <1>4 DEF ResultsUpTo, BookedUpTo, AcceptedIsInCandidate, LandedInv
  <1>7. OneOpenIntent' /\ OpenIntentInv'
    BY <1>1, <1>4 DEF DataInv, OneOpenIntent, OpenIntentInv, Open, BookedUpTo
  <1>8. WorkingOn(c)'
    BY <1>2, <1>4 DEF WorkingOn, Open
  <1>9. QED
    BY <1>4, <1>5, <1>6, <1>7, <1>8 DEF DataInv, StepInv

(* The steps of an integration that only read or fail.                     *)
LEMMA ReadStep ==
    ASSUME IInv, NEW c \in Controllers, ReadCommit(c) \/ ReadFails(c) \/ ArtifactFails(c)
    PROVE  DataInv' /\ StepInv(c)'
  <1>1. /\ TypeOK /\ DataInv /\ pc[c] \in {"committed", "record"}
        /\ UNCHANGED <<head, author, candidate, status, result, intent>>
    BY DEF IInv, ReadCommit, ReadFails, ArtifactFails, At, git, store
  <1>2. WorkingOn(c) /\ head \in Nat
    BY <1>1, Working
  <1>3. DataInv'
    BY <1>1, DataInvKept
  <1>4. CASE ReadCommit(c)
    <2>1. /\ pc'[c] = "record" /\ local'[c].revision = head
          /\ local'[c].op = local[c].op /\ local'[c].goal = local[c].goal
      BY <1>1, <1>4 DEF ReadCommit, GoTo, TypeOK, Local
    <2>2. WorkingOn(c)'
      BY <1>1, <1>2, <2>1 DEF WorkingOn, Open
    <2>3. QED
      BY <1>1, <1>2, <1>3, <2>1, <2>2 DEF StepInv, DataInv
  <1>5. CASE ReadFails(c) \/ ArtifactFails(c)
    <2>1. pc'[c] = "error" /\ local' = local
      BY <1>1, <1>5 DEF ReadFails, ArtifactFails, GoTo, TypeOK
    <2>2. WorkingOn(c)'
      BY <1>1, <1>2, <2>1 DEF WorkingOn, Open
    <2>3. QED
      BY <1>3, <2>1, <2>2 DEF StepInv
  <1>6. QED
    BY <1>4, <1>5

LEMMA RecordStep ==
    ASSUME IInv, NEW c \in Controllers, RecordAccepted(c)
    PROVE  DataInv' /\ StepInv(c)'
  <1> DEFINE i == local[c].op
             t == intent[i].task
             rev == local[c].revision
  <1>1. TypeOK /\ DataInv /\ StepInv(c) /\ pc[c] = "record"
    BY DEF IInv, RecordAccepted, At
  <1>2. /\ i \in Intents /\ t \in Tasks
        /\ \A j \in Intents : Open(j) => j = i
        /\ head \in Nat /\ candidate \in Nat /\ rev \in Nat
    BY <1>1, Working DEF WorkingOn
  <1>3. candidate <= rev /\ rev <= head
    BY <1>1 DEF StepInv
  <1>4. /\ UNCHANGED <<head, author>>
        /\ status' = [status EXCEPT ![t] = "accepted"]
        /\ result' = [result EXCEPT ![t] = rev]
        /\ candidate' = rev
        /\ intent' = [intent EXCEPT ![i].status = "completed"]
        /\ pc'[c] = "drive"
    BY <1>1 DEF RecordAccepted, GoTo, git, TypeOK
  <1>5. NoneOpen'
    BY <1>1, <1>2, <1>4 DEF NoneOpen, Open, TypeOK
  <1>6. /\ \A u \in Tasks : status'[u] = "accepted" <=> (status[u] = "accepted" \/ u = t)
        /\ \A u \in Tasks : result'[u] = IF u = t THEN rev ELSE result[u]
    BY <1>1, <1>2, <1>4 DEF TypeOK
  <1>7. \A r \in 1 .. head : author[r] \in Tasks => status'[author[r]] = "accepted"
    BY <1>1, <1>2, <1>6 DEF DataInv, LandedInv
  <1>8. BookedUpTo(candidate)' /\ LandedInv'
    BY <1>2, <1>3, <1>4, <1>7 DEF BookedUpTo, LandedInv
  <1>9. AcceptedIsInCandidate' /\ (candidate <= head)'
    BY <1>1, <1>3, <1>4, <1>6 DEF DataInv, AcceptedIsInCandidate
  <1>10. IntegratedOnce' /\ OneOpenIntent' /\ OpenIntentInv'
    BY <1>1, <1>4, <1>5 DEF DataInv, IntegratedOnce, OneOpenIntent, OpenIntentInv, NoneOpen
  <1>11. QED
    BY <1>4, <1>5, <1>8, <1>9, <1>10 DEF DataInv, StepInv

(* An intent is rolled back only when git stands where the recorded        *)
(* candidate does, so the task has not landed.                             *)
LEMMA RollBackStep ==
    ASSUME IInv, NEW c \in Controllers, RollBack(c)
    PROVE  DataInv' /\ StepInv(c)'
  <1> DEFINE i == local[c].op
  <1>1. TypeOK /\ DataInv /\ StepInv(c) /\ pc[c] = "error"
    BY DEF IInv, RollBack, At
  <1>2. WorkingOn(c) /\ \A j \in Intents : Open(j) => j = i
    BY <1>1, Working
  <1>3. UNCHANGED <<head, author, candidate, status, result, local>>
    BY DEF RollBack, git
  <1>4. CASE head # local[c].goal
    <2>1. pc'[c] = "release" /\ intent' = intent
      BY <1>1, <1>4 DEF RollBack, GoTo, TypeOK
    <2>2. QED
      BY <1>1, <1>3, <2>1, DataInvKept, StepInvOutside
  <1>5. CASE head = local[c].goal
    <2>1. pc'[c] = "failing" /\ intent' = [intent EXCEPT ![i].status = "completed"]
      BY <1>1, <1>5 DEF RollBack, GoTo, TypeOK
    <2>2. i \in Intents /\ intent[i] \in Intent
      BY <1>1, WorkingOnIntent
    <2>3. intent'[i] = [intent[i] EXCEPT !.status = "completed"]
      BY <1>1, <2>1, <2>2 DEF TypeOK
    <2>4. intent'[i] \in Intent /\ intent'[i].task = intent[i].task
      BY <2>2, <2>3 DEF Intent
    <2>5. NoneOpen'
      BY <1>1, <1>2, <2>1 DEF NoneOpen, Open, TypeOK
    <2>6. BookedUpTo(head)
      BY <1>1, <1>2, <1>5 DEF DataInv, WorkingOn
    <2>7. LandedInv'
      BY <1>3, <2>6 DEF LandedInv, BookedUpTo
    <2>8. OneOpenIntent' /\ OpenIntentInv'
      BY <2>5 DEF NoneOpen, OneOpenIntent, OpenIntentInv
    <2>9. AcceptedIsInCandidate' /\ IntegratedOnce' /\ (candidate <= head)' /\ BookedUpTo(candidate)'
      BY <1>1, <1>3 DEF DataInv, AcceptedIsInCandidate, IntegratedOnce, BookedUpTo
    <2>10. StepInv(c)'
      BY <1>2, <1>3, <2>1, <2>2, <2>4, <2>5 DEF StepInv, WorkingOn
    <2>11. QED
      BY <2>7, <2>8, <2>9, <2>10 DEF DataInv
  <1>6. QED
    BY <1>4, <1>5

(* A commit by hand carries no task.                                       *)
LEMMA ManualStep ==
    ASSUME IInv, ManualCommit
    PROVE  DataInv' /\ \A c \in Controllers : StepInv(c)'
  <1>1. TypeOK /\ DataInv /\ \A c \in Controllers : StepInv(c)
    BY DEF IInv
  <1>2. /\ head \in Nat /\ candidate \in Nat /\ MaxRevision \in Nat
        /\ author \in [1 .. MaxRevision -> Tasks \cup {Manual}] /\ Manual \notin Tasks
        /\ \A c \in Controllers : local[c].revision \in Nat
        /\ \A u \in Tasks : result[u] \in Nat
    BY <1>1, ConstantsAssumption DEF TypeOK, Local, Revision, ConstantsAssumption
  <1>3. /\ UNCHANGED <<candidate, status, result, intent, pc, local>>
        /\ head' = head + 1 /\ head < MaxRevision
        /\ author' = [author EXCEPT ![head + 1] = Manual]
    BY DEF ManualCommit, store
  <1>4. author'[head + 1] = Manual /\ \A r \in 1 .. head : author'[r] = author[r]
    BY <1>2, <1>3
  <1>5. \A n \in 0 .. head : BookedUpTo(n) => \A r \in 1 .. n : author'[r] \in Tasks => status[author'[r]] = "accepted"
    BY <1>2, <1>4 DEF BookedUpTo
  <1>6. OneOpenIntent' /\ AcceptedIsInCandidate' /\ (candidate <= head)'
    BY <1>1, <1>2, <1>3 DEF DataInv, OneOpenIntent, AcceptedIsInCandidate, Open
  <1>7. IntegratedOnce' /\ LandedInv'
    BY <1>1, <1>2, <1>3, <1>4 DEF DataInv, IntegratedOnce, LandedInv, Open
  <1>8. BookedUpTo(candidate)'
    BY <1>1, <1>2, <1>3, <1>5 DEF DataInv, BookedUpTo
  <1>9. OpenIntentInv'
    <2>1. ASSUME NEW j \in Intents, Open(j) PROVE BookedUpTo(intent[j].before)'
      <3>1. intent[j].before \in Nat /\ intent[j].before <= candidate /\ BookedUpTo(intent[j].before)
        BY <2>1, <1>1, OpenIsIntent, ConstantsAssumption
           DEF DataInv, OpenIntentInv, Intent, Revision, ConstantsAssumption
      <3>2. intent[j].before \in 0 .. head
        BY <3>1, <1>1, <1>2 DEF DataInv
      <3>3. QED
        BY <3>1, <3>2, <1>3, <1>5 DEF BookedUpTo
    <2>2. QED
      BY <2>1, <1>1, <1>3 DEF DataInv, OpenIntentInv, Open
  <1>10. ASSUME NEW c \in Controllers PROVE StepInv(c)'
    <2>1. WorkingOn(c) => WorkingOn(c)'
      BY <1>3 DEF WorkingOn, Open
    <2>2. NoneOpen => NoneOpen'
      BY <1>3 DEF NoneOpen, Open
    <2>3. pc[c] \in {"apply", "commit"} => BookedUpTo(head)'
      <3>1. SUFFICES ASSUME pc[c] \in {"apply", "commit"}, NEW r \in 1 .. head + 1,
                            author'[r] \in Tasks
                     PROVE  status[author'[r]] = "accepted"
        BY <1>3 DEF BookedUpTo
      <3>2. r # head + 1 /\ r \in 1 .. head
        BY <1>2, <1>4, <3>1
      <3>3. QED
        BY <3>1, <3>2, <1>1, <1>4 DEF StepInv, BookedUpTo
    <2>4. pc[c] \in {"commit", "committed"} =>
              /\ candidate <= local[c].revision /\ (local[c].revision <= head)'
              /\ ResultsUpTo(local[c].revision)'
              /\ BookedUpTo(local[c].revision)'
      BY <1>1, <1>2, <1>3, <1>5 DEF StepInv, ResultsUpTo, BookedUpTo
    <2>5. pc[c] \in {"reconcile", "interrupt", "adopt", "record"} =>
              candidate <= local[c].revision /\ (local[c].revision <= head)'
      BY <1>1, <1>2, <1>3 DEF StepInv
    <2>6. pc[c] = "reconcile" =>
              \A r \in local[c].revision + 1 .. head + 1 : author'[r] \notin Tasks
      BY <1>1, <1>2, <1>4 DEF StepInv
    <2>7. QED
      BY <1>1, <1>3, <2>1, <2>2, <2>3, <2>4, <2>5, <2>6 DEF StepInv
  <1>11. QED
    BY <1>6, <1>7, <1>8, <1>9, <1>10 DEF DataInv

-------------------------------------------------------------------------------
(* A step of one controller disturbs only its own step invariant: the      *)
(* others wait for the lock.                                               *)
LEMMA OneActs ==
    ASSUME IInv, NEW c \in Controllers, pc[c] \notin {"idle", "opened"},
           pc' = [pc EXCEPT ![c] = pc'[c]],
           DataInv', StepInv(c)'
    PROVE  DataInv' /\ \A d \in Controllers : StepInv(d)'
  <1>1. MutualExclusion /\ pc \in [Controllers -> Step]
    BY DEF IInv, TypeOK
  <1>2. ASSUME NEW d \in Controllers, d # c PROVE StepInv(d)'
    <2>1. pc'[d] \in {"idle", "opened"}
      BY <1>1, <1>2, OthersWait
    <2>2. QED
      BY <2>1, StepInvOutside
  <1>3. QED
    BY <1>2

LEMMA RecoveryStep ==
    ASSUME IInv, NEW c \in Controllers, Recovery(c)
    PROVE  DataInv' /\ \A d \in Controllers : StepInv(d)'
  <1> TypeOK /\ DataInv /\ StepInv(c) /\ pc \in [Controllers -> Step]
    BY DEF IInv, TypeOK
  <1>1. CASE InspectCandidate(c)
    <2>1. /\ pc[c] = "recover" /\ pc' = [pc EXCEPT ![c] = pc'[c]]
          /\ UNCHANGED <<head, author, candidate, status, result, intent>>
          /\ head \in Nat
      BY <1>1, ConstantsAssumption
         DEF InspectCandidate, At, GoTo, git, store, TypeOK, Revision, ConstantsAssumption
    <2>2. DataInv'
      BY <2>1, DataInvKept
    <2>3. CASE pc'[c] = "release"
      BY <2>1, <2>2, <2>3, OneActs, StepInvOutside
    <2>4. CASE pc'[c] = "reconcile" /\ local'[c].revision = head
      <3>1. StepInv(c)'
        BY <2>1, <2>2, <2>4 DEF StepInv, DataInv
      <3>2. QED
        BY <2>1, <2>2, <3>1, OneActs
    <2>5. local' = local \/ local'[c].revision = head
      BY <1>1 DEF InspectCandidate, TypeOK, Local
    <2>6. QED
      BY <1>1, <2>3, <2>4 DEF InspectCandidate, GoTo, TypeOK, Local
  <1>2. ASSUME NEW i \in Intents, Reconcile(c, i)
        PROVE  DataInv' /\ \A d \in Controllers : StepInv(d)'
    <2>1. pc[c] = "reconcile" /\ pc' = [pc EXCEPT ![c] = pc'[c]]
      BY <1>2 DEF Reconcile, At, GoTo
    <2>2. QED
      BY <1>2, <2>1, ReconcileStep, OneActs
  <1>3. CASE Reconciled(c)
    <2>1. /\ pc[c] = "reconcile" /\ pc' = [pc EXCEPT ![c] = "interrupt"] /\ NoneOpen
          /\ UNCHANGED <<head, author, candidate, status, result, intent, local>>
      BY <1>3 DEF Reconciled, At, GoTo, git, store
    <2>2. DataInv' /\ StepInv(c)'
      BY <2>1, DataInvKept DEF StepInv, NoneOpen, Open
    <2>3. QED
      BY <2>1, <2>2, OneActs
  <1>4. ASSUME NEW t \in Tasks, InterruptTask(c, t)
        PROVE  DataInv' /\ \A d \in Controllers : StepInv(d)'
    <2>1. /\ pc[c] = "interrupt" /\ pc' = pc /\ status[t] = "running"
          /\ status' = [status EXCEPT ![t] = "pending"]
          /\ UNCHANGED <<head, author, candidate, result, intent, local>>
      BY <1>4 DEF InterruptTask, At, git
    <2>2. NoneOpen
      BY <2>1 DEF StepInv
    <2>3. DataInv' /\ NoneOpen'
      BY <2>1, <2>2, StatusMove DEF TaskStatus
    <2>4. StepInv(c)'
      BY <2>1, <2>3 DEF StepInv
    <2>5. QED
      BY <2>1, <2>3, <2>4, OneActs
  <1>5. CASE Interrupted(c)
    <2>1. /\ pc[c] = "interrupt" /\ pc' = [pc EXCEPT ![c] = "adopt"]
          /\ UNCHANGED <<head, author, candidate, status, result, intent, local>>
      BY <1>5 DEF Interrupted, At, GoTo, git, store
    <2>2. DataInv' /\ StepInv(c)'
      BY <2>1, DataInvKept DEF StepInv, NoneOpen, Open
    <2>3. QED
      BY <2>1, <2>2, OneActs
  <1>6. CASE AdoptRevision(c)
    <2>1. pc[c] = "adopt" /\ pc' = [pc EXCEPT ![c] = pc'[c]]
      BY <1>6 DEF AdoptRevision, At, GoTo
    <2>2. QED
      BY <1>6, <2>1, AdoptStep, OneActs
  <1>7. QED
    BY <1>1, <1>2, <1>3, <1>4, <1>5, <1>6 DEF Recovery

LEMMA DriveStep ==
    ASSUME IInv, NEW c \in Controllers, Drive(c)
    PROVE  DataInv' /\ \A d \in Controllers : StepInv(d)'
  <1> TypeOK /\ DataInv /\ StepInv(c) /\ pc \in [Controllers -> Step]
    BY DEF IInv, TypeOK
  <1>1. pc[c] = "drive" /\ NoneOpen
    BY DEF Drive, Assign, Finish, Retry, StartIntegration, Stop, At, StepInv
  <1>2. ASSUME NEW t \in Tasks, Assign(c, t) \/ Finish(c, t) \/ Retry(c, t)
        PROVE  DataInv' /\ \A d \in Controllers : StepInv(d)'
    <2>1. /\ pc' = pc /\ status[t] # "accepted"
          /\ UNCHANGED <<head, author, candidate, result, intent, local>>
          /\ \E s \in TaskStatus \ {"accepted"} : status' = [status EXCEPT ![t] = s]
      BY <1>2 DEF Assign, Finish, Retry, git, TaskStatus
    <2>2. DataInv' /\ NoneOpen'
      BY <1>1, <2>1, StatusMove
    <2>3. StepInv(c)'
      BY <1>1, <2>1, <2>2 DEF StepInv
    <2>4. QED
      BY <1>1, <2>1, <2>2, <2>3, OneActs
  <1>3. ASSUME NEW t \in Tasks, NEW i \in Intents, StartIntegration(c, t, i)
        PROVE  DataInv' /\ \A d \in Controllers : StepInv(d)'
    <2>1. pc' = [pc EXCEPT ![c] = pc'[c]]
      BY <1>3 DEF StartIntegration, GoTo
    <2>2. QED
      BY <1>1, <1>3, <2>1, StartStep, OneActs
  <1>4. CASE Stop(c)
    <2>1. /\ pc' = [pc EXCEPT ![c] = pc'[c]] /\ pc'[c] = "release"
          /\ UNCHANGED <<head, author, candidate, status, result, intent>>
      BY <1>4 DEF Stop, GoTo, git, store
    <2>2. QED
      BY <1>1, <2>1, DataInvKept, StepInvOutside, OneActs
  <1>5. QED
    BY <1>2, <1>3, <1>4 DEF Drive

LEMMA IntegrateStep ==
    ASSUME IInv, NEW c \in Controllers, Integrate(c)
    PROVE  DataInv' /\ \A d \in Controllers : StepInv(d)'
  <1> TypeOK /\ DataInv /\ StepInv(c) /\ pc \in [Controllers -> Step]
    BY DEF IInv, TypeOK
  <1>1. /\ pc[c] \notin {"idle", "opened"}
        /\ pc' = [pc EXCEPT ![c] = pc'[c]]
    BY DEF Integrate, ApplyPatch, CommitPatch, ResetPatch, ReadCommit, ReadFails,
           RecordAccepted, ArtifactFails, RollBack, MarkFailed, At, GoTo
  <1>2. CASE MarkFailed(c)
    <2> DEFINE t == intent[local[c].op].task
    <2>1. pc[c] = "failing"
      BY <1>2 DEF MarkFailed, At
    <2>2. NoneOpen /\ t \in Tasks /\ status[t] = "produced"
      BY <2>1 DEF StepInv, Intent
    <2>3. /\ status' = [status EXCEPT ![t] = "failed"] /\ pc'[c] = "drive"
          /\ UNCHANGED <<head, author, candidate, result, intent>>
      BY <1>2 DEF MarkFailed, GoTo, git
    <2>4. DataInv' /\ NoneOpen'
      BY <2>2, <2>3, StatusMove DEF TaskStatus
    <2>5. StepInv(c)'
      BY <2>3, <2>4 DEF StepInv
    <2>6. QED
      BY <1>1, <2>4, <2>5, OneActs
  <1>3. CASE ~MarkFailed(c)
    <2>1. DataInv' /\ StepInv(c)'
      BY <1>3, ApplyStep, CommitStep, ResetStep, ReadStep, RecordStep, RollBackStep
         DEF Integrate
    <2>2. QED
      BY <1>1, <2>1, OneActs
  <1>4. QED
    BY <1>2, <1>3

(* Every step preserves the inductive invariant.                           *)
LEMMA InvStep == IInv /\ [Next]_vars => IInv'
  <1> SUFFICES ASSUME IInv, [Next]_vars PROVE IInv'
    OBVIOUS
  <1>1. TypeOK' /\ MutualExclusion'
    BY TypeStep, MutexStep DEF IInv
  <1>2. TypeOK /\ DataInv /\ \A d \in Controllers : StepInv(d)
    BY DEF IInv
  <1>3. ASSUME NEW c \in Controllers, OpenGoal(c) \/ Lock(c) \/ Unlock(c) \/ Crash(c)
        PROVE  DataInv' /\ \A d \in Controllers : StepInv(d)'
    <2>1. /\ UNCHANGED <<head, author, candidate, status, result, intent>>
          /\ pc'[c] \in {"idle", "opened", "recover", "release"}
          /\ \A d \in Controllers \ {c} : pc'[d] = pc[d] /\ local'[d] = local[d]
      BY <1>2, <1>3 DEF OpenGoal, Lock, Unlock, Crash, GoTo, git, store, TypeOK
    <2>2. DataInv'
      BY <1>2, <2>1, DataInvKept
    <2>3. ASSUME NEW d \in Controllers PROVE StepInv(d)'
      BY <1>2, <2>1, StepInvKept, StepInvOutside
    <2>4. QED
      BY <2>2, <2>3
  <1>4. ASSUME ManualEdit \/ CleanUp \/ UNCHANGED vars
        PROVE  DataInv' /\ \A d \in Controllers : StepInv(d)'
    <2>1. UNCHANGED <<head, author, candidate, status, result, intent, pc, local>>
      BY <1>4 DEF ManualEdit, CleanUp, vars, git, store
    <2>2. DataInv'
      BY <1>2, <2>1, DataInvKept
    <2>3. ASSUME NEW d \in Controllers PROVE StepInv(d)'
      BY <1>2, <2>1, StepInvKept
    <2>4. QED
      BY <2>2, <2>3
  <1>5. ManualCommit => DataInv' /\ \A d \in Controllers : StepInv(d)'
    BY ManualStep
  <1>6. DataInv' /\ \A d \in Controllers : StepInv(d)'
    BY <1>3, <1>4, <1>5, RecoveryStep, DriveStep, IntegrateStep
       DEF Next, Controller, User
  <1>7. QED
    BY <1>1, <1>6 DEF IInv

-------------------------------------------------------------------------------
(* The inductive invariant holds in every reachable state, for any number  *)
(* of tasks, controllers, crashes and manual changes, also when the        *)
(* candidate is changed under a live controller.                           *)
THEOREM InductiveInvariant == Spec => []IInv
  <1>1. Init => IInv
    BY InitInv
  <1>2. IInv /\ [Next]_vars => IInv'
    BY InvStep
  <1>3. QED
    BY <1>1, <1>2, PTL DEF Spec

(* Variables keep their types.                                             *)
THEOREM TypeCorrect == Spec => []TypeOK
  <1>1. IInv => TypeOK
    BY DEF IInv
  <1>2. QED
    BY <1>1, InductiveInvariant, PTL

(* store.lock never lets two live controllers work on a workspace.         *)
THEOREM OneController == Spec => []MutualExclusion
  <1>1. IInv => MutualExclusion
    BY DEF IInv
  <1>2. QED
    BY <1>1, InductiveInvariant, PTL

(* recoverGoal resolves the old intent before integrate writes a new one.  *)
THEOREM OneIntegrationOpen == Spec => []OneOpenIntent
  <1>1. IInv => OneOpenIntent
    BY DEF IInv, DataInv
  <1>2. QED
    BY <1>1, InductiveInvariant, PTL

(* The revision an accepted task names stays on the candidate branch: the  *)
(* reset --hard of a failed integration never drops accepted work.         *)
THEOREM AcceptedWorkKept == Spec => []AcceptedIsInCandidate
  <1>1. IInv => AcceptedIsInCandidate
    BY DEF IInv, DataInv
  <1>2. QED
    BY <1>1, InductiveInvariant, PTL

(* No task has two commits in the candidate, however often its integration *)
(* is interrupted, rolled back, reconciled and repeated.                   *)
THEOREM NoDoubleIntegration == Spec => []IntegratedOnce
  <1>1. IInv => IntegratedOnce
    BY DEF IInv, DataInv
  <1>2. QED
    BY <1>1, InductiveInvariant, PTL


(* The four together are what integrate and recoverGoal promise about      *)
(* accepted work, whatever crashes or fails in between.                    *)
THEOREM CandidateIsSafe == Spec => []CandidateSafe
  <1>1. IInv => CandidateSafe
    BY DEF IInv, DataInv, CandidateSafe
  <1>2. QED
    BY <1>1, InductiveInvariant, PTL

-------------------------------------------------------------------------------
(* Nothing recorded is taken back: recoverGoal writes the revision it read *)
(* in git, which is at or above the recorded one, and only a task that is  *)
(* not accepted changes its status.                                        *)
LEMMA ProgressStep ==
    ASSUME IInv, [Next]_vars
    PROVE  /\ candidate' >= candidate
           /\ \A t \in Tasks : status[t] = "accepted" => status'[t] = "accepted"
  <1> DEFINE Progress == /\ candidate' >= candidate
                         /\ \A t \in Tasks : status[t] = "accepted" => status'[t] = "accepted"
  <1>1. /\ candidate \in Nat /\ \A c \in Controllers : local[c].revision \in Nat
        /\ status \in [Tasks -> TaskStatus]
        /\ \A c \in Controllers : StepInv(c)
        /\ \A i \in Intents : Open(i) => status[intent[i].task] = "produced"
    BY ConstantsAssumption
    DEF IInv, DataInv, OpenIntentInv, TypeOK, Local, Revision, ConstantsAssumption
  <1>2. ASSUME UNCHANGED <<candidate, status>> PROVE Progress
    BY <1>1, <1>2
  <1>3. ASSUME NEW c \in Controllers, Recovery(c) PROVE Progress
    <2>1. ASSUME NEW i \in Intents, Reconcile(c, i) PROVE Progress
      BY <1>1, <2>1 DEF Reconcile
    <2>2. ASSUME NEW t \in Tasks, InterruptTask(c, t) PROVE Progress
      BY <1>1, <2>2 DEF InterruptTask
    <2>3. CASE AdoptRevision(c)
      BY <1>1, <2>3 DEF AdoptRevision, At, StepInv
    <2>4. QED
      BY <1>2, <1>3, <2>1, <2>2, <2>3
      DEF Recovery, InspectCandidate, Reconciled, Interrupted, store
  <1>4. ASSUME NEW c \in Controllers, Drive(c) PROVE Progress
    <2>1. ASSUME NEW t \in Tasks, Assign(c, t) \/ Finish(c, t) \/ Retry(c, t) PROVE Progress
      BY <1>1, <2>1 DEF Assign, Finish, Retry
    <2>2. QED
      BY <1>2, <1>4, <2>1 DEF Drive, StartIntegration, Stop, store
  <1>5. ASSUME NEW c \in Controllers, Integrate(c) PROVE Progress
    <2>1. CASE RecordAccepted(c)
      BY <1>1, <2>1 DEF RecordAccepted, At, StepInv
    <2>2. CASE MarkFailed(c)
      BY <1>1, <2>2 DEF MarkFailed, At, StepInv
    <2>3. QED
      BY <1>2, <1>5, <2>1, <2>2
      DEF Integrate, ApplyPatch, CommitPatch, ResetPatch, ReadCommit, ReadFails, ArtifactFails,
          RollBack, store
  <1>6. QED
    BY <1>2, <1>3, <1>4, <1>5
    DEF Next, Controller, User, OpenGoal, Lock, Unlock, Crash, ManualCommit, ManualEdit, CleanUp,
        vars, store

(* An accepted task stays accepted and the recorded candidate never moves  *)
(* back, for any number of controllers, crashes and manual changes.        *)
THEOREM ProgressIsKept == Spec => ProgressKept
  <1>1. IInv /\ [Next]_vars =>
            [/\ candidate' >= candidate
             /\ \A t \in Tasks : status[t] = "accepted" => status'[t] = "accepted"]_vars
    BY ProgressStep
  <1>2. QED
    BY <1>1, InductiveInvariant, PTL DEF Spec, ProgressKept

-------------------------------------------------------------------------------
(* The refinement of IntegrationLedger.                                    *)

(* What happens while an integration is between its first git command and  *)
(* its end is its own commit or a manual change.                           *)
LEMMA SinceStartStep ==
    ASSUME LedgerInv, [Next]_vars
    PROVE  \A d \in Controllers : SinceStart(d)'
  <1>1. /\ IInv /\ TypeOK /\ MutualExclusion
        /\ \A d \in Controllers : StepInv(d) /\ SinceStart(d)
    BY DEF LedgerInv, IInv
  <1>2. /\ head \in Nat /\ MaxRevision \in Nat
        /\ author \in [1 .. MaxRevision -> Tasks \cup {Manual}]
        /\ pc \in [Controllers -> Step] /\ local \in [Controllers -> Local]
        /\ \A d \in Controllers : local[d].revision \in Nat
    BY <1>1, ConstantsAssumption DEF TypeOK, Local, Revision, ConstantsAssumption
  <1>3. ASSUME NEW d \in Controllers, pc'[d] \notin {"commit", "committed"}
        PROVE  SinceStart(d)'
    BY <1>3 DEF SinceStart
  <1>4. ASSUME NEW d \in Controllers, pc'[d] = pc[d], local'[d] = local[d],
               UNCHANGED <<head, author, intent>>
        PROVE  SinceStart(d)'
    BY <1>1, <1>4 DEF SinceStart
  <1>5. ASSUME NEW c \in Controllers, pc[c] \notin {"idle", "opened"},
               pc' = [pc EXCEPT ![c] = pc'[c]], SinceStart(c)'
        PROVE  \A d \in Controllers : SinceStart(d)'
    <2>1. ASSUME NEW d \in Controllers \ {c} PROVE pc'[d] \in {"idle", "opened"}
      BY <1>1, <1>2, <1>5, OthersWait
    <2>2. QED
      BY <1>3, <1>5, <2>1
  <1>6. ASSUME NEW c \in Controllers, OpenGoal(c) \/ Lock(c) \/ Unlock(c) \/ Crash(c)
        PROVE  \A d \in Controllers : SinceStart(d)'
    <2>1. /\ UNCHANGED <<head, author, intent>>
          /\ pc'[c] \notin {"commit", "committed"}
          /\ \A d \in Controllers \ {c} : pc'[d] = pc[d] /\ local'[d] = local[d]
      BY <1>2, <1>6 DEF OpenGoal, Lock, Unlock, Crash, GoTo, git, store
    <2>2. QED
      BY <1>3, <1>4, <2>1
  <1>7. ASSUME NEW c \in Controllers, Recovery(c) \/ Drive(c)
        PROVE  \A d \in Controllers : SinceStart(d)'
    <2>1. /\ pc[c] \notin {"idle", "opened"}
          /\ pc' = [pc EXCEPT ![c] = pc'[c]]
          /\ pc'[c] \notin {"commit", "committed"}
      BY <1>2, <1>7
      DEF Recovery, Drive, InspectCandidate, Reconcile, Reconciled, InterruptTask, Interrupted,
          AdoptRevision, Assign, Finish, Retry, StartIntegration, Stop, At, GoTo
    <2>2. QED
      BY <1>3, <1>5, <2>1
  <1>8. ASSUME NEW c \in Controllers, Integrate(c)
        PROVE  \A d \in Controllers : SinceStart(d)'
    <2>1. /\ pc[c] \notin {"idle", "opened"}
          /\ pc' = [pc EXCEPT ![c] = pc'[c]]
      BY <1>8
      DEF Integrate, ApplyPatch, CommitPatch, ResetPatch, ReadCommit, ReadFails,
          RecordAccepted, ArtifactFails, RollBack, MarkFailed, At, GoTo
    <2>2. CASE ApplyPatch(c)
      <3>1. local'[c].revision = head /\ head' = head
        BY <1>2, <2>2 DEF ApplyPatch, Local
      <3>2. SinceStart(c)'
        BY <1>2, <3>1 DEF SinceStart
      <3>3. QED
        BY <1>5, <2>1, <3>2
    <2>3. CASE CommitPatch(c)
      <3> DEFINE t == intent[local[c].op].task
      <3>1. /\ pc[c] = "commit" /\ head < MaxRevision /\ head' = head + 1
            /\ author' = [author EXCEPT ![head + 1] = t]
            /\ UNCHANGED <<intent, local>>
        BY <2>3 DEF CommitPatch, At, store
      <3>2. author'[head + 1] = t /\ \A r \in 1 .. head : author'[r] = author[r]
        BY <1>2, <3>1
      <3>3. \A r \in local[c].revision + 1 .. head : author[r] \in {Manual, t}
        BY <1>1, <3>1 DEF SinceStart
      <3>4. \A r \in local[c].revision + 1 .. head + 1 : author'[r] \in {Manual, t}
        BY <1>2, <3>2, <3>3
      <3>5. SinceStart(c)'
        BY <3>1, <3>4 DEF SinceStart
      <3>6. QED
        BY <1>5, <2>1, <3>5
    <2>4. CASE ~ApplyPatch(c) /\ ~CommitPatch(c)
      <3>1. pc'[c] \notin {"commit", "committed"}
        BY <1>2, <1>8, <2>4
        DEF Integrate, ResetPatch, ReadCommit, ReadFails, RecordAccepted, ArtifactFails,
            RollBack, MarkFailed, GoTo
      <3>2. QED
        BY <1>3, <1>5, <2>1, <3>1
    <2>5. QED
      BY <2>2, <2>3, <2>4
  <1>9. CASE ManualCommit
    <2>1. /\ head < MaxRevision /\ head' = head + 1
          /\ author' = [author EXCEPT ![head + 1] = Manual]
          /\ UNCHANGED <<intent, pc, local>>
      BY <1>9 DEF ManualCommit, store
    <2>2. author'[head + 1] = Manual /\ \A r \in 1 .. head : author'[r] = author[r]
      BY <1>2, <2>1
    <2>3. ASSUME NEW d \in Controllers, pc[d] \in {"commit", "committed"},
                 NEW r \in local[d].revision + 1 .. head + 1
          PROVE  author'[r] \in {Manual, intent[local[d].op].task}
      BY <1>1, <1>2, <2>2, <2>3 DEF SinceStart
    <2>4. QED
      BY <2>1, <2>3 DEF SinceStart
  <1>10. CASE ManualEdit \/ CleanUp \/ UNCHANGED vars
    <2>1. UNCHANGED <<head, author, intent, pc, local>>
      BY <1>10 DEF ManualEdit, CleanUp, vars, git, store
    <2>2. QED
      BY <1>4, <2>1
  <1>11. QED
    BY <1>6, <1>7, <1>8, <1>9, <1>10 DEF Next, Controller, User

(* Whoever landed is booked or is the task of the only open intent.        *)
LEMMA LandedOrOpen ==
    ASSUME IInv, NEW i \in Intents, Open(i)
    PROVE  /\ intent[i].task \in Tasks \ Booked
           /\ Landed \subseteq Booked \cup {intent[i].task}
  <1>1. TypeOK /\ DataInv
    BY DEF IInv
  <1>2. intent[i].task \in Tasks /\ status[intent[i].task] = "produced"
    BY <1>1, OpenIsIntent DEF Intent, DataInv, OpenIntentInv
  <1>3. \A r \in 1 .. head : author[r] \in Tasks \cup {Manual}
    BY <1>1, ConstantsAssumption DEF TypeOK, Revision, ConstantsAssumption
  <1>4. \A r \in 1 .. head : author[r] \in Tasks =>
            status[author[r]] = "accepted" \/ author[r] = intent[i].task
    BY <1>1 DEF DataInv, LandedInv, OneOpenIntent
  <1>5. QED
    BY <1>2, <1>3, <1>4 DEF Landed, Booked

LEMMA LandStep ==
    ASSUME IInv, NEW c \in Controllers, CommitPatch(c)
    PROVE  Ledger!Land(intent[local[c].op].task)
  <1> DEFINE t == intent[local[c].op].task
  <1>1. /\ TypeOK /\ StepInv(c) /\ pc[c] = "commit"
    BY DEF IInv, CommitPatch, At
  <1>2. /\ t \in Tasks /\ status[t] = "produced" /\ head \in Nat /\ BookedUpTo(head)
    BY <1>1, Working DEF WorkingOn, StepInv
  <1>3. /\ head < MaxRevision /\ MaxRevision \in Nat /\ Manual \notin Tasks
        /\ author \in [1 .. MaxRevision -> Tasks \cup {Manual}]
        /\ head' = head + 1 /\ author' = [author EXCEPT ![head + 1] = t]
        /\ status' = status
    BY <1>1, ConstantsAssumption DEF CommitPatch, store, TypeOK, ConstantsAssumption
  <1>4. author'[head + 1] = t /\ \A r \in 1 .. head : author'[r] = author[r]
    BY <1>2, <1>3
  <1>5. Landed \subseteq Booked
    <2>1. ASSUME NEW r \in 1 .. head, author[r] # Manual PROVE author[r] \in Booked
      BY <1>2, <1>3, <2>1 DEF BookedUpTo, Booked
    <2>2. QED
      BY <2>1 DEF Landed
  <1>6. t \notin Booked /\ Booked' = Booked
    BY <1>2, <1>3 DEF Booked
  <1>7. Landed' = Landed \cup {t}
    <2>1. 1 .. head' = (1 .. head) \cup {head + 1} /\ t # Manual
      BY <1>2, <1>3
    <2>2. QED
      BY <1>4, <2>1 DEF Landed
  <1>8. QED
    BY <1>5, <1>6, <1>7 DEF Ledger!Land

(* The reset takes back the commit of the integration, if it was made.     *)
LEMMA WithdrawStep ==
    ASSUME LedgerInv, NEW c \in Controllers, ResetPatch(c)
    PROVE  \/ Ledger!Withdraw(intent[local[c].op].task)
           \/ UNCHANGED <<Landed, Booked>>
  <1> DEFINE t == intent[local[c].op].task
             rev == local[c].revision
  <1>1. /\ IInv /\ TypeOK /\ StepInv(c) /\ SinceStart(c) /\ pc[c] \in {"commit", "committed"}
    BY DEF LedgerInv, IInv, ResetPatch
  <1>2. /\ t \in Tasks /\ status[t] = "produced" /\ head \in Nat /\ rev \in Nat
        /\ rev <= head /\ BookedUpTo(rev)
    BY <1>1, Working DEF WorkingOn, StepInv
  <1>3. /\ head' = rev /\ author' = author /\ status' = status /\ Manual \notin Tasks
    BY <1>1, ConstantsAssumption DEF ResetPatch, store, ConstantsAssumption
  <1>4. Booked' = Booked /\ t \notin Booked /\ t # Manual
    BY <1>2, <1>3 DEF Booked
  <1>5. \A r \in rev + 1 .. head : author[r] \in {Manual, t}
    BY <1>1 DEF SinceStart
  <1>6. \A r \in 1 .. rev : author[r] # t
    BY <1>2 DEF BookedUpTo
  <1>7. 1 .. head = (1 .. rev) \cup (rev + 1 .. head)
    BY <1>2
  <1>8. Landed' = Landed \ {t}
    BY <1>3, <1>5, <1>6, <1>7 DEF Landed
  <1>9. CASE t \in Landed
    BY <1>4, <1>8, <1>9 DEF Ledger!Withdraw
  <1>10. CASE t \notin Landed
    BY <1>4, <1>8, <1>10
  <1>11. QED
    BY <1>9, <1>10

(* Recorded by the integration or by the recovery: both book the task of   *)
(* the open intent.                                                        *)
LEMMA BookStep ==
    ASSUME IInv, NEW i \in Intents, Open(i),
           status' = [status EXCEPT ![intent[i].task] = "accepted"],
           UNCHANGED <<head, author>>
    PROVE  Ledger!Book(intent[i].task)
  <1> DEFINE t == intent[i].task
  <1>1. t \in Tasks \ Booked /\ Landed \subseteq Booked \cup {t}
    BY LandedOrOpen
  <1>2. status \in [Tasks -> TaskStatus]
    BY DEF IInv, TypeOK
  <1>3. Booked' = Booked \cup {t} /\ Landed' = Landed
    BY <1>1, <1>2 DEF Booked, Landed
  <1>4. QED
    BY <1>1, <1>3 DEF Ledger!Book

LEMMA LedgerStep ==
    ASSUME LedgerInv, [Next]_vars
    PROVE  \/ \E t \in Tasks : Ledger!Land(t) \/ Ledger!Withdraw(t) \/ Ledger!Book(t)
           \/ UNCHANGED <<Landed, Booked>>
  <1> DEFINE Simulated == \/ \E t \in Tasks : Ledger!Land(t) \/ Ledger!Withdraw(t) \/ Ledger!Book(t)
                          \/ UNCHANGED <<Landed, Booked>>
  <1>1. /\ IInv /\ TypeOK /\ head \in Nat /\ MaxRevision \in Nat /\ Manual \notin Tasks
        /\ status \in [Tasks -> TaskStatus]
        /\ author \in [1 .. MaxRevision -> Tasks \cup {Manual}]
        /\ \A c \in Controllers : StepInv(c)
    BY ConstantsAssumption DEF LedgerInv, IInv, TypeOK, Revision, ConstantsAssumption
  <1>2. ASSUME UNCHANGED <<head, author, status>> PROVE Simulated
    BY <1>2 DEF Landed, Booked
  <1>3. ASSUME NEW t \in Tasks, status[t] # "accepted",
               NEW s \in TaskStatus \ {"accepted"}, status' = [status EXCEPT ![t] = s],
               UNCHANGED <<head, author>>
        PROVE  Simulated
    BY <1>1, <1>3 DEF Landed, Booked
  <1>4. ASSUME NEW c \in Controllers, Recovery(c) PROVE Simulated
    <2>1. ASSUME NEW i \in Intents, Reconcile(c, i) PROVE Simulated
      <3>1. Open(i) /\ UNCHANGED <<head, author>>
        BY <2>1 DEF Reconcile, git
      <3>2. CASE status' = [status EXCEPT ![intent[i].task] = "accepted"]
        BY <1>1, <3>1, <3>2, BookStep, LandedOrOpen
      <3>3. CASE status' = status
        BY <1>2, <3>1, <3>3
      <3>4. QED
        BY <2>1, <3>2, <3>3 DEF Reconcile
    <2>2. ASSUME NEW t \in Tasks, InterruptTask(c, t) PROVE Simulated
      BY <1>3, <2>2 DEF InterruptTask, git, TaskStatus
    <2>3. QED
      BY <1>2, <1>4, <2>1, <2>2
      DEF Recovery, InspectCandidate, Reconciled, Interrupted, AdoptRevision, store, git
  <1>5. ASSUME NEW c \in Controllers, Drive(c) PROVE Simulated
    <2>1. ASSUME NEW t \in Tasks, Assign(c, t) \/ Finish(c, t) \/ Retry(c, t) PROVE Simulated
      BY <1>3, <2>1 DEF Assign, Finish, Retry, git, TaskStatus
    <2>2. QED
      BY <1>2, <1>5, <2>1 DEF Drive, StartIntegration, Stop, store, git
  <1>6. ASSUME NEW c \in Controllers, Integrate(c) PROVE Simulated
    <2>1. CASE CommitPatch(c)
      <3>1. intent[local[c].op].task \in Tasks
        BY <1>1, <2>1, Working DEF CommitPatch, At
      <3>2. QED
        BY <1>1, <2>1, <3>1, LandStep
    <2>2. CASE ResetPatch(c)
      <3>1. intent[local[c].op].task \in Tasks
        BY <1>1, <2>2, Working DEF ResetPatch
      <3>2. QED
        BY <2>2, <3>1, WithdrawStep
    <2>3. CASE RecordAccepted(c)
      <3> DEFINE i == local[c].op
      <3>1. i \in Intents /\ Open(i)
        BY <1>1, <2>3, Working DEF RecordAccepted, At, WorkingOn
      <3>2. status' = [status EXCEPT ![intent[i].task] = "accepted"] /\ UNCHANGED <<head, author>>
        BY <2>3 DEF RecordAccepted, git
      <3>3. QED
        BY <1>1, <3>1, <3>2, BookStep, LandedOrOpen
    <2>4. CASE MarkFailed(c)
      <3>1. /\ intent[local[c].op].task \in Tasks
            /\ status[intent[local[c].op].task] # "accepted"
        BY <1>1, <2>4 DEF MarkFailed, At, StepInv, Intent
      <3>2. QED
        BY <1>3, <2>4, <3>1 DEF MarkFailed, git, TaskStatus
    <2>5. QED
      BY <1>2, <1>6, <2>1, <2>2, <2>3, <2>4
      DEF Integrate, ApplyPatch, ReadCommit, ReadFails, ArtifactFails, RollBack, store, git
  <1>7. CASE ManualCommit
    <2>1. /\ head < MaxRevision /\ head' = head + 1 /\ status' = status
          /\ author' = [author EXCEPT ![head + 1] = Manual]
      BY <1>7 DEF ManualCommit, store
    <2>2. author'[head + 1] = Manual /\ \A r \in 1 .. head : author'[r] = author[r]
      BY <1>1, <2>1
    <2>3. 1 .. head' = (1 .. head) \cup {head + 1}
      BY <1>1, <2>1
    <2>4. Landed' = Landed
      BY <2>2, <2>3 DEF Landed
    <2>5. QED
      BY <2>1, <2>4 DEF Booked
  <1>8. QED
    BY <1>2, <1>4, <1>5, <1>6, <1>7
    DEF Next, Controller, User, OpenGoal, Lock, Unlock, Crash, ManualEdit, CleanUp, vars, git, store

(* The integration of tasks implements the ledger, for any number of       *)
(* controllers, crashes and manual changes: the work of one task at a time *)
(* lands, it is withdrawn only before it is booked, and nothing is booked  *)
(* or landed twice.                                                        *)
THEOREM ImplementsLedger == Spec => LedgerSpec
  <1>1. Init => LedgerInv
    BY InitInv DEF LedgerInv, SinceStart, Init
  <1>2. LedgerInv /\ [Next]_vars => LedgerInv'
    BY InvStep, SinceStartStep DEF LedgerInv
  <1>3. Init => Ledger!Init
    BY DEF Init, Ledger!Init, Landed, Booked
  <1>4. LedgerInv /\ [Next]_vars => [Ledger!Next]_(Ledger!vars)
    BY LedgerStep DEF Ledger!Next, Ledger!vars
  <1>5. QED
    BY <1>1, <1>2, <1>3, <1>4, PTL DEF Spec, LedgerSpec, Ledger!Spec

-------------------------------------------------------------------------------
(* What is recorded and what is announced.                                 *)

(* The facts the steps below share.                                        *)
LEMMA Accounts ==
    ASSUME AccountInv
    PROVE  /\ IInv /\ TypeOK /\ DataInv /\ Settled
           /\ \A c \in Controllers : StepInv(c) /\ SettledStep(c)
           /\ head \in Nat /\ candidate \in Nat /\ candidate <= head
           /\ MaxRevision \in Nat /\ Manual \notin Tasks
           /\ author \in [1 .. MaxRevision -> Tasks \cup {Manual}]
           /\ pc \in [Controllers -> Step] /\ local \in [Controllers -> Local]
           /\ intent \in [Intents -> {NoIntent} \cup Intent]
           /\ \A c \in Controllers : local[c].revision \in Nat /\ local[c].goal \in Nat
           /\ \A i \in Intents : Open(i) => /\ intent[i] \in Intent
                                            /\ intent[i].before \in Nat
                                            /\ intent[i].before <= candidate
  <1>1. IInv /\ TypeOK /\ DataInv /\ Settled /\ \A c \in Controllers : StepInv(c) /\ SettledStep(c)
    BY DEF AccountInv, IInv
  <1>2. /\ head \in Nat /\ candidate \in Nat /\ candidate <= head
        /\ MaxRevision \in Nat /\ Manual \notin Tasks
        /\ author \in [1 .. MaxRevision -> Tasks \cup {Manual}]
        /\ pc \in [Controllers -> Step] /\ local \in [Controllers -> Local]
        /\ intent \in [Intents -> {NoIntent} \cup Intent]
        /\ \A c \in Controllers : local[c].revision \in Nat /\ local[c].goal \in Nat
    BY <1>1, ConstantsAssumption DEF DataInv, TypeOK, Local, Revision, ConstantsAssumption
  <1>3. \A i \in Intents : Open(i) => /\ intent[i] \in Intent
                                      /\ intent[i].before \in Nat
                                      /\ intent[i].before <= candidate
    BY <1>1, OpenIsIntent, ConstantsAssumption
    DEF DataInv, OpenIntentInv, Intent, Revision, ConstantsAssumption
  <1>4. QED
    BY <1>1, <1>2, <1>3

(* A step of one controller leaves the others waiting for the lock, with a *)
(* record that the candidate has at most passed.                           *)
LEMMA OneSettles ==
    ASSUME AccountInv, [Next]_vars, NEW c \in Controllers, pc[c] \notin {"idle", "opened"},
           pc' = [pc EXCEPT ![c] = pc'[c]],
           \A d \in Controllers \ {c} : local'[d] = local[d],
           SettledStep(c)'
    PROVE  \A d \in Controllers : SettledStep(d)'
  <1>1. /\ MutualExclusion /\ pc \in [Controllers -> Step] /\ IInv
        /\ \A d \in Controllers : SettledStep(d) /\ local[d].goal \in Nat
        /\ candidate \in Nat /\ candidate' \in Nat
    BY SMTT(30), Accounts, TypeStep, ConstantsAssumption DEF IInv, TypeOK, Revision, ConstantsAssumption
  <1>2. candidate' >= candidate
    BY <1>1, ProgressStep
  <1>3. ASSUME NEW d \in Controllers \ {c} PROVE SettledStep(d)'
    <2>1. pc'[d] = pc[d] /\ pc[d] \in {"idle", "opened"}
      BY <1>1, <1>3, OthersWait
    <2>2. QED
      BY <1>1, <1>2, <2>1 DEF SettledStep
  <1>4. QED
    BY <1>3

LEMMA SettledKept ==
    ASSUME Settled, UNCHANGED <<head, author, candidate, intent, drift>>
    PROVE  Settled'
  BY DEF Settled, DriftNotAdopted, NoManualUpTo, Announced, Open

LEMMA SettledStepOutside ==
    ASSUME NEW c \in Controllers, pc'[c] \in {"idle", "release"}
    PROVE  SettledStep(c)'
  BY DEF SettledStep

(* The revision git is at when an open intent is the only explanation: it  *)
(* is the recorded candidate, or one commit of a task above it.            *)
LEMMA NoManualAnnounced ==
    ASSUME AccountInv, NEW i \in Intents, Open(i), Announced(i)
    PROVE  NoManualUpTo(head)
  <1>1. /\ intent[i].before \in Nat /\ intent[i].before <= candidate /\ candidate \in Nat
        /\ intent[i].task # Manual /\ head = intent[i].before + 1 /\ author[head] = intent[i].task
        /\ DriftNotAdopted
    BY Accounts DEF Announced, Intent, Settled
  <1>2. \A r \in 1 .. intent[i].before : author[r] # Manual
    BY <1>1 DEF DriftNotAdopted
  <1>3. \A r \in 1 .. head : r \in 1 .. intent[i].before \/ r = head
    BY <1>1
  <1>4. QED
    BY <1>1, <1>2, <1>3 DEF NoManualUpTo

LEMMA SettledRecovery ==
    ASSUME AccountInv, [Next]_vars, NEW c \in Controllers, Recovery(c)
    PROVE  Settled' /\ \A d \in Controllers : SettledStep(d)'
  <1>1. /\ Settled /\ DriftNotAdopted /\ StepInv(c) /\ SettledStep(c)
        /\ head \in Nat /\ candidate \in Nat /\ candidate <= head
        /\ pc \in [Controllers -> Step] /\ local \in [Controllers -> Local]
        /\ intent \in [Intents -> {NoIntent} \cup Intent]
        /\ local[c].revision \in Nat /\ local[c].goal \in Nat
    BY Accounts DEF Settled
  <1>2. /\ pc[c] \notin {"idle", "opened"} /\ pc' = [pc EXCEPT ![c] = pc'[c]]
        /\ \A d \in Controllers \ {c} : local'[d] = local[d]
        /\ UNCHANGED <<head, author, drift>>
    BY <1>1
    DEF Recovery, InspectCandidate, Reconcile, Reconciled, InterruptTask, Interrupted,
        AdoptRevision, At, GoTo, git, env
  <1>3. SUFFICES Settled' /\ SettledStep(c)'
    BY <1>2, OneSettles
  <1>4. CASE InspectCandidate(c)
    <2>1. pc[c] = "recover" /\ UNCHANGED <<candidate, intent>>
      BY <1>4 DEF InspectCandidate, At, store
    <2>2. Settled'
      BY <1>1, <1>2, <2>1, SettledKept
    <2>3. CASE pc'[c] = "release"
      BY <2>2, <2>3, SettledStepOutside
    <2>4. CASE pc'[c] # "release"
      <3>1. /\ pc'[c] = "reconcile" /\ local'[c].revision = head
            /\ head = local[c].goal \/ ~NoneOpen
        BY <1>1, <1>4, <2>4 DEF InspectCandidate, RefuseCandidate, GoTo, Local
      <3>2. local[c].goal <= candidate
        BY <1>1, <2>1 DEF SettledStep
      <3>3. NoneOpen' => NoManualUpTo(head)'
        BY <1>1, <1>2, <2>1, <3>1, <3>2 DEF NoneOpen, Open, NoManualUpTo, DriftNotAdopted
      <3>4. QED
        BY <1>2, <2>2, <3>1, <3>3 DEF SettledStep
    <2>5. QED
      BY <2>3, <2>4
  <1>5. ASSUME NEW i \in Intents, Reconcile(c, i) PROVE Settled' /\ SettledStep(c)'
    <2>1. /\ pc[c] = "reconcile" /\ Open(i) /\ UNCHANGED <<candidate, local>>
          /\ local[c].revision = head
      BY <1>1, <1>5 DEF Reconcile, At, SettledStep
    <2>2. /\ intent[i] \in Intent /\ intent[i].before \in Nat /\ intent[i].before <= candidate
      BY <2>1, Accounts
    <2>3. CASE intent' = intent
      <3>1. pc'[c] = "release"
        BY <1>1, <1>5, <2>1, <2>2, <2>3 DEF Reconcile, GoTo, Open, Intent
      <3>2. QED
        BY <1>1, <1>2, <2>1, <2>3, <3>1, SettledKept, SettledStepOutside
    <2>4. CASE intent' = [intent EXCEPT ![i].status = "completed"]
      <3>1. /\ intent'[i] \in Intent /\ intent'[i].before = intent[i].before
            /\ intent'[i].task = intent[i].task /\ intent'[i].status = "completed"
            /\ \A j \in Intents \ {i} : intent'[j] = intent[j]
        BY <1>1, <2>2, <2>4 DEF Intent
      <3>2. \A j \in Intents : Announced(j)' <=> Announced(j)
        BY <1>2, <3>1 DEF Announced
      <3>3. \A j \in Intents : Open(j)' => Open(j) /\ intent'[j] = intent[j]
        BY <3>1 DEF Open
      <3>4. (\E j \in Intents : intent[j] \in Intent /\ intent[j].before = candidate /\ Announced(j))
            => (\E j \in Intents : intent[j] \in Intent /\ intent[j].before = candidate /\ Announced(j))'
        BY <2>1, <3>1, <3>2
      <3>5. Settled'
        BY <1>1, <1>2, <2>1, <3>3, <3>4 DEF Settled, DriftNotAdopted, NoManualUpTo
      <3>6. NoManualUpTo(head)
        <4>1. CASE head = intent[i].before
          BY <1>1, <2>2, <4>1 DEF NoManualUpTo, DriftNotAdopted
        <4>2. CASE head # intent[i].before
          <5>1. Announced(i)
            BY <1>5, <2>1, <2>2, <2>4, <3>1, <4>2 DEF Reconcile, Open
          <5>2. QED
            BY <2>1, <5>1, NoManualAnnounced
        <4>3. QED
          BY <4>1, <4>2
      <3>7. pc'[c] \in {"reconcile", "release"}
        BY <1>1, <1>5, <2>1 DEF Reconcile, GoTo
      <3>8. QED
        BY <1>2, <2>1, <3>5, <3>6, <3>7 DEF SettledStep, NoManualUpTo
    <2>5. QED
      BY <1>5, <2>3, <2>4 DEF Reconcile
  <1>6. CASE Reconciled(c)
    BY <1>1, <1>2, <1>6, SettledKept DEF Reconciled, At, GoTo, store, SettledStep, NoManualUpTo
  <1>7. ASSUME NEW t \in Tasks, InterruptTask(c, t) PROVE Settled' /\ SettledStep(c)'
    BY <1>1, <1>2, <1>7, SettledKept DEF InterruptTask, At, SettledStep, NoManualUpTo
  <1>8. CASE Interrupted(c)
    BY <1>1, <1>2, <1>8, SettledKept DEF Interrupted, At, GoTo, store, SettledStep, NoManualUpTo
  <1>9. CASE AdoptRevision(c)
    <2>1. /\ pc[c] = "adopt" /\ pc'[c] = "drive" /\ candidate' = head /\ intent' = intent
          /\ NoManualUpTo(head)
      BY <1>1, <1>9 DEF AdoptRevision, At, GoTo, SettledStep
    <2>2. Settled'
      BY <1>1, <1>2, <2>1 DEF Settled, DriftNotAdopted, NoManualUpTo, Open
    <2>3. QED
      BY <1>2, <2>1, <2>2 DEF SettledStep
  <1>10. QED
    BY <1>4, <1>5, <1>6, <1>7, <1>8, <1>9 DEF Recovery

LEMMA SettledDrive ==
    ASSUME AccountInv, [Next]_vars, NEW c \in Controllers, Drive(c)
    PROVE  Settled' /\ \A d \in Controllers : SettledStep(d)'
  <1>1. /\ Settled /\ StepInv(c) /\ SettledStep(c)
        /\ head \in Nat /\ candidate \in Nat
        /\ pc \in [Controllers -> Step] /\ local \in [Controllers -> Local]
        /\ intent \in [Intents -> {NoIntent} \cup Intent]
    BY Accounts
  <1>2. /\ pc[c] = "drive" /\ pc' = [pc EXCEPT ![c] = pc'[c]]
        /\ \A d \in Controllers \ {c} : local'[d] = local[d]
        /\ UNCHANGED <<head, author, candidate, drift>>
    BY <1>1 DEF Drive, Assign, Finish, Retry, StartIntegration, Stop, At, GoTo, git, env, store
  <1>3. head = candidate /\ NoneOpen
    BY <1>1, <1>2 DEF SettledStep, StepInv
  <1>4. SUFFICES Settled' /\ SettledStep(c)'
    BY <1>2, OneSettles
  <1>5. CASE intent' = intent
    <2>1. pc'[c] \in {"drive", "release"}
      <3>1. ASSUME NEW t \in Tasks, NEW i \in Intents, StartIntegration(c, t, i) PROVE FALSE
        BY <1>1, <1>5, <3>1 DEF StartIntegration, NoIntent
      <3>2. QED
        BY <1>1, <1>2, <3>1 DEF Drive, Assign, Finish, Retry, Stop, At, GoTo
    <2>2. QED
      BY <1>1, <1>2, <1>3, <1>5, <2>1, SettledKept DEF SettledStep
  <1>6. ASSUME NEW t \in Tasks, NEW i \in Intents, StartIntegration(c, t, i)
        PROVE  Settled' /\ SettledStep(c)'
    <2>1. /\ intent' = [intent EXCEPT ![i] =
                          [status |-> "started", task |-> t, before |-> candidate]]
          /\ pc'[c] = "apply"
      BY <1>1, <1>6 DEF StartIntegration, GoTo
    <2>2. \A j \in Intents : Open(j)' => j = i
      BY <1>1, <1>3, <2>1 DEF NoneOpen, Open
    <2>3. intent'[i].before = candidate
      BY <1>1, <2>1
    <2>4. Settled'
      BY <1>1, <1>2, <1>3, <2>2, <2>3 DEF Settled, DriftNotAdopted, NoManualUpTo
    <2>5. QED
      BY <1>2, <1>3, <2>1, <2>4 DEF SettledStep
  <1>7. QED
    BY <1>5, <1>6 DEF Drive, Assign, Finish, Retry, Stop, store

LEMMA SettledIntegrate ==
    ASSUME AccountInv, [Next]_vars, NEW c \in Controllers, Integrate(c)
    PROVE  Settled' /\ \A d \in Controllers : SettledStep(d)'
  <1> DEFINE i == local[c].op
  <1>1. /\ Settled /\ DriftNotAdopted /\ StepInv(c) /\ SettledStep(c)
        /\ head \in Nat /\ candidate \in Nat /\ candidate <= head
        /\ MaxRevision \in Nat /\ Manual \notin Tasks
        /\ author \in [1 .. MaxRevision -> Tasks \cup {Manual}]
        /\ pc \in [Controllers -> Step] /\ local \in [Controllers -> Local]
        /\ intent \in [Intents -> {NoIntent} \cup Intent]
        /\ local[c].revision \in Nat
    BY Accounts DEF Settled
  <1>2. /\ pc[c] \notin {"idle", "opened"} /\ pc' = [pc EXCEPT ![c] = pc'[c]]
        /\ \A d \in Controllers \ {c} : local'[d] = local[d]
        /\ local'[c].op = i /\ drift' = drift
    BY <1>1
    DEF Integrate, ApplyPatch, CommitPatch, ResetPatch, ReadCommit, ReadFails, RecordAccepted,
        ArtifactFails, RollBack, MarkFailed, At, GoTo, env, Local
  <1>3. SUFFICES Settled' /\ SettledStep(c)'
    BY <1>2, OneSettles
  <1>4. pc[c] # "failing" =>
            /\ i \in Intents /\ Open(i) /\ intent[i] \in Intent /\ intent[i].task \in Tasks
            /\ intent[i].before = candidate /\ local[c].goal = candidate
            /\ \A j \in Intents : Open(j) => j = i
    <2>1. pc[c] # "failing" => pc[c] \in {"apply", "commit", "committed", "record", "error"}
      BY DEF Integrate, ApplyPatch, CommitPatch, ResetPatch, ReadCommit, ReadFails,
             RecordAccepted, ArtifactFails, RollBack, MarkFailed, At
    <2>2. QED
      BY <2>1, Accounts, Working, WorkingOnIntent DEF WorkingOn
  <1>5. ASSUME UNCHANGED <<head, author, candidate, intent>>,
               \/ pc'[c] \in {"idle", "release"}
               \/ pc'[c] \in {"drive", "commit"} /\ head = candidate
               \/ pc'[c] \in {"record", "error"} /\ (head = candidate \/ Announced(i)),
               pc'[c] \in {"commit", "record"} => local'[c].revision = head
        PROVE  Settled' /\ SettledStep(c)'
    <2>1. Announced(i) => Announced(i)'
      BY <1>2, <1>5 DEF Announced
    <2>2. QED
      BY <1>1, <1>2, <1>5, <2>1, SettledKept DEF SettledStep
  <1>6. CASE ApplyPatch(c)
    <2>1. /\ pc[c] = "apply" /\ pc'[c] \in {"error", "record", "commit"}
          /\ local'[c].revision = head /\ UNCHANGED <<head, author, candidate, intent>>
      BY <1>1, <1>6 DEF ApplyPatch, At, GoTo, store, Local
    <2>2. head = candidate
      BY <1>1, <2>1 DEF SettledStep
    <2>3. QED
      BY <1>5, <2>1, <2>2
  <1>7. CASE CommitPatch(c)
    <2>1. /\ pc[c] = "commit" /\ pc'[c] = "committed" /\ head < MaxRevision
          /\ head' = head + 1 /\ author' = [author EXCEPT ![head + 1] = intent[i].task]
          /\ UNCHANGED <<candidate, intent, local>>
      BY <1>1, <1>7 DEF CommitPatch, At, GoTo, store
    <2>2. head = candidate /\ local[c].revision = candidate
      BY <1>1, <2>1 DEF SettledStep
    <2>3. author'[head + 1] = intent[i].task /\ \A r \in 1 .. head : author'[r] = author[r]
      BY <1>1, <2>1
    <2>4. Announced(i)'
      BY <1>2, <1>4, <2>1, <2>2, <2>3 DEF Announced
    <2>5. NoManualUpTo(head)'
      BY <1>1, <1>4, <2>1, <2>2, <2>3 DEF NoManualUpTo, DriftNotAdopted
    <2>6. DriftNotAdopted'
      BY <1>1, <2>1, <2>2, <2>3 DEF DriftNotAdopted
    <2>7. \A j \in Intents : Open(j)' => (head <= intent[j].before + 1)'
      BY <1>1, <1>4, <2>1, <2>2 DEF Open
    <2>8. Settled'
      BY <1>4, <2>1, <2>4, <2>5, <2>6, <2>7 DEF Settled
    <2>9. QED
      BY <1>2, <2>1, <2>2, <2>4, <2>8 DEF SettledStep
  <1>8. CASE ResetPatch(c)
    <2>1. /\ pc'[c] = "error" /\ head' = candidate /\ UNCHANGED <<author, candidate, intent>>
      BY <1>1, <1>8 DEF ResetPatch, GoTo, store, SettledStep
    <2>2. \A j \in Intents : Open(j)' => (head <= intent[j].before + 1)'
      BY <1>1, <1>4, <1>8, <2>1 DEF Open, ResetPatch
    <2>3. Settled'
      BY <1>1, <2>1, <2>2 DEF Settled, NoManualUpTo, DriftNotAdopted
    <2>4. QED
      BY <2>1, <2>3 DEF SettledStep
  <1>9. CASE ReadCommit(c)
    <2>1. /\ pc[c] = "committed" /\ pc'[c] = "record" /\ local'[c].revision = head
          /\ UNCHANGED <<head, author, candidate, intent>>
      BY <1>1, <1>9 DEF ReadCommit, At, GoTo, git, store, Local
    <2>2. Announced(i)
      BY <1>1, <2>1 DEF SettledStep
    <2>3. QED
      BY <1>5, <2>1, <2>2
  <1>10. CASE ReadFails(c) \/ ArtifactFails(c)
    <2>1. /\ pc[c] \in {"committed", "record"} /\ pc'[c] = "error"
          /\ UNCHANGED <<head, author, candidate, intent>>
      BY <1>1, <1>10 DEF ReadFails, ArtifactFails, At, GoTo, git, store
    <2>2. head = candidate \/ Announced(i)
      BY <1>1, <2>1 DEF SettledStep
    <2>3. QED
      BY <1>5, <2>1, <2>2
  <1>11. CASE RecordAccepted(c)
    <2>1. /\ pc[c] = "record" /\ pc'[c] = "drive" /\ candidate' = local[c].revision
          /\ intent' = [intent EXCEPT ![i].status = "completed"]
          /\ UNCHANGED <<head, author>>
      BY <1>1, <1>11 DEF RecordAccepted, At, GoTo, git
    <2>2. candidate' = head /\ (head = candidate \/ Announced(i))
      BY <1>1, <2>1 DEF SettledStep
    <2>3. NoManualUpTo(head)
      <3>1. CASE head = candidate
        BY <1>1, <3>1 DEF NoManualUpTo, DriftNotAdopted
      <3>2. CASE Announced(i)
        BY <1>4, <2>1, <3>2, NoManualAnnounced
      <3>3. QED
        BY <2>2, <3>1, <3>2
    <2>4. \A j \in Intents : ~Open(j)'
      BY <1>1, <1>4, <2>1 DEF Open
    <2>5. Settled'
      BY <2>1, <2>2, <2>3, <2>4 DEF Settled, NoManualUpTo, DriftNotAdopted
    <2>6. QED
      BY <2>1, <2>2, <2>5 DEF SettledStep
  <1>12. CASE RollBack(c)
    <2>1. pc[c] = "error" /\ UNCHANGED <<head, author, candidate>>
      BY <1>12 DEF RollBack, At, git
    <2>2. CASE head # local[c].goal
      <3>1. pc'[c] = "release" /\ intent' = intent
        BY <1>1, <1>12, <2>2 DEF RollBack, GoTo
      <3>2. QED
        BY <1>5, <2>1, <3>1
    <2>3. CASE head = local[c].goal
      <3>1. pc'[c] = "failing" /\ intent' = [intent EXCEPT ![i].status = "completed"]
        BY <1>1, <1>12, <2>3 DEF RollBack, GoTo
      <3>2. head = candidate
        BY <1>4, <2>1, <2>3
      <3>3. \A j \in Intents : ~Open(j)'
        BY <1>1, <1>4, <2>1, <3>1 DEF Open
      <3>4. Settled'
        BY <1>1, <1>2, <2>1, <3>2, <3>3 DEF Settled, NoManualUpTo, DriftNotAdopted
      <3>5. QED
        BY <2>1, <3>1, <3>2, <3>4 DEF SettledStep
    <2>4. QED
      BY <2>2, <2>3
  <1>13. CASE MarkFailed(c)
    <2>1. /\ pc[c] = "failing" /\ pc'[c] = "drive"
          /\ UNCHANGED <<head, author, candidate, intent>>
      BY <1>1, <1>13 DEF MarkFailed, At, GoTo, git
    <2>2. head = candidate
      BY <1>1, <2>1 DEF SettledStep
    <2>3. QED
      BY <1>5, <2>1, <2>2
  <1>14. QED
    BY <1>6, <1>7, <1>8, <1>9, <1>10, <1>11, <1>12, <1>13 DEF Integrate

(* A commit by hand, while no controller is at work.                       *)
LEMMA SettledManual ==
    ASSUME LiveDrift = FALSE, AccountInv, ManualCommit
    PROVE  Settled' /\ \A d \in Controllers : SettledStep(d)'
  <1>1. /\ Settled /\ DriftNotAdopted /\ MutualExclusion
        /\ head \in Nat /\ candidate \in Nat /\ candidate <= head
        /\ MaxRevision \in Nat /\ drift \in Nat
        /\ author \in [1 .. MaxRevision -> Tasks \cup {Manual}]
        /\ \A d \in Controllers : SettledStep(d)
    BY Accounts, ConstantsAssumption DEF Settled, IInv, TypeOK, ConstantsAssumption
  <1>2. /\ lock \notin Controllers /\ drift' = drift + 1
        /\ head < MaxRevision /\ author' = [author EXCEPT ![head + 1] = Manual]
        /\ UNCHANGED <<candidate, pc, local>>
    BY DEF ManualCommit, MayDrift, store
  <1>3. Settled'
    BY <1>1, <1>2 DEF Settled, DriftNotAdopted
  <1>4. \A d \in Controllers : pc[d] \in {"idle", "opened"}
    BY <1>1, <1>2 DEF MutualExclusion
  <1>5. \A d \in Controllers : SettledStep(d)'
    BY <1>1, <1>2, <1>4 DEF SettledStep
  <1>6. QED
    BY <1>3, <1>5

LEMMA AccountStep == LiveDrift = FALSE /\ AccountInv /\ [Next]_vars => AccountInv'
  <1> SUFFICES ASSUME LiveDrift = FALSE, AccountInv, [Next]_vars PROVE AccountInv'
    OBVIOUS
  <1>1. /\ IInv /\ Settled /\ candidate \in Nat
        /\ pc \in [Controllers -> Step] /\ local \in [Controllers -> Local]
        /\ \A d \in Controllers : SettledStep(d)
    BY Accounts
  <1>2. IInv'
    BY <1>1, InvStep
  <1>3. ASSUME NEW c \in Controllers, OpenGoal(c) \/ Lock(c) \/ Unlock(c) \/ Crash(c)
        PROVE  Settled' /\ \A d \in Controllers : SettledStep(d)'
    <2>1. UNCHANGED <<head, author, candidate, intent, drift>>
      BY <1>3 DEF OpenGoal, Lock, Unlock, Crash, git, store, env
    <2>2. Settled'
      BY <1>1, <2>1, SettledKept
    <2>3. SettledStep(c)'
      BY <1>1, <1>3, <2>1
      DEF OpenGoal, Lock, Unlock, Crash, At, GoTo, git, store, env, SettledStep, Local
    <2>4. \A d \in Controllers \ {c} : pc'[d] = pc[d] /\ local'[d] = local[d]
      BY <1>1, <1>3 DEF OpenGoal, Lock, Unlock, Crash, GoTo
    <2>5. \A d \in Controllers \ {c} : SettledStep(d)'
      BY <1>1, <2>1, <2>4 DEF SettledStep, NoneOpen, Open, NoManualUpTo, Announced
    <2>6. QED
      BY <2>2, <2>3, <2>5
  <1>4. ASSUME ManualEdit \/ CleanUp \/ UNCHANGED vars
        PROVE  Settled' /\ \A d \in Controllers : SettledStep(d)'
    <2>1. UNCHANGED <<head, author, candidate, intent, pc, local>>
      BY <1>4 DEF ManualEdit, CleanUp, vars, git, store
    <2>2. \A d \in Controllers : SettledStep(d)'
      BY <1>1, <2>1 DEF SettledStep, NoneOpen, Open, NoManualUpTo, Announced
    <2>3. drift' = 0 => drift = 0
      BY <1>1, <1>4, ConstantsAssumption
      DEF ManualEdit, CleanUp, vars, env, IInv, TypeOK, ConstantsAssumption
    <2>4. Settled'
      BY <1>1, <2>1, <2>3 DEF Settled, DriftNotAdopted, NoManualUpTo, Announced, Open
    <2>5. QED
      BY <2>2, <2>4
  <1>5. Settled' /\ \A d \in Controllers : SettledStep(d)'
    BY <1>3, <1>4, SettledRecovery, SettledDrive, SettledIntegrate, SettledManual
    DEF Next, Controller, User
  <1>6. QED
    BY <1>2, <1>5 DEF AccountInv

(* When the candidate is not changed by hand under a live controller:      *)
(* between two controllers git is at the recorded candidate or one         *)
(* announced commit ahead of it, nothing is integrated on top of a commit  *)
(* that is not recorded, and no manual commit is ever adopted.             *)
THEOREM CommitsAreAccounted ==
    ASSUME LiveDrift = FALSE
    PROVE  Spec => []CommitsAccounted
  <1>1. Init => AccountInv
    <2> SUFFICES ASSUME Init PROVE AccountInv
      OBVIOUS
    <2>1. IInv
      BY InitInv
    <2>2. Settled
      BY DEF Init, Settled, DriftNotAdopted, NoManualUpTo, Open, NoIntent
    <2>3. \A c \in Controllers : SettledStep(c)
      BY DEF Init, SettledStep
    <2>4. QED
      BY <2>1, <2>2, <2>3 DEF AccountInv
  <1>2. AccountInv /\ [Next]_vars => AccountInv'
    BY AccountStep
  <1>3. AccountInv => CommitsAccounted
    <2> SUFFICES ASSUME AccountInv PROVE CommitsAccounted
      OBVIOUS
    <2>1. /\ Settled /\ DataInv /\ head \in Nat /\ MaxRevision \in Nat /\ head <= MaxRevision
          /\ author \in [1 .. MaxRevision -> Tasks \cup {Manual}]
          /\ \A i \in Intents : Open(i) => /\ intent[i].before \in Nat /\ intent[i].task \in Tasks
                                           /\ status[intent[i].task] = "produced"
                                           /\ BookedUpTo(intent[i].before)
      BY Accounts, ConstantsAssumption
      DEF TypeOK, Revision, ConstantsAssumption, Intent, DataInv, OpenIntentInv
    <2>2. RecordedOrAnnounced /\ DriftNotAdopted
      BY <2>1 DEF Settled, RecordedOrAnnounced
    <2>3. ASSUME drift = 0, NEW r \in 1 .. head, status[author[r]] # "accepted"
          PROVE  r = head /\ \E i \in Intents : Open(i) /\ Announced(i)
      <3>1. author[r] \in Tasks
        BY <2>1, <2>3 DEF Settled, NoManualUpTo
      <3>2. PICK i \in Intents : Open(i) /\ intent[i].task = author[r]
        BY <2>1, <2>3, <3>1 DEF DataInv, LandedInv
      <3>3. head <= intent[i].before + 1
        BY <2>1, <2>3, <3>2 DEF Settled
      <3>4. r \notin 1 .. intent[i].before
        BY <2>1, <2>3, <3>1, <3>2 DEF BookedUpTo
      <3>5. r = head /\ head = intent[i].before + 1
        BY <2>1, <3>2, <3>3, <3>4
      <3>6. QED
        BY <3>2, <3>5 DEF Announced
    <2>4. NothingOnTop
      BY <2>3 DEF NothingOnTop
    <2>5. QED
      BY <2>2, <2>4 DEF CommitsAccounted
  <1>4. QED
    BY <1>1, <1>2, <1>3, PTL DEF Spec

===============================================================================
