---------------------------- MODULE SkillProofs ----------------------------
(***************************************************************************)
(* Theorems about the skills: the accounts of a trial, whoever works on    *)
(* it, and the policy that the runs of a goal obey.                        *)
(***************************************************************************)
EXTENDS MCSkills, FiniteSetTheorems, TLAPS

-----------------------------------------------------------------------------
(* Trials.                                                                 *)

(* The limits are numbers.                                                 *)
LEMMA Limits ==
    /\ MaxRequests \in Nat /\ MaxTokens \in Nat /\ Upper \in Nat /\ Used \in Nat
    /\ MaxAttempts \in Nat /\ MaxCancels \in Nat /\ MaxCrashes \in Nat /\ Used <= Upper
  BY SkillTrialAssumption

(* Sets of requests are finite, and as long as the contract is not used up *)
(* there is another one.                                                   *)
LEMMA RequestsFinite ==
    ASSUME NEW R \in SUBSET Requests
    PROVE  IsFiniteSet(R) /\ Cardinality(R) \in Nat
  <1>1. MaxAttempts * (MaxRequests + 1) \in Nat
    BY Limits
  <1>2. IsFiniteSet(Requests)
    BY <1>1, FS_Interval DEF Requests
  <1>3. QED
    BY <1>2, FS_Subset, FS_CardinalityType

LEMMA AnotherRequest ==
    ASSUME NEW R \in SUBSET Requests, Cardinality(R) < MaxRequests, MaxAttempts > 0
    PROVE  \E r \in Requests : r \notin R
  <1>1. SUFFICES ASSUME Requests \subseteq R PROVE FALSE
    OBVIOUS
  <1>0. Requests = R
    BY <1>1
  <1>2. Cardinality(Requests) = Cardinality(R)
    BY <1>0
  <1>3. MaxAttempts * (MaxRequests + 1) \in Nat /\ MaxAttempts * (MaxRequests + 1) > MaxRequests
    <2>1. PICK k \in Nat : MaxAttempts = k + 1
      <3>1. MaxAttempts - 1 \in Nat /\ MaxAttempts = (MaxAttempts - 1) + 1
        BY Limits
      <3>2. QED
        BY <3>1
    <2>2. k * (MaxRequests + 1) \in Nat
      BY Limits
    <2>3. MaxAttempts * (MaxRequests + 1) = k * (MaxRequests + 1) + MaxRequests + 1
      BY <2>1, Limits
    <2>4. QED
      BY <2>2, <2>3, Limits
  <1>4. Cardinality(Requests) = MaxAttempts * (MaxRequests + 1)
    BY <1>3, FS_Interval DEF Requests
  <1>5. QED
    BY <1>2, <1>3, <1>4, Limits

(* What a request costs when it is sent, and when its usage is known.      *)
LEMMA ChargeSent ==
    ASSUME NEW R \in SUBSET Requests, NEW A \in SUBSET R, NEW r \in Requests \ R
    PROVE  /\ Cardinality(R \cup {r}) = Cardinality(R) + 1
           /\ Charged(R \cup {r}, A) = Charged(R, A) + Upper
  <1>1. /\ (R \cup {r}) \ A = (R \ A) \cup {r} /\ r \notin R \ A
        /\ (R \cup {r}) \cap A = R \cap A
    OBVIOUS
  <1>2. /\ Cardinality(R \ A) \in Nat /\ Cardinality(R \cap A) \in Nat
        /\ Cardinality((R \ A) \cup {r}) = Cardinality(R \ A) + 1
        /\ Cardinality(R \cup {r}) = Cardinality(R) + 1
    <2>1. R \ A \in SUBSET Requests /\ R \cap A \in SUBSET Requests
      OBVIOUS
    <2>2. IsFiniteSet(R \ A) /\ IsFiniteSet(R \cap A) /\ IsFiniteSet(R)
      BY <2>1, RequestsFinite
    <2>3. QED
      BY <1>1, <2>1, <2>2, RequestsFinite, FS_AddElement
  <1> DEFINE c == Cardinality(R \ A)
  <1> DEFINE d == Cardinality(R \cap A)
  <1>3. Charged(R, A) = Upper * c + Used * d
    BY DEF Charged
  <1>4. Charged(R \cup {r}, A) = Upper * (c + 1) + Used * d
    BY <1>1, <1>2 DEF Charged
  <1>5. c \in Nat /\ d \in Nat
    BY <1>2
  <1> HIDE DEF c, d
  <1>6. Upper * (c + 1) = Upper * c + Upper /\ Upper * c \in Nat /\ Used * d \in Nat
    BY <1>5, Limits
  <1>7. QED
    BY <1>2, <1>3, <1>4, <1>6, Limits

LEMMA ChargeSettled ==
    ASSUME NEW R \in SUBSET Requests, NEW A \in SUBSET R, NEW r \in R
    PROVE  Charged(R, A \cup {r}) <= Charged(R, A) /\ Charged(R, A) \in Nat
  <1> DEFINE c == Cardinality(R \ A)
  <1> DEFINE d == Cardinality(R \cap A)
  <1>1. R \ A \in SUBSET Requests /\ R \cap A \in SUBSET Requests
    OBVIOUS
  <1>2. c \in Nat /\ d \in Nat /\ IsFiniteSet(R \ A) /\ IsFiniteSet(R \cap A)
    BY <1>1, RequestsFinite
  <1>3. Charged(R, A) = Upper * c + Used * d
    BY DEF Charged
  <1>4. Upper * c \in Nat /\ Used * d \in Nat
    BY <1>2, Limits
  <1>5. CASE r \in A
    <2>1. A \cup {r} = A
      BY <1>5
    <2>2. QED
      BY <1>3, <1>4, <2>1
  <1>6. CASE r \notin A
    <2>1. /\ R \ (A \cup {r}) = (R \ A) \ {r} /\ r \in R \ A
          /\ R \cap (A \cup {r}) = (R \cap A) \cup {r} /\ r \notin R \cap A
      BY <1>6
    <2>2. Cardinality((R \ A) \ {r}) = c - 1 /\ Cardinality((R \cap A) \cup {r}) = d + 1
      BY <1>2, <2>1, FS_RemoveElement, FS_AddElement
    <2>3. Charged(R, A \cup {r}) = Upper * (c - 1) + Used * (d + 1)
      BY <2>1, <2>2 DEF Charged
    <2> HIDE DEF c, d
    <2>4. Upper * (c - 1) = Upper * c - Upper /\ Used * (d + 1) = Used * d + Used
      BY <1>2, Limits
    <2>5. QED
      BY <1>3, <1>4, <2>3, <2>4, Limits
  <1>7. QED
    BY <1>5, <1>6

(* The session at work is the only one, and nobody recovers beside it.     *)
LEMMA OneWorks ==
    ASSUME TrialIInv, NEW s \in Sessions, at[s] \in AtWork, NEW o \in Sessions, o # s
    PROVE  at[o] \notin AtWork /\ at[o] # "recover" /\ ~OwnerGone
  <1>1. trial.owner = s /\ (at[o] \in AtWork => trial.owner = o)
    BY DEF TrialIInv, TrialStepInv
  <1>2. at[s] # "dead"
    BY DEF AtWork
  <1>3. at[o] = "recover" => OwnerGone
    BY DEF TrialIInv, TrialStepInv
  <1>4. ~OwnerGone
    BY <1>1, <1>2 DEF OwnerGone, Alive
  <1>5. QED
    BY <1>1, <1>3, <1>4

(* Nobody comes between the read and the write of a recovery.              *)
LEMMA RecoveryAlone ==
    ASSUME "recover" \notin Windows, NEW s \in Sessions, Undisturbed(s)
    PROVE  \A o \in Sessions \ {s} : at[o] # "recover"
  BY DEF Undisturbed

LEMMA TrialStarts == TrialInit => TrialIInv
  <1> SUFFICES ASSUME TrialInit PROVE TrialIInv
    OBVIOUS
  <1> USE DEF TrialInit
  <1>1. Proposed \in TrialRecord
    BY Limits DEF Proposed, TrialRecord, TrialStatus
  <1>2. TrialTypeOK
    <2>1. trial \in TrialRecord /\ copy \in [Sessions -> TrialRecord]
      BY <1>1
    <2>2. /\ runs \in [Slots -> {"none", "running", "completed", "interrupted"}]
          /\ at \in [Sessions -> AtWork \cup {"idle", "recover", "dead"}]
          /\ slot \in [Sessions -> Slots \cup {NoSlot}] /\ ask \in [Sessions -> Requests \cup {0}]
          /\ stop \in [Sessions -> {"no", "aborted", "late"}]
      OBVIOUS
    <2>3. cancels \in 0 .. MaxCancels /\ crashes \in 0 .. MaxCrashes
      BY Limits
    <2>4. revoked \in BOOLEAN /\ sent \in SUBSET Requests /\ answered \in SUBSET sent
      OBVIOUS
    <2>5. QED
      BY <2>1, <2>2, <2>3, <2>4 DEF TrialTypeOK
  <1>3. TrialInv
    <2>1. Cardinality({}) = 0 /\ {} \ {} = {} /\ {} \cap {} = {}
      BY FS_EmptySet
    <2>2. Charged({}, {}) = 0
      BY <2>1, Limits DEF Charged
    <2>3. QED
      BY <2>1, <2>2, Limits DEF TrialInv, TrialBudgetHolds, CompletedMeansMeasured, Proposed
  <1>4. Carries(trial) /\ \A s \in Sessions : TrialStepInv(s)
    BY DEF Carries, TrialStepInv, Proposed, AtWork
  <1>5. QED
    BY <1>2, <1>3, <1>4 DEF TrialIInv

(* The user authorises, cancels or changes the policy.                     *)
LEMMA AuthorizeStep ==
    ASSUME TrialIInv, "recover" \notin Windows, NEW s \in Sessions, AuthorizeTrial(s)
    PROVE  TrialIInv'
  <1> USE DEF AuthorizeTrial, process, ghosts, env
  <1>1. TrialTypeOK'
    BY DEF TrialIInv, TrialTypeOK, TrialRecord, TrialStatus
  <1>2. TrialInv' /\ Carries(trial)'
    BY DEF TrialIInv, TrialTypeOK, TrialRecord, TrialInv, TrialBudgetHolds,
           CompletedMeansMeasured, Charged, Carries
  <1>3. \A o \in Sessions : TrialStepInv(o)'
    <2> TAKE o \in Sessions
    <2>1. TrialStepInv(o) /\ at[o] \notin AtWork
      BY DEF TrialIInv, TrialStepInv
    <2>2. trial'.owner = trial.owner /\ Carries(copy[o])' = Carries(copy[o])
      BY DEF TrialIInv, TrialTypeOK, TrialRecord, Carries
    <2>3. QED
      BY <2>1, <2>2 DEF TrialStepInv, OwnerGone, Alive, AtWork
  <1>4. QED
    BY <1>1, <1>2, <1>3 DEF TrialIInv

LEMMA CancelStep ==
    ASSUME TrialIInv, "recover" \notin Windows, NEW s \in Sessions, CancelTrial(s)
    PROVE  TrialIInv'
  <1> USE DEF CancelTrial, ghosts
  <1>1. TrialTypeOK'
    BY Limits DEF TrialIInv, TrialTypeOK, TrialRecord, TrialStatus
  <1>2. TrialInv' /\ Carries(trial)'
    BY DEF TrialIInv, TrialTypeOK, TrialRecord, TrialInv, TrialBudgetHolds,
           CompletedMeansMeasured, Charged, Carries
  <1>3. \A o \in Sessions : TrialStepInv(o)'
    <2> TAKE o \in Sessions
    <2>1. TrialStepInv(o)
      BY DEF TrialIInv
    <2>2. /\ trial'.owner = trial.owner /\ trial'.attempts = trial.attempts
          /\ trial'.outcomes = trial.outcomes /\ trial'.status = "cancelled"
          /\ Carries(copy[o])' = Carries(copy[o])
      BY DEF TrialIInv, TrialTypeOK, TrialRecord, Carries
    <2>3. QED
      BY <2>1, <2>2 DEF TrialStepInv, OwnerGone, Alive, AtWork
  <1>4. QED
    BY <1>1, <1>2, <1>3 DEF TrialIInv

(* What leaves the store alone, and the requests, keeps what they account. *)
LEMMA StoreKept ==
    ASSUME TrialIInv, UNCHANGED <<trial, runs, ghosts>>,
           NEW o \in Sessions, UNCHANGED <<at[o], slot[o], ask[o], copy[o]>>,
           \A s \in Sessions : at[s] = "dead" => at'[s] = "dead"
    PROVE  TrialStepInv(o)' /\ TrialInv' /\ Carries(trial)'
  <1>1. TrialStepInv(o)
    BY DEF TrialIInv
  <1>2. Carries(copy[o])' = Carries(copy[o])
    BY DEF Carries, ghosts
  <1>3. TrialStepInv(o)'
    BY <1>1, <1>2 DEF TrialStepInv, OwnerGone, Alive, AtWork, ghosts
  <1>4. QED
    BY <1>3 DEF TrialIInv, TrialInv, TrialBudgetHolds, CompletedMeansMeasured, Charged, Carries,
                ghosts

LEMMA PolicyStep ==
    ASSUME TrialIInv, ChangePolicy
    PROVE  TrialIInv'
  <1>1. /\ revoked' = TRUE /\ UNCHANGED <<trial, runs, ghosts>>
        /\ at' = at /\ slot' = slot /\ ask' = ask /\ copy' = copy /\ stop' = stop
        /\ cancels' = cancels /\ crashes' = crashes
    BY DEF ChangePolicy, process, env
  <1>2. TrialTypeOK'
    BY <1>1 DEF TrialIInv, TrialTypeOK, ghosts
  <1>3. TrialInv' /\ Carries(trial)'
    BY <1>1 DEF TrialIInv, TrialInv, TrialBudgetHolds, CompletedMeansMeasured, Charged, Carries, ghosts
  <1>4. \A o \in Sessions : TrialStepInv(o)'
    BY <1>1, StoreKept
  <1>5. QED
    BY <1>2, <1>3, <1>4 DEF TrialIInv

LEMMA CrashStep ==
    ASSUME TrialIInv, NEW s \in Sessions, Crash(s)
    PROVE  TrialIInv'
  <1>1. /\ UNCHANGED <<trial, runs, ghosts>> /\ revoked' = revoked /\ cancels' = cancels
        /\ crashes < MaxCrashes /\ crashes' = crashes + 1
        /\ at' = [at EXCEPT ![s] = "dead"] /\ slot' = [slot EXCEPT ![s] = NoSlot]
        /\ ask' = [ask EXCEPT ![s] = 0] /\ stop' = [stop EXCEPT ![s] = "no"]
        /\ copy' = [copy EXCEPT ![s] = Proposed]
    BY DEF Crash, LeaveTrial, store
  <1>2. Proposed \in TrialRecord
    BY Limits DEF Proposed, TrialRecord, TrialStatus
  <1>3. TrialTypeOK'
    <2>1. copy' \in [Sessions -> TrialRecord]
      BY <1>1, <1>2 DEF TrialIInv, TrialTypeOK
    <2>2. QED
      BY <1>1, <2>1, Limits DEF TrialIInv, TrialTypeOK, ghosts
  <1>4. at'[s] = "dead" /\ \A o \in Sessions \ {s} : UNCHANGED <<at[o], slot[o], ask[o], copy[o]>>
    BY <1>1 DEF TrialIInv, TrialTypeOK
  <1>5. TrialInv' /\ Carries(trial)'
    BY <1>1 DEF TrialIInv, TrialInv, TrialBudgetHolds, CompletedMeansMeasured, Charged, Carries, ghosts
  <1>6. \A o \in Sessions : TrialStepInv(o)'
    <2>1. TrialStepInv(s)'
      BY <1>4 DEF TrialStepInv, AtWork
    <2>2. \A o \in Sessions : at[o] = "dead" => at'[o] = "dead"
      BY <1>4
    <2>3. \A o \in Sessions \ {s} : TrialStepInv(o)'
      BY <1>1, <1>4, <2>2, StoreKept
    <2>4. QED
      BY <2>1, <2>3
  <1>7. QED
    BY <1>3, <1>5, <1>6 DEF TrialIInv

(* A session starts: the one before is gone, and nobody recovers.          *)
LEMMA StartStep ==
    ASSUME TrialIInv, "recover" \notin Windows, NEW s \in Sessions, StartTrial(s)
    PROVE  TrialIInv'
  <1>1. /\ at[s] = "idle" /\ Undisturbed(s) /\ trial.status = "authorized"
        /\ trial.attempts < MaxAttempts /\ OwnerGone
        /\ trial' = [trial EXCEPT !.status = "running", !.owner = s, !.attempts = trial.attempts + 1]
        /\ at' = [at EXCEPT ![s] = IF trial.exhausted THEN "idle" ELSE "loop"]
        /\ stop' = [stop EXCEPT ![s] = "no"] /\ UNCHANGED ghosts
        /\ runs' = runs /\ revoked' = revoked /\ slot' = slot /\ ask' = ask /\ copy' = copy
        /\ cancels' = cancels /\ crashes' = crashes
    BY DEF StartTrial, Startable, ghosts, env
  <1>2. TrialTypeOK'
    <2>1. trial' \in TrialRecord
      <3>1. trial \in TrialRecord
        BY DEF TrialIInv, TrialTypeOK
      <3>2. trial.attempts + 1 \in 0 .. MaxAttempts
        BY <1>1, <3>1, Limits DEF TrialRecord
      <3>3. QED
        BY <1>1, <3>1, <3>2 DEF TrialRecord, TrialStatus
    <2>2. at' \in [Sessions -> AtWork \cup {"idle", "recover", "dead"}]
      BY <1>1 DEF TrialIInv, TrialTypeOK, AtWork
    <2>3. stop' \in [Sessions -> {"no", "aborted", "late"}]
      BY <1>1 DEF TrialIInv, TrialTypeOK
    <2>4. QED
      BY <1>1, <2>1, <2>2, <2>3 DEF TrialIInv, TrialTypeOK, ghosts
  <1>3. TrialInv' /\ Carries(trial)'
    BY <1>1 DEF TrialIInv, TrialTypeOK, TrialRecord, TrialInv, TrialBudgetHolds,
           CompletedMeansMeasured, Charged, Carries, ghosts
  <1>4. at'[s] \in {"idle", "loop"} /\ \A o \in Sessions \ {s} : at'[o] = at[o]
    BY <1>1 DEF TrialIInv, TrialTypeOK
  <1>5. /\ trial'.owner = s /\ trial'.attempts > 0 /\ trial'.status = "running"
        /\ trial'.outcomes = trial.outcomes
    BY <1>1, Limits DEF TrialIInv, TrialTypeOK, TrialRecord
  <1>6. \A o \in Sessions \ {s} : at[o] # "recover" /\ at[o] \notin AtWork
    <2>1. \A o \in Sessions \ {s} : at[o] \notin AtWork
      BY <1>1 DEF TrialIInv, TrialStepInv, OwnerGone, Alive, AtWork
    <2>2. QED
      BY <1>1, <2>1, RecoveryAlone
  <1>7. \A o \in Sessions : TrialStepInv(o)'
    BY <1>4, <1>5, <1>6 DEF TrialStepInv, AtWork
  <1>8. QED
    BY <1>2, <1>3, <1>7 DEF TrialIInv

(* The timer, and the end of the time.                                     *)
LEMMA SignalStep ==
    ASSUME TrialIInv, NEW s \in Sessions, PollTrial(s) \/ RunOutOfTime(s)
    PROVE  TrialIInv'
  <1>1. /\ UNCHANGED <<trial, runs, ghosts>> /\ revoked' = revoked
        /\ at' = at /\ slot' = slot /\ ask' = ask /\ copy' = copy
        /\ stop' \in [Sessions -> {"no", "aborted", "late"}]
        /\ cancels' = cancels /\ crashes' = crashes
    BY DEF PollTrial, RunOutOfTime, store, env, TrialIInv, TrialTypeOK
  <1>2. TrialTypeOK'
    BY <1>1 DEF TrialIInv, TrialTypeOK, ghosts
  <1>3. TrialInv' /\ Carries(trial)'
    BY <1>1 DEF TrialIInv, TrialInv, TrialBudgetHolds, CompletedMeansMeasured, Charged, Carries, ghosts
  <1>4. \A o \in Sessions : TrialStepInv(o)'
    BY <1>1, StoreKept
  <1>5. QED
    BY <1>2, <1>3, <1>4 DEF TrialIInv

(* The session at work takes a slot, sends a request, gets an answer.      *)
LEMMA SlotStep ==
    ASSUME TrialIInv, NEW s \in Sessions, StartSlot(s)
    PROVE  TrialIInv'
  <1>1. PICK i \in Slots \ trial.outcomes :
           slot' = [slot EXCEPT ![s] = i] /\ runs' = [runs EXCEPT ![i] = "running"]
    BY DEF StartSlot
  <1>2. /\ at[s] = "loop" /\ at' = [at EXCEPT ![s] = "invoke"] /\ trial' = trial
        /\ revoked' = revoked /\ ask' = ask /\ stop' = stop /\ copy' = copy /\ UNCHANGED ghosts
        /\ cancels' = cancels /\ crashes' = crashes /\ at[s] \in AtWork
    BY DEF StartSlot, env, AtWork
  <1>3. TrialTypeOK'
    BY <1>1, <1>2 DEF TrialIInv, TrialTypeOK, ghosts, AtWork
  <1>4. TrialInv' /\ Carries(trial)'
    BY <1>1, <1>2 DEF TrialIInv, TrialTypeOK, TrialInv, TrialBudgetHolds, CompletedMeansMeasured,
           Charged, Carries, ghosts
  <1>5. \A o \in Sessions \ {s} : TrialStepInv(o)'
    <2> SUFFICES ASSUME NEW o \in Sessions, o # s PROVE TrialStepInv(o)'
      OBVIOUS
    <2>1. at[o] \notin AtWork /\ at[o] # "recover" /\ at'[o] = at[o]
      BY <1>2, OneWorks DEF TrialIInv, TrialTypeOK
    <2>2. QED
      BY <2>1 DEF TrialStepInv, AtWork
  <1>6. TrialStepInv(s)'
    BY <1>1, <1>2 DEF TrialIInv, TrialTypeOK, TrialStepInv, AtWork
  <1>7. QED
    BY <1>3, <1>4, <1>5, <1>6 DEF TrialIInv

LEMMA AskStep ==
    ASSUME TrialIInv, NEW s \in Sessions, AskProvider(s)
    PROVE  TrialIInv'
  <1> DEFINE r == CHOOSE q \in Requests : q \notin sent
  <1>1. /\ at[s] = "invoke" /\ at[s] \in AtWork /\ at' = [at EXCEPT ![s] = "asked"]
        /\ trial.status = "running" /\ WithinBudget
        /\ trial' = [trial EXCEPT !.reserved = trial.reserved \cup {r}]
        /\ sent' = sent \cup {r} /\ ask' = [ask EXCEPT ![s] = r]
        /\ runs' = runs /\ revoked' = revoked /\ slot' = slot /\ stop' = stop /\ copy' = copy
        /\ answered' = answered /\ cancels' = cancels /\ crashes' = crashes
    BY DEF AskProvider, env, AtWork
  <1>2. /\ trial.reserved = sent /\ trial.settled = answered /\ trial.attempts > 0
        /\ trial.attempts <= MaxAttempts /\ sent \in SUBSET Requests /\ answered \in SUBSET sent
        /\ trial.attempts \in Nat
    BY <1>1, Limits DEF TrialIInv, TrialTypeOK, TrialRecord, Carries, TrialStepInv
  <1>3. r \in Requests \ sent
    <2>1. Cardinality(sent) < MaxRequests /\ MaxAttempts > 0
      BY <1>1, <1>2, Limits DEF WithinBudget
    <2>2. \E q \in Requests : q \notin sent
      BY <1>2, <2>1, AnotherRequest
    <2>3. QED
      BY <2>2
  <1> HIDE DEF r
  <1>4. TrialTypeOK'
    <2>1. trial' \in TrialRecord
      BY <1>1, <1>3 DEF TrialIInv, TrialTypeOK, TrialRecord
    <2>2. QED
      BY <1>1, <1>3, <2>1 DEF TrialIInv, TrialTypeOK, AtWork
  <1>5. TrialBudgetHolds'
    <2>1. Cardinality(sent) < MaxRequests /\ Charged(sent, answered) + Upper <= MaxTokens
      BY <1>1, <1>2 DEF WithinBudget
    <2>2. /\ Cardinality(sent \cup {r}) = Cardinality(sent) + 1
          /\ Charged(sent \cup {r}, answered) = Charged(sent, answered) + Upper
      BY <1>2, <1>3, ChargeSent
    <2>3. Cardinality(sent) \in Nat
      BY <1>2, RequestsFinite
    <2>4. Charged(sent, answered)' = Charged(sent \cup {r}, answered)
      BY <1>1 DEF Charged
    <2>5. QED
      BY <1>1, <2>1, <2>2, <2>3, <2>4, Limits DEF TrialBudgetHolds
  <1>6. /\ trial'.owner = trial.owner /\ trial'.attempts = trial.attempts
        /\ trial'.outcomes = trial.outcomes /\ trial'.status = trial.status
        /\ trial'.reserved = sent' /\ trial'.settled = answered'
    BY <1>1, <1>2 DEF TrialIInv, TrialTypeOK, TrialRecord
  <1>7. TrialInv' /\ Carries(trial)'
    BY <1>1, <1>5, <1>6 DEF TrialIInv, TrialInv, CompletedMeansMeasured, Carries
  <1>8. \A o \in Sessions \ {s} : TrialStepInv(o)'
    <2> SUFFICES ASSUME NEW o \in Sessions, o # s PROVE TrialStepInv(o)'
      OBVIOUS
    <2>1. at[o] \notin AtWork /\ at[o] # "recover" /\ at'[o] = at[o]
      BY <1>1, OneWorks DEF TrialIInv, TrialTypeOK
    <2>2. QED
      BY <2>1 DEF TrialStepInv, AtWork
  <1>9. TrialStepInv(s)'
    BY <1>1, <1>6 DEF TrialIInv, TrialTypeOK, TrialStepInv, AtWork
  <1>10. QED
    BY <1>4, <1>7, <1>8, <1>9 DEF TrialIInv

(* What the session at work does alone, with the store as it is.           *)
LEMMA AnswerStep ==
    ASSUME TrialIInv, NEW s \in Sessions, AnswerWithUsage(s) \/ AnswerWithoutUsage(s)
    PROVE  TrialIInv'
  <1>1. /\ at[s] = "asked" /\ at[s] \in AtWork
        /\ trial' = trial /\ runs' = runs /\ revoked' = revoked
        /\ slot' = slot /\ ask' = ask /\ stop' = stop /\ UNCHANGED ghosts
        /\ cancels' = cancels /\ crashes' = crashes
        /\ \/ copy' = [copy EXCEPT ![s] = trial] /\ at' = [at EXCEPT ![s] = "settle"]
           \/ copy' = copy /\ at' = [at EXCEPT ![s] = "invoke"]
    BY DEF AnswerWithUsage, AnswerWithoutUsage, store, env, AtWork
  <1>2. TrialTypeOK'
    BY <1>1 DEF TrialIInv, TrialTypeOK, ghosts, AtWork
  <1>3. TrialInv' /\ Carries(trial)'
    BY <1>1 DEF TrialIInv, TrialInv, TrialBudgetHolds, CompletedMeansMeasured, Charged, Carries, ghosts
  <1>4. \A o \in Sessions \ {s} : TrialStepInv(o)'
    <2> SUFFICES ASSUME NEW o \in Sessions, o # s PROVE TrialStepInv(o)'
      OBVIOUS
    <2>1. at[o] \notin AtWork /\ at[o] # "recover" /\ at'[o] = at[o]
      BY <1>1, OneWorks DEF TrialIInv, TrialTypeOK
    <2>2. QED
      BY <2>1 DEF TrialStepInv, AtWork
  <1>5. TrialStepInv(s)'
    <2>1. at'[s] \in {"settle", "invoke"} /\ (at'[s] = "settle" => copy'[s] = trial)
      BY <1>1 DEF TrialIInv, TrialTypeOK
    <2>2. TrialStepInv(s) /\ Carries(trial)
      BY DEF TrialIInv
    <2>3. QED
      BY <1>1, <2>1, <2>2 DEF TrialStepInv, AtWork, ghosts, Carries
  <1>6. QED
    BY <1>2, <1>3, <1>4, <1>5 DEF TrialIInv

LEMMA SettleStep ==
    ASSUME TrialIInv, NEW s \in Sessions, SettleTrial(s)
    PROVE  TrialIInv'
  <1> DEFINE r == ask[s]
  <1> DEFINE c == copy[s]
  <1>1. /\ at[s] = "settle" /\ at[s] \in AtWork /\ at' = [at EXCEPT ![s] = "invoke"]
        /\ trial' = [c EXCEPT !.settled = c.settled \cup ({r} \cap c.reserved)]
        /\ answered' = answered \cup {r} /\ sent' = sent
        /\ copy' = [copy EXCEPT ![s] = Proposed]
        /\ runs' = runs /\ revoked' = revoked /\ slot' = slot /\ ask' = ask /\ stop' = stop
        /\ cancels' = cancels /\ crashes' = crashes
    BY DEF SettleTrial, env, AtWork
  <1>2. c \in TrialRecord /\ sent \in SUBSET Requests /\ answered \in SUBSET sent
    BY DEF TrialIInv, TrialTypeOK
  <1>3. /\ r \in sent /\ c.reserved = sent /\ c.settled = answered /\ c.outcomes = trial.outcomes
        /\ c.attempts = trial.attempts /\ c.owner = s /\ c.status \in {"running", "cancelled"}
        /\ trial.attempts > 0 /\ slot[s] \in Slots \ trial.outcomes /\ runs[slot[s]] = "running"
    BY <1>1 DEF TrialIInv, TrialStepInv, Carries
  <1>4. Proposed \in TrialRecord
    BY Limits DEF Proposed, TrialRecord, TrialStatus
  <1> HIDE DEF c, r
  <1>5. /\ trial' \in TrialRecord /\ trial'.reserved = sent' /\ trial'.settled = answered'
        /\ trial'.outcomes = trial.outcomes /\ trial'.attempts = trial.attempts
        /\ trial'.owner = s /\ trial'.status \in {"running", "cancelled"}
    BY <1>1, <1>2, <1>3 DEF TrialRecord
  <1>6. TrialTypeOK'
    <2>1. copy' \in [Sessions -> TrialRecord]
      BY <1>1, <1>4 DEF TrialIInv, TrialTypeOK
    <2>2. QED
      BY <1>1, <1>3, <1>5, <2>1 DEF TrialIInv, TrialTypeOK, AtWork
  <1>7. TrialBudgetHolds'
    <2>1. Charged(sent, answered \cup {r}) <= Charged(sent, answered) /\ Charged(sent, answered) \in Nat
      BY <1>2, <1>3, ChargeSettled
    <2>2. Charged(sent, answered)' = Charged(sent, answered \cup {r})
      BY <1>1 DEF Charged
    <2>3. Charged(sent, answered \cup {r}) \in Nat
      <3>1. answered \cup {r} \in SUBSET sent
        BY <1>2, <1>3
      <3>2. QED
        BY <1>2, <1>3, <3>1, ChargeSettled
    <2>4. QED
      BY <1>1, <2>1, <2>2, <2>3, Limits DEF TrialIInv, TrialInv, TrialBudgetHolds
  <1>8. TrialInv' /\ Carries(trial)'
    BY <1>1, <1>5, <1>7 DEF TrialIInv, TrialInv, CompletedMeansMeasured, Carries
  <1>9. \A o \in Sessions \ {s} : TrialStepInv(o)'
    <2> SUFFICES ASSUME NEW o \in Sessions, o # s PROVE TrialStepInv(o)'
      OBVIOUS
    <2>1. at[o] \notin AtWork /\ at[o] # "recover" /\ at'[o] = at[o]
      BY <1>1, OneWorks DEF TrialIInv, TrialTypeOK
    <2>2. QED
      BY <2>1 DEF TrialStepInv, AtWork
  <1>10. at'[s] = "invoke"
    BY <1>1 DEF TrialIInv, TrialTypeOK
  <1>11. TrialStepInv(s)'
    BY <1>1, <1>3, <1>5, <1>10 DEF TrialStepInv, AtWork
  <1>12. QED
    BY <1>6, <1>8, <1>9, <1>11 DEF TrialIInv

LEMMA FinishStep ==
    ASSUME TrialIInv, NEW s \in Sessions, FinishRun(s)
    PROVE  TrialIInv'
  <1>1. /\ at[s] = "invoke" /\ at[s] \in AtWork /\ at' = [at EXCEPT ![s] = "ran"]
        /\ runs' = [runs EXCEPT ![slot[s]] = "completed"] /\ trial' = trial
        /\ revoked' = revoked /\ slot' = slot /\ ask' = ask /\ stop' = stop /\ copy' = copy
        /\ UNCHANGED ghosts /\ cancels' = cancels /\ crashes' = crashes
    BY DEF FinishRun, env, AtWork
  <1>2. slot[s] \in Slots
    BY <1>1 DEF TrialIInv, TrialStepInv
  <1>3. TrialTypeOK'
    BY <1>1, <1>2 DEF TrialIInv, TrialTypeOK, ghosts, AtWork
  <1>4. TrialInv' /\ Carries(trial)'
    BY <1>1, <1>2 DEF TrialIInv, TrialTypeOK, TrialRecord, TrialInv, TrialBudgetHolds,
           CompletedMeansMeasured, Charged, Carries, ghosts
  <1>5. \A o \in Sessions \ {s} : TrialStepInv(o)'
    <2> SUFFICES ASSUME NEW o \in Sessions, o # s PROVE TrialStepInv(o)'
      OBVIOUS
    <2>1. at[o] \notin AtWork /\ at[o] # "recover" /\ at'[o] = at[o]
      BY <1>1, OneWorks DEF TrialIInv, TrialTypeOK
    <2>2. QED
      BY <2>1 DEF TrialStepInv, AtWork
  <1>6. at'[s] = "ran" /\ runs'[slot[s]] = "completed"
    BY <1>1, <1>2 DEF TrialIInv, TrialTypeOK
  <1>7. TrialStepInv(s)'
    BY <1>1, <1>2, <1>6 DEF TrialIInv, TrialStepInv, AtWork
  <1>8. QED
    BY <1>3, <1>4, <1>5, <1>7 DEF TrialIInv

LEMMA OutcomeStep ==
    ASSUME TrialIInv, NEW s \in Sessions, RecordOutcome(s)
    PROVE  TrialIInv'
  <1>1. /\ at[s] = "ran" /\ at[s] \in AtWork /\ at' = [at EXCEPT ![s] = "loop"]
        /\ trial' = [trial EXCEPT !.outcomes = trial.outcomes \cup {slot[s]}]
        /\ slot' = [slot EXCEPT ![s] = NoSlot]
        /\ runs' = runs /\ revoked' = revoked /\ ask' = ask /\ stop' = stop /\ copy' = copy
        /\ UNCHANGED ghosts /\ cancels' = cancels /\ crashes' = crashes
    BY DEF RecordOutcome, env, AtWork
  <1>2. /\ slot[s] \in Slots /\ runs[slot[s]] = "completed" /\ trial.owner = s
        /\ trial.attempts > 0 /\ trial.status \in {"running", "cancelled"}
    BY <1>1 DEF TrialIInv, TrialStepInv
  <1>3. /\ trial' \in TrialRecord /\ trial'.outcomes = trial.outcomes \cup {slot[s]}
        /\ trial'.reserved = trial.reserved /\ trial'.settled = trial.settled
        /\ trial'.owner = s /\ trial'.attempts = trial.attempts /\ trial'.status = trial.status
    BY <1>1, <1>2 DEF TrialIInv, TrialTypeOK, TrialRecord
  <1>4. TrialTypeOK'
    BY <1>1, <1>3 DEF TrialIInv, TrialTypeOK, ghosts, AtWork
  <1>5. TrialInv' /\ Carries(trial)'
    BY <1>1, <1>2, <1>3 DEF TrialIInv, TrialInv, TrialBudgetHolds, CompletedMeansMeasured,
           Charged, Carries, ghosts
  <1>6. \A o \in Sessions \ {s} : TrialStepInv(o)'
    <2> SUFFICES ASSUME NEW o \in Sessions, o # s PROVE TrialStepInv(o)'
      OBVIOUS
    <2>1. at[o] \notin AtWork /\ at[o] # "recover" /\ at'[o] = at[o]
      BY <1>1, OneWorks DEF TrialIInv, TrialTypeOK
    <2>2. QED
      BY <2>1 DEF TrialStepInv, AtWork
  <1>7. at'[s] = "loop"
    BY <1>1 DEF TrialIInv, TrialTypeOK
  <1>8. TrialStepInv(s)'
    BY <1>2, <1>3, <1>7 DEF TrialStepInv, AtWork
  <1>9. QED
    BY <1>4, <1>5, <1>6, <1>8 DEF TrialIInv

(* The session ends: with all slots measured, or for whatever reason.      *)
LEMMA Leaving ==
    ASSUME TrialIInv, NEW s \in Sessions, LeaveTrial(s, "idle")
    PROVE  /\ at' \in [Sessions -> AtWork \cup {"idle", "recover", "dead"}]
           /\ slot' \in [Sessions -> Slots \cup {NoSlot}] /\ ask' \in [Sessions -> Requests \cup {0}]
           /\ stop' \in [Sessions -> {"no", "aborted", "late"}] /\ copy' \in [Sessions -> TrialRecord]
           /\ at'[s] = "idle"
           /\ \A o \in Sessions \ {s} : UNCHANGED <<at[o], slot[o], ask[o], copy[o]>>
  <1>1. Proposed \in TrialRecord
    BY Limits DEF Proposed, TrialRecord, TrialStatus
  <1>2. copy' \in [Sessions -> TrialRecord] /\ \A o \in Sessions \ {s} : copy'[o] = copy[o]
    BY <1>1 DEF LeaveTrial, TrialIInv, TrialTypeOK
  <1>3. QED
    BY <1>2 DEF LeaveTrial, TrialIInv, TrialTypeOK

LEMMA EndStep ==
    ASSUME TrialIInv, NEW s \in Sessions, CompleteTrial(s) \/ StopTrial(s)
    PROVE  TrialIInv'
  <1>1. /\ at[s] \in AtWork /\ LeaveTrial(s, "idle")
        /\ revoked' = revoked /\ UNCHANGED ghosts /\ cancels' = cancels /\ crashes' = crashes
    BY DEF CompleteTrial, StopTrial, env, AtWork
  <1>2. /\ runs' \in [Slots -> {"none", "running", "completed", "interrupted"}]
        /\ \A i \in Slots : runs[i] = "completed" => runs'[i] = "completed"
    BY DEF CompleteTrial, StopTrial, TrialIInv, TrialTypeOK
  <1>3. PICK why \in TrialStatus, e \in BOOLEAN :
           /\ trial' = [trial EXCEPT !.status = why, !.owner = NoOne, !.exhausted = e]
           /\ why = "completed" => Slots \subseteq trial.outcomes
    <2>1. CASE CompleteTrial(s)
      <3>1. (trial.exhausted \/ stop[s] = "late") \in BOOLEAN
        BY DEF TrialIInv, TrialTypeOK, TrialRecord
      <3>2. QED
        BY <2>1, <3>1 DEF CompleteTrial, TrialStatus
    <2>2. CASE StopTrial(s)
      <3>1. (IF stop[s] # "no" THEN "cancelled" ELSE "interrupted") \in {"cancelled", "interrupted"}
        OBVIOUS
      <3>2. QED
        BY <2>2, <3>1 DEF StopTrial, TrialStatus
    <2>3. QED
      BY <2>1, <2>2
  <1>4. /\ trial' \in TrialRecord /\ trial'.status = why /\ trial'.outcomes = trial.outcomes
        /\ trial'.reserved = trial.reserved /\ trial'.settled = trial.settled
        /\ trial'.attempts = trial.attempts
    BY <1>3 DEF TrialIInv, TrialTypeOK, TrialRecord
  <1>5. TrialTypeOK'
    BY <1>1, <1>2, <1>4, Leaving DEF TrialIInv, TrialTypeOK, ghosts
  <1>6. trial.outcomes \subseteq Slots
    BY DEF TrialIInv, TrialTypeOK, TrialRecord
  <1>7. TrialInv' /\ Carries(trial)'
    BY <1>1, <1>2, <1>3, <1>4, <1>6 DEF TrialIInv, TrialInv, TrialBudgetHolds,
           CompletedMeansMeasured, Charged, Carries, ghosts
  <1>8. \A o \in Sessions : TrialStepInv(o)'
    <2> SUFFICES ASSUME NEW o \in Sessions PROVE TrialStepInv(o)'
      OBVIOUS
    <2>1. at'[o] \notin AtWork /\ at'[o] # "recover"
      BY <1>1, OneWorks, Leaving DEF AtWork
    <2>2. QED
      BY <2>1 DEF TrialStepInv, AtWork
  <1>9. QED
    BY <1>5, <1>7, <1>8 DEF TrialIInv

(* A recovery reads, and writes what it read.                              *)
LEMMA BeginStep ==
    ASSUME TrialIInv, NEW s \in Sessions, BeginRecovery(s)
    PROVE  TrialIInv'
  <1>1. /\ OwnerGone /\ at' = [at EXCEPT ![s] = "recover"] /\ copy' = [copy EXCEPT ![s] = trial]
        /\ at[s] = "idle" /\ trial' = trial /\ runs' = runs /\ revoked' = revoked /\ slot' = slot
        /\ ask' = ask /\ stop' = stop /\ UNCHANGED ghosts /\ cancels' = cancels /\ crashes' = crashes
    BY DEF BeginRecovery, store, env
  <1>2. TrialTypeOK'
    BY <1>1 DEF TrialIInv, TrialTypeOK, ghosts, AtWork
  <1>3. TrialInv' /\ Carries(trial)'
    BY <1>1 DEF TrialIInv, TrialInv, TrialBudgetHolds, CompletedMeansMeasured, Charged, Carries, ghosts
  <1>4. /\ at'[s] = "recover" /\ copy'[s] = trial
        /\ \A o \in Sessions \ {s} : UNCHANGED <<at[o], slot[o], ask[o], copy[o]>>
    BY <1>1 DEF TrialIInv, TrialTypeOK
  <1>5. \A o \in Sessions : at[o] = "dead" => at'[o] = "dead"
    BY <1>1, <1>4
  <1>6. \A o \in Sessions \ {s} : TrialStepInv(o)'
    BY <1>1, <1>4, <1>5, StoreKept
  <1>7. TrialStepInv(s)'
    <2>1. OwnerGone'
      BY <1>1, <1>5 DEF OwnerGone, Alive
    <2>2. Carries(copy[s])'
      BY <1>1, <1>3, <1>4 DEF Carries
    <2>3. QED
      BY <1>4, <2>1, <2>2 DEF TrialStepInv, AtWork
  <1>8. QED
    BY <1>2, <1>3, <1>6, <1>7 DEF TrialIInv

LEMMA RecoverStep ==
    ASSUME TrialIInv, NEW s \in Sessions, FinishRecovery(s)
    PROVE  TrialIInv'
  <1> DEFINE c == copy[s]
  <1>1. /\ at[s] = "recover" /\ LeaveTrial(s, "idle")
        /\ revoked' = revoked /\ UNCHANGED ghosts /\ cancels' = cancels /\ crashes' = crashes
        /\ runs' = [i \in Slots |-> IF runs[i] = "running" THEN "interrupted" ELSE runs[i]]
    BY DEF FinishRecovery, env
  <1>2. /\ c \in TrialRecord /\ c.reserved = sent /\ c.settled = answered
        /\ c.outcomes = trial.outcomes /\ c.attempts = trial.attempts /\ OwnerGone
    BY <1>1 DEF TrialIInv, TrialTypeOK, TrialStepInv, Carries
  <1>3. PICK e \in BOOLEAN :
           trial' = [c EXCEPT !.status = "interrupted", !.owner = NoOne, !.exhausted = e]
    <2>1. PICK spent \in BOOLEAN :
             trial' = [c EXCEPT !.status = "interrupted", !.owner = NoOne,
                                !.exhausted = c.exhausted \/ spent]
      BY DEF FinishRecovery
    <2>2. (c.exhausted \/ spent) \in BOOLEAN
      BY <1>2 DEF TrialRecord
    <2>3. QED
      BY <2>1, <2>2
  <1> HIDE DEF c
  <1>4. /\ trial' \in TrialRecord /\ trial'.status = "interrupted" /\ trial'.owner = NoOne
        /\ trial'.outcomes = trial.outcomes /\ trial'.attempts = trial.attempts
        /\ trial'.reserved = sent /\ trial'.settled = answered
    BY <1>2, <1>3 DEF TrialRecord, TrialStatus
  <1>5. runs' \in [Slots -> {"none", "running", "completed", "interrupted"}]
    BY <1>1 DEF TrialIInv, TrialTypeOK
  <1>6. TrialTypeOK'
    BY <1>1, <1>4, <1>5, Leaving DEF TrialIInv, TrialTypeOK, ghosts
  <1>7. trial.outcomes \subseteq Slots
    BY DEF TrialIInv, TrialTypeOK, TrialRecord
  <1>8. TrialInv' /\ Carries(trial)'
    BY <1>1, <1>4, <1>7 DEF TrialIInv, TrialInv, TrialBudgetHolds, CompletedMeansMeasured,
           Charged, Carries, ghosts
  <1>9. OwnerGone'
    BY <1>4, SkillTrialAssumption DEF OwnerGone
  <1>10. \A o \in Sessions : TrialStepInv(o)'
    <2> SUFFICES ASSUME NEW o \in Sessions, o # s PROVE TrialStepInv(o)'
      BY <1>1, Leaving DEF TrialStepInv, AtWork
    <2>1. at[o] \notin AtWork
      BY <1>1, OneWorks DEF AtWork
    <2>2. at'[o] = at[o] /\ copy'[o] = copy[o] /\ TrialStepInv(o)
      BY <1>1, Leaving DEF TrialIInv
    <2>3. Carries(copy[o]) => Carries(copy[o])'
      BY <1>1, <1>4, <2>2 DEF Carries, ghosts
    <2>4. QED
      BY <1>9, <2>1, <2>2, <2>3 DEF TrialStepInv, AtWork
  <1>11. QED
    BY <1>6, <1>8, <1>10 DEF TrialIInv

LEMMA TrialStep ==
    ASSUME TrialIInv, "recover" \notin Windows, [TrialNext]_trialVars
    PROVE  TrialIInv'
  <1>1. CASE UNCHANGED trialVars
    BY <1>1 DEF trialVars, store, process, ghosts, env, TrialIInv, TrialTypeOK, TrialInv,
       TrialBudgetHolds, CompletedMeansMeasured, Charged, Carries, TrialStepInv, OwnerGone, Alive
  <1>2. CASE ChangePolicy
    BY <1>2, PolicyStep
  <1>3. ASSUME NEW s \in Sessions,
               \/ AuthorizeTrial(s) \/ CancelTrial(s) \/ Crash(s) \/ StartTrial(s)
               \/ Run(s) \/ BeginRecovery(s) \/ FinishRecovery(s)
        PROVE  TrialIInv'
    <2>1. CASE Run(s)
      BY <2>1, SlotStep, AskStep, AnswerStep, SettleStep, FinishStep, OutcomeStep, EndStep,
         SignalStep DEF Run
    <2>2. QED
      BY <1>3, <2>1, AuthorizeStep, CancelStep, CrashStep, StartStep, BeginStep, RecoverStep
  <1>4. QED
    BY <1>1, <1>2, <1>3 DEF TrialNext

(* The invariant, for any sessions, slots and limits, while nobody comes   *)
(* between the read and the write of a recovery (trial-recovery.ts).       *)
THEOREM TrialInductive ==
    ASSUME "recover" \notin Windows
    PROVE  TrialSpec => []TrialIInv
  <1>1. TrialInit => TrialIInv
    BY TrialStarts
  <1>2. TrialIInv /\ [TrialNext]_trialVars => TrialIInv'
    BY TrialStep
  <1>3. QED
    BY <1>1, <1>2, PTL DEF TrialSpec

(* What providers have been asked stays within the contract of the trial,  *)
(* and what is measured was run, whatever dies, is lost, cancelled or      *)
(* resumed (experiments.ts, trial-recovery.ts).                            *)
THEOREM TrialIsAccounted ==
    ASSUME "recover" \notin Windows
    PROVE  TrialSpec => []TrialInv
  <1>1. TrialIInv => TrialInv
    BY DEF TrialIInv
  <1>2. QED
    BY <1>1, TrialInductive, PTL

(* No step takes back an attempt, a reservation or a result: a settlement  *)
(* or a recovery that writes an older record writes the same accounts.     *)
THEOREM CountersAreKept ==
    ASSUME "recover" \notin Windows
    PROVE  TrialSpec => CountersKept
  <1> DEFINE Kept == /\ trial'.attempts >= trial.attempts
                     /\ trial.reserved \subseteq trial'.reserved
                     /\ trial.outcomes \subseteq trial'.outcomes
  <1>1. ASSUME TrialIInv, [TrialNext]_trialVars
        PROVE  Kept \/ UNCHANGED trialVars
    <2>1. TrialIInv' /\ trial \in TrialRecord /\ trial' \in TrialRecord
      BY <1>1, TrialStep DEF TrialIInv, TrialTypeOK
    <2>2. trial.attempts \in Nat /\ trial'.attempts \in Nat
      BY <2>1, Limits DEF TrialRecord
    <2>3. trial.reserved = sent /\ trial'.reserved = sent' /\ sent \subseteq sent'
      <3>1. sent \subseteq sent'
        BY <1>1 DEF TrialNext, Run, AuthorizeTrial, CancelTrial, ChangePolicy, Crash, StartTrial,
           StartSlot, AskProvider, AnswerWithUsage, SettleTrial, AnswerWithoutUsage, FinishRun,
           RecordOutcome, CompleteTrial, StopTrial, PollTrial, RunOutOfTime, BeginRecovery,
           FinishRecovery, trialVars, store, process, ghosts
      <3>2. QED
        BY SMTT(30), <1>1, <2>1, <3>1 DEF TrialIInv, Carries
    <2>4. trial'.attempts >= trial.attempts /\ trial.outcomes \subseteq trial'.outcomes
      <3>1. CASE trial' = trial
        BY <2>2, <3>1
      <3>2. ASSUME NEW s \in Sessions, SettleTrial(s) \/ FinishRecovery(s)
            PROVE  trial'.attempts = trial.attempts /\ trial'.outcomes = trial.outcomes
        <4>1. copy[s] \in TrialRecord /\ Carries(copy[s])
          BY <1>1, <3>2 DEF SettleTrial, FinishRecovery, TrialIInv, TrialTypeOK, TrialStepInv
        <4>2. trial'.attempts = copy[s].attempts /\ trial'.outcomes = copy[s].outcomes
          BY <3>2, <4>1 DEF SettleTrial, FinishRecovery, TrialRecord
        <4>3. QED
          BY <4>1, <4>2 DEF Carries
      <3>3. ASSUME NEW s \in Sessions,
                   \/ AuthorizeTrial(s) \/ CancelTrial(s) \/ StartTrial(s) \/ AskProvider(s)
                   \/ RecordOutcome(s) \/ CompleteTrial(s) \/ StopTrial(s)
            PROVE  trial'.attempts >= trial.attempts /\ trial.outcomes \subseteq trial'.outcomes
        <4>1. CASE StartTrial(s)
          BY <2>1, <2>2, <4>1 DEF StartTrial, TrialRecord
        <4>2. CASE AskProvider(s)
          BY <2>1, <2>2, <4>2 DEF AskProvider, TrialRecord
        <4>3. CASE AuthorizeTrial(s) \/ CancelTrial(s)
          <5>1. trial'.attempts = trial.attempts /\ trial'.outcomes = trial.outcomes
            BY <2>1, <4>3 DEF AuthorizeTrial, CancelTrial, TrialRecord
          <5>2. QED
            BY <2>2, <5>1
        <4>4. CASE RecordOutcome(s)
          <5>1. /\ trial'.attempts = trial.attempts
                /\ trial'.outcomes = trial.outcomes \cup {slot[s]}
            BY <2>1, <4>4 DEF RecordOutcome, TrialRecord
          <5>2. QED
            BY <2>2, <5>1
        <4>5. CASE CompleteTrial(s) \/ StopTrial(s)
          <5>1. trial'.attempts = trial.attempts /\ trial'.outcomes = trial.outcomes
            BY <2>1, <4>5 DEF CompleteTrial, StopTrial, TrialRecord
          <5>2. QED
            BY <2>2, <5>1
        <4>6. QED
          BY <3>3, <4>1, <4>2, <4>3, <4>4, <4>5
      <3>4. QED
        BY <1>1, <2>2, <3>1, <3>2, <3>3 DEF TrialNext, Run, ChangePolicy, Crash, StartSlot,
           AnswerWithUsage, AnswerWithoutUsage, FinishRun, PollTrial, RunOutOfTime, BeginRecovery,
           trialVars, store
    <2>5. QED
      BY <2>3, <2>4
  <1>2. TrialIInv /\ [TrialNext]_trialVars => [Kept]_trialVars
    BY <1>1
  <1>3. QED
    BY <1>2, TrialInductive, PTL DEF TrialSpec, CountersKept

-----------------------------------------------------------------------------
(* The policy.                                                             *)

(* PolicyInv, of one run.                                                  *)
AgentObeys(a) ==
    /\ late[a].guarded = 0 /\ late[a].consented <= 1
    /\ agent[a].at \in Live /\ ~Stale(a) => Loadable(agent[a].loaded)
    /\ agent[a].at \in Live => /\ agent[a].loaded \subseteq Builtin \cup inspected
                               /\ agent[a].loaded \subseteq goal.snapshot.lock

LEMMA PolicyParts == PolicyInv <=> \A a \in Agents : AgentObeys(a)
  BY DEF PolicyInv, NothingAfterDecision, LoadedMayBeRead, OnlyReviewedVersions, AgentObeys

(* What the runs remember and what there is, as far as their rules go.     *)
LEMMA PolicyTypes ==
    ASSUME PolicyTypeOK
    PROVE  /\ epochs.all \in 0 .. MaxEpoch /\ epochs.here \in 0 .. MaxEpoch /\ epochs \in Epochs
           /\ goal.snapshot.lock \subseteq Releases
           /\ \A a \in Agents : /\ agent[a].epochs \in Epochs
                                /\ agent[a].epochs.all \in Nat /\ agent[a].epochs.here \in Nat
                                /\ late[a].consented \in 0 .. 2 /\ late[a].guarded \in 0 .. 2
  <1>1. epochs \in Epochs /\ \A a \in Agents : agent[a].epochs \in Epochs
    BY DEF PolicyTypeOK
  <1>2. \A e \in Epochs : e.all \in 0 .. MaxEpoch /\ e.here \in 0 .. MaxEpoch
    BY DEF Epochs
  <1>3. goal.snapshot.lock \subseteq Releases
    BY DEF PolicyTypeOK
  <1>4. \A a \in Agents : late[a].consented \in 0 .. 2 /\ late[a].guarded \in 0 .. 2
    BY DEF PolicyTypeOK
  <1>5. QED
    BY <1>1, <1>2, <1>3, <1>4, SkillPolicyAssumption

(* A run that does not move is as obedient as it was, if a step that takes *)
(* something away is a decision that counts.                               *)
LEMMA AgentKept ==
    ASSUME PolicyIInv, NEW a \in Agents, UNCHANGED <<agent[a].at, agent[a].epochs, agent[a].loaded, late[a]>>,
           \/ epochs' = epochs /\ Candidates \subseteq Candidates'
           \/ /\ epochs' # epochs /\ epochs' \in Epochs
              /\ epochs.all <= epochs'.all /\ epochs.here <= epochs'.here,
           goal'.snapshot = goal.snapshot \/ agent[a].at \notin Live,
           inspected \subseteq inspected'
    PROVE  AgentInv(a)' /\ AgentObeys(a)'
  <1>1. /\ AgentInv(a) /\ AgentObeys(a) /\ epochs \in Epochs /\ agent[a].epochs \in Epochs
        /\ agent[a].epochs.all \in Nat /\ agent[a].epochs.here \in Nat
        /\ epochs.all \in Nat /\ epochs.here \in Nat
    BY PolicyParts, PolicyTypes, SkillPolicyAssumption DEF PolicyIInv
  <1>2. epochs'.all \in Nat /\ epochs'.here \in Nat /\ epochs' \in Epochs
    <2>1. epochs' \in Epochs
      BY <1>1
    <2>2. QED
      BY <2>1, SkillPolicyAssumption DEF Epochs
  <1>3. ASSUME agent[a].at \in Live, epochs' # epochs
        PROVE  Stale(a)'
    <2>1. epochs'.all # epochs.all \/ epochs'.here # epochs.here
      BY <1>1, <1>2, <1>3 DEF Epochs
    <2>2. agent[a].epochs.all <= epochs.all /\ agent[a].epochs.here <= epochs.here
      BY <1>1, <1>3 DEF AgentInv
    <2>3. epochs.all <= epochs'.all /\ epochs.here <= epochs'.here
      BY <1>3
    <2>4. agent[a].epochs.all # epochs'.all \/ agent[a].epochs.here # epochs'.here
      BY <1>1, <1>2, <2>1, <2>2, <2>3
    <2>5. QED
      BY <2>4 DEF Stale
  <1>4. epochs' = epochs => (Stale(a)' <=> Stale(a)) /\ (Loadable(agent[a].loaded) => Loadable(agent[a].loaded)')
    BY DEF Stale, Loadable
  <1>5. AgentInv(a)'
    <2>1. agent[a].at \in Live => agent[a].epochs.all <= epochs'.all /\ agent[a].epochs.here <= epochs'.here
      BY <1>1, <1>2 DEF AgentInv
    <2>2. QED
      BY <1>1, <1>3, <1>4, <2>1 DEF AgentInv
  <1>6. AgentObeys(a)'
    BY <1>1, <1>3, <1>4 DEF AgentObeys
  <1>7. QED
    BY <1>5, <1>6

GoalRecords ==
    [state : {"PAUSED", "EXECUTING", "STOPPING"}, pause : BOOLEAN,
     snapshot : [config : Config, lock : SUBSET Releases, manual : SUBSET Releases]]

(* A decision in the workspace counts, and leaves the snapshot alone.      *)
LEMMA DecisionCounts ==
    ASSUME PolicyIInv, PauseAffected
    PROVE  /\ epochs' # epochs /\ epochs' \in Epochs
           /\ epochs.all <= epochs'.all /\ epochs.here <= epochs'.here
           /\ goal' \in GoalRecords /\ goal'.snapshot = goal.snapshot
  <1>1. /\ epochs.all \in 0 .. MaxEpoch /\ epochs.here \in 0 .. MaxEpoch /\ epochs \in Epochs
        /\ goal \in GoalRecords
    BY PolicyTypes DEF PolicyIInv, PolicyTypeOK, GoalRecords
  <1>2. epochs.all + epochs.here < MaxEpoch /\ epochs' = [epochs EXCEPT !.here = epochs.here + 1]
    BY DEF PauseAffected, MayDecide
  <1>3. epochs'.here = epochs.here + 1 /\ epochs'.all = epochs.all
    BY <1>1, <1>2 DEF Epochs
  <1>4. epochs' \in Epochs
    <2>1. epochs.here + 1 \in 0 .. MaxEpoch
      BY <1>1, <1>2, SkillPolicyAssumption
    <2>2. QED
      BY <1>1, <1>2, <2>1 DEF Epochs
  <1>5. goal' \in GoalRecords /\ goal'.snapshot = goal.snapshot
    <2>1. goal' = [goal EXCEPT !.pause = (goal.state # "PAUSED") \/ goal.pause]
      BY DEF PauseAffected, Asked
    <2>2. ((goal.state # "PAUSED") \/ goal.pause) \in BOOLEAN
      BY <1>1 DEF GoalRecords
    <2>3. QED
      BY <1>1, <2>1, <2>2 DEF GoalRecords
  <1>6. QED
    BY <1>1, <1>3, <1>4, <1>5

(* It is enough that a decision keeps types and selects what was reviewed. *)
LEMMA DecisionKeeps ==
    ASSUME PolicyIInv, PauseAffected, UNCHANGED <<agent, late>>, inspected \subseteq inspected',
           master' \in BOOLEAN, config' \in Config, known' \subseteq Releases, inspected' \subseteq known',
           selection' \in [Skills -> [release : Releases, enabled : BOOLEAN]],
           manual' \subseteq Releases, draft' \in [Editors -> Config \cup {NoDraft}],
           SelectedReviewed'
    PROVE  PolicyIInv'
  <1>1. PolicyTypeOK'
    BY DecisionCounts DEF PolicyIInv, PolicyTypeOK, GoalRecords
  <1>2. \A a \in Agents : AgentInv(a)' /\ AgentObeys(a)'
    BY DecisionCounts, AgentKept
  <1>3. PolicyInv'
    BY <1>2 DEF PolicyInv, NothingAfterDecision, LoadedMayBeRead, OnlyReviewedVersions, AgentObeys
  <1>4. QED
    BY <1>1, <1>2, <1>3 DEF PolicyIInv

LEMMA SwitchStep ==
    ASSUME PolicyIInv, NEW on \in BOOLEAN, SetMaster(on)
    PROVE  PolicyIInv'
  <1>1. /\ epochs.all \in 0 .. MaxEpoch /\ epochs.here \in 0 .. MaxEpoch /\ epochs \in Epochs
        /\ goal \in GoalRecords
    BY PolicyTypes DEF PolicyIInv, PolicyTypeOK, GoalRecords
  <1>2. /\ epochs.all + epochs.here < MaxEpoch /\ epochs' = [epochs EXCEPT !.all = epochs.all + 1]
        /\ master' = on /\ goal' = IF on THEN goal ELSE Asked(goal)
        /\ UNCHANGED <<config, known, inspected, selection, manual, draft, agent, late>>
    BY DEF SetMaster, MayDecide
  <1>3. epochs'.all = epochs.all + 1 /\ epochs'.here = epochs.here
    BY <1>1, <1>2 DEF Epochs
  <1>4. epochs' \in Epochs
    <2>1. epochs.all + 1 \in 0 .. MaxEpoch
      BY <1>1, <1>2, SkillPolicyAssumption
    <2>2. QED
      BY <1>1, <1>2, <2>1 DEF Epochs
  <1>5. goal' \in GoalRecords /\ goal'.snapshot = goal.snapshot
    <2>1. ((goal.state # "PAUSED") \/ goal.pause) \in BOOLEAN
      BY <1>1 DEF GoalRecords
    <2>2. QED
      BY <1>1, <1>2, <2>1 DEF GoalRecords, Asked
  <1>6. PolicyTypeOK'
    BY <1>2, <1>4, <1>5 DEF PolicyIInv, PolicyTypeOK, GoalRecords
  <1>7. epochs' # epochs /\ epochs.all <= epochs'.all /\ epochs.here <= epochs'.here
    BY <1>1, <1>3
  <1>8. \A a \in Agents : AgentInv(a)' /\ AgentObeys(a)'
    BY <1>2, <1>4, <1>5, <1>7, AgentKept
  <1>9. PolicyInv'
    BY <1>8 DEF PolicyInv, NothingAfterDecision, LoadedMayBeRead, OnlyReviewedVersions, AgentObeys
  <1>10. SelectedReviewed'
    BY <1>2 DEF PolicyIInv, SelectedReviewed
  <1>11. QED
    BY <1>6, <1>8, <1>9, <1>10 DEF PolicyIInv

(* Decisions about the settings, what is enabled and what is approved.     *)
LEMMA SettingsStep ==
    ASSUME PolicyIInv, NEW expected \in Config, ChangeSettings(expected)
    PROVE  PolicyIInv'
  <1>1. /\ PauseAffected /\ config' \in Config
        /\ UNCHANGED <<master, known, inspected, selection, manual, draft, agent, late>>
    <2>1. config \in Config
      BY DEF PolicyIInv, PolicyTypeOK
    <2>2. CASE \E m \in Modes : Save(expected, [config EXCEPT !.mode = m])
      BY <2>1, <2>2 DEF ChangeSettings, Save, Config
    <2>3. ASSUME NEW s \in Deniable,
                 Save(expected, [config EXCEPT !.denied = (config.denied \cup {s}) \ (config.denied \cap {s})])
          PROVE  PauseAffected /\ config' \in Config
      <3>1. (config.denied \cup {s}) \ (config.denied \cap {s}) \in SUBSET Deniable
        BY <2>1 DEF Config
      <3>2. QED
        BY <2>1, <2>3, <3>1 DEF Save, Config
    <2>4. QED
      BY <2>2, <2>3 DEF ChangeSettings
  <1>2. QED
    BY <1>1, DecisionKeeps DEF PolicyIInv, PolicyTypeOK, SelectedReviewed

LEMMA EnableStep ==
    ASSUME PolicyIInv, NEW s \in Skills, NEW on \in BOOLEAN, EnableSkill(s, on)
    PROVE  PolicyIInv'
  <1>1. /\ PauseAffected /\ selection' = [selection EXCEPT ![s].enabled = on]
        /\ UNCHANGED <<master, config, known, inspected, manual, draft, agent, late>>
    BY DEF EnableSkill
  <1>2. /\ selection' \in [Skills -> [release : Releases, enabled : BOOLEAN]]
        /\ \A t \in Skills : selection'[t].release = selection[t].release
    BY <1>1 DEF PolicyIInv, PolicyTypeOK
  <1>3. SelectedReviewed'
    BY <1>1, <1>2 DEF PolicyIInv, SelectedReviewed
  <1>4. QED
    BY <1>1, <1>2, <1>3, DecisionKeeps DEF PolicyIInv, PolicyTypeOK

LEMMA ApproveStep ==
    ASSUME PolicyIInv, NEW r \in Releases, Approve(r)
    PROVE  PolicyIInv'
  <1>1. /\ PauseAffected /\ r \in inspected
        /\ selection' = [selection EXCEPT ![SkillOf[r]] = [release |-> r, enabled |-> TRUE]]
        /\ UNCHANGED <<master, config, known, inspected, manual, draft, agent, late>>
    BY DEF Approve
  <1>2. SkillOf[r] \in Skills
    BY SkillPolicyAssumption
  <1>3. /\ selection' \in [Skills -> [release : Releases, enabled : BOOLEAN]]
        /\ \A t \in Skills : selection'[t].release \in {selection[t].release, r}
    BY <1>1, <1>2 DEF PolicyIInv, PolicyTypeOK
  <1>4. SelectedReviewed'
    BY <1>1, <1>3 DEF PolicyIInv, SelectedReviewed
  <1>5. QED
    BY <1>1, <1>3, <1>4, DecisionKeeps DEF PolicyIInv, PolicyTypeOK

LEMMA ManualStep ==
    ASSUME PolicyIInv, NEW r \in Releases, NEW e, SelectManual(r, e) \/ DeselectManual(r, e)
    PROVE  PolicyIInv'
  <1>1. /\ PauseAffected
        /\ UNCHANGED <<master, config, known, inspected, selection, draft, agent, late>>
    BY DEF SelectManual, DeselectManual
  <1>2. EnabledReleases \subseteq Releases
    BY DEF PolicyIInv, PolicyTypeOK, EnabledReleases
  <1>3. manual' \subseteq manual \cup EnabledReleases
    BY DEF SelectManual, DeselectManual
  <1>4. manual' \subseteq Releases
    BY <1>2, <1>3 DEF PolicyIInv, PolicyTypeOK
  <1>5. QED
    BY <1>1, <1>4, DecisionKeeps DEF PolicyIInv, PolicyTypeOK, SelectedReviewed

AgentRecords ==
    [at : Live \cup {"none"}, config : Config \cup {NoDraft}, epochs : Epochs,
     loaded : SUBSET Releases, aborted : BOOLEAN]

(* Steps that decide nothing: they take nothing away, and the snapshot     *)
(* changes while no run is under way.                                      *)
LEMMA QuietKeeps ==
    ASSUME PolicyIInv, UNCHANGED <<master, config, epochs, selection, manual, late>>,
           inspected \subseteq inspected', known \subseteq known', known' \subseteq Releases,
           inspected' \subseteq known', goal' \in GoalRecords,
           draft' \in [Editors -> Config \cup {NoDraft}],
           agent' \in [Agents -> AgentRecords],
           \A a \in Agents : UNCHANGED <<agent[a].at, agent[a].epochs, agent[a].loaded>>,
           goal'.snapshot = goal.snapshot \/ \A a \in Agents : agent[a].at \notin Live
    PROVE  PolicyIInv'
  <1>1. PolicyTypeOK'
    BY DEF PolicyIInv, PolicyTypeOK, GoalRecords, AgentRecords
  <1>2. \A a \in Agents : AgentInv(a)' /\ AgentObeys(a)'
    <2>1. CASE goal'.snapshot = goal.snapshot
      <3>1. Candidates \subseteq Candidates'
        BY <2>1 DEF Candidates, Allowed, Access
      <3>2. QED
        BY <2>1, <3>1, AgentKept
    <2>2. CASE \A a \in Agents : agent[a].at \notin Live
      <3>1. \A a \in Agents : AgentInv(a) /\ AgentObeys(a) /\ agent'[a].at \notin Live
        BY <2>2, PolicyParts DEF PolicyIInv
      <3>2. QED
        BY <2>2, <3>1 DEF AgentInv, AgentObeys
    <2>3. QED
      BY <2>1, <2>2
  <1>3. PolicyInv'
    BY <1>2 DEF PolicyInv, NothingAfterDecision, LoadedMayBeRead, OnlyReviewedVersions, AgentObeys
  <1>4. SelectedReviewed'
    BY DEF PolicyIInv, SelectedReviewed
  <1>5. QED
    BY <1>1, <1>2, <1>3, <1>4 DEF PolicyIInv

LEMMA ProfileStep ==
    ASSUME PolicyIInv, NEW u \in Editors,
           EditProfile(u) \/ \E expected \in Config : SaveProfile(u, expected)
    PROVE  PolicyIInv'
  <1>1. draft \in [Editors -> Config \cup {NoDraft}] /\ config \in Config
    BY DEF PolicyIInv, PolicyTypeOK
  <1>2. CASE EditProfile(u)
    <2>1. /\ draft' = [draft EXCEPT ![u] = config] /\ UNCHANGED <<policyRecords, goal, agent, late>>
      BY <1>2 DEF EditProfile
    <2>2. draft' \in [Editors -> Config \cup {NoDraft}]
      BY <1>1, <2>1
    <2>3. QED
      BY <2>1, <2>2, QuietKeeps DEF policyRecords, PolicyIInv, PolicyTypeOK, GoalRecords, AgentRecords
  <1>3. ASSUME NEW expected \in Config, SaveProfile(u, expected)
        PROVE  PolicyIInv'
    <2>1. /\ draft[u] \in Config /\ draft' = [draft EXCEPT ![u] = NoDraft]
          /\ UNCHANGED <<master, known, inspected, selection, manual, agent, late>>
      BY <1>1, <1>3 DEF SaveProfile
    <2>2. draft' \in [Editors -> Config \cup {NoDraft}]
      BY <1>1, <2>1
    <2>3. CASE Save(expected, draft[u])
      <3>1. PauseAffected /\ config' \in Config
        BY <2>1, <2>3 DEF Save
      <3>2. QED
        BY <2>1, <2>2, <3>1, DecisionKeeps DEF PolicyIInv, PolicyTypeOK, SelectedReviewed
    <2>4. CASE UNCHANGED <<config, epochs, goal>>
      BY <2>1, <2>2, <2>4, QuietKeeps DEF PolicyIInv, PolicyTypeOK, GoalRecords, AgentRecords
    <2>5. QED
      BY <1>3, <2>3, <2>4 DEF SaveProfile
  <1>4. QED
    BY <1>2, <1>3

LEMMA QuarantineStep ==
    ASSUME PolicyIInv, NEW r \in Releases, Import(r) \/ Inspect(r)
    PROVE  PolicyIInv'
  BY QuietKeeps DEF Import, Inspect, PolicyIInv, PolicyTypeOK, GoalRecords, AgentRecords

LEMMA GoalStep ==
    ASSUME PolicyIInv, ResumeGoal \/ Paused \/ \E expected \in Config : Adopt(expected)
    PROVE  PolicyIInv'
  <1>1. /\ \A a \in Agents : agent[a].at \notin Live
        /\ UNCHANGED <<policyRecords, draft, agent, late>>
    BY DEF ResumeGoal, Paused, Adopt, Resting
  <1>2. goal' \in GoalRecords
    <2>1. goal \in GoalRecords /\ config \in Config /\ manual \in SUBSET Releases
      BY DEF PolicyIInv, PolicyTypeOK, GoalRecords
    <2>2. EnabledReleases \in SUBSET Releases
      BY DEF PolicyIInv, PolicyTypeOK, EnabledReleases
    <2>3. Snapshot \in [config : Config, lock : SUBSET Releases, manual : SUBSET Releases]
      BY <2>1, <2>2 DEF Snapshot
    <2>4. CASE ResumeGoal \/ Paused
      BY <2>1, <2>4 DEF ResumeGoal, Paused, GoalRecords
    <2>5. CASE goal' = [goal EXCEPT !.snapshot = Snapshot]
      BY <2>1, <2>3, <2>5 DEF GoalRecords
    <2>6. QED
      BY <2>4, <2>5 DEF Adopt
  <1>3. QED
    BY <1>1, <1>2, QuietKeeps DEF policyRecords, PolicyIInv, PolicyTypeOK, AgentRecords

(* A signal is aborted.                                                    *)
LEMMA AbortStep ==
    ASSUME PolicyIInv, SeePause \/ \E a \in Agents : Poll(a)
    PROVE  PolicyIInv'
  <1>1. PICK set \in SUBSET Agents : agent' = AbortRuns(set)
    <2>1. CASE SeePause
      BY <2>1 DEF SeePause
    <2>2. ASSUME NEW a \in Agents, Poll(a) PROVE \E set \in SUBSET Agents : agent' = AbortRuns(set)
      BY <2>2 DEF Poll
    <2>3. QED
      BY <2>1, <2>2
  <1>2. /\ agent' \in [Agents -> AgentRecords]
        /\ \A a \in Agents : UNCHANGED <<agent[a].at, agent[a].epochs, agent[a].loaded>>
    <2>1. agent \in [Agents -> AgentRecords]
      BY DEF PolicyIInv, PolicyTypeOK, AgentRecords
    <2>2. \A k \in AgentRecords :
             LET l == [k EXCEPT !.aborted = TRUE]
             IN  l \in AgentRecords /\ l.at = k.at /\ l.epochs = k.epochs /\ l.loaded = k.loaded
      BY DEF AgentRecords
    <2> HIDE DEF AgentRecords
    <2>3. QED
      BY <1>1, <2>1, <2>2 DEF AbortRuns
  <1>3. goal' \in GoalRecords /\ goal'.snapshot = goal.snapshot
    BY DEF SeePause, Poll, PolicyIInv, PolicyTypeOK, GoalRecords
  <1>4. UNCHANGED <<policyRecords, draft, late>>
    BY DEF SeePause, Poll
  <1>5. QED
    BY <1>2, <1>3, <1>4, QuietKeeps DEF policyRecords, PolicyIInv, PolicyTypeOK, AgentRecords

(* What may be loaded has been looked into, and is in the snapshot.        *)
LEMMA CandidatesReviewed ==
    ASSUME PolicyIInv
    PROVE  \A r \in Candidates :
              r \in Releases /\ r \in Builtin \cup inspected /\ r \in goal.snapshot.lock
  <1> SUFFICES ASSUME NEW r \in Candidates
               PROVE  r \in Releases /\ r \in Builtin \cup inspected /\ r \in goal.snapshot.lock
    OBVIOUS
  <1>1. r \in Releases /\ r \in goal.snapshot.lock /\ selection[SkillOf[r]] = [release |-> r, enabled |-> TRUE]
    BY DEF Candidates, Allowed, Access, PolicyIInv, PolicyTypeOK
  <1>2. SkillOf[r] \in Skills
    BY <1>1, SkillPolicyAssumption
  <1>3. QED
    BY <1>1, <1>2 DEF PolicyIInv, SelectedReviewed

LateRecords == [guarded : 0 .. 2, consented : 0 .. 2]

(* One run moves: the others are as they were.                             *)
LEMMA OneAgent ==
    ASSUME PolicyIInv, NEW a \in Agents, UNCHANGED <<policyRecords, goal, draft>>,
           NEW k \in AgentRecords, agent' = [agent EXCEPT ![a] = k],
           NEW l \in LateRecords, late' = [late EXCEPT ![a] = l],
           AgentInv(a)', AgentObeys(a)'
    PROVE  PolicyIInv'
  <1>1. agent \in [Agents -> AgentRecords] /\ late \in [Agents -> LateRecords]
    BY DEF PolicyIInv, PolicyTypeOK, AgentRecords, LateRecords
  <1>2. agent' \in [Agents -> AgentRecords] /\ late' \in [Agents -> LateRecords]
    BY <1>1
  <1>3. PolicyTypeOK'
    BY <1>2 DEF PolicyIInv, PolicyTypeOK, AgentRecords, LateRecords, policyRecords
  <1>4. \A b \in Agents \ {a} : AgentInv(b)' /\ AgentObeys(b)'
    <2> SUFFICES ASSUME NEW b \in Agents, b # a PROVE AgentInv(b)' /\ AgentObeys(b)'
      OBVIOUS
    <2>1. agent'[b] = agent[b] /\ late'[b] = late[b]
      BY <1>1
    <2>2. Candidates' = Candidates
      BY DEF Candidates, Allowed, Access, policyRecords
    <2>3. QED
      BY <2>1, <2>2, AgentKept DEF policyRecords
  <1>5. PolicyInv'
    BY <1>4 DEF PolicyInv, NothingAfterDecision, LoadedMayBeRead, OnlyReviewedVersions, AgentObeys
  <1>6. SelectedReviewed'
    BY DEF PolicyIInv, SelectedReviewed, policyRecords
  <1>7. QED
    BY <1>3, <1>4, <1>5, <1>6 DEF PolicyIInv

(* What a run may load is the same after its step.                         *)
LEMMA SameCandidates ==
    ASSUME UNCHANGED <<policyRecords, goal>>, NEW set
    PROVE  Candidates' = Candidates /\ Loadable(set)' = Loadable(set)
  <1>1. Candidates' = Candidates
    BY DEF Candidates, Allowed, Access, policyRecords
  <1>2. QED
    BY <1>1 DEF Loadable

LEMMA StartAgentStep ==
    ASSUME PolicyIInv, NEW a \in Agents, StartAgent(a)
    PROVE  PolicyIInv'
  <1>1. PICK set \in SUBSET Candidates :
           /\ set = {} \/ Loadable(set)
           /\ agent' = [agent EXCEPT ![a] = [NewAgent EXCEPT !.at = "ready", !.loaded = set]]
    BY DEF StartAgent
  <1>2. late' = [late EXCEPT ![a] = NoLate] /\ UNCHANGED <<policyRecords, goal, draft>>
    BY DEF StartAgent
  <1> DEFINE k == [NewAgent EXCEPT !.at = "ready", !.loaded = set]
  <1>3. set \subseteq Releases /\ config \in Config /\ epochs \in Epochs
    BY <1>1, CandidatesReviewed DEF PolicyIInv, PolicyTypeOK
  <1>4. Idle \in AgentRecords
    BY SkillPolicyAssumption DEF Idle, AgentRecords, Epochs
  <1>5. k \in AgentRecords /\ k.at = "ready" /\ k.epochs = epochs /\ k.loaded = set
    <2>1. NewAgent \in AgentRecords /\ NewAgent.epochs = epochs
      BY <1>3, <1>4 DEF NewAgent, AgentRecords
    <2>2. QED
      BY <1>3, <2>1 DEF AgentRecords, Live
  <1>6. NoLate \in LateRecords
    BY DEF NoLate, LateRecords
  <1>7. Loadable(set)
    <2>1. CASE set = {}
      BY <2>1, FS_EmptySet, SkillPolicyAssumption DEF Loadable
    <2>2. QED
      BY <1>1, <2>1
  <1> HIDE DEF k
  <1>8. agent' = [agent EXCEPT ![a] = k]
    BY <1>1 DEF k
  <1>9. agent'[a] = k /\ late'[a] = NoLate
    BY <1>2, <1>8 DEF PolicyIInv, PolicyTypeOK
  <1>10. AgentInv(a)'
    <2>1. epochs' = epochs
      BY <1>2 DEF policyRecords
    <2>2. epochs.all <= epochs.all /\ epochs.here <= epochs.here
      BY PolicyTypes, SkillPolicyAssumption DEF PolicyIInv
    <2>3. QED
      BY <1>5, <1>9, <2>1, <2>2 DEF AgentInv, NoLate
  <1>11. AgentObeys(a)'
    <2>1. Loadable(set)' /\ set \subseteq Builtin \cup inspected /\ set \subseteq goal.snapshot.lock
      BY <1>1, <1>2, <1>7, CandidatesReviewed, SameCandidates
    <2>2. QED
      BY <1>2, <1>5, <1>9, <2>1 DEF AgentObeys, NoLate, policyRecords
  <1>12. QED
    BY <1>2, <1>5, <1>6, <1>8, <1>10, <1>11, OneAgent

LEMMA LoadStep ==
    ASSUME PolicyIInv, NEW a \in Agents, LoadSkill(a)
    PROVE  PolicyIInv'
  <1>1. PICK set : Loadable(set) /\ agent' = [agent EXCEPT ![a].loaded = set]
    BY DEF LoadSkill
  <1>2. late' = late /\ UNCHANGED <<policyRecords, goal, draft>> /\ agent[a].at = "ready"
    BY DEF LoadSkill
  <1> DEFINE k == [agent[a] EXCEPT !.loaded = set]
  <1>3. set \subseteq Candidates
    BY <1>1 DEF Loadable
  <1>4. agent[a] \in AgentRecords /\ late[a] \in LateRecords /\ set \in SUBSET Releases
    BY <1>3, CandidatesReviewed DEF PolicyIInv, PolicyTypeOK, AgentRecords, LateRecords
  <1>5. k \in AgentRecords /\ k.at = "ready" /\ k.epochs = agent[a].epochs /\ k.loaded = set
    BY <1>2, <1>4 DEF AgentRecords
  <1> HIDE DEF k
  <1>6. agent' = [agent EXCEPT ![a] = k] /\ late' = [late EXCEPT ![a] = late[a]]
    BY <1>1, <1>2 DEF k, PolicyIInv, PolicyTypeOK
  <1>7. agent'[a] = k /\ late'[a] = late[a]
    BY <1>6 DEF PolicyIInv, PolicyTypeOK
  <1>8. AgentInv(a)'
    BY <1>2, <1>5, <1>7 DEF PolicyIInv, AgentInv, Stale, Live, policyRecords
  <1>9. AgentObeys(a)'
    <2>1. Loadable(set)' /\ set \subseteq Builtin \cup inspected /\ set \subseteq goal.snapshot.lock
      BY <1>1, <1>2, <1>3, CandidatesReviewed, SameCandidates
    <2>2. late[a].guarded = 0 /\ late[a].consented <= 1
      BY DEF PolicyIInv, PolicyInv, NothingAfterDecision
    <2>3. QED
      BY <1>2, <1>5, <1>7, <2>1, <2>2 DEF AgentObeys, policyRecords
  <1>10. QED
    BY <1>2, <1>4, <1>5, <1>6, <1>8, <1>9, OneAgent

(* A request or a script, before and after its guard.                      *)
LEMMA RequestStep ==
    ASSUME PolicyIInv, NEW a \in Agents,
           Ask(a) \/ AskWithConsent(a) \/ StageScript(a) \/ RunScript(a)
    PROVE  PolicyIInv'
  <1>1. PICK from \in Live, to \in Live :
           /\ Move(a, from, to)
           /\ \/ Guard(a) /\ (late' = late \/ Begins(a, "guarded"))
              \/ from = "consent" /\ to = "ready" /\ Begins(a, "consented")
    BY DEF Ask, AskWithConsent, StageScript, RunScript, Live
  <1>2. /\ agent[a].at = from /\ agent' = [agent EXCEPT ![a].at = to]
        /\ UNCHANGED <<policyRecords, goal, draft>>
    BY <1>1 DEF Move
  <1> DEFINE k == [agent[a] EXCEPT !.at = to]
  <1>3. agent[a] \in AgentRecords /\ late[a] \in LateRecords
    BY DEF PolicyIInv, PolicyTypeOK, AgentRecords, LateRecords
  <1>4. k \in AgentRecords /\ k.at = to /\ k.epochs = agent[a].epochs /\ k.loaded = agent[a].loaded
    BY <1>3 DEF AgentRecords
  <1> HIDE DEF k
  <1>5. agent' = [agent EXCEPT ![a] = k] /\ agent'[a] = k
    BY <1>2 DEF k, PolicyIInv, PolicyTypeOK
  <1>6. AgentObeys(a) /\ AgentInv(a) /\ agent[a].at \in Live
    BY <1>2, PolicyParts DEF PolicyIInv
  <1>7. Stale(a)' = Stale(a) /\ Loadable(agent[a].loaded)' = Loadable(agent[a].loaded)
    BY <1>2, <1>4, <1>5, SameCandidates DEF Stale, policyRecords
  <1>8. CASE Guard(a) /\ (late' = late \/ Begins(a, "guarded"))
    <2>1. ~Stale(a)
      BY <1>8 DEF Guard
    <2>2. late' = [late EXCEPT ![a] = late[a]] /\ late'[a] = late[a]
      <3>1. late \in [Agents -> LateRecords] /\ late[a].guarded = 0
        BY <1>6 DEF PolicyIInv, PolicyTypeOK, LateRecords, AgentObeys
      <3>2. CASE Begins(a, "guarded")
        <4>1. late' = [late EXCEPT ![a] = [late[a] EXCEPT !.guarded = late[a].guarded + 0]]
          BY <2>1, <3>2 DEF Begins
        <4>2. late[a].guarded + 0 = late[a].guarded
          BY <3>1
        <4>3. [late[a] EXCEPT !.guarded = late[a].guarded + 0] = late[a]
          BY <3>1, <4>2 DEF LateRecords
        <4>4. QED
          BY <3>1, <4>1, <4>3
      <3>3. QED
        BY <1>8, <3>1, <3>2
    <2>3. late[a].consented = 0
      <3>1. late[a].consented \in 0 .. 2 /\ ~(late[a].consented > 0)
        BY <1>3, <1>6, <2>1 DEF AgentInv, LateRecords
      <3>2. QED
        BY <3>1
    <2>4. AgentInv(a)' /\ AgentObeys(a)'
      BY <1>2, <1>4, <1>5, <1>6, <1>7, <2>2, <2>3 DEF AgentInv, AgentObeys, policyRecords
    <2>5. QED
      BY <1>2, <1>3, <1>4, <1>5, <2>2, <2>4, OneAgent
  <1>9. CASE from = "consent" /\ to = "ready" /\ Begins(a, "consented")
    <2>1. late[a].consented = 0 /\ late[a].guarded = 0
      <3>1. late[a].consented \in 0 .. 2 /\ ~(late[a].consented > 0)
        BY <1>2, <1>3, <1>6, <1>9 DEF AgentInv, LateRecords
      <3>2. QED
        BY <1>6, <3>1 DEF AgentObeys
    <2>2. PICK l \in LateRecords :
             /\ late' = [late EXCEPT ![a] = l] /\ l.guarded = 0 /\ l.consented \in {0, 1}
             /\ l.consented > 0 => Stale(a)
      <3>1. late' = [late EXCEPT ![a] = [late[a] EXCEPT !.consented =
                                             late[a].consented + (IF Stale(a) THEN 1 ELSE 0)]]
        <4>1. Stale(a) /\ late[a].consented < 2 <=> Stale(a)
          BY <2>1
        <4>2. late' = [late EXCEPT ![a].consented =
                          late[a].consented + (IF Stale(a) /\ late[a].consented < 2 THEN 1 ELSE 0)]
          BY <1>9 DEF Begins
        <4>3. QED
          BY <4>1, <4>2
      <3> DEFINE n == late[a].consented + (IF Stale(a) THEN 1 ELSE 0)
      <3>2. n \in {0, 1} /\ (n > 0 => Stale(a))
        BY <2>1
      <3> HIDE DEF n
      <3>3. [late[a] EXCEPT !.consented = n] \in LateRecords
        BY <1>3, <3>2 DEF LateRecords
      <3>4. /\ [late[a] EXCEPT !.consented = n].guarded = 0
            /\ [late[a] EXCEPT !.consented = n].consented = n
        BY <1>3, <2>1 DEF LateRecords
      <3>5. QED
        BY <3>1, <3>2, <3>3, <3>4 DEF n
    <2>3. late'[a] = l
      BY <2>2 DEF PolicyIInv, PolicyTypeOK
    <2>4. AgentInv(a)'
      BY <1>2, <1>4, <1>5, <1>6, <1>7, <1>9, <2>2, <2>3 DEF AgentInv, policyRecords
    <2>5. AgentObeys(a)'
      BY <1>2, <1>4, <1>5, <1>6, <1>7, <1>9, <2>2, <2>3 DEF AgentObeys, policyRecords
    <2>6. QED
      BY <1>2, <1>4, <1>5, <2>2, <2>4, <2>5, OneAgent
  <1>10. QED
    BY <1>1, <1>8, <1>9

LEMMA LeaveStep ==
    ASSUME PolicyIInv, NEW a \in Agents, AgentEnds(a) \/ AgentAborts(a)
    PROVE  PolicyIInv'
  <1>1. /\ agent' = [agent EXCEPT ![a] = Idle] /\ late' = [late EXCEPT ![a] = NoLate]
        /\ UNCHANGED <<policyRecords, goal, draft>>
    BY DEF AgentEnds, AgentAborts, Leaves
  <1>2. Idle \in AgentRecords /\ NoLate \in LateRecords
    BY SkillPolicyAssumption DEF Idle, NoLate, AgentRecords, LateRecords, Epochs
  <1>3. agent'[a].at = "none" /\ late'[a].guarded = 0 /\ late'[a].consented = 0
    BY <1>1 DEF PolicyIInv, PolicyTypeOK, Idle, NoLate
  <1>4. AgentInv(a)' /\ AgentObeys(a)'
    BY <1>3 DEF AgentInv, AgentObeys, Live
  <1>5. QED
    BY <1>1, <1>2, <1>4, OneAgent

LEMMA PolicyStarts == PolicyInit => PolicyIInv
  <1> SUFFICES ASSUME PolicyInit PROVE PolicyIInv
    OBVIOUS
  <1>1. \A s \in Skills : \E b \in Builtin : SkillOf[b] = s
    BY SkillPolicyAssumption
  <1>2. \A s \in Skills : (CHOOSE b \in Builtin : SkillOf[b] = s) \in Builtin
    BY <1>1
  <1>3. Builtin \subseteq Releases
    BY SkillPolicyAssumption
  <1>4. /\ selection \in [Skills -> [release : Releases, enabled : BOOLEAN]]
        /\ \A s \in Skills : selection[s].release \in Builtin
    BY <1>2, <1>3 DEF PolicyInit
  <1>5. config \in Config /\ epochs \in Epochs /\ NoLate \in LateRecords /\ Idle \in AgentRecords
    BY SkillPolicyAssumption
       DEF PolicyInit, Config, Modes, Epochs, NoLate, LateRecords, Idle, AgentRecords
  <1>6. goal \in GoalRecords
    <2>1. EnabledReleases \in SUBSET Releases /\ manual \in SUBSET Releases
      BY <1>4 DEF EnabledReleases, PolicyInit
    <2>2. Snapshot \in [config : Config, lock : SUBSET Releases, manual : SUBSET Releases]
      BY <1>5, <2>1 DEF Snapshot
    <2>3. goal = [state |-> "PAUSED", pause |-> FALSE, snapshot |-> Snapshot]
      BY DEF PolicyInit
    <2>4. QED
      BY <2>2, <2>3 DEF GoalRecords
  <1>7. /\ agent \in [Agents -> AgentRecords] /\ late \in [Agents -> LateRecords]
        /\ draft \in [Editors -> Config \cup {NoDraft}]
    BY <1>5 DEF PolicyInit
  <1>8. PolicyTypeOK
    BY <1>3, <1>4, <1>5, <1>6, <1>7
       DEF PolicyTypeOK, GoalRecords, AgentRecords, LateRecords, PolicyInit
  <1>9. \A a \in Agents : AgentInv(a) /\ AgentObeys(a)
    BY DEF PolicyInit, AgentInv, AgentObeys, Idle, NoLate, Live
  <1>10. QED
    BY <1>4, <1>8, <1>9, PolicyParts DEF PolicyIInv, SelectedReviewed

LEMMA PolicyNextStep ==
    ASSUME PolicyIInv, [PolicyNext]_policyVars
    PROVE  PolicyIInv'
  <1>1. CASE UNCHANGED policyVars
    <2>1. UNCHANGED <<master, config, epochs, known, inspected, selection, manual, goal, draft,
                      agent, late>>
      BY <1>1 DEF policyVars, policyRecords
    <2>2. QED
      BY <2>1, QuietKeeps DEF PolicyIInv, PolicyTypeOK, GoalRecords, AgentRecords
  <1>2. CASE Decision
    <2>1. CASE \E on \in BOOLEAN : SetMaster(on) \/ \E s \in Skills : EnableSkill(s, on)
      BY <2>1, SwitchStep, EnableStep
    <2>2. CASE \E u \in Editors : EditProfile(u) \/ \E expected \in Config : SaveProfile(u, expected)
      BY <2>2, ProfileStep
    <2>3. CASE \E expected \in Config : ChangeSettings(expected) \/ Adopt(expected)
      BY <2>3, SettingsStep, GoalStep
    <2>4. CASE \E r \in Releases : Import(r) \/ Inspect(r) \/ Approve(r)
      BY <2>4, QuarantineStep, ApproveStep
    <2>5. CASE \E r \in Releases, expectedEpoch \in 0 .. MaxEpoch :
                  SelectManual(r, expectedEpoch) \/ DeselectManual(r, expectedEpoch)
      BY <2>5, ManualStep
    <2>6. QED
      BY <1>2, <2>1, <2>2, <2>3, <2>4, <2>5 DEF Decision
  <1>3. CASE ResumeGoal \/ SeePause \/ Paused
    BY <1>3, GoalStep, AbortStep
  <1>4. ASSUME NEW a \in Agents, AgentStep(a) \/ Poll(a) \/ AgentAborts(a)
        PROVE  PolicyIInv'
    BY <1>4, StartAgentStep, LoadStep, RequestStep, LeaveStep, AbortStep DEF AgentStep
  <1>5. QED
    BY <1>1, <1>2, <1>3, <1>4 DEF PolicyNext

(* The invariant, for any skills, releases, windows and runs.              *)
THEOREM PolicyInductive == PolicySpec => []PolicyIInv
  <1>1. PolicyInit => PolicyIInv
    BY PolicyStarts
  <1>2. PolicyIInv /\ [PolicyNext]_policyVars => PolicyIInv'
    BY PolicyNextStep
  <1>3. QED
    BY <1>1, <1>2, PTL DEF PolicySpec

(* Nothing starts after a decision beyond the request that had passed the  *)
(* guard, what a run has loaded may be read until the next decision, and   *)
(* all of it was reviewed, in any number of windows and runs (registry.ts, *)
(* control.ts, session.ts, scripts.ts).                                    *)
THEOREM PolicyIsObeyed == PolicySpec => []PolicyInv
  <1>1. PolicyIInv => PolicyInv
    BY DEF PolicyIInv
  <1>2. QED
    BY <1>1, PolicyInductive, PTL
-----------------------------------------------------------------------------
(* The three together, as they are checked.                                *)

LEMMA WholeInit == MCInit => TrialInit /\ PolicyInit /\ Init
  BY DEF MCInit

LEMMA WholeNext ==
    [MCNext]_mcVars => [TrialNext]_trialVars /\ [PolicyNext]_policyVars /\ [Next]_vars
  BY DEF MCNext, mcVars

(* A trial, a policy or a queue: a behaviour of its part, fair where the   *)
(* part is.                                                                *)
THEOREM PartsOfTheSkills == MCFairSpec => TrialFairSpec /\ PolicyFairSpec /\ FairSpec
  <1>1. QED
    BY WholeInit, WholeNext, PTL
    DEF MCFairSpec, TrialFairSpec, TrialSpec, PolicyFairSpec, PolicySpec, FairSpec, Spec

(* The records of trials and of the policy keep their types, for any       *)
(* sessions, limits, skills and runs, while nobody comes between the read  *)
(* and the write of a recovery: a request has a number of its own in every *)
(* attempt, and no counter leaves its range.                               *)
THEOREM SkillsTypes ==
    ASSUME "recover" \notin Windows
    PROVE  MCFairSpec => []SkillsTypeOK
  <1>1. MCFairSpec => TrialSpec /\ PolicySpec
    BY WholeInit, WholeNext, PTL DEF MCFairSpec, TrialSpec, PolicySpec
  <1>2. TrialIInv /\ PolicyIInv => SkillsTypeOK
    BY DEF TrialIInv, PolicyIInv, SkillsTypeOK
  <1>3. QED
    BY <1>1, <1>2, TrialInductive, PolicyInductive, PTL
===============================================================================
