------------------------------ MODULE SkillTrial ------------------------------
(***************************************************************************)
(* An evaluation of a skill (skills/experiments.ts, trial-recovery.ts and  *)
(* the trial commands of skills/admin.ts): a contract that the user        *)
(* authorises, a loop over slots (case, repetition, condition) that asks   *)
(* a provider within an aggregate budget, cancellation from any session,   *)
(* and the recovery of what a dead session left.                           *)
(*                                                                         *)
(* A session is an operating-system process.  Handlers run from one await  *)
(* to the next without interruption by their own process; where another    *)
(* process may fall between the read and the write of the trial, the place *)
(* is named in Windows.  A slot stands for its isolated goal, worktree,    *)
(* lease and agent run; contents of cases and releases are left out.       *)
(***************************************************************************)
EXTENDS Naturals, FiniteSets

CONSTANTS
    Sessions,       \* processes with the store open
    Slots,          \* (case, repetition, condition) of the chosen partition
    NoOne, NoSlot,
    MaxRequests,    \* spec.maxRequests
    MaxTokens,      \* spec.maxTokens
    Upper,          \* the tokens reserved for a request
    Used,           \* the tokens that an answer reports
    MaxAttempts,    \* resumptions that runTrial allows (2)
    Windows,        \* reads and writes of the trial between which others may act
    MaxCancels, MaxCrashes  \* bounds: cancellations, deaths

ASSUME SkillTrialAssumption ==
    /\ NoOne \notin Sessions /\ NoSlot \notin Slots
    /\ IsFiniteSet(Slots) /\ IsFiniteSet(Sessions)
    /\ {MaxRequests, MaxTokens, Upper, Used, MaxAttempts, MaxCancels, MaxCrashes} \subseteq Nat
    /\ Used <= Upper
    /\ Windows \subseteq {"settle", "recover"}

VARIABLES
    (* SQLite *)
    trial,          \* the record of the evaluation
    runs,           \* status of the last agent run of each slot
    revoked,        \* the policy epoch is no longer the trial's
    (* sessions *)
    at,             \* where each session is
    slot,           \* the slot it measures
    ask,            \* the last request it sent
    stop,           \* why its signal is aborted, if it is
    copy,           \* the record it read and is about to write back
    (* what really happened, for the properties *)
    sent,           \* requests that a provider has received
    answered,       \* those whose usage was reported
    (* environment *)
    cancels, crashes

store == <<trial, runs, revoked>>
process == <<at, slot, ask, stop, copy>>
ghosts == <<sent, answered>>
env == <<cancels, crashes>>
trialVars == <<store, process, ghosts, env>>

Requests == 1 .. MaxAttempts * (MaxRequests + 1)
TrialStatus == {"proposed", "authorized", "running", "completed", "interrupted", "cancelled"}
TrialRecord ==
    [status : TrialStatus, attempts : 0 .. MaxAttempts, owner : Sessions \cup {NoOne},
     reserved : SUBSET Requests, settled : SUBSET Requests, outcomes : SUBSET Slots,
     exhausted : BOOLEAN]

AtWork == {"loop", "invoke", "asked", "settle", "ran"}
Alive(s) == at[s] # "dead"

Proposed == [status |-> "proposed", attempts |-> 0, owner |-> NoOne, reserved |-> {},
             settled |-> {}, outcomes |-> {}, exhausted |-> FALSE]

TrialInit ==
    /\ trial = Proposed
    /\ runs = [i \in Slots |-> "none"]
    /\ revoked = FALSE
    /\ at = [s \in Sessions |-> "idle"]
    /\ slot = [s \in Sessions |-> NoSlot]
    /\ ask = [s \in Sessions |-> 0]
    /\ stop = [s \in Sessions |-> "no"]
    /\ copy = [s \in Sessions |-> Proposed]
    /\ sent = {} /\ answered = {}
    /\ cancels = 0 /\ crashes = 0

(* Tokens charged to a contract: what was reported, or all of what was     *)
(* reserved.                                                               *)
Charged(reserved, settled) ==
    Upper * Cardinality(reserved \ settled) + Used * Cardinality(reserved \cap settled)

(* No other process is between a read and a write that Windows closes.     *)
Undisturbed(s) ==
    \A other \in Sessions \ {s} : at[other] \notin {"settle", "recover"} \ Windows

OwnerGone == \A s \in Sessions : trial.owner = s => ~Alive(s)

(* The checks that precede each use of the permission.                     *)
Permitted(s) == trial.status = "running" /\ trial.owner = s /\ ~revoked

(* A session leaves the loop, or dies, with nothing of its own kept.       *)
LeaveTrial(s, where) ==
    /\ at' = [at EXCEPT ![s] = where]
    /\ slot' = [slot EXCEPT ![s] = NoSlot]
    /\ ask' = [ask EXCEPT ![s] = 0]
    /\ stop' = [stop EXCEPT ![s] = "no"]
    /\ copy' = [copy EXCEPT ![s] = Proposed]

-----------------------------------------------------------------------------
(* The user, in any session.                                               *)

AuthorizeTrial(s) ==
    /\ at[s] = "idle" /\ Undisturbed(s)
    /\ trial.status \in {"proposed", "interrupted"} /\ ~revoked
    /\ trial' = [trial EXCEPT !.status = "authorized"]
    /\ UNCHANGED <<runs, revoked, process, ghosts, env>>

(* The abort reaches the loop at once when it is in the same process.      *)
CancelTrial(s) ==
    /\ at[s] \notin {"dead", "settle", "recover"} /\ Undisturbed(s)
    /\ cancels < MaxCancels
    /\ cancels' = cancels + 1
    /\ trial' = [trial EXCEPT !.status = "cancelled"]
    /\ stop' = [stop EXCEPT ![s] = IF at[s] \in AtWork THEN "aborted" ELSE @]
    /\ UNCHANGED <<runs, revoked, at, slot, ask, copy, ghosts, crashes>>

ChangePolicy ==
    /\ ~revoked
    /\ revoked' = TRUE
    /\ UNCHANGED <<trial, runs, process, ghosts, env>>

Crash(s) ==
    /\ Alive(s) /\ crashes < MaxCrashes
    /\ crashes' = crashes + 1
    /\ LeaveTrial(s, "dead")
    /\ UNCHANGED <<store, ghosts, cancels>>

-----------------------------------------------------------------------------
(* runTrial.                                                               *)

(* Variant: resumptions are not counted.                                   *)
StartableAgain(s) ==
    /\ trial.status = "authorized" /\ ~revoked
    /\ OwnerGone
    /\ \A i \in Slots : runs[i] # "running"

(* Authorised, with attempts left, and no provider in use.                 *)
Startable(s) ==
    /\ trial.status = "authorized" /\ ~revoked
    /\ trial.attempts < MaxAttempts
    /\ OwnerGone
    /\ \A i \in Slots : runs[i] # "running"

(* Variant: a resumption starts from a clean account.                      *)
StartAfresh(s) ==
    /\ at[s] = "idle" /\ Undisturbed(s) /\ Startable(s)
    /\ trial' = [trial EXCEPT !.status = "running", !.owner = s, !.attempts = @ + 1,
                              !.reserved = {}, !.settled = {}]
    /\ at' = [at EXCEPT ![s] = IF trial.exhausted THEN "idle" ELSE "loop"]
    /\ stop' = [stop EXCEPT ![s] = "no"]
    /\ UNCHANGED <<runs, revoked, slot, ask, copy, ghosts, env>>

(* The claim counts an attempt before the time that is left is looked at.  *)
StartTrial(s) ==
    /\ at[s] = "idle" /\ Undisturbed(s) /\ Startable(s)
    /\ trial' = [trial EXCEPT !.status = "running", !.owner = s, !.attempts = @ + 1]
    /\ at' = [at EXCEPT ![s] = IF trial.exhausted THEN "idle" ELSE "loop"]
    /\ stop' = [stop EXCEPT ![s] = "no"]
    /\ UNCHANGED <<runs, revoked, slot, ask, copy, ghosts, env>>

(* Variant: the timer looks at the policy only.                            *)
PollPolicy(s) ==
    /\ at[s] \in AtWork \ {"settle"}
    /\ revoked /\ stop[s] = "no"
    /\ stop' = [stop EXCEPT ![s] = "aborted"]
    /\ UNCHANGED <<store, at, slot, ask, copy, ghosts, env>>

(* The timer of 75 ms.                                                     *)
PollTrial(s) ==
    /\ at[s] \in AtWork \ {"settle"}
    /\ (revoked \/ trial.status # "running") /\ stop[s] = "no"
    /\ stop' = [stop EXCEPT ![s] = "aborted"]
    /\ UNCHANGED <<store, at, slot, ask, copy, ghosts, env>>

(* The time budget runs out: every later attempt finds it spent.           *)
RunOutOfTime(s) ==
    /\ at[s] \in AtWork \ {"settle"} /\ stop[s] = "no"
    /\ stop' = [stop EXCEPT ![s] = "late"]
    /\ UNCHANGED <<store, at, slot, ask, copy, ghosts, env>>

(* Slots with a recorded outcome are skipped.                              *)
StartSlot(s) ==
    /\ at[s] = "loop" /\ stop[s] = "no" /\ Permitted(s)
    /\ \E i \in Slots \ trial.outcomes :
          /\ slot' = [slot EXCEPT ![s] = i]
          /\ runs' = [runs EXCEPT ![i] = "running"]
    /\ at' = [at EXCEPT ![s] = "invoke"]
    /\ UNCHANGED <<trial, revoked, ask, stop, copy, ghosts, env>>

WithinBudget ==
    /\ Cardinality(trial.reserved) < MaxRequests
    /\ Charged(trial.reserved, trial.settled) + Upper <= MaxTokens

(* reserveTrial, then the request leaves.                                  *)
AskProvider(s) ==
    /\ at[s] = "invoke" /\ stop[s] = "no" /\ Undisturbed(s)
    /\ trial.status = "running" /\ ~revoked /\ WithinBudget
    /\ LET r == CHOOSE q \in Requests : q \notin sent IN
          /\ trial' = [trial EXCEPT !.reserved = @ \cup {r}]
          /\ sent' = sent \cup {r}
          /\ ask' = [ask EXCEPT ![s] = r]
    /\ at' = [at EXCEPT ![s] = "asked"]
    /\ UNCHANGED <<runs, revoked, slot, stop, copy, answered, env>>

(* settleTrial: the record is read, and written back with the usage.       *)
AnswerWithUsage(s) ==
    /\ at[s] = "asked"
    /\ copy' = [copy EXCEPT ![s] = trial]
    /\ at' = [at EXCEPT ![s] = "settle"]
    /\ UNCHANGED <<store, slot, ask, stop, ghosts, env>>

(* Variant: the usage of an answer replaces the list of reservations.      *)
SettleAlone(s) ==
    /\ at[s] = "settle"
    /\ LET r == ask[s] IN
          /\ trial' = [copy[s] EXCEPT !.settled = {r}, !.reserved = {r}]
          /\ answered' = answered \cup {r}
    /\ copy' = [copy EXCEPT ![s] = Proposed]
    /\ at' = [at EXCEPT ![s] = "invoke"]
    /\ UNCHANGED <<runs, revoked, slot, ask, stop, sent, env>>

SettleTrial(s) ==
    /\ at[s] = "settle"
    /\ LET r == ask[s] IN
          /\ trial' = [copy[s] EXCEPT !.settled = @ \cup ({r} \cap copy[s].reserved)]
          /\ answered' = answered \cup {r}
    /\ copy' = [copy EXCEPT ![s] = Proposed]
    /\ at' = [at EXCEPT ![s] = "invoke"]
    /\ UNCHANGED <<runs, revoked, slot, ask, stop, sent, env>>

AnswerWithoutUsage(s) ==
    /\ at[s] = "asked" /\ stop[s] = "no"
    /\ at' = [at EXCEPT ![s] = "invoke"]
    /\ UNCHANGED <<store, slot, ask, stop, copy, ghosts, env>>

FinishRun(s) ==
    /\ at[s] = "invoke" /\ stop[s] = "no"
    /\ runs' = [runs EXCEPT ![slot[s]] = "completed"]
    /\ at' = [at EXCEPT ![s] = "ran"]
    /\ UNCHANGED <<trial, revoked, slot, ask, stop, copy, ghosts, env>>

(* After the verification, whatever happened to the trial meanwhile.       *)
RecordOutcome(s) ==
    /\ at[s] = "ran" /\ Undisturbed(s)
    /\ trial' = [trial EXCEPT !.outcomes = @ \cup {slot[s]}]
    /\ at' = [at EXCEPT ![s] = "loop"]
    /\ slot' = [slot EXCEPT ![s] = NoSlot]
    /\ UNCHANGED <<runs, revoked, ask, stop, copy, ghosts, env>>

(* Variant: the loop ends when its signal is aborted, and is complete.     *)
CompleteEarly(s) ==
    /\ at[s] = "loop" /\ Undisturbed(s)
    /\ Slots \subseteq trial.outcomes \/ stop[s] # "no"
    /\ trial' = [trial EXCEPT !.status = "completed", !.owner = NoOne,
                              !.exhausted = @ \/ stop[s] = "late"]
    /\ LeaveTrial(s, "idle")
    /\ UNCHANGED <<runs, revoked, ghosts, env>>

CompleteTrial(s) ==
    /\ at[s] = "loop" /\ Undisturbed(s)
    /\ Slots \subseteq trial.outcomes
    /\ trial' = [trial EXCEPT !.status = "completed", !.owner = NoOne,
                              !.exhausted = @ \/ stop[s] = "late"]
    /\ LeaveTrial(s, "idle")
    /\ UNCHANGED <<runs, revoked, ghosts, env>>

(* Any error of the infrastructure, or the aborted signal; catch and       *)
(* finally run without an await between them.                              *)
StopTrial(s) ==
    /\ at[s] \in AtWork \ {"settle"} /\ Undisturbed(s)
    /\ runs' = [i \in Slots |-> IF i = slot[s] /\ runs[i] = "running" THEN "interrupted" ELSE runs[i]]
    /\ trial' = [trial EXCEPT !.status = IF stop[s] # "no" THEN "cancelled" ELSE "interrupted",
                              !.owner = NoOne,
                              !.exhausted = @ \/ stop[s] = "late"]
    /\ LeaveTrial(s, "idle")
    /\ UNCHANGED <<revoked, ghosts, env>>

-----------------------------------------------------------------------------
(* recoverTrial: refused while the owner lives; Docker is asked between    *)
(* the read of the trial and its write.                                    *)

BeginRecovery(s) ==
    /\ at[s] = "idle" /\ Undisturbed(s)
    /\ trial.status \in {"running", "cancelled", "interrupted"}
    /\ OwnerGone
    /\ copy' = [copy EXCEPT ![s] = trial]
    /\ at' = [at EXCEPT ![s] = "recover"]
    /\ UNCHANGED <<store, slot, ask, stop, ghosts, env>>

(* The time of a session that died while running is charged up to its      *)
(* limit: it may have been all of it.                                      *)
FinishRecovery(s) ==
    /\ at[s] = "recover"
    /\ runs' = [i \in Slots |-> IF runs[i] = "running" THEN "interrupted" ELSE runs[i]]
    /\ \E spent \in IF copy[s].status = "running" THEN BOOLEAN ELSE {FALSE} :
          trial' = [copy[s] EXCEPT !.status = "interrupted", !.owner = NoOne,
                                   !.exhausted = @ \/ spent]
    /\ LeaveTrial(s, "idle")
    /\ UNCHANGED <<revoked, ghosts, env>>

-----------------------------------------------------------------------------
Run(s) ==
    \/ StartSlot(s) \/ AskProvider(s) \/ AnswerWithUsage(s) \/ SettleTrial(s)
    \/ AnswerWithoutUsage(s) \/ FinishRun(s) \/ RecordOutcome(s) \/ CompleteTrial(s)
    \/ StopTrial(s) \/ PollTrial(s) \/ RunOutOfTime(s)

TrialNext ==
    \/ ChangePolicy
    \/ \E s \in Sessions :
          \/ AuthorizeTrial(s) \/ CancelTrial(s) \/ Crash(s) \/ StartTrial(s)
          \/ Run(s) \/ BeginRecovery(s) \/ FinishRecovery(s)

TrialSpec == TrialInit /\ [][TrialNext]_trialVars

(* The session's own timer and its reaction to an aborted signal; no       *)
(* provider need answer, and no user need ask for anything.                *)
Unwind(s) ==
    \/ PollTrial(s) \/ SettleTrial(s) \/ RecordOutcome(s)
    \/ stop[s] # "no" /\ StopTrial(s)
    \/ FinishRecovery(s)

TrialFairness == \A s \in Sessions : WF_trialVars(Unwind(s))

TrialFairSpec == TrialSpec /\ TrialFairness

-----------------------------------------------------------------------------
TrialTypeOK ==
    /\ trial \in TrialRecord
    /\ runs \in [Slots -> {"none", "running", "completed", "interrupted"}]
    /\ revoked \in BOOLEAN
    /\ at \in [Sessions -> AtWork \cup {"idle", "recover", "dead"}]
    /\ slot \in [Sessions -> Slots \cup {NoSlot}]
    /\ ask \in [Sessions -> Requests \cup {0}]
    /\ stop \in [Sessions -> {"no", "aborted", "late"}]
    /\ copy \in [Sessions -> TrialRecord]
    /\ sent \in SUBSET Requests /\ answered \in SUBSET sent
    /\ cancels \in 0 .. MaxCancels /\ crashes \in 0 .. MaxCrashes

(* Whatever was lost, cancelled, recovered or resumed, what providers have *)
(* been asked stays within the contract: an answer that never came counts  *)
(* with all that was reserved for it.                                      *)
TrialBudgetHolds ==
    /\ Cardinality(sent) <= MaxRequests
    /\ Charged(sent, answered) <= MaxTokens

(* A trial that says it is complete has measured every slot, each by a run *)
(* that ended well, over however many attempts; and no slot is measured    *)
(* by two sessions.                                                        *)
CompletedMeansMeasured ==
    /\ trial.status = "completed" => trial.outcomes = Slots
    /\ \A i \in trial.outcomes : runs[i] = "completed"

(* The accounts of a trial are right, whatever was lost or resumed: what   *)
(* was asked is within the contract and what is measured was run.          *)
TrialInv == TrialBudgetHolds /\ CompletedMeansMeasured

(* No resumption or recovery forgets attempts, reservations or results     *)
(* (docs/v4-user-guide.md:27).                                             *)
CountersKept ==
    [][/\ trial'.attempts >= trial.attempts
       /\ trial.reserved \subseteq trial'.reserved
       /\ trial.outcomes \subseteq trial'.outcomes]_trialVars

(* A cancellation, from any session, ends the session at work although no  *)
(* provider answers, unless a settlement that was on its way overwrote it. *)
CancelStopsRun ==
    \A s \in Sessions :
        (at[s] \in AtWork /\ trial.status = "cancelled") ~>
            (at[s] \notin AtWork \/ trial.status = "running")

-----------------------------------------------------------------------------
(* The inductive invariant behind TrialInv and CountersKept, while nobody  *)
(* comes between the read and the write of a recovery.                     *)

(* A record that carries the accounts of the trial as they are.            *)
Carries(t) ==
    /\ t.reserved = sent /\ t.settled = answered
    /\ t.outcomes = trial.outcomes /\ t.attempts = trial.attempts

(* Who works owns the trial, measures a slot that is open, and settles a   *)
(* request that was sent; who recovers has no owner to fear.               *)
TrialStepInv(s) ==
    /\ at[s] \in AtWork =>
          /\ trial.owner = s /\ trial.attempts > 0
          /\ trial.status \in {"running", "cancelled"}
    /\ at[s] \in {"invoke", "asked", "settle"} =>
          slot[s] \in Slots \ trial.outcomes /\ runs[slot[s]] = "running"
    /\ at[s] = "ran" => slot[s] \in Slots /\ runs[slot[s]] = "completed"
    /\ at[s] \in {"asked", "settle"} => ask[s] \in sent
    /\ at[s] = "settle" =>
          Carries(copy[s]) /\ copy[s].owner = s /\ copy[s].status \in {"running", "cancelled"}
    /\ at[s] = "recover" => Carries(copy[s]) /\ OwnerGone

TrialIInv ==
    /\ TrialTypeOK /\ TrialInv /\ Carries(trial)
    /\ \A s \in Sessions : TrialStepInv(s)
===============================================================================
