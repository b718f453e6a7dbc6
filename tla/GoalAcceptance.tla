--------------------------- MODULE GoalAcceptance ---------------------------
(***************************************************************************)
(* From the last accepted task to DONE: the checks of the candidate        *)
(* (adapters/verification/service.ts), the reviews (application/           *)
(* reviews.ts), the evidence both leave and the judge over it (domain/     *)
(* evidence-judge.ts), as Orchestrator.drive calls them.  Everything is    *)
(* recorded for the candidate's revision.  A repair makes another revision *)
(* and starts over; a pause or a crash starts over at the next resume,     *)
(* where checks run again and a review of the same revision is read back.  *)
(*                                                                         *)
(* An artifact is a file whose digest is in its evidence row.  The judge   *)
(* reads every file of the revision again.  Reviewers may use external     *)
(* tools, and what they observe is recorded as evidence too                *)
(* (application/integration-evidence.ts).                                  *)
(***************************************************************************)
EXTENDS Integers, FiniteSets

CONSTANTS
    Specs, Mandatory,       \* verification specs of the plan
    Roles,                  \* required reviews; "oracle" has a limit
    HumanCriterion,         \* whether the plan has one
    MaxOracleCalls,
    MaxRevisions,           \* bound: candidates of an instance
    AcceptanceBudgets       \* stops, tampers, observations of an instance

ASSUME AcceptanceAssumption ==
    /\ Mandatory \subseteq Specs
    /\ MaxOracleCalls \in Nat /\ MaxRevisions \in Nat \ {0}

VARIABLES
    acceptance,     \* the goal's record: state, revision, oracle calls
    checks,         \* the latest result of each spec
    verdicts,       \* the latest acceptance review of each role
    artifacts,      \* revisions with files, with changed files, with observations
    approvals,      \* revisions a person approved
    round,          \* the run: where, what is left, what it read
    asked,          \* requests to the oracle
    acceptanceBudget

acceptanceVars == <<acceptance, checks, verdicts, artifacts, approvals, round, asked, acceptanceBudget>>

Revisions == 1..MaxRevisions
Decisions == {"approve", "request_changes", "uncertain"}
Unreviewed == [revision |-> 0, decision |-> "uncertain"]
Rest == [pc |-> "off", specs |-> {}, roles |-> {}, role |-> "none", approved |-> FALSE, refused |-> "no"]

AcceptanceInit ==
    /\ acceptance = [state |-> "PAUSED", revision |-> 1, oracle |-> 0]
    /\ checks = [s \in Specs |-> [revision |-> 0, passed |-> FALSE]]
    /\ verdicts = [r \in Roles |-> Unreviewed]
    /\ artifacts = [written |-> {}, changed |-> {}, observed |-> {}]
    /\ approvals = {} /\ round = Rest /\ asked = 0
    /\ acceptanceBudget \in AcceptanceBudgets

Current == acceptance.revision
Doing(pc) == round.pc = pc

(* The run ends at a pause: `Blocked`, a signal, or the end of the checks. *)
PauseFor(reason) ==
    /\ acceptance' = [acceptance EXCEPT !.state = "PAUSED"]
    /\ round' = [Rest EXCEPT !.refused = reason]

-----------------------------------------------------------------------------
(* VERIFY: every spec, one after the other.                                *)

ResumeGoal ==
    /\ Doing("off") /\ acceptance.state # "DONE"
    /\ acceptance' = [acceptance EXCEPT !.state = "VERIFY"]
    /\ round' = [Rest EXCEPT !.pc = "verify", !.specs = Specs]
    /\ UNCHANGED <<checks, verdicts, artifacts, approvals, asked, acceptanceBudget>>

VerifySpec(s) ==
    /\ Doing("verify") /\ s \in round.specs
    /\ \E passed \in BOOLEAN : checks' = [checks EXCEPT ![s] = [revision |-> Current, passed |-> passed]]
    /\ artifacts' = [artifacts EXCEPT !.written = @ \cup {Current}]
    /\ round' = [round EXCEPT !.specs = @ \ {s}]
    /\ UNCHANGED <<acceptance, verdicts, approvals, asked, acceptanceBudget>>

FailedChecks == {s \in Mandatory : ~checks[s].passed}

(* A repair task is planned, done and integrated: the next candidate.      *)
Repair ==
    /\ Current < MaxRevisions
    /\ acceptance' = [acceptance EXCEPT !.state = "VERIFY", !.revision = @ + 1]
    /\ round' = [Rest EXCEPT !.pc = "verify", !.specs = Specs]

(* A failed check is an infrastructure failure, or repaired.               *)
EndVerify ==
    /\ Doing("verify") /\ round.specs = {}
    /\ IF FailedChecks = {}
       THEN /\ acceptance' = [acceptance EXCEPT !.state = "REVIEW"]
            /\ round' = [round EXCEPT !.pc = "review", !.roles = Roles]
       ELSE Repair \/ PauseFor("check")
    /\ UNCHANGED <<checks, verdicts, artifacts, approvals, asked, acceptanceBudget>>

-----------------------------------------------------------------------------
(* REVIEW: a review of this revision is read back, or asked for.           *)

Reviewed(role) == verdicts[role].revision = Current

(* Variant: a review of the revision is asked for again.                   *)
AskEveryTime(role) == round.role = role

HasReview(role) == Reviewed(role)

(* Variant: the call is not counted.                                       *)
NotCounted(role) == acceptance' = acceptance

(* The call of the oracle is counted before it is made.                    *)
CountCall(role) == acceptance' = IF role = "oracle" THEN [acceptance EXCEPT !.oracle = @ + 1] ELSE acceptance

LimitReached(role) == role = "oracle" /\ acceptance.oracle >= MaxOracleCalls

AskReview(role) ==
    /\ Doing("review") /\ role \in round.roles /\ ~HasReview(role)
    /\ IF LimitReached(role)
       THEN PauseFor("limit") /\ UNCHANGED asked
       ELSE /\ CountCall(role)
            /\ round' = [round EXCEPT !.pc = "asking", !.role = role]
            /\ asked' = IF role = "oracle" THEN asked + 1 ELSE asked
    /\ UNCHANGED <<checks, verdicts, artifacts, approvals, acceptanceBudget>>

(* The reviewer uses an external tool: recordIntegrationEvidence.          *)
ObserveExternally ==
    /\ Doing("asking") /\ acceptanceBudget.observations > 0
    /\ artifacts' = [artifacts EXCEPT !.observed = @ \cup {Current}]
    /\ acceptanceBudget' = [acceptanceBudget EXCEPT !.observations = @ - 1]
    /\ UNCHANGED <<acceptance, checks, verdicts, approvals, round, asked>>

AnswerReview ==
    /\ Doing("asking")
    /\ \E d \in Decisions :
           verdicts' = [verdicts EXCEPT ![round.role] = [revision |-> Current, decision |-> d]]
    /\ round' = [round EXCEPT !.pc = "review"]
    /\ artifacts' = [artifacts EXCEPT !.written = @ \cup {Current}]
    /\ UNCHANGED <<acceptance, approvals, asked, checks, acceptanceBudget>>

(* The provider fails, or captures for the reviewer have changed.          *)
ReviewFails ==
    /\ Doing("asking") /\ PauseFor("provider")
    /\ UNCHANGED <<checks, verdicts, artifacts, approvals, asked, acceptanceBudget>>

ReadReview(role) ==
    /\ Doing("review") /\ role \in round.roles /\ Reviewed(role)
    /\ CASE verdicts[role].decision = "approve" ->
                round' = [round EXCEPT !.roles = @ \ {role}, !.role = "none"] /\ UNCHANGED acceptance
         [] verdicts[role].decision = "uncertain" -> PauseFor("uncertain")
         [] OTHER -> Repair \/ PauseFor("repair")
    /\ UNCHANGED <<checks, verdicts, artifacts, approvals, asked, acceptanceBudget>>

-----------------------------------------------------------------------------
(* JUDGE: approvals, results and reviews are read, then the files.         *)

BeginJudge ==
    /\ Doing("review") /\ round.roles = {}
    /\ acceptance' = [acceptance EXCEPT !.state = "JUDGE"]
    /\ round' = [round EXCEPT !.pc = "judge", !.approved = Current \in approvals]
    /\ UNCHANGED <<checks, verdicts, artifacts, approvals, asked, acceptanceBudget>>

(* The digest of an observation is of its bytes, the digest it is compared *)
(* with of their base64 text: no observation of the revision passes.       *)
ArtifactsValid == Current \notin artifacts.changed \cup artifacts.observed

ChecksProved == \A s \in Mandatory : checks[s].revision = Current /\ checks[s].passed
ReviewsApprove == \A r \in Roles : Reviewed(r) /\ verdicts[r].decision = "approve"
(* Variant: the approval of any revision counts.                           *)
AnyApproval == HumanCriterion => approvals # {}

HumanApproved == HumanCriterion => round.approved

DecideAcceptance ==
    /\ Doing("judge")
    /\ CASE ~ArtifactsValid -> PauseFor("artifacts")
         [] ~HumanApproved -> PauseFor("human")
         [] ~(ChecksProved /\ ReviewsApprove) -> PauseFor("records")
         [] OTHER -> acceptance' = [acceptance EXCEPT !.state = "DONE"] /\ round' = Rest
    /\ UNCHANGED <<checks, verdicts, artifacts, approvals, asked, acceptanceBudget>>

-----------------------------------------------------------------------------
(* A person approves the candidate of the moment; a file is changed; the   *)
(* run is paused, or its process dies, at any step.                        *)

ApproveCriterion ==
    /\ HumanCriterion
    /\ approvals' = approvals \cup {Current}
    /\ UNCHANGED <<acceptance, checks, verdicts, artifacts, round, asked, acceptanceBudget>>

ChangeArtifact ==
    /\ acceptanceBudget.tampers > 0 /\ Current \in artifacts.written
    /\ artifacts' = [artifacts EXCEPT !.changed = @ \cup {Current}]
    /\ acceptanceBudget' = [acceptanceBudget EXCEPT !.tampers = @ - 1]
    /\ UNCHANGED <<acceptance, checks, verdicts, approvals, round, asked>>

StopRound ==
    /\ ~Doing("off") /\ acceptanceBudget.stops > 0
    /\ acceptanceBudget' = [acceptanceBudget EXCEPT !.stops = @ - 1]
    /\ \/ PauseFor("user")
       \/ round' = Rest /\ UNCHANGED acceptance
    /\ UNCHANGED <<checks, verdicts, artifacts, approvals, asked>>

AcceptanceNext ==
    \/ ResumeGoal \/ (\E s \in Specs : VerifySpec(s)) \/ EndVerify
    \/ (\E role \in Roles : AskReview(role) \/ ReadReview(role))
    \/ ObserveExternally \/ AnswerReview \/ ReviewFails \/ BeginJudge \/ DecideAcceptance
    \/ ApproveCriterion \/ ChangeArtifact \/ StopRound

AcceptanceSpec == AcceptanceInit /\ [][AcceptanceNext]_acceptanceVars

-----------------------------------------------------------------------------
AcceptanceTypeOK ==
    /\ acceptance.state \in {"PAUSED", "VERIFY", "REVIEW", "JUDGE", "DONE"} /\ Current \in Revisions
    /\ \A s \in Specs : checks[s].revision \in 0..MaxRevisions
    /\ \A r \in Roles : verdicts[r].revision \in 0..MaxRevisions /\ verdicts[r].decision \in Decisions
    /\ approvals \subseteq Revisions /\ round.specs \subseteq Specs /\ round.roles \subseteq Roles

(* A goal is done with proofs of its own candidate: every mandatory check  *)
(* passed, every required review approves and a person approved that       *)
(* revision, however many candidates, pauses and crashes came before.      *)
DoneIsProved ==
    acceptance.state = "DONE" =>
        ChecksProved /\ ReviewsApprove /\ (HumanCriterion => Current \in approvals)

(* limits.maxOracleCalls bounds the requests, not the answers: a pause or  *)
(* a crash while the oracle works does not give the call back.             *)
OracleAskedWithinLimit == asked <= MaxOracleCalls

(* A goal ends with the proofs it needs and within the calls it may make.  *)
AcceptanceInv == DoneIsProved /\ OracleAskedWithinLimit

(* A review of a candidate is final: no resume asks again until it is more *)
(* favourable.                                                             *)
VerdictStays ==
    [][\A r \in Roles : Reviewed(r) => verdicts'[r] = verdicts[r]]_acceptanceVars

(* docs/verification.md: artifacts "se hashean y comprueban antes del      *)
(* Judge": those nobody changed pass.                                      *)
IntactArtifactsAccepted == round.refused = "artifacts" => Current \in artifacts.changed
=============================================================================
