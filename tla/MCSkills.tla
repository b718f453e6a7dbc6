------------------------------ MODULE MCSkills ------------------------------
(***************************************************************************)
(* Three separate instances in one run: an evaluation of a skill by two    *)
(* sessions, the policy of two skills, of which x needs y and has two      *)
(* versions, and the queue for heavy commands.                             *)
(***************************************************************************)
EXTENDS SkillTrial, SkillPolicy, Semaphore, TLC

CONSTANTS x, y, x1, x2, y1

VARIABLE which      \* the instance this behaviour is about

MCSkillOf == x1 :> x @@ x2 :> x @@ y1 :> y
MCNeeds == x :> {y} @@ y :> {}

MCInit ==
    /\ which \in {"trial", "policy", "queue"}
    /\ TrialInit /\ PolicyInit /\ Init

MCNext ==
    /\ UNCHANGED which
    /\ \/ which = "trial" /\ TrialNext /\ UNCHANGED <<policyVars, vars>>
       \/ which = "policy" /\ PolicyNext /\ UNCHANGED <<trialVars, vars>>
       \/ which = "queue" /\ Next /\ UNCHANGED <<trialVars, policyVars>>

mcVars == <<which, trialVars, policyVars, vars>>

(* No fair step is enabled in an instance that is not under way.           *)
MCFairSpec ==
    MCInit /\ [][MCNext]_mcVars /\ TrialFairness /\ PolicyFairness /\ QueueFairness

(* The variables of the first two keep their types (QueueInv has those of  *)
(* the third).                                                             *)
SkillsTypeOK == TrialTypeOK /\ PolicyTypeOK

(* Whoever has to stop stops, and whoever waits is served: a trial that is *)
(* cancelled, a run whose policy changed, a waiter of the semaphore.       *)
SkillsEnd == CancelStopsRun /\ DecisionEndsRun /\ WaitersServed
=============================================================================
