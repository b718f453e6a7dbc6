------------------------------ MODULE MCGoalRun ------------------------------
(***************************************************************************)
(* Separate instances in one run: the waves of a goal with two tasks that  *)
(* may run in parallel (t1 and t2), or that may not (t3 owns what t1 owns),*)
(* two preparations of dependencies beside the run of their goal (pt is    *)
(* for the task), and the acceptance of a candidate.                       *)
(***************************************************************************)
EXTENDS WorkerPool, DependencyPreparation, GoalAcceptance

CONSTANTS t1, t2, t3, pa, pt, node

VARIABLE which      \* the instance this behaviour is about

MCOwned == [t \in Tasks |-> CASE t = t1 -> {"a"}
                              [] t = t2 -> {"b"}
                              [] t = t3 -> {"a", "b"}]

MCBase(p) == node
MCForTask(p) == p = pt
MCDependencyBudgets == {[crashes |-> 1, outages |-> 1]}
MCStops(stops, tampers, observations) ==
    [stops |-> stops, tampers |-> tampers, observations |-> observations]
MCAcceptanceBudgets == {MCStops(1, 0, 0), MCStops(0, 1, 0), MCStops(0, 0, 1)}

MCInit ==
    /\ which \in {"parallel", "overlapping", "preparation", "acceptance"}
    /\ Init /\ DependencyInit /\ AcceptanceInit
    /\ which # "preparation" => HeadTree.manifest = Plain /\ HeadTree.lock = NoLockfile
    /\ which # "acceptance" => acceptanceBudget = MCStops(1, 0, 0)

(* The task the goal of the waves does not have.                           *)
Absent == IF which = "parallel" THEN t3 ELSE t2

MCNext ==
    /\ UNCHANGED which
    /\ \/ /\ which \in {"parallel", "overlapping"} /\ Next /\ pc'[Absent] = "none"
          /\ UNCHANGED <<prepVars, acceptanceVars>>
       \/ which = "preparation" /\ DependencyNext /\ UNCHANGED <<vars, acceptanceVars>>
       \/ which = "acceptance" /\ AcceptanceNext /\ UNCHANGED <<vars, prepVars>>

mcVars == <<which, vars, prepVars, acceptanceVars>>

MCSpec == MCInit /\ [][MCNext]_mcVars

(* No fair step is enabled in an instance that is not under way.           *)
MCFairSpec == MCSpec /\ WaveFairness /\ DependencyFairness

(* One instance alone.                                                     *)
MCPreparationSpec == which = "preparation" /\ MCSpec
MCAcceptanceSpec == which = "acceptance" /\ MCSpec

(* The variables of each instance keep their types.                        *)
GoalRunTypeOK == TypeOK /\ DependencyTypeOK /\ AcceptanceTypeOK

(* A wave of tasks and a preparation end, whatever its agents, containers  *)
(* and installations do (finally of execute and of prepareDependencies).   *)
GoalRunEnds == WaveEnds /\ PreparationEnds
=============================================================================
