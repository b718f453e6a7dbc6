------------------------------ MODULE GoalStates ------------------------------
(***************************************************************************)
(* The states of a goal and the moves between them that                    *)
(* domain/goal-state-machine.ts allows.                                    *)
(***************************************************************************)
GoalState == {"RECEIVED", "UNDERSTAND", "DISCOVER", "PLAN", "DECOMPOSE", "ASSIGN",
              "EXECUTE", "VERIFY", "REVIEW", "JUDGE", "REPAIR", "REPLAN",
              "PAUSED", "DONE", "FAILED", "ABORTED"}

Terminal == {"DONE", "FAILED", "ABORTED"}

Edges == [RECEIVED   |-> {"UNDERSTAND"},
          UNDERSTAND |-> {"DISCOVER"},
          DISCOVER   |-> {"PLAN"},
          PLAN       |-> {"DECOMPOSE"},
          DECOMPOSE  |-> {"ASSIGN", "PLAN"},
          ASSIGN     |-> {"EXECUTE", "VERIFY"},
          EXECUTE    |-> {"ASSIGN", "VERIFY", "REPAIR", "REPLAN"},
          VERIFY     |-> {"REVIEW", "REPAIR", "REPLAN"},
          REVIEW     |-> {"JUDGE", "REPAIR", "REPLAN"},
          JUDGE      |-> {"DONE", "REPAIR", "REPLAN"},
          REPAIR     |-> {"ASSIGN", "REPLAN"},
          REPLAN     |-> {"DECOMPOSE", "ASSIGN"},
          PAUSED     |-> {"UNDERSTAND", "DISCOVER", "PLAN", "DECOMPOSE", "ASSIGN",
                          "VERIFY", "REVIEW", "REPLAN"},
          DONE       |-> {},
          FAILED     |-> {},
          ABORTED    |-> {}]

(* transition returns the goal unchanged for its own state, throws for     *)
(* anything it does not allow.                                             *)
Legal(from, to) ==
    \/ from = to
    \/ /\ from \notin Terminal
       /\ to \in {"PAUSED", "FAILED", "ABORTED"} \cup Edges[from]
===============================================================================
