--------------------------- MODULE IntegrationLedger ---------------------------
(***************************************************************************)
(* What the integration of task results promises, with no lock, intent,    *)
(* crash or recovery in sight: the work of one task at a time lands in the *)
(* candidate, may be withdrawn until it is booked, and is booked for good. *)
(***************************************************************************)
CONSTANT Tasks

VARIABLES
    landed,     \* tasks with a commit in the candidate repository
    booked      \* tasks whose record says accepted

vars == <<landed, booked>>

Init == landed = {} /\ booked = {}

(* Nothing lands on top of work that is not booked, and nothing lands      *)
(* twice.                                                                  *)
Land(t) ==
    /\ landed \subseteq booked
    /\ t \notin landed \cup booked
    /\ landed' = landed \cup {t}
    /\ UNCHANGED booked

Withdraw(t) ==
    /\ t \in landed \ booked
    /\ landed' = landed \ {t}
    /\ UNCHANGED booked

(* A task whose patch is empty is booked without having landed.            *)
Book(t) ==
    /\ landed \subseteq booked \cup {t}
    /\ t \notin booked
    /\ booked' = booked \cup {t}
    /\ UNCHANGED landed

Next == \E t \in Tasks : Land(t) \/ Withdraw(t) \/ Book(t)

Spec == Init /\ [][Next]_vars
===============================================================================
