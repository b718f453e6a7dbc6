------------------------------- MODULE Semaphore -------------------------------
(***************************************************************************)
(* Semaphore.use of application/semaphore.ts: a number of permits, handed  *)
(* to its callers in order of arrival, each of which may be aborted while  *)
(* it waits, or after it was granted a permit and before it runs again:    *)
(* resolving the promise of a waiter and resuming it are two steps.        *)
(*                                                                         *)
(* The queue is a relation: ahead[u] are the waiters before u.             *)
(***************************************************************************)
EXTENDS Naturals, FiniteSets

CONSTANTS Users, Capacity

ASSUME SemaphoreAssumption == IsFiniteSet(Users) /\ Capacity \in Nat \ {0}

VARIABLES
    used,       \* permits taken
    state,      \* where each caller of use() is
    ahead,      \* the waiters before it in the queue
    aborted     \* callers whose signal is aborted

vars == <<used, state, ahead, aborted>>

UserState == {"out", "waiting", "granted", "inside"}

Waiting == {u \in Users : state[u] = "waiting"}
Holders == {u \in Users : state[u] \in {"granted", "inside"}}

Init ==
    /\ used = 0
    /\ state = [u \in Users |-> "out"]
    /\ ahead = [u \in Users |-> {}]
    /\ aborted = {}

(* Variant: one call too many is let in.                                   *)
CallOffByOne(u) ==
    /\ state[u] = "out" /\ u \notin aborted
    /\ used <= Capacity
    /\ used' = used + 1
    /\ state' = [state EXCEPT ![u] = "granted"]
    /\ UNCHANGED <<ahead, aborted>>

(* Variant: the queue is pushed at its front.                              *)
CallInFront(u) ==
    /\ state[u] = "out" /\ u \notin aborted
    /\ IF used < Capacity
         THEN /\ used' = used + 1
              /\ state' = [state EXCEPT ![u] = "granted"]
              /\ UNCHANGED ahead
         ELSE /\ state' = [state EXCEPT ![u] = "waiting"]
              /\ ahead' = [v \in Users |-> IF v \in Waiting THEN ahead[v] \cup {u} ELSE ahead[v]]
              /\ UNCHANGED used
    /\ UNCHANGED aborted

Call(u) ==
    /\ state[u] = "out" /\ u \notin aborted
    /\ IF used < Capacity
         THEN /\ used' = used + 1
              /\ state' = [state EXCEPT ![u] = "granted"]
              /\ UNCHANGED ahead
         ELSE /\ state' = [state EXCEPT ![u] = "waiting"]
              /\ ahead' = [ahead EXCEPT ![u] = Waiting]
              /\ UNCHANGED used
    /\ UNCHANGED aborted

(* Variant: the permit always goes back to the pool.                       *)
ReleaseToPool(u) ==
    /\ used' = used - 1
    /\ state' = [state EXCEPT ![u] = "out"]
    /\ UNCHANGED ahead

(* release: the permit goes to the first waiter or back to the pool.       *)
Release(u) ==
    IF Waiting = {}
    THEN /\ used' = used - 1
         /\ state' = [state EXCEPT ![u] = "out"]
         /\ UNCHANGED ahead
    ELSE \E w \in Waiting :
            /\ ahead[w] = {}
            /\ state' = [state EXCEPT ![u] = "out", ![w] = "granted"]
            /\ ahead' = [v \in Users |-> ahead[v] \ {w}]
            /\ UNCHANGED used

(* Variant: an abort after the grant throws before the try block.          *)
ResumeOutsideTry(u) ==
    /\ state[u] = "granted"
    /\ state' = [state EXCEPT ![u] = IF u \in aborted THEN "out" ELSE "inside"]
    /\ UNCHANGED <<used, ahead, aborted>>

(* The caller runs again, and throws when it was aborted in the meantime.  *)
Resume(u) ==
    /\ state[u] = "granted"
    /\ IF u \in aborted
         THEN Release(u)
         ELSE state' = [state EXCEPT ![u] = "inside"] /\ UNCHANGED <<used, ahead>>
    /\ UNCHANGED aborted

Leave(u) ==
    /\ state[u] = "inside"
    /\ Release(u)
    /\ UNCHANGED aborted

(* Variant: an aborted waiter keeps its place.                             *)
AbortInQueue(us) ==
    /\ aborted' = aborted \cup us
    /\ UNCHANGED <<used, state, ahead>>

(* A signal of some callers is aborted: those that wait leave the queue.   *)
Abort(us) ==
    /\ aborted' = aborted \cup us
    /\ state' = [u \in Users |-> IF u \in us /\ state[u] = "waiting" THEN "out" ELSE state[u]]
    /\ ahead' = [u \in Users |-> IF u \in us THEN {} ELSE ahead[u] \ us]
    /\ UNCHANGED used

(* A later call comes with a signal of its own.                            *)
NewSignal(u) ==
    /\ state[u] = "out" /\ u \in aborted
    /\ aborted' = aborted \ {u}
    /\ UNCHANGED <<used, state, ahead>>

Next == \/ \E u \in Users : Call(u) \/ Resume(u) \/ Leave(u) \/ NewSignal(u)
        \/ \E us \in SUBSET Users : Abort(us)

Spec == Init /\ [][Next]_vars

(* A granted caller is resumed, and what it runs ends.                     *)
QueueFairness == \A u \in Users : WF_vars(Resume(u) \/ Leave(u))

FairSpec == Spec /\ QueueFairness

-------------------------------------------------------------------------------
(* Types of the fields and of the callers.                                 *)
TypeOK ==
    /\ used \in 0 .. Capacity
    /\ state \in [Users -> UserState]
    /\ ahead \in [Users -> SUBSET Users]
    /\ aborted \subseteq Users

(* No permit is lost or made up, whenever callers are aborted: the counter *)
(* is the number of callers that hold one.                                 *)
PermitsAccounted == used = Cardinality(Holders)

(* Never more callers inside than permits: what use() is for.              *)
Bounded == Cardinality(Holders) <= Capacity

(* Nobody waits while a permit is free.                                    *)
NoIdlePermit == Waiting # {} => used = Capacity

(* The queue is a line of exactly the callers that wait and were not       *)
(* aborted: an aborted one is never granted the permit of another.         *)
QueueOrder ==
    /\ Waiting \cap aborted = {}
    /\ \A u \in Waiting : ahead[u] \subseteq Waiting \ {u}
    /\ \A u, v \in Waiting : u # v => (u \in ahead[v] <=> v \notin ahead[u])
    /\ \A u, v \in Waiting : u \in ahead[v] => ahead[u] \subseteq ahead[v]

(* The queue is sound: permits are counted right, none is idle while       *)
(* somebody waits, and those who wait form one line.                       *)
QueueInv == TypeOK /\ PermitsAccounted /\ NoIdlePermit /\ QueueOrder

(* Nobody overtakes: the line before a waiter never grows.                 *)
NoOvertaking ==
    [][\A u \in Users : state[u] = "waiting" /\ state'[u] = "waiting" => ahead'[u] \subseteq ahead[u]]_vars

(* Every waiter is granted a permit or aborted in the end.                 *)
WaitersServed == \A u \in Users : state[u] = "waiting" ~> state[u] # "waiting"
===============================================================================
