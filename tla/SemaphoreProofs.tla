---------------------------- MODULE SemaphoreProofs ----------------------------
(* Theorems about Semaphore for every set of callers and every capacity.   *)
EXTENDS Semaphore, FiniteSetTheorems, TLAPS

IInv == TypeOK /\ PermitsAccounted /\ NoIdlePermit /\ QueueOrder

LEMMA HoldersFinite == IsFiniteSet(Holders) /\ Cardinality(Holders) \in Nat
  <1>1. IsFiniteSet(Holders)
    BY SemaphoreAssumption, FS_Subset, Holders \in SUBSET Users DEF Holders, SemaphoreAssumption
  <1>2. QED
    BY <1>1, FS_CardinalityType

(* A set that loses one element and wins another keeps its size.           *)
LEMMA Swap ==
    ASSUME NEW S, IsFiniteSet(S), NEW u \in S, NEW w, w \notin S
    PROVE  Cardinality((S \ {u}) \cup {w}) = Cardinality(S)
  <1>1. IsFiniteSet(S \ {u}) /\ Cardinality(S \ {u}) = Cardinality(S) - 1
    BY FS_RemoveElement
  <1>2. Cardinality((S \ {u}) \cup {w}) = Cardinality(S \ {u}) + 1
    BY <1>1, FS_AddElement
  <1>3. Cardinality(S) \in Nat
    BY FS_CardinalityType
  <1>4. QED
    BY <1>1, <1>2, <1>3

LEMMA InitIInv == Init => IInv
  <1> SUFFICES ASSUME Init PROVE IInv
    OBVIOUS
  <1> USE DEF Init
  <1>1. TypeOK
    BY SemaphoreAssumption DEF TypeOK, UserState, SemaphoreAssumption
  <1>2. Holders = {} /\ Waiting = {}
    BY DEF Holders, Waiting
  <1>3. PermitsAccounted
    BY <1>2, FS_EmptySet DEF PermitsAccounted
  <1>4. QED
    BY <1>1, <1>2, <1>3 DEF IInv, NoIdlePermit, QueueOrder

(* What a release preserves, whoever it is that holds the permit.          *)
LEMMA ReleaseStep ==
    ASSUME IInv, NEW u \in Users, u \in Holders, Release(u), aborted' = aborted
    PROVE  IInv'
  <1> USE DEF IInv
  <1>1. CASE Waiting = {}
    <2>1. /\ used' = used - 1
          /\ state' = [state EXCEPT ![u] = "out"]
          /\ ahead' = ahead
      BY <1>1 DEF Release
    <2>2. Holders' = Holders \ {u} /\ Waiting' = {}
      BY <1>1, <2>1 DEF Holders, Waiting, TypeOK
    <2>3. Cardinality(Holders') = Cardinality(Holders) - 1
      BY <2>2, HoldersFinite, FS_RemoveElement
    <2>4. Cardinality(Holders') \in Nat
      BY <2>2, HoldersFinite, FS_RemoveElement, FS_CardinalityType
    <2>5. PermitsAccounted' /\ used' \in 0 .. Capacity
      BY <2>1, <2>3, <2>4, SemaphoreAssumption DEF PermitsAccounted, TypeOK, SemaphoreAssumption
    <2>6. TypeOK'
      BY <2>1, <2>5 DEF TypeOK, UserState
    <2>7. QED
      BY <2>2, <2>5, <2>6 DEF NoIdlePermit, QueueOrder
  <1>2. CASE Waiting # {}
    <2>1. PICK w \in Waiting :
              /\ ahead[w] = {}
              /\ state' = [state EXCEPT ![u] = "out", ![w] = "granted"]
              /\ ahead' = [v \in Users |-> ahead[v] \ {w}]
              /\ used' = used
      BY <1>2 DEF Release
    <2>2. w \in Users /\ w # u /\ w \notin Holders
      BY DEF Waiting, Holders
    <2>3. /\ Holders' = (Holders \ {u}) \cup {w}
          /\ Waiting' = Waiting \ {w}
      BY <2>1, <2>2 DEF Holders, Waiting, TypeOK
    <2>4. PermitsAccounted'
      BY <2>1, <2>2, <2>3, HoldersFinite, Swap DEF PermitsAccounted
    <2>5. TypeOK'
      BY <2>1, <2>2 DEF TypeOK, UserState
    <2>6. NoIdlePermit'
      BY <1>2, <2>1 DEF NoIdlePermit
    <2>7. QueueOrder'
      <3>1. \A v \in Users : ahead'[v] = ahead[v] \ {w}
        BY <2>1
      <3>2. Waiting \subseteq Users
        BY DEF Waiting
      <3>3. QED
        BY <2>3, <3>1, <3>2 DEF QueueOrder
    <2>8. QED
      BY <2>4, <2>5, <2>6, <2>7
  <1>3. QED
    BY <1>1, <1>2

LEMMA CallStep ==
    ASSUME IInv, NEW u \in Users, Call(u)
    PROVE  IInv'
  <1> USE DEF IInv
  <1>1. CASE used < Capacity
    <2>1. /\ used' = used + 1
          /\ state' = [state EXCEPT ![u] = "granted"]
          /\ ahead' = ahead /\ aborted' = aborted
          /\ state[u] = "out"
      BY <1>1 DEF Call
    <2>2. /\ u \notin Holders
          /\ Holders' = Holders \cup {u}
          /\ Waiting' = Waiting
      BY <2>1 DEF Holders, Waiting, TypeOK
    <2>3. PermitsAccounted'
      BY <2>1, <2>2, HoldersFinite, FS_AddElement DEF PermitsAccounted
    <2>4. TypeOK'
      BY <1>1, <2>1, SemaphoreAssumption DEF TypeOK, UserState, SemaphoreAssumption
    <2>5. Waiting = {}
      BY <1>1, SemaphoreAssumption DEF NoIdlePermit, TypeOK, SemaphoreAssumption
    <2>6. QED
      BY <2>1, <2>2, <2>3, <2>4, <2>5 DEF NoIdlePermit, QueueOrder
  <1>2. CASE ~(used < Capacity)
    <2>1. /\ state' = [state EXCEPT ![u] = "waiting"]
          /\ ahead' = [ahead EXCEPT ![u] = Waiting]
          /\ used' = used /\ aborted' = aborted
          /\ state[u] = "out" /\ u \notin aborted
      BY <1>2 DEF Call
    <2>2. Holders' = Holders /\ Waiting' = Waiting \cup {u} /\ u \notin Waiting
      BY <2>1 DEF Holders, Waiting, TypeOK
    <2>3. PermitsAccounted' /\ NoIdlePermit'
      BY <1>2, <2>1, <2>2, SemaphoreAssumption
      DEF PermitsAccounted, NoIdlePermit, TypeOK, SemaphoreAssumption
    <2>4. TypeOK'
      BY <2>1 DEF TypeOK, UserState, Waiting
    <2>5. QueueOrder'
      <3>1. Waiting \subseteq Users
        BY DEF Waiting
      <3>2. ahead'[u] = Waiting /\ \A v \in Waiting : ahead'[v] = ahead[v]
        BY <2>1, <2>2, <3>1 DEF TypeOK
      <3>3. QED
        BY <2>1, <2>2, <3>2 DEF QueueOrder
    <2>6. QED
      BY <2>3, <2>4, <2>5
  <1>3. QED
    BY <1>1, <1>2

LEMMA AbortStep ==
    ASSUME IInv, NEW us \in SUBSET Users, Abort(us)
    PROVE  IInv'
  <1> USE DEF IInv
  <1>1. /\ aborted' = aborted \cup us
        /\ state' = [u \in Users |-> IF u \in us /\ state[u] = "waiting" THEN "out" ELSE state[u]]
        /\ ahead' = [u \in Users |-> IF u \in us THEN {} ELSE ahead[u] \ us]
        /\ used' = used
    BY DEF Abort
  <1>2. Holders' = Holders /\ Waiting' = Waiting \ us
    BY <1>1 DEF Holders, Waiting
  <1>3. TypeOK'
    BY <1>1 DEF TypeOK, UserState
  <1>4. PermitsAccounted' /\ NoIdlePermit'
    BY <1>1, <1>2 DEF PermitsAccounted, NoIdlePermit
  <1>5. QueueOrder'
    <2>1. \A v \in Waiting \ us : v \in Users /\ ahead'[v] = ahead[v] \ us
      BY <1>1 DEF Waiting
    <2>2. QED
      BY <1>1, <1>2, <2>1 DEF QueueOrder
  <1>6. QED
    BY <1>3, <1>4, <1>5

LEMMA Inductive == IInv /\ [Next]_vars => IInv'
  <1> SUFFICES ASSUME IInv, [Next]_vars PROVE IInv'
    OBVIOUS
  <1>1. ASSUME NEW u \in Users, Call(u) PROVE IInv'
    BY <1>1, CallStep
  <1>2. ASSUME NEW u \in Users, Resume(u) PROVE IInv'
    <2>1. CASE u \in aborted
      BY <1>2, <2>1, ReleaseStep DEF Resume, Holders
    <2>2. CASE u \notin aborted
      <3>1. /\ state' = [state EXCEPT ![u] = "inside"] /\ state[u] = "granted"
            /\ used' = used /\ ahead' = ahead /\ aborted' = aborted
        BY <1>2, <2>2 DEF Resume
      <3>2. Holders' = Holders /\ Waiting' = Waiting
        BY <3>1 DEF Holders, Waiting, IInv, TypeOK
      <3>3. TypeOK'
        BY <3>1 DEF IInv, TypeOK, UserState
      <3>4. QED
        BY <3>1, <3>2, <3>3 DEF IInv, PermitsAccounted, NoIdlePermit, QueueOrder
    <2>3. QED
      BY <2>1, <2>2
  <1>3. ASSUME NEW u \in Users, Leave(u) PROVE IInv'
    BY <1>3, ReleaseStep DEF Leave, Holders
  <1>4. ASSUME NEW u \in Users, NewSignal(u) PROVE IInv'
    <2>1. /\ aborted' = aborted \ {u} /\ state[u] = "out"
          /\ used' = used /\ state' = state /\ ahead' = ahead
      BY <1>4 DEF NewSignal
    <2>2. Holders' = Holders /\ Waiting' = Waiting
      BY <2>1 DEF Holders, Waiting
    <2>3. QED
      BY <2>1, <2>2 DEF IInv, TypeOK, PermitsAccounted, NoIdlePermit, QueueOrder
  <1>5. ASSUME NEW us \in SUBSET Users, Abort(us) PROVE IInv'
    BY <1>5, AbortStep
  <1>6. CASE UNCHANGED vars
    BY <1>6 DEF vars, IInv, TypeOK, PermitsAccounted, NoIdlePermit, QueueOrder, Holders, Waiting
  <1>7. QED
    BY <1>1, <1>2, <1>3, <1>4, <1>5, <1>6 DEF Next

(* The counter, the queue and the callers agree in every reachable state.  *)
THEOREM InductiveInvariant == Spec => []IInv
  <1>1. QED
    BY InitIInv, Inductive, PTL DEF Spec

(* The fields of a semaphore keep their types.                             *)
THEOREM TypeCorrect == Spec => []TypeOK
  <1>1. IInv => TypeOK
    BY DEF IInv
  <1>2. QED
    BY InductiveInvariant, <1>1, PTL

(* used counts the callers that hold a permit: Semaphore.release neither   *)
(* loses nor doubles one, however aborts and grants interleave.            *)
THEOREM PermitsKept == Spec => []PermitsAccounted
  <1>1. IInv => PermitsAccounted
    BY DEF IInv
  <1>2. QED
    BY InductiveInvariant, <1>1, PTL

(* There are never more callers inside than the capacity.                  *)
THEOREM CapacityKept == Spec => []Bounded
  <1>1. IInv => Bounded
    BY DEF IInv, Bounded, PermitsAccounted, TypeOK
  <1>2. QED
    BY InductiveInvariant, <1>1, PTL

(* No caller waits beside a free permit.                                   *)
THEOREM WorkConserving == Spec => []NoIdlePermit
  <1>1. IInv => NoIdlePermit
    BY DEF IInv
  <1>2. QED
    BY InductiveInvariant, <1>1, PTL

(* The queue is a strict order of the waiters none of which is aborted.    *)
THEOREM QueueIsLine == Spec => []QueueOrder
  <1>1. IInv => QueueOrder
    BY DEF IInv
  <1>2. QED
    BY InductiveInvariant, <1>1, PTL

(* The queue of application/semaphore.ts is sound for any capacity and any *)
(* number of users, whenever they abort.                                   *)
THEOREM QueueIsSound == Spec => []QueueInv
  <1>1. IInv => QueueInv
    BY DEF IInv, QueueInv
  <1>2. QED
    BY InductiveInvariant, <1>1, PTL

(* In one step.                                                            *)
LineShrinks ==
    \A u \in Users : state[u] = "waiting" /\ state'[u] = "waiting" => ahead'[u] \subseteq ahead[u]

LEMMA StepShrinks ==
    ASSUME ahead \in [Users -> SUBSET Users], [Next]_vars
    PROVE  LineShrinks
  <1> USE DEF LineShrinks
  <1>1. ASSUME NEW u \in Users, Release(u) PROVE LineShrinks
    BY <1>1 DEF Release, Waiting
  <1>2. ASSUME NEW u \in Users, Call(u) PROVE LineShrinks
    BY <1>2 DEF Call
  <1>3. ASSUME NEW u \in Users, Resume(u) PROVE LineShrinks
    BY <1>1, <1>3 DEF Resume
  <1>4. ASSUME NEW u \in Users, Leave(u) PROVE LineShrinks
    BY <1>1, <1>4 DEF Leave
  <1>5. ASSUME NEW u \in Users, NewSignal(u) PROVE LineShrinks
    BY <1>5 DEF NewSignal
  <1>6. ASSUME NEW us \in SUBSET Users, Abort(us) PROVE LineShrinks
    BY <1>6 DEF Abort
  <1>7. CASE UNCHANGED vars
    BY <1>7 DEF vars
  <1>8. QED
    BY <1>2, <1>3, <1>4, <1>5, <1>6, <1>7 DEF Next

(* Nobody who came later is served before: whatever calls, leaves and      *)
(* aborts happen, the line before a waiter of Semaphore.use only shrinks.  *)
THEOREM NobodyOvertakes == Spec => NoOvertaking
  <1>1. IInv /\ [Next]_vars => [LineShrinks]_vars
    BY StepShrinks DEF IInv, TypeOK
  <1>2. QED
    BY InductiveInvariant, <1>1, PTL DEF Spec, NoOvertaking, LineShrinks
===============================================================================
