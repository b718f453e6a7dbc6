------------------------------ MODULE FiniteSums ------------------------------
(* Induction over numbers and over the parts of a finite set, and sums.    *)
EXTENDS Naturals, FiniteSets, FiniteSetsExt, Functions, FiniteSetTheorems,
        WellFoundedInduction, TLAPS

(* Induction is the choice of a least counterexample: G is the set of      *)
(* what the claim holds of.                                                *)

(* A set of numbers has a least one.                                       *)
LEMMA LeastNat ==
    ASSUME NEW T \in SUBSET Nat, T # {}
    PROVE  \E m \in T : \A k \in T : ~(k < m)
  <1>1. \E m \in T : \A k \in T : <<k, m>> \notin OpToRel(<, Nat)
    BY NatLessThanWellFounded, WFMin
  <1>2. QED
    BY <1>1 DEF OpToRel

(* What holds of 0, and of n + 1 when it holds of n, holds of all numbers. *)
LEMMA CountingUp ==
    ASSUME NEW G, 0 \in G, \A n \in Nat : n \in G => n + 1 \in G
    PROVE  \A n \in Nat : n \in G
  <1> DEFINE T == {n \in Nat : n \notin G}
  <1>1. SUFFICES ASSUME T # {} PROVE FALSE
    OBVIOUS
  <1>2. PICK m \in T : \A k \in T : ~(k < m)
    <2>1. T \in SUBSET Nat
      OBVIOUS
    <2> HIDE DEF T
    <2>2. QED
      BY <1>1, <2>1, LeastNat
  <1>3. m \in Nat /\ m # 0 /\ m - 1 \in Nat /\ m - 1 < m /\ (m - 1) + 1 = m
    OBVIOUS
  <1>4. m - 1 \in G
    BY <1>2, <1>3
  <1>5. m \in G
    BY <1>3, <1>4
  <1>6. QED
    BY <1>5

(* A set of parts of a finite set has a least one.                         *)
LEMMA LeastPart ==
    ASSUME NEW S, IsFiniteSet(S), NEW T \in SUBSET SUBSET S, T # {}
    PROVE  \E s \in T : \A t \in T : t \subseteq s => t = s
  <1>1. T \subseteq FiniteSubsetsOf(S)
    BY FS_FiniteSubsetsOfFinite
  <1>2. \E s \in T : \A t \in T : <<t, s>> \notin StrictSubsetOrdering(S)
    BY <1>1, FS_StrictSubsetOrderingWellFounded, WFMin
  <1>3. QED
    BY <1>2 DEF StrictSubsetOrdering

-------------------------------------------------------------------------------
(* Sums over finite sets: SumFunction, which the community modules define  *)
(* by recursion over the parts of the domain.  Induction is the choice of  *)
(* a least part that breaks a claim.                                       *)

Some(s) == CHOOSE x \in s : TRUE
Remainder(s) == s \ {Some(s)}

(* sum is the sum of f over each part of S, as MapThenFoldSet defines it.  *)
Sums(f, S, sum) ==
    sum = [s \in SUBSET S |-> IF s = {} THEN 0 ELSE f[Some(s)] + sum[s \ {Some(s)}]]

LEMMA RemainderIsSmaller ==
    ASSUME NEW s, s # {}
    PROVE  Some(s) \in s /\ Remainder(s) \subseteq s /\ Remainder(s) # s /\ s = Remainder(s) \cup {Some(s)}
  BY DEF Some, Remainder

(* What holds of the empty part, and of a part when it holds of the rest   *)
(* of it, holds of all: G is the set of the parts it holds of.             *)
LEMMA PartInduction ==
    ASSUME NEW S, IsFiniteSet(S), NEW G, {} \in G,
           \A s \in SUBSET S : s # {} /\ Remainder(s) \in G => s \in G
    PROVE  \A s \in SUBSET S : s \in G
  <1> DEFINE T == {s \in SUBSET S : s \notin G}
  <1>1. SUFFICES ASSUME T # {} PROVE FALSE
    OBVIOUS
  <1>2. T \in SUBSET SUBSET S
    OBVIOUS
  <1>3. PICK s \in T : \A t \in T : t \subseteq s => t = s
    <2> HIDE DEF T
    <2>1. QED
      BY <1>1, <1>2, LeastPart
  <1>4. s \in SUBSET S /\ s # {} /\ s \notin G
    OBVIOUS
  <1>5. Remainder(s) \in SUBSET S /\ Remainder(s) \in G
    BY <1>3, <1>4, RemainderIsSmaller
  <1>6. QED
    BY <1>4, <1>5

LEMMA SumsAt ==
    ASSUME NEW f, NEW S, NEW sum, Sums(f, S, sum)
    PROVE  /\ sum[{}] = 0
           /\ \A s \in SUBSET S : s # {} => sum[s] = f[Some(s)] + sum[Remainder(s)]
  BY DEF Sums, Remainder

LEMMA SumsAgree ==
    ASSUME NEW f, NEW S, IsFiniteSet(S), NEW A \in SUBSET S, NEW B \in SUBSET S,
           NEW a, NEW b, Sums(f, A, a), Sums(f, B, b)
    PROVE  \A s \in SUBSET (A \cap B) : a[s] = b[s]
  <1> DEFINE G == {s \in SUBSET (A \cap B) : a[s] = b[s]}
  <1>1. IsFiniteSet(A \cap B)
    BY FS_Subset
  <1>2. {} \in G
    BY SumsAt
  <1>3. ASSUME NEW s \in SUBSET (A \cap B), s # {}, Remainder(s) \in G PROVE s \in G
    <2>1. a[s] = f[Some(s)] + a[Remainder(s)] /\ b[s] = f[Some(s)] + b[Remainder(s)]
      BY <1>3, SumsAt
    <2>2. QED
      BY <1>3, <2>1
  <1> HIDE DEF G
  <1>4. \A s \in SUBSET (A \cap B) : s \in G
    BY <1>1, <1>2, <1>3, PartInduction
  <1>5. QED
    BY <1>4 DEF G

LEMMA SumsExist ==
    ASSUME NEW f, NEW S, IsFiniteSet(S)
    PROVE  \E sum : Sums(f, S, sum)
  <1> DEFINE G == {s \in SUBSET S : \E sum : Sums(f, s, sum)}
  <1>1. {} \in G
    <2>1. Sums(f, {}, [s \in SUBSET {} |-> 0])
      BY DEF Sums
    <2>2. QED
      BY <2>1
  <1>2. SUFFICES ASSUME NEW s \in SUBSET S, s # {},
                        \A t \in SUBSET S : t \subseteq s /\ t # s => t \in G
                 PROVE  s \in G
    <2> DEFINE T == {s \in SUBSET S : s \notin G}
    <2>1. T # {} => \E s \in T : \A t \in T : t \subseteq s => t = s
      <3>1. T \in SUBSET SUBSET S
        OBVIOUS
      <3> HIDE DEF T
      <3>2. QED
        BY <3>1, LeastPart
    <2>2. T = {}
      <3> HIDE DEF G
      <3>1. QED
        BY <1>1, <1>2, <2>1
    <2>3. QED
      BY <2>2, S \in SUBSET S
  <1> DEFINE Smaller(t) == CHOOSE sum : Sums(f, t, sum)
             Value(u) == IF u = {} THEN 0 ELSE f[Some(u)] + Smaller(Remainder(u))[Remainder(u)]
             whole == [u \in SUBSET s |-> Value(u)]
  <1>3. ASSUME NEW t \in SUBSET s, t # s PROVE Sums(f, t, Smaller(t))
    <2>1. \E sum : Sums(f, t, sum)
      BY <1>2, <1>3
    <2>2. QED
      BY <2>1
  <1> HIDE DEF Smaller, G
  <1>4. ASSUME NEW u \in SUBSET s, u # {}
        PROVE  Smaller(Remainder(u))[Remainder(u)] = whole[Remainder(u)]
    <2> DEFINE v == Remainder(u)
    <2>1. v \in SUBSET s /\ v # s
      BY <1>4, RemainderIsSmaller
    <2> HIDE DEF v
    <2>2. Sums(f, v, Smaller(v))
      BY <1>3, <2>1
    <2>3. CASE v = {}
      BY <2>1, <2>2, <2>3, SumsAt DEF v
    <2>4. CASE v # {}
      <3>1. Smaller(v)[v] = f[Some(v)] + Smaller(v)[Remainder(v)]
        BY <2>2, <2>4, SumsAt
      <3>2. Remainder(v) \in SUBSET s /\ Remainder(v) # s /\ Remainder(v) \in SUBSET (v \cap Remainder(v))
        BY <2>1, <2>4, RemainderIsSmaller
      <3>3. Sums(f, Remainder(v), Smaller(Remainder(v)))
        BY <1>3, <3>2
      <3>4. Smaller(v)[Remainder(v)] = Smaller(Remainder(v))[Remainder(v)]
        BY <2>1, <2>2, <3>2, <3>3, SumsAgree
      <3>5. whole[v] = f[Some(v)] + Smaller(Remainder(v))[Remainder(v)]
        BY <2>1, <2>4
      <3>6. QED
        BY <3>1, <3>4, <3>5 DEF v
    <2>5. QED
      BY <2>3, <2>4
  <1>5. Sums(f, s, whole)
    <2>1. whole = [u \in SUBSET s |-> IF u = {} THEN 0 ELSE f[Some(u)] + whole[Remainder(u)]]
      BY <1>4
    <2> HIDE DEF whole
    <2>2. QED
      BY <2>1 DEF Sums, Remainder
  <1>6. QED
    BY <1>5 DEF G

(* SumFunction(f) is built up from the values of f, one after another.     *)
LEMMA SumFunctionIs ==
    ASSUME NEW S, IsFiniteSet(S), NEW f, DOMAIN f = S
    PROVE  \E sum : /\ SumFunction(f) = sum[S]
                    /\ sum[{}] = 0
                    /\ \A s \in SUBSET S : s # {} => sum[s] = f[Some(s)] + sum[Remainder(s)]
  <1> DEFINE sum == CHOOSE g : Sums(f, S, g)
  <1>1. Sums(f, S, sum)
    BY SumsExist
  <1>2. SumFunction(f) = sum[S]
    BY DEF SumFunction, SumFunctionOnSet, FoldFunctionOnSet, MapThenFoldSet, Sums, Some
  <1> HIDE DEF sum
  <1>3. QED
    BY <1>1, <1>2, SumsAt

(* A sum of zeros is zero.                                                 *)
LEMMA SumZero ==
    ASSUME NEW S, IsFiniteSet(S), NEW f \in [S -> Nat], \A x \in S : f[x] = 0
    PROVE  SumFunction(f) = 0
  <1>1. PICK sum : /\ SumFunction(f) = sum[S]
                   /\ sum[{}] = 0
                   /\ \A s \in SUBSET S : s # {} => sum[s] = f[Some(s)] + sum[Remainder(s)]
    BY SumFunctionIs
  <1> DEFINE G == {s \in SUBSET S : sum[s] = 0}
  <1>2. {} \in G
    BY <1>1
  <1>3. ASSUME NEW s \in SUBSET S, s # {}, Remainder(s) \in G PROVE s \in G
    BY <1>1, <1>3, RemainderIsSmaller
  <1> HIDE DEF G
  <1>4. \A s \in SUBSET S : s \in G
    BY <1>2, <1>3, PartInduction
  <1>5. QED
    BY <1>1, <1>4 DEF G

(* A sum does not grow when no part of it does.                            *)
LEMMA SumMonotone ==
    ASSUME NEW S, IsFiniteSet(S), NEW f \in [S -> Nat], NEW g \in [S -> Nat],
           \A x \in S : f[x] <= g[x]
    PROVE  SumFunction(f) \in Nat /\ SumFunction(f) <= SumFunction(g)
  <1>1. PICK a : /\ SumFunction(f) = a[S]
                 /\ a[{}] = 0
                 /\ \A s \in SUBSET S : s # {} => a[s] = f[Some(s)] + a[Remainder(s)]
    BY SumFunctionIs
  <1>2. PICK b : /\ SumFunction(g) = b[S]
                 /\ b[{}] = 0
                 /\ \A s \in SUBSET S : s # {} => b[s] = g[Some(s)] + b[Remainder(s)]
    BY SumFunctionIs
  <1> DEFINE G == {s \in SUBSET S : a[s] \in Nat /\ b[s] \in Nat /\ a[s] <= b[s]}
  <1>3. {} \in G
    BY <1>1, <1>2
  <1>4. ASSUME NEW s \in SUBSET S, s # {}, Remainder(s) \in G PROVE s \in G
    <2>1. a[s] = f[Some(s)] + a[Remainder(s)] /\ b[s] = g[Some(s)] + b[Remainder(s)]
      BY <1>1, <1>2, <1>4
    <2>2. /\ f[Some(s)] \in Nat /\ g[Some(s)] \in Nat
          /\ f[Some(s)] <= g[Some(s)]
      BY <1>4, RemainderIsSmaller
    <2>3. QED
      BY <1>4, <2>1, <2>2
  <1> HIDE DEF G
  <1>5. \A s \in SUBSET S : s \in G
    BY <1>3, <1>4, PartInduction
  <1>6. QED
    BY <1>1, <1>2, <1>5 DEF G

(* A sum grows by what is added to one of its parts.                       *)
LEMMA SumAdded ==
    ASSUME NEW S, IsFiniteSet(S), NEW f \in [S -> Nat], NEW g \in [S -> Nat],
           NEW x \in S, NEW n \in Nat,
           \A y \in S : g[y] = IF y = x THEN f[y] + n ELSE f[y]
    PROVE  SumFunction(g) = SumFunction(f) + n
  <1>1. PICK a : /\ SumFunction(f) = a[S]
                 /\ a[{}] = 0
                 /\ \A s \in SUBSET S : s # {} => a[s] = f[Some(s)] + a[Remainder(s)]
    BY SumFunctionIs
  <1>2. PICK b : /\ SumFunction(g) = b[S]
                 /\ b[{}] = 0
                 /\ \A s \in SUBSET S : s # {} => b[s] = g[Some(s)] + b[Remainder(s)]
    BY SumFunctionIs
  <1> DEFINE G == {s \in SUBSET S :
                      a[s] \in Nat /\ b[s] = a[s] + (IF x \in s THEN n ELSE 0)}
  <1>3. {} \in G
    BY <1>1, <1>2
  <1>4. ASSUME NEW s \in SUBSET S, s # {}, Remainder(s) \in G PROVE s \in G
    <2>1. a[s] = f[Some(s)] + a[Remainder(s)] /\ b[s] = g[Some(s)] + b[Remainder(s)]
      BY <1>1, <1>2, <1>4
    <2>2. f[Some(s)] \in Nat /\ a[Remainder(s)] \in Nat /\ Some(s) \in S
      BY <1>4, RemainderIsSmaller
    <2>3. CASE Some(s) = x
      <3>1. x \in s /\ x \notin Remainder(s)
        BY <1>4, <2>3, RemainderIsSmaller DEF Remainder
      <3>2. g[Some(s)] = f[Some(s)] + n /\ b[Remainder(s)] = a[Remainder(s)]
        BY <1>4, <2>3, <3>1
      <3>3. QED
        BY <2>1, <2>2, <3>1, <3>2
    <2>4. CASE Some(s) # x
      <3>1. x \in s <=> x \in Remainder(s)
        BY <2>4 DEF Remainder
      <3>2. g[Some(s)] = f[Some(s)]
        BY <2>2, <2>4
      <3>3. b[Remainder(s)] = a[Remainder(s)] + (IF x \in s THEN n ELSE 0)
        BY <1>4, <3>1
      <3>4. QED
        BY <2>1, <2>2, <3>2, <3>3
    <2>5. QED
      BY <2>3, <2>4
  <1> HIDE DEF G
  <1>5. \A s \in SUBSET S : s \in G
    BY <1>3, <1>4, PartInduction
  <1>6. QED
    BY <1>1, <1>2, <1>5 DEF G

===============================================================================
