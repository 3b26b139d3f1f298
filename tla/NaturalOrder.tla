---------------------------- MODULE NaturalOrder -----------------------------
(***************************************************************************)
(* Every set of natural numbers has a least element, and what follows from *)
(* it.  Facts for the proof modules.                                       *)
(***************************************************************************)
EXTENDS Naturals, Sequences, FiniteSetTheorems, WellFoundedInduction, TLAPS

(* From the intervals below the elements, which are finite sets.           *)
LEMMA Least ==
  ASSUME NEW T \in SUBSET Nat, T # {}
  PROVE  \E x \in T : \A y \in T : x <= y
<1> DEFINE I == {0 .. n : n \in T}
<1>1. I \subseteq FiniteSubsetsOf(Nat) /\ I # {}
  <2>1. \A n \in Nat : 0 .. n \in SUBSET Nat /\ IsFiniteSet(0 .. n)
    BY FS_Interval
  <2>2. \A n \in Nat : 0 .. n \in FiniteSubsetsOf(Nat)
    BY <2>1, Zenon DEF FiniteSubsetsOf
  <2> QED
    BY <2>2
<1>2. IsWellFoundedOn(StrictSubsetOrdering(Nat), FiniteSubsetsOf(Nat))
  BY FS_StrictSubsetOrderingWellFounded
<1>3. PICK s \in I : \A t \in I : <<t, s>> \notin StrictSubsetOrdering(Nat)
  <2> HIDE DEF I
  <2> QED
    BY <1>1, <1>2, WFMin
<1>4. PICK n \in T : s = 0 .. n
  OBVIOUS
<1>5. ASSUME NEW m \in T PROVE n <= m
  <2>1. SUFFICES ASSUME m < n PROVE FALSE
    OBVIOUS
  <2>2. 0 .. m \in I /\ 0 .. m \subseteq 0 .. n /\ 0 .. m # 0 .. n
    BY <2>1
  <2>3. <<0 .. m, s>> \in StrictSubsetOrdering(Nat)
    BY <2>2, <1>4 DEF StrictSubsetOrdering
  <2> QED
    BY <2>2, <2>3, <1>3
<1> QED
  BY <1>4, <1>5

(* The least one, as CHOOSE has it.                                        *)
LEMMA LeastChosen ==
  ASSUME NEW T \in SUBSET Nat, T # {}
  PROVE  LET l == CHOOSE k \in T : \A j \in T : k <= j
         IN  l \in T /\ \A j \in T : l <= j
  BY Least

(* The greatest element of a set of places.                                *)
LEMMA Greatest ==
  ASSUME NEW n \in Nat, NEW T \in SUBSET (1 .. n), T # {}
  PROVE  LET g == CHOOSE j \in T : \A i \in T : i <= j
         IN  g \in T /\ \A i \in T : i <= g
<1> DEFINE U == {n - j : j \in T}
<1>0. \A j \in T : j \in Nat /\ n - j \in Nat
  OBVIOUS
<1>1. U \in SUBSET Nat /\ U # {}
  BY <1>0
<1>2. PICK u \in U : \A v \in U : u <= v
  <2> HIDE DEF U
  <2> QED
    BY <1>1, Least
<1>3. PICK j \in T : u = n - j
  OBVIOUS
<1>4. ASSUME NEW i \in T PROVE i <= j
  <2>1. n - i \in U /\ i \in Nat /\ j \in Nat
    BY <1>0
  <2>2. u <= n - i
    <3> HIDE DEF U
    <3> QED
      BY <1>2, <2>1
  <2> QED
    BY <1>3, <2>1, <2>2
<1> QED
  BY <1>3, <1>4

(* Induction, for a set that has 0 and the successor of each of its        *)
(* elements.                                                               *)
LEMMA Induction ==
  ASSUME NEW S \in SUBSET Nat, 0 \in S, \A n \in S : n + 1 \in S
  PROVE  S = Nat
<1> SUFFICES ASSUME Nat \ S # {} PROVE FALSE
  OBVIOUS
<1>1. PICK x \in Nat \ S : \A y \in Nat \ S : x <= y
  BY Least
<1>2. x # 0 /\ x - 1 \in Nat /\ x - 1 \in S
  BY <1>1
<1> QED
  BY <1>1, <1>2

(* A function on 1 .. N whose value at a place may use the one at a later  *)
(* place exists, with a set added to that value or a sequence put in front *)
(* of it: what a recursive definition over a text comes down to.           *)
Along(next, base, own, led, N, f, k) ==
  IF next[k] \in k + 1 .. N
  THEN IF k \in own THEN base[k] \cup f[next[k]]
       ELSE IF k \in led THEN base[k] \o f[next[k]] ELSE f[next[k]]
  ELSE base[k]

Follows(f, next, base, own, led, N) == f = [k \in 1 .. N |-> Along(next, base, own, led, N, f, k)]

LEMMA Descent ==
  ASSUME NEW N \in Nat, NEW next, NEW base, NEW own, NEW led
  PROVE  \E f : Follows(f, next, base, own, led, N)
<1> DEFINE Runs(f, n) == f = [k \in N + 1 - n .. N |-> Along(next, base, own, led, N, f, k)]
           S == {n \in Nat : n <= N => \E f : Runs(f, n)}
<1>1. 0 \in S
  <2> DEFINE f == [k \in N + 1 - 0 .. N |-> {}]
  <2>1. N + 1 - 0 .. N = {}
    OBVIOUS
  <2>2. Runs(f, 0)
    BY <2>1
  <2> QED
    BY <2>2
<1>2. ASSUME NEW n \in S PROVE n + 1 \in S
  <2> SUFFICES ASSUME n + 1 <= N PROVE \E f : Runs(f, n + 1)
    OBVIOUS
  <2>1. PICK f : Runs(f, n)
    OBVIOUS
  <2> DEFINE first == N + 1 - (n + 1)
             g == [k \in first .. N |-> IF k = first THEN Along(next, base, own, led, N, f, k) ELSE f[k]]
  <2>2. first \in 1 .. N /\ first + 1 = N + 1 - n
    OBVIOUS
  <2>3. \A k \in first + 1 .. N : g[k] = f[k] /\ f[k] = Along(next, base, own, led, N, f, k)
    <3>1. \A k \in first + 1 .. N : k \in N + 1 - n .. N /\ k \in first .. N /\ k # first
      BY <2>2
    <3>2. \A k \in N + 1 - n .. N : f[k] = Along(next, base, own, led, N, f, k)
      BY <2>1
    <3> QED
      BY <3>1, <3>2
  <2> HIDE DEF g
  <2>4. \A k \in first .. N : Along(next, base, own, led, N, g, k) = Along(next, base, own, led, N, f, k)
    <3> HIDE DEF first
    <3> SUFFICES ASSUME NEW k \in first .. N
                 PROVE  Along(next, base, own, led, N, g, k) = Along(next, base, own, led, N, f, k)
      OBVIOUS
    <3>1. next[k] \in k + 1 .. N => next[k] \in first + 1 .. N
      BY <2>2
    <3>2. next[k] \in k + 1 .. N => g[next[k]] = f[next[k]]
      BY <2>3, <3>1
    <3> QED
      BY <3>2 DEF Along
  <2>5. \A k \in first .. N : g[k] = Along(next, base, own, led, N, f, k)
    <3>1. \A k \in first .. N : k = first \/ k \in first + 1 .. N
      BY <2>2
    <3>2. g[first] = Along(next, base, own, led, N, f, first)
      BY <2>2 DEF g
    <3> QED
      BY <2>3, <3>1, <3>2
  <2>6. g = [k \in first .. N |-> Along(next, base, own, led, N, g, k)]
    BY <2>4, <2>5 DEF g
  <2> QED
    BY <2>6
<1>3. S = Nat
  <2> HIDE DEF S
  <2>1. S \in SUBSET Nat
    BY DEF S
  <2> QED
    BY <1>1, <1>2, <2>1, Induction
<1>4. \E f : Runs(f, N)
  <2>1. N \in S
    <3> HIDE DEF S
    <3> QED
      BY <1>3
  <2> QED
    BY <2>1
<1> QED
  BY <1>4 DEF Follows

=============================================================================
