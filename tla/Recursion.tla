------------------------------ MODULE Recursion ------------------------------
(***************************************************************************)
(* Induction and recursion along 0..n, stated with sets and functions in   *)
(* the place of operators, for the proofs about the folds of the models:   *)
(* Poller's Flush and its erasing loop, and the byte counts of             *)
(* RecordStream.                                                           *)
(***************************************************************************)
EXTENDS Integers, Sequences, FiniteSets, WellFoundedInduction,
        FiniteSetTheorems, TLAPS

\* f is computed along 0..n from base, where step[<<i, v>>] is what follows v.
Computes(f, n, base, step) ==
  f = [i \in 0..n |-> IF i = 0 THEN base ELSE step[<<i, f[i - 1]>>]]

-----------------------------------------------------------------------------
\* Every non-empty set of naturals has a least element.
LEMMA LeastNumber ==
  ASSUME NEW T \in SUBSET Nat, T # {}
  PROVE  \E n \in T : \A m \in T : n <= m
<1> DEFINE Below == {ss \in Nat \X Nat : ss[1] < ss[2]}
<1>1. IsWellFoundedOn(Below, Nat)
  BY NatLessThanWellFounded DEF OpToRel
<1> HIDE DEF Below
<1>2. PICK n \in T : \A m \in T : <<m, n>> \notin Below
  BY <1>1, WFMin
<1>3. ASSUME NEW m \in T PROVE n <= m
  <2>1. ~(m < n)
    BY <1>2, <1>3 DEF Below
  <2> QED
    BY <2>1
<1> QED
  BY <1>2, <1>3

\* Induction: a set that holds 0, and i with i - 1, holds all of 0..n.
LEMMA Induction ==
  ASSUME NEW n \in Nat, NEW S, 0 \in S, \A i \in 1..n : i - 1 \in S => i \in S
  PROVE  0..n \subseteq S
<1> SUFFICES ASSUME NEW k \in 0..n, k \notin S
             PROVE  FALSE
  OBVIOUS
<1> DEFINE Missing == {i \in 0..n : i \notin S}
<1>1. Missing \in SUBSET Nat /\ Missing # {}
  OBVIOUS
<1>2. PICK i \in Missing : \A m \in Missing : i <= m
  BY <1>1, LeastNumber
<1>3. i \in 1..n
  BY <1>2
<1>4. i - 1 \in 0..n /\ i - 1 \notin Missing
  BY <1>2, <1>3
<1> QED
  BY <1>2, <1>3, <1>4

\* There is a computation of every length.
LEMMA ComputesExists ==
  ASSUME NEW n \in Nat, NEW base, NEW step
  PROVE  \E f : Computes(f, n, base, step)
<1> DEFINE S == {i \in 0..n : \E f : Computes(f, i, base, step)}
<1>1. 0 \in S
  <2>1. Computes([j \in 0..0 |-> base], 0, base, step)
    BY DEF Computes
  <2> QED
    BY <2>1
<1>2. ASSUME NEW i \in 1..n, i - 1 \in S PROVE i \in S
  <2>1. PICK f : Computes(f, i - 1, base, step)
    BY <1>2
  <2> DEFINE g == [j \in 0..i |-> IF j = i THEN step[<<i, f[i - 1]>>] ELSE f[j]]
  <2>2. ASSUME NEW j \in 0..i
        PROVE  g[j] = IF j = 0 THEN base ELSE step[<<j, g[j - 1]>>]
    <3>1. CASE j = i
      BY <3>1
    <3>2. CASE j \in 0..(i - 1)
      <4>1. g[j] = f[j] /\ (j # 0 => g[j - 1] = f[j - 1])
        BY <3>2
      <4>2. f[j] = IF j = 0 THEN base ELSE step[<<j, f[j - 1]>>]
        BY <2>1, <3>2 DEF Computes
      <4> QED
        BY <4>1, <4>2
    <3> QED
      BY <3>1, <3>2
  <2>3. Computes(g, i, base, step)
    BY <2>2 DEF Computes
  <2> QED
    BY <2>3
<1> HIDE DEF S
<1>3. 0..n \subseteq S
  BY <1>1, <1>2, Induction
<1> QED
  BY <1>3 DEF S

\* A computation stays in the set that its steps stay in.
LEMMA ComputesType ==
  ASSUME NEW n \in Nat, NEW V, NEW base \in V, NEW step, NEW f,
         Computes(f, n, base, step),
         \A i \in 1..n, v \in V : step[<<i, v>>] \in V
  PROVE  f \in [0..n -> V]
<1> DEFINE S == {i \in 0..n : f[i] \in V}
<1>1. 0 \in S
  BY DEF Computes
<1>2. \A i \in 1..n : i - 1 \in S => i \in S
  BY DEF Computes
<1> HIDE DEF S
<1>3. 0..n \subseteq S
  BY <1>1, <1>2, Induction
<1> QED
  BY <1>3 DEF S, Computes

\* The values of a computation, one after the other.
LEMMA ComputesValues ==
  ASSUME NEW n \in Nat, NEW base, NEW step, NEW f, Computes(f, n, base, step)
  PROVE  /\ f[0] = base
         /\ \A i \in 1..n : f[i] = step[<<i, f[i - 1]>>]
<1>1. f[0] = base
  BY DEF Computes
<1>2. ASSUME NEW i \in 1..n PROVE f[i] = step[<<i, f[i - 1]>>]
  BY DEF Computes
<1> QED
  BY <1>1, <1>2

-----------------------------------------------------------------------------
\* A sequence without repetition has as many elements as places.
LEMMA DistinctCount ==
  ASSUME NEW n \in Nat, NEW f, DOMAIN f = 1..n,
         \A i, j \in 1..n : f[i] = f[j] => i = j,
         NEW T, \A x : x \in T <=> \E i \in 1..n : f[i] = x
  PROVE  IsFiniteSet(T) /\ Cardinality(T) = n
<1> DEFINE g == [i \in 1..n |-> f[i]]
<1>1. g \in Bijection(1..n, T)
  BY DEF Bijection, Injection, Surjection, IsInjective
<1>2. IsFiniteSet(1..n) /\ Cardinality(1..n) = n
  BY FS_Interval
<1>3. ExistsBijection(1..n, T)
  BY <1>1 DEF ExistsBijection
<1>4. IsFiniteSet(T) /\ Cardinality(T) = Cardinality(1..n)
  BY <1>2, <1>3, FS_Bijection
<1> QED
  BY <1>2, <1>4
=============================================================================
