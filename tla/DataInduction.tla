---------------------------- MODULE DataInduction ----------------------------
(***************************************************************************)
(* Induction and recursion for the proofs about loops over data, stated    *)
(* with sets where the library's theorems take an operator: a set of       *)
(* numbers that holds 0 and what follows each of its members holds them    *)
(* all, and a step that is a function gives a function of all numbers.     *)
(***************************************************************************)
EXTENDS Integers, FiniteSets, WellFoundedInduction, FiniteSetTheorems, TLAPS

\* Every set of numbers that has a member has a least one.
LEMMA LeastNumber ==
  ASSUME NEW T \in SUBSET Nat, T # {}
  PROVE  \E x \in T : \A y \in T : x <= y
<1> DEFINE R == {ss \in Nat \X Nat : ss[1] < ss[2]}
<1>1. IsWellFoundedOn(R, Nat)
  BY NatLessThanWellFounded DEF OpToRel
<1>2. \A x, y \in Nat : x < y => <<x, y>> \in R
  OBVIOUS
<1> HIDE DEF R
<1>3. PICK x \in T : \A y \in T : ~ (<<y, x>> \in R)
  BY <1>1, WFMin
<1>4. ASSUME NEW y \in T PROVE x <= y
  <2>1. x \in Nat /\ y \in Nat
    OBVIOUS
  <2>2. ~ (y < x)
    BY <1>2, <1>3, <2>1
  <2>q. QED BY <2>1, <2>2
<1>q. QED BY <1>4

\* Induction up to a number.
LEMMA UpTo ==
  ASSUME NEW n \in Nat, NEW S, 0 \in S, \A i \in 0..(n - 1) : i \in S => i + 1 \in S
  PROVE  0..n \subseteq S
<1> SUFFICES ASSUME NEW k \in 0..n, k \notin S PROVE FALSE
  OBVIOUS
<1> DEFINE T == {i \in 0..n : i \notin S}
<1>1. T \in SUBSET Nat /\ k \in T
  OBVIOUS
<1>2. PICK i \in T : \A j \in T : i <= j
  BY <1>1, LeastNumber
<1>3. i - 1 \in 0..(n - 1) /\ i - 1 \notin T
  BY <1>2
<1>4. i - 1 \in S
  BY <1>3
<1>q. QED BY <1>2, <1>3, <1>4

\* The bodies of loops of n passes over states of S: a body takes the number of the
\* pass and the state before it to the state after it.
Bodies(n, S) == [(1..n) \X S -> S]

\* f is the state after every pass of the loop with this body that starts with a.
States(f, n, S, a, body) ==
  /\ f \in [0..n -> S]
  /\ f[0] = a
  /\ \A i \in 1..n : f[i] = body[<<i, f[i - 1]>>]

\* Every loop has its states.
LEMMA LoopStates ==
  ASSUME NEW n \in Nat, NEW S, NEW a \in S, NEW body \in Bodies(n, S)
  PROVE  \E f : States(f, n, S, a, body)
<1> DEFINE K == {k \in 0..n : \E f : States(f, k, S, a, body)}
<1>1. 0 \in K
  <2> DEFINE h == [i \in 0..0 |-> a]
  <2>1. States(h, 0, S, a, body) /\ 0 \in 0..n
    BY DEF States
  <2> HIDE DEF h
  <2>q. QED BY <2>1
<1>2. ASSUME NEW k \in 0..(n - 1), k \in K PROVE k + 1 \in K
  <2>1. PICK f : States(f, k, S, a, body)
    BY <1>2
  <2> DEFINE g == [i \in 0..(k + 1) |-> IF i <= k THEN f[i] ELSE body[<<k + 1, f[k]>>]]
  <2>2. k \in Nat /\ k + 1 \in 0..n /\ k + 1 \in 1..n
    OBVIOUS
  <2>3. body[<<k + 1, f[k]>>] \in S
    BY <2>1, <2>2 DEF States, Bodies
  <2>4. g \in [0..(k + 1) -> S]
    BY <2>1, <2>2, <2>3 DEF States
  <2>5. g[0] = a
    BY <2>1, <2>2 DEF States
  <2>6. ASSUME NEW i \in 1..(k + 1) PROVE g[i] = body[<<i, g[i - 1]>>]
    <3>1. CASE i \in 1..k
      <4>1. g[i] = f[i] /\ g[i - 1] = f[i - 1]
        BY <2>2, <3>1
      <4>q. QED BY <2>1, <3>1, <4>1 DEF States
    <3>2. CASE i = k + 1
      <4>1. g[i] = body[<<k + 1, f[k]>>] /\ g[i - 1] = f[k]
        BY <2>2, <3>2
      <4>q. QED BY <3>2, <4>1
    <3>q. QED BY <2>2, <3>1, <3>2
  <2> HIDE DEF g
  <2>7. States(g, k + 1, S, a, body)
    BY <2>4, <2>5, <2>6 DEF States
  <2>q. QED BY <2>2, <2>7
<1>3. 0..n \subseteq K
  <2> HIDE DEF K
  <2>q. QED BY <1>1, <1>2, UpTo
<1>q. QED BY <1>3

\* Induction over the members of a finite set.
LEMMA MemberByMember ==
  ASSUME NEW S, IsFiniteSet(S), NEW F, {} \in F,
         \A T \in SUBSET S, x \in S : T \in F /\ x \notin T => T \cup {x} \in F
  PROVE  S \in F
<1> DEFINE n == Cardinality(S)
           K == {k \in 0..n : \A T \in SUBSET S : Cardinality(T) = k => T \in F}
<1>1. n \in Nat
  BY FS_CardinalityType
<1>2. 0 \in K
  <2>1. ASSUME NEW T \in SUBSET S, Cardinality(T) = 0 PROVE T = {}
    BY <2>1, FS_Subset, FS_EmptySet
  <2>q. QED BY <1>1, <2>1
<1>3. ASSUME NEW k \in 0..(n - 1), k \in K PROVE k + 1 \in K
  <2>1. ASSUME NEW T \in SUBSET S, Cardinality(T) = k + 1 PROVE T \in F
    <3>1. IsFiniteSet(T) /\ T # {}
      BY <2>1, FS_Subset, FS_EmptySet
    <3>2. PICK x : x \in T
      BY <3>1
    <3>3. IsFiniteSet(T \ {x}) /\ Cardinality(T \ {x}) = Cardinality(T) - 1
      BY <3>1, <3>2, FS_RemoveElement
    <3>6. Cardinality(T \ {x}) = k
      BY <1>1, <2>1, <3>3
    <3>4. T \ {x} \in F
      BY <1>3, <3>6
    <3>5. T = (T \ {x}) \cup {x}
      BY <3>2
    <3>q. QED BY <3>2, <3>4, <3>5
  <2>q. QED BY <1>1, <2>1
<1>4. 0..n \subseteq K
  <2> HIDE DEF K, n
  <2>q. QED BY <1>1, <1>2, <1>3, UpTo
<1>q. QED BY <1>1, <1>4
=============================================================================
