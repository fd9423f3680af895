--------------------------- MODULE InductionLemmas ---------------------------
(***************************************************************************)
(* Induction over the natural numbers, stated of a set and not of an       *)
(* operator, so that every prover can use it; and from it, that a function *)
(* defined by recursion over 0 .. last is what its definition says.        *)
(***************************************************************************)
EXTENDS Integers, Sequences, FiniteSetTheorems, TLAPS

\* A set with 0 and, for each natural number in it, the next one has them all.
\* (Otherwise the numbers below the first gap were a finite set that n + 1 maps
\* into a smaller one, without two numbers meeting.)
LEMMA NatSetInduction ==
    ASSUME NEW T, 0 \in T, \A n \in Nat : n \in T => n + 1 \in T
    PROVE  Nat \subseteq T
<1>1. SUFFICES ASSUME NEW t \in Nat, t \notin T PROVE FALSE
  OBVIOUS
<1> DEFINE Low == {n \in Nat : \A m \in Nat : m <= n => m \in T}
<1>2. 0 \in Low /\ \A n \in Low : n + 1 \in Low
  <2>1. ASSUME NEW n \in Low, NEW m \in Nat, m <= n + 1 PROVE m \in T
    <3>1. m <= n \/ m = n + 1
      BY <2>1
    <3> QED
      BY <2>1, <3>1
  <2> QED
    BY <2>1
<1>3. Low \subseteq 0 .. t
  BY <1>1
<1>4. IsFiniteSet(Low) /\ IsFiniteSet(Low \ {0}) /\ Cardinality(Low \ {0}) < Cardinality(Low)
  <2>1. IsFiniteSet(0 .. t)
    BY FS_Interval
  <2>2. IsFiniteSet(Low)
    BY <1>3, <2>1, FS_Subset
  <2> HIDE DEF Low
  <2>3. /\ IsFiniteSet(Low \ {0})
        /\ Cardinality(Low \ {0}) = Cardinality(Low) - 1
    BY <1>2, <2>2, FS_RemoveElement
  <2>4. Cardinality(Low) \in Nat
    BY <2>2, FS_CardinalityType
  <2> QED
    BY <2>2, <2>3, <2>4
<1> DEFINE f == [n \in Low |-> n + 1]
<1>5. f \in [Low -> Low \ {0}]
  BY <1>2, <1>3
<1>6. \E x, y \in Low : x # y /\ f[x] = f[y]
  <2> HIDE DEF f, Low
  <2> QED
    BY <1>4, <1>5, FS_PigeonHole
<1> QED
  BY <1>6, <1>3

\* The function that starts with a base and whose values follow from one another.
IsRecursion(f, last, S, base, Step) ==
    /\ f \in [0 .. last -> S]
    /\ f[0] = base
    /\ \A n \in 1 .. last : f[n] = Step[n][f[n - 1]]

\* Such a function exists, and its values keep what every step keeps.
LEMMA RecursionKeeps ==
    ASSUME NEW last \in Nat, NEW S, NEW Good \in [0 .. last -> SUBSET S],
           NEW base \in Good[0], NEW Step,
           \A n \in 1 .. last : \A x \in Good[n - 1] : Step[n][x] \in Good[n]
    PROVE  \E f : IsRecursion(f, last, S, base, Step) /\ \A n \in 0 .. last : f[n] \in Good[n]
<1> DEFINE Defines(f, m) ==
             /\ f[0] = base /\ \A n \in 1 .. m : f[n] = Step[n][f[n - 1]]
             /\ \A n \in 0 .. m : f[n] \in Good[n]
           T == {m \in Nat : m <= last => \E f \in [0 .. m -> S] : Defines(f, m)}
<1>1. 0 \in T
  <2>1. [n \in 0 .. 0 |-> base] \in [0 .. 0 -> S] /\ Defines([n \in 0 .. 0 |-> base], 0)
    OBVIOUS
  <2> QED
    BY <2>1
<1>2. ASSUME NEW m \in Nat, m \in T PROVE m + 1 \in T
  <2>1. SUFFICES ASSUME m + 1 <= last
                 PROVE  \E f \in [0 .. m + 1 -> S] : Defines(f, m + 1)
    OBVIOUS
  <2>2. PICK g \in [0 .. m -> S] : Defines(g, m)
    BY <1>2, <2>1
  <2> DEFINE f == [n \in 0 .. m + 1 |-> IF n <= m THEN g[n] ELSE Step[n][g[m]]]
  <2>3. Step[m + 1][g[m]] \in Good[m + 1] /\ Good[m + 1] \subseteq S
    <3>1. m + 1 \in 1 .. last /\ (m + 1) - 1 = m /\ m + 1 \in 0 .. last
      BY <2>1
    <3> QED
      BY <2>2, <3>1
  <2>4. f \in [0 .. m + 1 -> S]
    BY <2>3
  <2>5. f[0] = base
    BY <2>2
  <2>6. ASSUME NEW n \in 1 .. m + 1 PROVE f[n] = Step[n][f[n - 1]]
    <3>1. CASE n <= m
      BY <2>2, <3>1
    <3>2. CASE n = m + 1
      BY <3>2
    <3> QED
      BY <3>1, <3>2
  <2>7. ASSUME NEW n \in 0 .. m + 1 PROVE f[n] \in Good[n]
    <3>1. CASE n <= m
      BY <2>2, <3>1
    <3>2. CASE n = m + 1
      BY <2>3, <3>2
    <3> QED
      BY <3>1, <3>2
  <2> QED
    BY <2>4, <2>5, <2>6, <2>7
<1>3. last \in T
  <2> HIDE DEF T
  <2> QED
    BY <1>1, <1>2, NatSetInduction
<1> QED
  BY <1>3 DEF IsRecursion

LEMMA RecursiveFunction ==
    ASSUME NEW last \in Nat, NEW S, NEW base \in S, NEW Step \in [1 .. last -> [S -> S]]
    PROVE  \E f : IsRecursion(f, last, S, base, Step)
<1> DEFINE Good == [n \in 0 .. last |-> S]
<1>1. /\ Good \in [0 .. last -> SUBSET S] /\ base \in Good[0]
      /\ \A n \in 1 .. last : \A x \in Good[n - 1] : Step[n][x] \in Good[n]
  OBVIOUS
<1> HIDE DEF Good
<1> QED
  BY <1>1, RecursionKeeps
=============================================================================
