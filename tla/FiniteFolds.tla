---------------------------- MODULE FiniteFolds ----------------------------
(***************************************************************************)
(* What the proofs about loops rest on: induction over the numbers, of a   *)
(* set of them, and that a fold over a finite set or a sequence is what    *)
(* its recursion says, one element after the other.                        *)
(***************************************************************************)
EXTENDS Integers, FiniteSetsExt, FiniteSetTheorems, NaturalsInduction, WellFoundedInduction, TLAPS

\* A set of numbers with a bound has a largest.
LEMMA LargestExists ==
  ASSUME NEW n \in Nat, NEW S \in SUBSET (1 .. n), S # {}
  PROVE  Max(S) \in S /\ \A y \in S : Max(S) >= y
<1> DEFINE T == {n - x : x \in S}
<1>1. T \subseteq Nat /\ T # {}
  <2>1. ASSUME NEW x \in S PROVE n - x \in Nat
    OBVIOUS
  <2>2. PICK x \in S : TRUE
    OBVIOUS
  <2>3. n - x \in T
    OBVIOUS
  <2> QED BY <2>1, <2>3
<1>2. PICK t \in T : \A y \in T : ~ (<<y, t>> \in OpToRel(<, Nat))
  <2>1. IsWellFoundedOn(OpToRel(<, Nat), Nat)
    BY NatLessThanWellFounded
  <2> HIDE DEF T
  <2> QED BY <1>1, <2>1, WFMin
<1>3. \A y \in T : ~ (y < t)
  BY <1>1, <1>2 DEF OpToRel
<1>4. PICK x \in S : t = n - x
  BY <1>2
<1>5. \A y \in S : x >= y
  <2>1. ASSUME NEW y \in S PROVE x >= y
    <3>1. n - y \in T
      OBVIOUS
    <3> QED BY <1>3, <1>4, <3>1
  <2> QED BY <2>1
<1> QED BY <1>5 DEF Max

\* The first numbers less the last of them.
LEMMA FirstNumbers ==
  ASSUME NEW i \in Nat \ {0}
  PROVE  Max(1 .. i) = i /\ (1 .. i) \ {i} = 1 .. i - 1
<1>1. i \in 1 .. i
  OBVIOUS
<1>2. Max(1 .. i) \in 1 .. i /\ \A y \in 1 .. i : Max(1 .. i) >= y
  BY <1>1, LargestExists
<1> QED BY <1>1, <1>2

\* Induction, of a set of numbers.
LEMMA AllNumbers ==
  ASSUME NEW G, 0 \in G, \A n \in Nat : n \in G => n + 1 \in G
  PROVE  \A n \in Nat : n \in G
<1> SUFFICES ASSUME Nat \ G # {} PROVE FALSE
  OBVIOUS
<1>1. PICK n \in Nat \ G : \A y \in Nat \ G : ~ (<<y, n>> \in OpToRel(<, Nat))
  <2>1. IsWellFoundedOn(OpToRel(<, Nat), Nat)
    BY NatLessThanWellFounded
  <2> QED BY <2>1, WFMin
<1>2. \A y \in Nat \ G : ~ (y < n)
  BY <1>1 DEF OpToRel
<1>3. n # 0 /\ n - 1 \in Nat /\ n - 1 < n
  OBVIOUS
<1>4. n - 1 \in G
  BY <1>2, <1>3
<1>5. (n - 1) + 1 \in G
  BY <1>3, <1>4
<1> QED BY <1>5

\* A function g defined by recursion over the subsets of a finite set, each of which
\* loses one of its elements.
RecursionOn(S, V, base, h, c) ==
  /\ IsFiniteSet(S) /\ base \in V /\ h \in [(SUBSET S) \X V -> V]
  /\ \A s \in SUBSET S : s # {} => c[s] \in s
Recursive(g, S, base, h, c) ==
  \A s \in SUBSET S : g[s] = IF s = {} THEN base ELSE h[<<s, g[s \ {c[s]}]>>]

\* There is one.
LEMMA SetRecursion ==
  ASSUME NEW S, NEW V, NEW base, NEW h, NEW c, RecursionOn(S, V, base, h, c)
  PROVE  \E g \in [SUBSET S -> V] : Recursive(g, S, base, h, c)
<1> USE DEF RecursionOn, Recursive
<1> DEFINE Small(n) == {s \in SUBSET S : Cardinality(s) <= n}
           G == {n \in Nat : \E g \in [Small(n) -> V] :
                   \A s \in Small(n) :
                     g[s] = IF s = {} THEN base ELSE h[<<s, g[s \ {c[s]}]>>]}
<1>1. \A s \in SUBSET S :
        /\ IsFiniteSet(s) /\ Cardinality(s) \in Nat
        /\ Cardinality(s) = 0 <=> s = {}
  BY FS_Subset, FS_CardinalityType, FS_EmptySet
<1>2. \A s \in SUBSET S : s # {} =>
        s \ {c[s]} \in SUBSET S /\ Cardinality(s \ {c[s]}) = Cardinality(s) - 1
  BY <1>1, FS_RemoveElement
<1>3. 0 \in G
  <2>1. \A s \in Small(0) : s = {}
    BY <1>1
  <2> DEFINE g == [s \in Small(0) |-> base]
  <2>2. g \in [Small(0) -> V] /\ \A s \in Small(0) : g[s] = base
    OBVIOUS
  <2> HIDE DEF g
  <2> QED BY <2>1, <2>2
<1>4. ASSUME NEW n \in Nat, n \in G PROVE n + 1 \in G
  <2>1. PICK g \in [Small(n) -> V] :
          \A s \in Small(n) : g[s] = IF s = {} THEN base ELSE h[<<s, g[s \ {c[s]}]>>]
    BY <1>4
  <2> DEFINE f == [s \in Small(n + 1) |->
                     IF s \in Small(n) THEN g[s] ELSE h[<<s, g[s \ {c[s]}]>>]]
  <2>2. \A s \in Small(n + 1) : s # {} => s \ {c[s]} \in Small(n)
    BY <1>1, <1>2
  <2>3. \A s \in Small(n + 1) : s # {} /\ s \in Small(n) => s \ {c[s]} \in Small(n)
    BY <2>2
  <2>4. \A s \in Small(n + 1) : s = {} => s \in Small(n)
    BY <1>1
  <2>5. \A s \in Small(n) : s \in Small(n + 1) /\ f[s] = g[s]
    BY <1>1
  <2>6. \A s \in Small(n + 1) : s \notin Small(n) => f[s] = h[<<s, g[s \ {c[s]}]>>] /\ s # {}
    BY <2>4
  <2>7. \A s \in Small(n + 1) : s \in SUBSET S
    OBVIOUS
  <2>8. f \in [Small(n + 1) -> V]
    <3>1. ASSUME NEW s \in Small(n + 1) PROVE f[s] \in V
      <4>1. CASE s \in Small(n)
        BY <2>5, <4>1
      <4>2. CASE s \notin Small(n)
        <5>1. s # {} /\ g[s \ {c[s]}] \in V /\ s \in SUBSET S
          BY <2>2, <2>6, <2>7, <4>2
        <5>2. <<s, g[s \ {c[s]}]>> \in (SUBSET S) \X V
          BY <5>1
        <5> QED BY <2>6, <4>2, <5>2
      <4> QED BY <4>1, <4>2
    <3> QED BY <3>1
  <2> HIDE DEF f, Small
  <2>9. ASSUME NEW s \in Small(n + 1)
        PROVE  f[s] = IF s = {} THEN base ELSE h[<<s, f[s \ {c[s]}]>>]
    <3>1. s # {} => f[s \ {c[s]}] = g[s \ {c[s]}]
      BY <2>2, <2>5
    <3>2. CASE s \in Small(n)
      BY <2>1, <2>5, <3>1, <3>2
    <3>3. CASE s \notin Small(n)
      BY <2>6, <3>1, <3>3
    <3> QED BY <3>2, <3>3
  <2>10. \E g2 \in [Small(n + 1) -> V] :
           \A s \in Small(n + 1) : g2[s] = IF s = {} THEN base ELSE h[<<s, g2[s \ {c[s]}]>>]
    BY <2>8, <2>9
  <2>11. n + 1 \in Nat
    OBVIOUS
  <2> QED BY <2>10, <2>11
<1>5. Cardinality(S) \in G
  <2> HIDE DEF G
  <2>1. \A n \in Nat : n \in G
    BY <1>3, <1>4, AllNumbers
  <2> QED BY <2>1, FS_CardinalityType
<1>6. Small(Cardinality(S)) = SUBSET S
  BY <1>1, FS_Subset
<1> QED BY <1>5, <1>6

\* A function g of the sets of indices of a sequence that folds it: op is the operator
\* as a function, and the elements are taken from the last one back.
FoldOf(N, seq, V, W, base, op) ==
  N \in Nat /\ base \in V /\ op \in [V \X W -> V] /\ \A i \in 1 .. N : seq[i] \in W
IsFold(g, N, seq, base, op) ==
  \A s \in SUBSET (1 .. N) :
    g[s] = IF s = {} THEN base ELSE op[<<g[s \ {Max(s)}], seq[Max(s)]>>]

\* There is one.
LEMMA SequenceFold ==
  ASSUME NEW N, NEW seq, NEW V, NEW W, NEW base, NEW op, FoldOf(N, seq, V, W, base, op)
  PROVE  \E g \in [SUBSET (1 .. N) -> V] : IsFold(g, N, seq, base, op)
<1> USE DEF FoldOf, IsFold
<1> DEFINE S == 1 .. N
           h == [x \in (SUBSET S) \X V |-> IF x[1] = {} THEN base ELSE op[<<x[2], seq[Max(x[1])]>>]]
           c == [s \in SUBSET S |-> Max(s)]
<1>1. IsFiniteSet(S)
  BY FS_Interval
<1>2. \A s \in SUBSET S : s # {} => Max(s) \in s /\ seq[Max(s)] \in W
  BY LargestExists
<1>3. h \in [(SUBSET S) \X V -> V]
  <2>1. ASSUME NEW x \in (SUBSET S) \X V
        PROVE  (IF x[1] = {} THEN base ELSE op[<<x[2], seq[Max(x[1])]>>]) \in V
    <3>1. x[1] \in SUBSET S /\ x[2] \in V
      OBVIOUS
    <3>2. x[1] # {} => <<x[2], seq[Max(x[1])]>> \in V \X W
      BY <1>2, <3>1
    <3> QED BY <3>2
  <2> HIDE DEF S
  <2> QED BY <2>1
<1>4. \A s \in SUBSET S : s # {} => c[s] \in s
  BY <1>2
<1>5. PICK g \in [SUBSET S -> V] : Recursive(g, S, base, h, c)
  <2> HIDE DEF S, h, c
  <2>1. RecursionOn(S, V, base, h, c)
    BY <1>1, <1>3, <1>4 DEF RecursionOn
  <2> QED BY <2>1, SetRecursion, Zenon
<1>6. ASSUME NEW s \in SUBSET S
      PROVE  g[s] = IF s = {} THEN base ELSE op[<<g[s \ {Max(s)}], seq[Max(s)]>>]
  <2>1. g[s] = IF s = {} THEN base ELSE h[<<s, g[s \ {c[s]}]>>]
    BY <1>5 DEF Recursive
  <2>2. c[s] = Max(s) /\ s \ {Max(s)} \in SUBSET S
    OBVIOUS
  <2>3. <<s, g[s \ {Max(s)}]>> \in (SUBSET S) \X V
    BY <1>5, <2>2
  <2>4. s # {} => h[<<s, g[s \ {Max(s)}]>>] = op[<<g[s \ {Max(s)}], seq[Max(s)]>>]
    BY <2>3
  <2> QED BY <2>1, <2>2, <2>4
<1> QED BY <1>6

\* How many of the first n numbers are in a set.
Rank(S, n) == Cardinality({m \in 1 .. n : m \in S})

\* It grows by one with each number that is in it.
LEMMA RankGrows ==
  ASSUME NEW S, NEW n \in Nat
  PROVE  /\ Rank(S, 0) = 0 /\ Rank(S, n) \in Nat
         /\ Rank(S, n + 1) = IF n + 1 \in S THEN Rank(S, n) + 1 ELSE Rank(S, n)
<1> DEFINE first(k) == {m \in 1 .. k : m \in S}
<1>1. \A k \in Nat : IsFiniteSet(first(k)) /\ Cardinality(first(k)) \in Nat
  <2>1. \A k \in Nat : IsFiniteSet(1 .. k) /\ first(k) \in SUBSET (1 .. k)
    BY FS_Interval
  <2> QED BY <2>1, FS_Subset, FS_CardinalityType
<1>2. first(0) = {}
  OBVIOUS
<1>3. n + 1 \notin S => first(n + 1) = first(n)
  OBVIOUS
<1>4. n + 1 \in S => first(n + 1) = first(n) \union {n + 1} /\ n + 1 \notin first(n)
  OBVIOUS
<1> HIDE DEF first
<1>5. n + 1 \in S => Cardinality(first(n + 1)) = Cardinality(first(n)) + 1
  BY <1>1, <1>4, FS_AddElement
<1>6. Cardinality(first(0)) = 0
  BY <1>2, FS_EmptySet
<1> QED BY <1>1, <1>3, <1>5, <1>6 DEF Rank, first
=============================================================================
