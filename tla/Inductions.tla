----------------------------- MODULE Inductions -----------------------------
(***************************************************************************)
(* Induction over sets instead of predicates, which is the form the        *)
(* provers can use, and what follows from it: recursion along a sequence,  *)
(* least and greatest members of a set, and sums.                          *)
(***************************************************************************)
EXTENDS Integers, FiniteSets, Sequences, Functions, FiniteSetsExt,
        FiniteSetTheorems, WellFoundedInduction, SequenceTheorems, TLAPS

-----------------------------------------------------------------------------
(* Induction.                                                              *)

\* A set that contains 0 and the successor of each of its members is Nat.
LEMMA SetInduction ==
    ASSUME NEW T \in SUBSET Nat, 0 \in T, \A n \in T : n + 1 \in T
    PROVE  T = Nat
<1> SUFFICES ASSUME Nat \ T # {} PROVE FALSE
  OBVIOUS
<1> DEFINE U == {0 .. n : n \in Nat \ T}
           R == StrictSubsetOrdering(Nat)
<1>1. PICK x \in U : \A y \in U : ~(<<y, x>> \in R)
  <2>1. U # {}
    OBVIOUS
  <2>2. U \subseteq FiniteSubsetsOf(Nat)
    <3>1. \A n \in Nat : IsFiniteSet(0 .. n)
      BY FS_Interval
    <3> QED
      BY <3>1 DEF FiniteSubsetsOf
  <2>3. IsWellFoundedOn(R, FiniteSubsetsOf(Nat))
    BY FS_StrictSubsetOrderingWellFounded
  <2> HIDE DEF U, R
  <2> QED
    BY <2>1, <2>2, <2>3, WFMin, Zenon
<1>2. PICK n \in Nat \ T : x = 0 .. n
  BY <1>1
<1>3. n # 0 /\ n - 1 \in Nat
  BY <1>2
<1>4. n - 1 \notin T
  BY <1>3, <1>2
<1>5. 0 .. n - 1 \in U
  BY <1>3, <1>4
<1>6. <<0 .. n - 1, 0 .. n>> \in R
  <2>1. 0 .. n - 1 \in SUBSET Nat /\ 0 .. n \in SUBSET Nat
    OBVIOUS
  <2>2. 0 .. n - 1 \subseteq 0 .. n /\ 0 .. n - 1 # 0 .. n
    BY <1>3
  <2> QED
    BY <2>1, <2>2 DEF StrictSubsetOrdering
<1> QED
  BY <1>1, <1>2, <1>5, <1>6

\* Induction over the subsets of a finite set.
LEMMA SubsetInduction ==
    ASSUME NEW S, IsFiniteSet(S), NEW T,
           \A U \in SUBSET S : (\A W \in SUBSET U : W # U => W \in T) => U \in T
    PROVE  SUBSET S \subseteq T
<1> SUFFICES ASSUME (SUBSET S) \ T # {} PROVE FALSE
  OBVIOUS
<1> DEFINE R == StrictSubsetOrdering(S)
           Left == (SUBSET S) \ T
<1>1. PICK U \in Left : \A W \in Left : ~(<<W, U>> \in R)
  <2>1. Left \subseteq FiniteSubsetsOf(S)
    BY FS_Subset DEF FiniteSubsetsOf
  <2>2. IsWellFoundedOn(R, FiniteSubsetsOf(S))
    BY FS_StrictSubsetOrderingWellFounded
  <2>3. Left # {}
    OBVIOUS
  <2> HIDE DEF Left, R
  <2>4. \E x \in Left : \A y \in Left : ~(<<y, x>> \in R)
    BY <2>1, <2>2, <2>3, WFMin
  <2> QED
    BY <2>4
<1>2. U \in SUBSET S /\ U \notin T
  BY <1>1
<1>3. PICK W \in SUBSET U : W # U /\ W \notin T
  BY <1>2
<1>4. W \in Left /\ <<W, U>> \in R
  BY <1>2, <1>3 DEF StrictSubsetOrdering
<1> QED
  BY <1>1, <1>4

-----------------------------------------------------------------------------
(* Recursion along the positions of a sequence.                            *)

IsRecursion(f, V, n, base, step) ==
    /\ f \in [0 .. n -> V] /\ f[0] = base
    /\ \A i \in 1 .. n : f[i] = step[<<f[i - 1], i>>]

\* A recursion whose steps stay in a set has a solution.
LEMMA RecursionExists ==
    ASSUME NEW V, NEW base \in V, NEW n \in Nat, NEW step \in [V \X (1 .. n) -> V]
    PROVE  \E f : IsRecursion(f, V, n, base, step)
<1> DEFINE Is(f, m) == IsRecursion(f, V, m, base, step)
           T == {m \in Nat : m <= n => \E f : Is(f, m)}
<1>1. 0 \in T
  <2> DEFINE f == [i \in 0 .. 0 |-> base]
  <2>1. Is(f, 0)
    BY DEF IsRecursion
  <2> HIDE DEF f, Is
  <2> QED
    BY <2>1
<1>2. ASSUME NEW m \in T PROVE m + 1 \in T
  <2> SUFFICES ASSUME m + 1 <= n PROVE \E f : Is(f, m + 1)
    OBVIOUS
  <2>1. PICK f : Is(f, m)
    <3>1. m <= n
      OBVIOUS
    <3> QED
      BY <3>1
  <2>2. f \in [0 .. m -> V] /\ f[0] = base /\ \A i \in 1 .. m : f[i] = step[<<f[i - 1], i>>]
    BY <2>1 DEF IsRecursion
  <2> DEFINE g == [i \in 0 .. m + 1 |-> IF i <= m THEN f[i] ELSE step[<<f[m], m + 1>>]]
  <2>3. step[<<f[m], m + 1>>] \in V
    <3>1. f[m] \in V /\ m + 1 \in 1 .. n
      BY <2>2
    <3>2. <<f[m], m + 1>> \in V \X (1 .. n)
      BY <3>1
    <3> QED
      BY <3>2
  <2>4. g \in [0 .. m + 1 -> V]
    BY <2>2, <2>3
  <2>5. g[0] = base
    BY <2>2
  <2>6. ASSUME NEW i \in 1 .. m + 1
        PROVE  g[i] = step[<<g[i - 1], i>>]
    <3>1. i \in 0 .. m + 1 /\ i - 1 \in 0 .. m + 1 /\ i - 1 <= m
      OBVIOUS
    <3>2. g[i - 1] = f[i - 1]
      BY <3>1
    <3>3. CASE i <= m
      <4>1. g[i] = f[i] /\ f[i] = step[<<f[i - 1], i>>]
        BY <2>2, <3>1, <3>3
      <4> QED
        BY <3>2, <4>1
    <3>4. CASE i = m + 1
      <4>1. g[i] = step[<<f[m], m + 1>>] /\ i - 1 = m
        BY <3>4
      <4> QED
        BY <3>2, <3>4, <4>1
    <3> QED
      BY <3>3, <3>4
  <2>7. Is(g, m + 1)
    <3> HIDE DEF g
    <3> QED
      BY <2>4, <2>5, <2>6 DEF IsRecursion
  <2> HIDE DEF g, Is
  <2> QED
    BY <2>7
<1>3. T = Nat
  <2>1. T \subseteq Nat
    OBVIOUS
  <2> HIDE DEF T
  <2> QED
    BY <1>1, <1>2, <2>1, SetInduction
<1> QED
  BY <1>3

\* Steps along a sequence.
Unfolded(f, n, base, step) ==
    f = [i \in 0 .. n |-> IF i = 0 THEN base ELSE step[<<f[i - 1], i>>]]

\* There is such a function.
LEMMA Unfolds ==
    ASSUME NEW V, NEW base \in V, NEW n \in Nat, NEW step \in [V \X (1 .. n) -> V]
    PROVE  \E f \in [0 .. n -> V] : Unfolded(f, n, base, step)
<1>1. PICK f : IsRecursion(f, V, n, base, step)
  BY RecursionExists
<1>2. f \in [0 .. n -> V] /\ f[0] = base /\ \A i \in 1 .. n : f[i] = step[<<f[i - 1], i>>]
  BY <1>1 DEF IsRecursion
<1>3. \A i \in 0 .. n : i # 0 => i \in 1 .. n
  OBVIOUS
<1>4. f = [i \in 0 .. n |-> IF i = 0 THEN base ELSE step[<<f[i - 1], i>>]]
  BY <1>2, <1>3
<1> QED
  BY <1>2, <1>4 DEF Unfolded

\* What every step keeps holds all along.
LEMMA AlongPositions ==
    ASSUME NEW n \in Nat, NEW T, 0 \in T, \A i \in 1 .. n : i - 1 \in T => i \in T
    PROVE  0 .. n \subseteq T
<1> DEFINE U == {m \in Nat : m <= n => m \in T}
<1>1. 0 \in U
  OBVIOUS
<1>2. \A m \in U : m + 1 \in U
  <2> SUFFICES ASSUME NEW m \in Nat, m <= n => m \in T, m + 1 <= n PROVE m + 1 \in T
    OBVIOUS
  <2>1. m \in T /\ m + 1 \in 1 .. n /\ (m + 1) - 1 = m
    OBVIOUS
  <2> QED
    BY <2>1
<1>3. U = Nat
  <2>1. U \in SUBSET Nat
    OBVIOUS
  <2> HIDE DEF U
  <2> QED
    BY <1>1, <1>2, <2>1, SetInduction
<1> QED
  BY <1>3

-----------------------------------------------------------------------------
(* Least and greatest members.                                             *)

\* A finite set of numbers has them.
LEMMA Extremes ==
    ASSUME NEW S, IsFiniteSet(S), S \subseteq Int, S # {}
    PROVE  /\ Min(S) \in S /\ \A y \in S : Min(S) <= y
           /\ Max(S) \in S /\ \A y \in S : y <= Max(S)
<1> DEFINE Bound(U, a, b) == a \in U /\ b \in U /\ \A y \in U : a <= y /\ y <= b
           T == {U \in SUBSET S : U # {} => \E a, b \in Int : Bound(U, a, b)}
<1>1. ASSUME NEW U \in SUBSET S, \A W \in SUBSET U : W # U => W \in T
      PROVE  U \in T
  <2> SUFFICES ASSUME U # {} PROVE \E a, b \in Int : Bound(U, a, b)
    OBVIOUS
  <2>1. PICK x \in U : TRUE
    OBVIOUS
  <2> DEFINE W == U \ {x}
  <2>2. x \in Int /\ W \in T /\ U = W \cup {x}
    BY <1>1
  <2>3. CASE W = {}
    <3>1. Bound(U, x, x)
      BY <2>2, <2>3
    <3> QED
      BY <2>2, <3>1
  <2>4. CASE W # {}
    <3>1. PICK a, b \in Int : Bound(W, a, b)
      BY <2>2, <2>4
    <3> HIDE DEF W
    <3>2. CASE x <= a
      <4>1. Bound(U, x, b)
        BY <2>2, <3>1, <3>2
      <4> QED
        BY <2>2, <4>1
    <3>3. CASE b <= x
      <4>1. Bound(U, a, x)
        BY <2>2, <3>1, <3>3
      <4> QED
        BY <2>2, <4>1
    <3>4. CASE a <= x /\ x <= b
      <4>1. Bound(U, a, b)
        BY <2>2, <3>1, <3>4
      <4> QED
        BY <4>1
    <3> QED
      BY <2>2, <3>2, <3>3, <3>4
  <2> QED
    BY <2>3, <2>4
<1>2. SUBSET S \subseteq T
  <2> HIDE DEF T
  <2> QED
    BY <1>1, SubsetInduction
<1>3. PICK a, b \in Int : Bound(S, a, b)
  BY <1>2
<1>4. /\ \E x \in S : \A y \in S : x =< y
      /\ \E x \in S : \A y \in S : x >= y
  BY <1>3
<1>5. Min(S) \in S /\ \A y \in S : Min(S) =< y
  BY <1>4, Zenon DEF Min
<1>6. Max(S) \in S /\ \A y \in S : Max(S) >= y
  BY <1>4, Zenon DEF Max
<1> QED
  BY <1>5, <1>6

-----------------------------------------------------------------------------
(* Sums.  The library's sums are a recursive function over the subsets of  *)
(* a set, which takes the members in an order that CHOOSE decides; what    *)
(* follows says that a sum exists and that the order does not matter.      *)

IsSum(g, f, S) ==
    g = [s \in SUBSET S |->
            IF s = {} THEN 0
            ELSE LET x == CHOOSE x \in s : TRUE IN f[x] + g[s \ {x}]]
Sums(f, S) == CHOOSE g : IsSum(g, f, S)
SumOf(f, S) == Sums(f, S)[S]

\* The two sums of the library.
LEMMA SumOfSet ==
    ASSUME NEW f, NEW S
    PROVE  /\ MapThenSumSet(LAMBDA p : f[p], S) = SumOf(f, S)
           /\ SumFunctionOnSet(f, S) = SumOf(f, S)
<1>1. MapThenSumSet(LAMBDA p : f[p], S) = SumOf(f, S)
  BY Zenon DEF MapThenSumSet, MapThenFoldSet, SumOf, Sums, IsSum
<1>2. SumFunctionOnSet(f, S) = SumOf(f, S)
  BY Zenon DEF SumFunctionOnSet, FoldFunctionOnSet, MapThenFoldSet, SumOf, Sums, IsSum
<1> QED
  BY <1>1, <1>2

\* Some member of a set that is not empty.
Some(s) == CHOOSE x \in s : TRUE

\* What it is to be a sum, place by place.
LEMMA SumPlaces ==
    ASSUME NEW g, NEW f, NEW S, IsSum(g, f, S), NEW U \in SUBSET S
    PROVE  g[U] = IF U = {} THEN 0 ELSE f[Some(U)] + g[U \ {Some(U)}]
  BY Zenon DEF IsSum, Some

Agree(g, h, V) == \A U \in SUBSET V : g[U] = h[U]

\* Two sums of the same function agree where both are defined.
LEMMA SumUnique ==
    ASSUME NEW f, NEW S, NEW V, V \subseteq S, IsFiniteSet(S),
           NEW g, IsSum(g, f, S), NEW h, IsSum(h, f, V)
    PROVE  Agree(g, h, V)
<1> DEFINE T == {U \in SUBSET V : g[U] = h[U]}
<1>1. IsFiniteSet(V)
  BY FS_Subset
<1>2. ASSUME NEW U \in SUBSET V, \A W \in SUBSET U : W # U => W \in T
      PROVE  U \in T
  <2>1. U \in SUBSET S
    OBVIOUS
  <2>2. /\ g[U] = IF U = {} THEN 0 ELSE f[Some(U)] + g[U \ {Some(U)}]
        /\ h[U] = IF U = {} THEN 0 ELSE f[Some(U)] + h[U \ {Some(U)}]
    BY <2>1, SumPlaces, Zenon
  <2>3. U # {} => U \ {Some(U)} \in T
    <3>1. U # {} => Some(U) \in U
      BY Zenon DEF Some
    <3> QED
      BY <1>2, <3>1
  <2> QED
    BY <2>2, <2>3
<1>3. SUBSET V \subseteq T
  <2> HIDE DEF T
  <2> QED
    BY <1>1, <1>2, SubsetInduction
<1> QED
  BY <1>3 DEF Agree

\* A sum over a set is a sum over its subsets.
LEMMA SumRestricted ==
    ASSUME NEW f, NEW S, NEW V \in SUBSET S, NEW g, IsSum(g, f, S)
    PROVE  IsSum([U \in SUBSET V |-> g[U]], f, V)
<1> DEFINE h == [U \in SUBSET V |-> g[U]]
<1>1. ASSUME NEW U \in SUBSET V
      PROVE  h[U] = IF U = {} THEN 0 ELSE f[Some(U)] + h[U \ {Some(U)}]
  <2>1. U \in SUBSET S
    OBVIOUS
  <2>2. g[U] = IF U = {} THEN 0 ELSE f[Some(U)] + g[U \ {Some(U)}]
    BY <2>1, SumPlaces, Zenon
  <2>3. U \ {Some(U)} \in SUBSET V
    OBVIOUS
  <2> QED
    BY <2>2, <2>3
<1>2. h = [U \in SUBSET V |-> IF U = {} THEN 0 ELSE f[Some(U)] + h[U \ {Some(U)}]]
  <2>1. h = [U \in SUBSET V |-> h[U]]
    BY Zenon
  <2> HIDE DEF h
  <2> QED
    BY <1>1, <2>1
<1> HIDE DEF h
<1>3. IsSum(h, f, V)
  BY <1>2, Zenon DEF IsSum, Some
<1> QED
  BY <1>3 DEF h

\* There is one, over every finite set.
LEMMA SumExists ==
    ASSUME NEW f, NEW S, IsFiniteSet(S)
    PROVE  \E g : IsSum(g, f, S)
<1> DEFINE T == {U \in SUBSET S : \E g : IsSum(g, f, U)}
<1>1. ASSUME NEW U \in SUBSET S, \A W \in SUBSET U : W # U => W \in T
      PROVE  U \in T
  <2> DEFINE part(W) == CHOOSE g : IsSum(g, f, W)
             h == [W \in SUBSET U |-> IF W = {} THEN 0
                                      ELSE f[Some(W)] + part(W \ {Some(W)})[W \ {Some(W)}]]
  <2>1. ASSUME NEW W \in SUBSET U, W # U
        PROVE  IsSum(part(W), f, W)
    <3>1. \E g : IsSum(g, f, W)
      BY <1>1, <2>1
    <3> QED
      BY <3>1, Zenon
  <2>2. ASSUME NEW W \in SUBSET U, W # {}
        PROVE  h[W \ {Some(W)}] = part(W \ {Some(W)})[W \ {Some(W)}]
    <3> DEFINE V == W \ {Some(W)}
    <3>1. Some(W) \in W
      BY <2>2, Zenon DEF Some
    <3>2. V \in SUBSET U /\ V # U /\ IsFiniteSet(V)
      BY <3>1, FS_Subset
    <3>3. IsSum(part(V), f, V)
      BY <2>1, <3>2
    <3> HIDE DEF V
    <3>4. part(V)[V] = IF V = {} THEN 0 ELSE f[Some(V)] + part(V)[V \ {Some(V)}]
      <4> HIDE DEF part
      <4> QED
        BY <3>3, SumPlaces, Zenon
    <3>5. V # {} => part(V)[V \ {Some(V)}] = part(V \ {Some(V)})[V \ {Some(V)}]
      <4> SUFFICES ASSUME V # {}
                   PROVE  part(V)[V \ {Some(V)}] = part(V \ {Some(V)})[V \ {Some(V)}]
        OBVIOUS
      <4>1. V \ {Some(V)} \in SUBSET V /\ V \ {Some(V)} \in SUBSET U
        BY <3>2
      <4>2. V \ {Some(V)} # U
        BY <3>2
      <4>3. IsSum(part(V \ {Some(V)}), f, V \ {Some(V)})
        BY <2>1, <4>1, <4>2
      <4> HIDE DEF part
      <4>4. \A X \in SUBSET (V \ {Some(V)}) : part(V)[X] = part(V \ {Some(V)})[X]
        <5>1. V \ {Some(V)} \subseteq V
          OBVIOUS
        <5> HIDE DEF V
        <5>2. Agree(part(V), part(V \ {Some(V)}), V \ {Some(V)})
          BY <3>2, <3>3, <5>1, <4>3, SumUnique, Zenon
        <5> QED
          BY <5>2 DEF Agree
      <4> QED
        BY <4>4
    <3>6. h[V] = IF V = {} THEN 0 ELSE f[Some(V)] + part(V \ {Some(V)})[V \ {Some(V)}]
      BY <3>2, Zenon
    <3>7. h[V] = part(V)[V]
      <4> HIDE DEF h, part
      <4> QED
        BY <3>4, <3>5, <3>6
    <3> QED
      BY <3>7 DEF V
  <2>3. h = [W \in SUBSET U |-> IF W = {} THEN 0 ELSE f[Some(W)] + h[W \ {Some(W)}]]
    <3>1. \A W \in SUBSET U :
             h[W] = IF W = {} THEN 0 ELSE f[Some(W)] + part(W \ {Some(W)})[W \ {Some(W)}]
      BY Zenon
    <3>2. h = [W \in SUBSET U |-> h[W]]
      OBVIOUS
    <3>3. \A W \in SUBSET U : W # {} => h[W \ {Some(W)}] = part(W \ {Some(W)})[W \ {Some(W)}]
      BY <2>2, Zenon
    <3> HIDE DEF h, part
    <3>4. \A W \in SUBSET U : h[W] = IF W = {} THEN 0 ELSE f[Some(W)] + h[W \ {Some(W)}]
      BY <3>1, <3>3
    <3> QED
      BY <3>2, <3>4
  <2> HIDE DEF h
  <2>4. IsSum(h, f, U)
    BY <2>3, Zenon DEF IsSum, Some
  <2> QED
    BY <2>4
<1>2. SUBSET S \subseteq T
  <2> HIDE DEF T
  <2> QED
    BY <1>1, SubsetInduction
<1>3. S \in T
  BY <1>2
<1> QED
  BY <1>3

\* The sums over the subsets of a set are those over the set itself.
LEMMA SumOfPart ==
    ASSUME NEW f, NEW S, IsFiniteSet(S), NEW W \in SUBSET S
    PROVE  IsSum(Sums(f, W), f, W) /\ Sums(f, S)[W] = SumOf(f, W)
<1>1. ASSUME NEW V \in SUBSET S PROVE IsSum(Sums(f, V), f, V)
  <2>1. \E g : IsSum(g, f, V)
    BY FS_Subset, SumExists
  <2> QED
    BY <2>1, Zenon DEF Sums
<1>2. IsSum(Sums(f, S), f, S) /\ IsSum(Sums(f, W), f, W)
  BY <1>1
<1>3. W \subseteq S
  OBVIOUS
<1>4. \A U \in SUBSET W : Sums(f, S)[U] = Sums(f, W)[U]
  <2>1. Agree(Sums(f, S), Sums(f, W), W)
    BY <1>2, <1>3, SumUnique, Zenon
  <2> QED
    BY <2>1 DEF Agree
<1> QED
  BY <1>2, <1>4 DEF SumOf

\* The sum over a set, from that over the set without the member that CHOOSE
\* takes first.
LEMMA SumFirst ==
    ASSUME NEW f, NEW S, IsFiniteSet(S)
    PROVE  /\ S = {} => SumOf(f, S) = 0
           /\ S # {} => /\ Some(S) \in S
                        /\ SumOf(f, S) = f[Some(S)] + SumOf(f, S \ {Some(S)})
<1>1. S \ {Some(S)} \in SUBSET S /\ S \in SUBSET S
  OBVIOUS
<1>2. IsSum(Sums(f, S), f, S)
  BY <1>1, SumOfPart
<1>3. Sums(f, S)[S] = IF S = {} THEN 0 ELSE f[Some(S)] + Sums(f, S)[S \ {Some(S)}]
  BY <1>1, <1>2, SumPlaces, Zenon
<1>4. Sums(f, S)[S \ {Some(S)}] = SumOf(f, S \ {Some(S)})
  BY <1>1, SumOfPart
<1>5. S # {} => Some(S) \in S
  BY Zenon DEF Some
<1> QED
  BY <1>3, <1>4, <1>5, Zenon DEF SumOf

\* Sums of numbers are numbers.
LEMMA SumIsNumber ==
    ASSUME NEW f, NEW S, IsFiniteSet(S), \A p \in S : f[p] \in Int
    PROVE  /\ SumOf(f, S) \in Int
           /\ (\A p \in S : f[p] \in Nat) => SumOf(f, S) \in Nat
<1> DEFINE T == {U \in SUBSET S : /\ SumOf(f, U) \in Int
                                  /\ (\A p \in S : f[p] \in Nat) => SumOf(f, U) \in Nat}
<1>1. ASSUME NEW U \in SUBSET S, \A W \in SUBSET U : W # U => W \in T
      PROVE  U \in T
  <2>1. IsFiniteSet(U)
    BY FS_Subset
  <2>2. CASE U = {}
    <3>1. SumOf(f, U) = 0
      BY <2>1, <2>2, SumFirst
    <3> QED
      BY <3>1
  <2>3. CASE U # {}
    <3>1. Some(U) \in U /\ SumOf(f, U) = f[Some(U)] + SumOf(f, U \ {Some(U)})
      BY <2>1, <2>3, SumFirst
    <3>2. U \ {Some(U)} \in T
      BY <1>1, <3>1
    <3> QED
      BY <3>1, <3>2
  <2> QED
    BY <2>2, <2>3
<1>2. SUBSET S \subseteq T
  <2> HIDE DEF T
  <2> QED
    BY <1>1, SubsetInduction
<1>3. S \in T
  BY <1>2
<1> QED
  BY <1>3

\* Any member may be taken first.
LEMMA SumWithout ==
    ASSUME NEW f, NEW S, IsFiniteSet(S), \A p \in S : f[p] \in Int, NEW x \in S
    PROVE  SumOf(f, S) = f[x] + SumOf(f, S \ {x})
<1> DEFINE T == {U \in SUBSET S : \A y \in U : SumOf(f, U) = f[y] + SumOf(f, U \ {y})}
<1>0. \A U \in SUBSET S : SumOf(f, U) \in Int /\ IsFiniteSet(U)
  BY FS_Subset, SumIsNumber
<1>1. ASSUME NEW U \in SUBSET S, \A W \in SUBSET U : W # U => W \in T
      PROVE  U \in T
  <2> SUFFICES ASSUME NEW y \in U PROVE SumOf(f, U) = f[y] + SumOf(f, U \ {y})
    OBVIOUS
  <2> DEFINE z == Some(U)
  <2>1. z \in U /\ SumOf(f, U) = f[z] + SumOf(f, U \ {z})
    BY <1>0, SumFirst
  <2> HIDE DEF z
  <2>2. CASE y = z
    BY <2>1, <2>2
  <2>3. CASE y # z
    <3>1. U \ {z} \in T /\ U \ {y} \in T
      BY <1>1, <2>1
    <3>2. y \in U \ {z} /\ z \in U \ {y} /\ (U \ {z}) \ {y} = (U \ {y}) \ {z}
      BY <2>1, <2>3
    <3>3. /\ SumOf(f, U \ {z}) = f[y] + SumOf(f, (U \ {z}) \ {y})
          /\ SumOf(f, U \ {y}) = f[z] + SumOf(f, (U \ {z}) \ {y})
      <4>1. SumOf(f, U \ {z}) = f[y] + SumOf(f, (U \ {z}) \ {y})
        BY <3>1, <3>2
      <4>2. SumOf(f, U \ {y}) = f[z] + SumOf(f, (U \ {y}) \ {z})
        BY <3>1, <3>2
      <4> QED
        BY <3>2, <4>1, <4>2
    <3>4. f[y] \in Int /\ f[z] \in Int /\ SumOf(f, (U \ {z}) \ {y}) \in Int
      <4>1. (U \ {z}) \ {y} \in SUBSET S
        OBVIOUS
      <4> QED
        BY <1>0, <2>1, <4>1
    <3> HIDE DEF T
    <3> QED
      BY <2>1, <3>3, <3>4
  <2> QED
    BY <2>2, <2>3
<1>2. SUBSET S \subseteq T
  <2> HIDE DEF T
  <2> QED
    BY <1>1, SubsetInduction
<1>3. S \in T
  BY <1>2
<1> QED
  BY <1>3

\* A sum depends only on the function's values.
LEMMA SumOfSame ==
    ASSUME NEW f, NEW g, NEW S, IsFiniteSet(S), \A p \in S : f[p] = g[p]
    PROVE  SumOf(f, S) = SumOf(g, S)
<1> DEFINE T == {U \in SUBSET S : SumOf(f, U) = SumOf(g, U)}
<1>1. ASSUME NEW U \in SUBSET S, \A W \in SUBSET U : W # U => W \in T
      PROVE  U \in T
  <2>1. IsFiniteSet(U)
    BY FS_Subset
  <2>2. CASE U = {}
    BY <2>1, <2>2, SumFirst
  <2>3. CASE U # {}
    <3>1. /\ Some(U) \in U /\ SumOf(f, U) = f[Some(U)] + SumOf(f, U \ {Some(U)})
          /\ SumOf(g, U) = g[Some(U)] + SumOf(g, U \ {Some(U)})
      BY <2>1, <2>3, SumFirst
    <3>2. U \ {Some(U)} \in T
      BY <1>1, <3>1
    <3> QED
      BY <3>1, <3>2
  <2> QED
    BY <2>2, <2>3
<1>2. SUBSET S \subseteq T
  <2> HIDE DEF T
  <2> QED
    BY <1>1, SubsetInduction
<1>3. S \in T
  BY <1>2
<1> QED
  BY <1>3

\* A sum when some members count no more.
LEMMA SumCleared ==
    ASSUME NEW f, NEW g, NEW S, IsFiniteSet(S), NEW G \in SUBSET S,
           \A p \in S : f[p] \in Int /\ g[p] = IF p \in G THEN 0 ELSE f[p]
    PROVE  SumOf(g, S) = SumOf(f, S) - SumOf(f, G)
<1> DEFINE T == {U \in SUBSET S : SumOf(g, U) = SumOf(f, U) - SumOf(f, U \cap G)}
<1>0. \A U \in SUBSET S : SumOf(f, U) \in Int /\ SumOf(g, U) \in Int /\ IsFiniteSet(U)
  <2>1. \A p \in S : f[p] \in Int /\ g[p] \in Int
    OBVIOUS
  <2>2. \A U \in SUBSET S : IsFiniteSet(U) /\ \A p \in U : f[p] \in Int /\ g[p] \in Int
    BY <2>1, FS_Subset
  <2> QED
    BY <2>2, SumIsNumber
<1>1. ASSUME NEW U \in SUBSET S, \A W \in SUBSET U : W # U => W \in T
      PROVE  U \in T
  <2>1. CASE U = {}
    <3>1. SumOf(f, U) = 0 /\ SumOf(g, U) = 0 /\ U \cap G = U
      BY <1>0, <2>1, SumFirst
    <3>2. SumOf(g, U) = SumOf(f, U) - SumOf(f, U \cap G)
      BY <3>1
    <3> QED
      BY <3>2
  <2>2. CASE U # {}
    <3> DEFINE z == Some(U)
               V == U \ {z}
    <3>1. z \in U /\ SumOf(f, U) = f[z] + SumOf(f, V) /\ SumOf(g, U) = g[z] + SumOf(g, V)
      BY <1>0, <2>2, SumFirst
    <3> HIDE DEF z
    <3>2. V \in T
      BY <1>1, <3>1
    <3>3. SumOf(g, V) = SumOf(f, V) - SumOf(f, V \cap G)
      BY <3>2
    <3>4. /\ f[z] \in Int /\ g[z] = IF z \in G THEN 0 ELSE f[z]
          /\ SumOf(f, V) \in Int /\ SumOf(g, V) \in Int /\ SumOf(f, V \cap G) \in Int
      <4>1. V \in SUBSET S /\ V \cap G \in SUBSET S /\ z \in S
        BY <3>1
      <4> QED
        BY <1>0, <4>1
    <3>5. CASE z \in G
      <4>1. (U \cap G) \ {z} = V \cap G /\ z \in U \cap G /\ U \cap G \in SUBSET S
        BY <3>1, <3>5
      <4>2. IsFiniteSet(U \cap G) /\ \A p \in U \cap G : f[p] \in Int
        BY <1>0, <4>1
      <4>3. SumOf(f, U \cap G) = f[z] + SumOf(f, (U \cap G) \ {z})
        BY <4>1, <4>2, SumWithout
      <4>4. SumOf(f, U \cap G) = f[z] + SumOf(f, V \cap G)
        BY <4>1, <4>3
      <4> HIDE DEF V, T
      <4>5. SumOf(g, U) = SumOf(f, U) - SumOf(f, U \cap G)
        BY <3>1, <3>3, <3>4, <3>5, <4>4
      <4> QED
        BY <4>5 DEF T
    <3>6. CASE z \notin G
      <4>1. U \cap G = V \cap G
        BY <3>6
      <4> HIDE DEF V, T
      <4>2. SumOf(f, U \cap G) = SumOf(f, V \cap G) /\ g[z] = f[z]
        BY <3>4, <3>6, <4>1
      <4>3. SumOf(g, U) = SumOf(f, U) - SumOf(f, U \cap G)
        BY <3>1, <3>3, <3>4, <4>2
      <4> QED
        BY <4>3 DEF T
    <3> QED
      BY <3>5, <3>6
  <2> QED
    BY <2>1, <2>2
<1>2. SUBSET S \subseteq T
  <2> HIDE DEF T
  <2> QED
    BY <1>1, SubsetInduction
<1>3. S \in T /\ S \cap G = G
  BY <1>2
<1> QED
  BY <1>3

\* A sum when one member counts something else.
LEMMA SumChanged ==
    ASSUME NEW f, NEW g, NEW S, IsFiniteSet(S), NEW x \in S,
           \A p \in S : f[p] \in Int /\ g[p] \in Int /\ (p # x => g[p] = f[p])
    PROVE  SumOf(g, S) = (SumOf(f, S) - f[x]) + g[x]
<1>1. IsFiniteSet(S \ {x})
  BY FS_Subset
<1>2. SumOf(f, S) = f[x] + SumOf(f, S \ {x}) /\ SumOf(g, S) = g[x] + SumOf(g, S \ {x})
  BY SumWithout
<1>3. SumOf(g, S \ {x}) = SumOf(f, S \ {x})
  BY <1>1, SumOfSame
<1>4. SumOf(f, S \ {x}) \in Int
  BY <1>1, SumIsNumber
<1> QED
  BY <1>2, <1>3, <1>4

\* Sums of nothing, of one member, and of zeros.
LEMMA SumOfNone ==
    ASSUME NEW f
    PROVE  SumOf(f, {}) = 0 /\ SumFunctionOnSet(f, {}) = 0
BY FS_EmptySet, SumFirst, SumOfSet

\* See SumOfNone.
LEMMA SumOfOne ==
    ASSUME NEW f, NEW x, f[x] \in Int
    PROVE  SumOf(f, {x}) = f[x]
<1>1. IsFiniteSet({x}) /\ {x} \ {x} = {}
  BY FS_Singleton
<1>2. SumOf(f, {x}) = f[x] + SumOf(f, {x} \ {x})
  BY <1>1, SumWithout
<1> QED
  BY <1>1, <1>2, SumOfNone

\* See SumOfNone.
LEMMA SumOfZeros ==
    ASSUME NEW f, NEW S, IsFiniteSet(S), \A p \in S : f[p] = 0
    PROVE  SumOf(f, S) = 0
<1>1. SumOf(f, S) = SumOf(f, S) - SumOf(f, S)
  BY SumCleared
<1>2. SumOf(f, S) \in Int
  BY SumIsNumber
<1> QED
  BY <1>1, <1>2

\* A sum is at most as many times a bound as there are members.
LEMMA SumAtMost ==
    ASSUME NEW f, NEW S, IsFiniteSet(S), NEW c \in Int, \A p \in S : f[p] \in Int /\ f[p] <= c
    PROVE  SumOf(f, S) <= c * Cardinality(S)
<1> DEFINE T == {U \in SUBSET S : SumOf(f, U) <= c * Cardinality(U)}
<1>0. \A U \in SUBSET S : SumOf(f, U) \in Int /\ IsFiniteSet(U)
  BY FS_Subset, SumIsNumber
<1>1. ASSUME NEW U \in SUBSET S, \A W \in SUBSET U : W # U => W \in T
      PROVE  U \in T
  <2>1. IsFiniteSet(U)
    BY FS_Subset
  <2>2. CASE U = {}
    <3>1. SumOf(f, U) = 0 /\ Cardinality(U) = 0
      BY <2>1, <2>2, SumFirst, FS_EmptySet
    <3> QED
      BY <3>1
  <2>3. CASE U # {}
    <3> DEFINE V == U \ {Some(U)}
    <3>1. Some(U) \in U /\ SumOf(f, U) = f[Some(U)] + SumOf(f, V)
      BY <2>1, <2>3, SumFirst
    <3>2. V \in T /\ SumOf(f, V) \in Int /\ IsFiniteSet(V)
      BY <1>0, <1>1, <3>1
    <3>3. Cardinality(V) \in Nat /\ Cardinality(U) = Cardinality(V) + 1
      <4>1. Cardinality(V) \in Nat /\ Cardinality(U) \in Nat
        BY <2>1, <3>2, FS_CardinalityType
      <4>2. Cardinality(V) = Cardinality(U) - 1
        BY <2>1, <3>1, FS_RemoveElement
      <4> QED
        BY <4>1, <4>2
    <3>4. f[Some(U)] \in Int /\ f[Some(U)] <= c /\ SumOf(f, V) <= c * Cardinality(V)
      BY <3>1, <3>2
    <3> HIDE DEF V
    <3>5. SumOf(f, U) <= c + c * Cardinality(V)
      BY <3>1, <3>2, <3>3, <3>4
    <3>6. c + c * Cardinality(V) = c * Cardinality(U)
      BY <3>3
    <3> QED
      BY <3>5, <3>6
  <2> QED
    BY <2>2, <2>3
<1>2. SUBSET S \subseteq T
  <2> HIDE DEF T
  <2> QED
    BY <1>1, SubsetInduction
<1>3. S \in T
  BY <1>2
<1> QED
  BY <1>3

-----------------------------------------------------------------------------
(* Sequences without repetition.                                           *)

\* One more element.
LEMMA AppendOnce ==
    ASSUME NEW S, NEW q \in Seq(S), NEW x \in S
    PROVE  /\ Append(q, x) \in Seq(S) /\ Range(Append(q, x)) = Range(q) \cup {x}
           /\ IsInjective(q) /\ x \notin Range(q) => IsInjective(Append(q, x))
<1> DEFINE r == Append(q, x)
<1>1. /\ r \in Seq(S) /\ Len(r) = Len(q) + 1 /\ Len(q) \in Nat /\ r[Len(q) + 1] = x
      /\ \A k \in 1 .. Len(q) : r[k] = q[k]
  BY AppendProperties, LenProperties
<1>2. DOMAIN r = 1 .. Len(q) + 1 /\ DOMAIN q = 1 .. Len(q)
  BY <1>1, LenProperties
<1>3. 1 .. Len(q) + 1 = (1 .. Len(q)) \cup {Len(q) + 1}
  BY <1>1
<1> HIDE DEF r
<1>4. Range(r) = Range(q) \cup {x}
  BY <1>1, <1>2, <1>3 DEF Range
<1>5. ASSUME IsInjective(q), x \notin Range(q) PROVE IsInjective(r)
  <2>1. \A k \in 1 .. Len(q) : q[k] # x
    BY <1>2, <1>5 DEF Range
  <2> QED
    BY <1>1, <1>2, <1>3, <1>5, <2>1 DEF IsInjective
<1> QED
  BY <1>1, <1>4, <1>5 DEF r

\* As many places as different elements.
LEMMA OnceCounted ==
    ASSUME NEW S, NEW q \in Seq(S), IsInjective(q)
    PROVE  IsFiniteSet(Range(q)) /\ Cardinality(Range(q)) = Len(q)
<1>1. Len(q) \in Nat /\ DOMAIN q = 1 .. Len(q)
  BY LenProperties
<1>2. q \in Bijection(1 .. Len(q), Range(q))
  <2>1. q \in [1 .. Len(q) -> Range(q)]
    BY <1>1 DEF Range
  <2> QED
    BY <1>1, <2>1 DEF Bijection, Injection, Surjection, IsInjective, Range
<1>3. ExistsBijection(1 .. Len(q), Range(q))
  BY <1>2 DEF ExistsBijection
<1>4. IsFiniteSet(1 .. Len(q)) /\ Cardinality(1 .. Len(q)) = Len(q)
  BY <1>1, FS_Interval
<1> QED
  BY <1>3, <1>4, FS_Bijection

=============================================================================
