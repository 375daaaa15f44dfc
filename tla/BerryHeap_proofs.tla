-------------------------- MODULE BerryHeap_proofs ---------------------------
(***************************************************************************)
(* The collector, for any number of objects, however long the script runs  *)
(* and whatever its destructors do: marking ends with everything that can  *)
(* be reached dark, destructors reach nothing that is gone, and what is    *)
(* deleted was garbage or has been taken hold of by a destructor.  And the *)
(* strings it sweeps: for any texts and hashes, equal means same text.     *)
(* And the memory under both, for any users, sizes and pools.              *)
(***************************************************************************)
EXTENDS BerryHeap, BerryStrings, BerryPools, Inductions, SequenceTheorems, TLAPS

-----------------------------------------------------------------------------
(* Sequences.                                                              *)

\* The members of a sequence are the values at its positions.
LEMMA RangeIs ==
    ASSUME NEW S, NEW s \in Seq(S)
    PROVE  /\ Range(s) = {s[i] : i \in 1 .. Len(s)} /\ Range(s) \subseteq S
           /\ DOMAIN s = 1 .. Len(s) /\ Len(s) \in Nat
<1>1. DOMAIN s = 1 .. Len(s) /\ Len(s) \in Nat
  BY LenProperties
<1>2. \A i \in 1 .. Len(s) : s[i] \in S
  BY ElementOfSeq
<1> QED
  BY <1>1, <1>2 DEF Range

\* One member more, in front.
LEMMA Prepended ==
    ASSUME NEW S, NEW s \in Seq(S), NEW o \in S
    PROVE  /\ <<o>> \o s \in Seq(S) /\ Len(<<o>> \o s) = Len(s) + 1
           /\ (<<o>> \o s)[1] = o
           /\ \A i \in 1 .. Len(s) : (<<o>> \o s)[i + 1] = s[i]
           /\ \A i \in 2 .. Len(s) + 1 : (<<o>> \o s)[i] = s[i - 1]
           /\ Range(<<o>> \o s) = Range(s) \cup {o}
<1> DEFINE t == <<o>> \o s
<1>1. <<o>> \in Seq(S) /\ Len(<<o>>) = 1 /\ <<o>>[1] = o
  OBVIOUS
<1>2. Len(s) \in Nat
  BY LenProperties
<1>3. t \in Seq(S) /\ Len(t) = Len(s) + 1
  BY <1>1, ConcatProperties
<1>4. \A i \in 1 .. Len(<<o>>) + Len(s) :
        t[i] = IF i <= Len(<<o>>) THEN <<o>>[i] ELSE s[i - Len(<<o>>)]
  BY <1>1, ConcatProperties
<1> HIDE DEF t
<1>5. t[1] = o /\ \A i \in 2 .. Len(s) + 1 : t[i] = s[i - 1]
  BY <1>1, <1>2, <1>4
<1>6. \A i \in 1 .. Len(s) : t[i + 1] = s[i]
  BY <1>2, <1>5
<1>7. Range(t) = {t[i] : i \in 1 .. Len(s) + 1} /\ Range(s) = {s[i] : i \in 1 .. Len(s)}
  BY <1>3, RangeIs
<1>8. Range(t) \subseteq Range(s) \cup {o}
  <2> SUFFICES ASSUME NEW i \in 1 .. Len(s) + 1 PROVE t[i] \in Range(s) \cup {o}
    BY <1>7
  <2>1. CASE i = 1
    BY <2>1, <1>5
  <2>2. CASE i # 1
    <3>1. i - 1 \in 1 .. Len(s) /\ i \in 2 .. Len(s) + 1
      BY <2>2, <1>2
    <3> QED
      BY <3>1, <1>5, <1>7
  <2> QED
    BY <2>1, <2>2
<1>9. Range(s) \cup {o} \subseteq Range(t)
  <2>1. o \in Range(t)
    BY <1>2, <1>5, <1>7
  <2>2. \A i \in 1 .. Len(s) : i + 1 \in 1 .. Len(s) + 1 /\ t[i + 1] = s[i]
    BY <1>2, <1>6
  <2>3. \A i \in 1 .. Len(s) : s[i] \in Range(t)
    BY <2>2, <1>7
  <2> QED
    BY <2>1, <2>3, <1>7
<1> QED
  BY <1>3, <1>5, <1>6, <1>8, <1>9 DEF t

\* One member less, at the front.
LEMMA TailIs ==
    ASSUME NEW S, NEW s \in Seq(S), s # <<>>
    PROVE  /\ Tail(s) \in Seq(S) /\ Len(Tail(s)) = Len(s) - 1 /\ Len(s) \in Nat \ {0}
           /\ \A i \in 1 .. Len(s) - 1 : Tail(s)[i] = s[i + 1]
           /\ Range(Tail(s)) \subseteq Range(s)
           /\ Range(s) = Range(Tail(s)) \cup {Head(s)} /\ Head(s) = s[1] /\ Head(s) \in S
<1> DEFINE t == Tail(s)
<1>1. t \in Seq(S) /\ Len(t) = Len(s) - 1 /\ Head(s) \in S
  BY HeadTailProperties
<1>2. Len(s) \in Nat \ {0}
  BY EmptySeq
<1>3. \A i \in 1 .. Len(s) - 1 : t[i] = s[i + 1]
  BY <1>1, HeadTailProperties
<1>4. Head(s) = s[1]
  OBVIOUS
<1> HIDE DEF t
<1>5. Range(t) = {t[i] : i \in 1 .. Len(s) - 1} /\ Range(s) = {s[i] : i \in 1 .. Len(s)}
  BY <1>1, RangeIs
<1>6. Range(t) \subseteq Range(s)
  <2> SUFFICES ASSUME NEW i \in 1 .. Len(s) - 1 PROVE t[i] \in Range(s)
    BY <1>5
  <2>1. i + 1 \in 1 .. Len(s)
    BY <1>2
  <2> QED
    BY <2>1, <1>3, <1>5
<1>7. Range(s) \subseteq Range(t) \cup {s[1]}
  <2> SUFFICES ASSUME NEW i \in 1 .. Len(s), i # 1 PROVE s[i] \in Range(t)
    BY <1>5
  <2>1. i - 1 \in 1 .. Len(s) - 1
    BY <1>2
  <2>2. t[i - 1] = s[i]
    BY <2>1, <1>3
  <2> QED
    BY <2>1, <2>2, <1>5
<1>8. s[1] \in Range(s)
  BY <1>2, <1>5
<1> QED
  BY <1>1, <1>2, <1>3, <1>4, <1>6, <1>7, <1>8 DEF t

\* One sequence after another.
LEMMA JoinedRange ==
    ASSUME NEW S, NEW s \in Seq(S), NEW t \in Seq(S)
    PROVE  s \o t \in Seq(S) /\ Range(s \o t) = Range(s) \cup Range(t)
<1> DEFINE u == s \o t
<1>1. /\ u \in Seq(S) /\ Len(u) = Len(s) + Len(t) /\ Len(s) \in Nat /\ Len(t) \in Nat
      /\ \A i \in 1 .. Len(s) + Len(t) : u[i] = IF i <= Len(s) THEN s[i] ELSE t[i - Len(s)]
  BY ConcatProperties, LenProperties
<1> HIDE DEF u
<1>2. /\ Range(u) = {u[i] : i \in 1 .. Len(s) + Len(t)}
      /\ Range(s) = {s[i] : i \in 1 .. Len(s)} /\ Range(t) = {t[i] : i \in 1 .. Len(t)}
  BY <1>1, RangeIs
<1>3. \A i \in 1 .. Len(s) + Len(t) : u[i] \in Range(s) \cup Range(t)
  <2> SUFFICES ASSUME NEW i \in 1 .. Len(s) + Len(t) PROVE u[i] \in Range(s) \cup Range(t)
    OBVIOUS
  <2>1. CASE i <= Len(s)
    <3>1. i \in 1 .. Len(s) /\ u[i] = s[i]
      BY <2>1, <1>1
    <3> QED
      BY <3>1, <1>2
  <2>2. CASE ~(i <= Len(s))
    <3>1. i - Len(s) \in 1 .. Len(t) /\ u[i] = t[i - Len(s)]
      BY <2>2, <1>1
    <3> QED
      BY <3>1, <1>2
  <2> QED
    BY <2>1, <2>2
<1>4. \A i \in 1 .. Len(s) : s[i] \in Range(u)
  <2> SUFFICES ASSUME NEW i \in 1 .. Len(s) PROVE s[i] \in Range(u)
    OBVIOUS
  <2>1. i \in 1 .. Len(s) + Len(t) /\ i <= Len(s)
    BY <1>1
  <2>2. u[i] = s[i]
    BY <2>1, <1>1
  <2> QED
    BY <2>1, <2>2, <1>2
<1>5. \A i \in 1 .. Len(t) : t[i] \in Range(u)
  <2> SUFFICES ASSUME NEW i \in 1 .. Len(t) PROVE t[i] \in Range(u)
    OBVIOUS
  <2>1. i + Len(s) \in 1 .. Len(s) + Len(t) /\ ~(i + Len(s) <= Len(s)) /\ (i + Len(s)) - Len(s) = i
    BY <1>1
  <2>2. u[i + Len(s)] = t[i]
    BY <2>1, <1>1
  <2> QED
    BY <2>1, <2>2, <1>2
<1>6. Range(u) \subseteq Range(s) \cup Range(t)
  BY <1>2, <1>3
<1>7. Range(s) \subseteq Range(u) /\ Range(t) \subseteq Range(u)
  BY <1>2, <1>4, <1>5
<1> QED
  BY <1>1, <1>6, <1>7 DEF u

\* SetToSeq() lists a finite set.
LEMMA SetToSeqLists ==
    ASSUME NEW S, IsFiniteSet(S)
    PROVE  SetToSeq(S) \in Seq(S) /\ Range(SetToSeq(S)) = S
<1> DEFINE n == Cardinality(S)
           f == SetToSeq(S)
<1>1. n \in Nat /\ ExistsBijection(1 .. n, S)
  BY FS_CardinalityType
<1>2. \E g \in [1 .. n -> S] : IsInjective(g)
  BY <1>1 DEF ExistsBijection, Bijection, Injection, IsInjective
<1>3. f \in [1 .. n -> S] /\ IsInjective(f)
  <2> HIDE DEF n
  <2>1. SetToSeq(S) = CHOOSE g \in [1 .. n -> S] : IsInjective(g)
    BY DEF SetToSeq, n
  <2> QED
    BY <2>1, <1>2, Zenon
<1>4. f \in Injection(1 .. n, S)
  BY <1>3 DEF Injection, IsInjective
<1>5. IsFiniteSet(1 .. n) /\ Cardinality(1 .. n) = n
  BY <1>1, FS_Interval
<1>6. f \in Surjection(1 .. n, S)
  <2> HIDE DEF f
  <2>1. Cardinality(1 .. n) = Cardinality(S)
    BY <1>5
  <2> QED
    BY <2>1, <1>4, FS_Injection
<1>7. f \in Seq(S)
  BY <1>1, <1>3
<1>8. \A x \in S : \E i \in 1 .. n : f[i] = x
  BY <1>6 DEF Surjection
<1> QED
  BY <1>3, <1>7, <1>8 DEF Range

\* No member is there twice.
Once(s) == \A i, j \in 1 .. Len(s) : s[i] = s[j] => i = j

\* What the function in Without() is, up to n.
KeptUpto(f, s, D, n) ==
    f = [i \in 0 .. n |-> IF i = 0 THEN <<>>
                          ELSE IF s[i] \in D THEN f[i - 1] ELSE Append(f[i - 1], s[i])]

\* That function exists: up to n + 1, because it does up to n.
LEMMA WithoutExists ==
    ASSUME NEW s, NEW D, NEW n \in Nat
    PROVE  \E f : KeptUpto(f, s, D, n)
<1> DEFINE Is(f, m) == KeptUpto(f, s, D, m)
           T == {m \in Nat : \E f : Is(f, m)}
<1>1. 0 \in T
  <2>1. Is([i \in 0 .. 0 |-> <<>>], 0)
    BY DEF KeptUpto
  <2> QED
    BY <2>1
<1>2. ASSUME NEW m \in T PROVE m + 1 \in T
  <2>1. PICK f : KeptUpto(f, s, D, m)
    OBVIOUS
  <2> DEFINE x == IF s[m + 1] \in D THEN f[m] ELSE Append(f[m], s[m + 1])
             g == [i \in 0 .. m + 1 |-> IF i = m + 1 THEN x ELSE f[i]]
  <2>2. m \in Nat
    OBVIOUS
  <2>3. ASSUME NEW i \in 0 .. m + 1
        PROVE  g[i] = IF i = 0 THEN <<>>
                      ELSE IF s[i] \in D THEN g[i - 1] ELSE Append(g[i - 1], s[i])
    <3>1. CASE i = m + 1
      <4>1. i # 0 /\ i - 1 = m /\ m \in 0 .. m + 1 /\ m # m + 1
        BY <3>1, <2>2
      <4>2. g[i - 1] = f[m] /\ g[i] = x
        BY <4>1, <3>1
      <4> QED
        BY <4>1, <4>2, <3>1
    <3>2. CASE i = 0
      <4>1. i # m + 1 /\ i \in 0 .. m
        BY <3>2, <2>2
      <4>2. g[i] = f[i] /\ f[i] = <<>>
        BY <4>1, <2>1, <3>2 DEF KeptUpto
      <4> QED
        BY <4>2, <3>2
    <3>3. CASE i # 0 /\ i # m + 1
      <4>1. i \in 0 .. m /\ i - 1 \in 0 .. m + 1 /\ i - 1 # m + 1
        BY <3>3, <2>2
      <4>2. g[i] = f[i] /\ g[i - 1] = f[i - 1]
        BY <4>1, <3>3
      <4>3. f[i] = IF s[i] \in D THEN f[i - 1] ELSE Append(f[i - 1], s[i])
        BY <4>1, <2>1, <3>3 DEF KeptUpto
      <4> QED
        BY <4>2, <4>3, <3>3
    <3> QED
      BY <3>1, <3>2, <3>3
  <2>4. Is(g, m + 1)
    BY <2>3 DEF KeptUpto
  <2>5. \E h : Is(h, m + 1)
    <3> HIDE DEF g, Is
    <3> QED
      BY <2>4
  <2> HIDE DEF Is
  <2> QED
    BY <2>2, <2>5
<1> HIDE DEF Is
<1>3. T = Nat
  <2> HIDE DEF T
  <2>1. T \subseteq Nat
    BY DEF T
  <2> QED
    BY <1>1, <1>2, <2>1, SetInduction
<1> QED
  <2> HIDE DEF Is
  <2>1. \E f : Is(f, n)
    BY <1>3
  <2> QED
    BY <2>1 DEF Is

\* Without() keeps exactly what is not to go, each member once.
LEMMA WithoutKeeps ==
    ASSUME NEW S, NEW s \in Seq(S), NEW D
    PROVE  /\ Without(s, D) \in Seq(S)
           /\ Range(Without(s, D)) = Range(s) \ D
           /\ Once(s) => Once(Without(s, D))
<1> DEFINE kept == CHOOSE f : KeptUpto(f, s, D, Len(s))
<1>0. Len(s) \in Nat /\ \A i \in 1 .. Len(s) : s[i] \in S
  BY LenProperties, ElementOfSeq
<1>1. KeptUpto(kept, s, D, Len(s))
  BY <1>0, WithoutExists
<1>2. Without(s, D) = kept[Len(s)]
  BY SMT DEF Without, KeptUpto
<1> HIDE DEF kept
<1>3. kept[0] = <<>>
  BY <1>0, <1>1 DEF KeptUpto
<1>4. \A i \in 1 .. Len(s) :
        kept[i] = IF s[i] \in D THEN kept[i - 1] ELSE Append(kept[i - 1], s[i])
  <2> SUFFICES ASSUME NEW i \in 1 .. Len(s)
               PROVE  kept[i] = IF s[i] \in D THEN kept[i - 1] ELSE Append(kept[i - 1], s[i])
    OBVIOUS
  <2>1. i \in 0 .. Len(s) /\ i # 0
    BY <1>0
  <2> QED
    BY <2>1, <1>1 DEF KeptUpto
<1> DEFINE Upto(i) == {s[j] : j \in 1 .. i}
           Good(i) == /\ kept[i] \in Seq(S) /\ Range(kept[i]) = Upto(i) \ D
                      /\ Once(s) => Once(kept[i])
           T == {i \in Nat : i <= Len(s) => Good(i)}
<1>5. 0 \in T
  <2>1. kept[0] \in Seq(S) /\ Len(kept[0]) = 0
    BY <1>3
  <2>2. Range(kept[0]) = {} /\ Upto(0) = {}
    BY <1>3 DEF Range
  <2>3. Once(kept[0])
    BY <2>1 DEF Once
  <2> QED
    BY <2>1, <2>2, <2>3
<1>6. ASSUME NEW i \in T PROVE i + 1 \in T
  <2> SUFFICES ASSUME i + 1 <= Len(s) PROVE Good(i + 1)
    OBVIOUS
  <2>1. i \in Nat /\ i + 1 \in 1 .. Len(s) /\ (i + 1) - 1 = i
    BY <1>0
  <2>2. Good(i)
    BY <2>1, <1>0
  <2>3. Upto(i + 1) = Upto(i) \cup {s[i + 1]}
    <3>1. 1 .. i + 1 = (1 .. i) \cup {i + 1}
      BY <2>1
    <3> QED
      BY <3>1
  <2>4. kept[i + 1] = IF s[i + 1] \in D THEN kept[i] ELSE Append(kept[i], s[i + 1])
    BY <2>1, <1>4
  <2>5. CASE s[i + 1] \in D
    BY <2>2, <2>3, <2>4, <2>5
  <2>6. CASE s[i + 1] \notin D
    <3> DEFINE t == kept[i]
               u == Append(t, s[i + 1])
    <3>1. s[i + 1] \in S
      BY <2>1, <1>0
    <3>2. t \in Seq(S) /\ Range(t) = Upto(i) \ D /\ (Once(s) => Once(t)) /\ kept[i + 1] = u
      BY <2>2, <2>4, <2>6
    <3> HIDE DEF t
    <3>3. /\ u \in Seq(S) /\ Len(u) = Len(t) + 1 /\ u[Len(t) + 1] = s[i + 1]
          /\ \A k \in 1 .. Len(t) : u[k] = t[k]
      BY <3>1, <3>2, AppendProperties
    <3> HIDE DEF u
    <3>4. /\ Range(u) = {u[k] : k \in 1 .. Len(t) + 1}
          /\ Range(t) = {t[k] : k \in 1 .. Len(t)} /\ Len(t) \in Nat
      BY <3>2, <3>3, RangeIs
    <3>5. Range(u) = Range(t) \cup {s[i + 1]}
      <4>1. 1 .. Len(t) + 1 = (1 .. Len(t)) \cup {Len(t) + 1}
        BY <3>4
      <4>2. \A k \in 1 .. Len(t) : u[k] \in Range(t)
        BY <3>3, <3>4
      <4>3. \A k \in 1 .. Len(t) : t[k] \in Range(u)
        BY <3>3, <3>4, <4>1
      <4>4. s[i + 1] \in Range(u)
        BY <3>3, <3>4, <4>1
      <4>5. Range(u) \subseteq Range(t) \cup {s[i + 1]}
        BY <4>1, <4>2, <3>3, <3>4
      <4>6. Range(t) \subseteq Range(u)
        BY <4>3, <3>4
      <4> QED
        BY <4>4, <4>5, <4>6
    <3>6. Range(u) = Upto(i + 1) \ D
      BY <3>2, <3>5, <2>3, <2>6
    <3>7. ASSUME Once(s) PROVE Once(u)
      <4>1. s[i + 1] \notin Range(t)
        <5> SUFFICES ASSUME NEW j \in 1 .. i, s[j] = s[i + 1] PROVE FALSE
          BY <3>2
        <5>1. j \in 1 .. Len(s) /\ j # i + 1
          BY <2>1, <1>0
        <5> QED
          BY <5>1, <2>1, <3>7 DEF Once
      <4>2. \A j \in 1 .. Len(t) : t[j] # s[i + 1]
        BY <4>1, <3>4
      <4>3. \A j, k \in 1 .. Len(t) : t[j] = t[k] => j = k
        BY <3>2, <3>7 DEF Once
      <4> SUFFICES ASSUME NEW j \in 1 .. Len(t) + 1, NEW k \in 1 .. Len(t) + 1, u[j] = u[k]
                   PROVE  j = k
        BY <3>3 DEF Once
      <4>4. CASE j \in 1 .. Len(t) /\ k \in 1 .. Len(t)
        BY <4>3, <4>4, <3>3
      <4>5. CASE j = Len(t) + 1
        BY <4>2, <4>5, <3>3, <3>4
      <4>6. CASE k = Len(t) + 1
        BY <4>2, <4>6, <3>3, <3>4
      <4> QED
        BY <4>4, <4>5, <4>6, <3>4
    <3> QED
      BY <3>2, <3>3, <3>6, <3>7
  <2> QED
    BY <2>5, <2>6
<1>7. T = Nat
  <2>1. T \subseteq Nat
    OBVIOUS
  <2> HIDE DEF T
  <2> QED
    BY <1>5, <1>6, <2>1, SetInduction
<1>8. Good(Len(s))
  <2> HIDE DEF Good
  <2> QED
    BY <1>7, <1>0
<1>9. Upto(Len(s)) = Range(s)
  BY RangeIs
<1> QED
  BY <1>2, <1>8, <1>9

\* A new member in front is there once.
LEMMA OncePrepended ==
    ASSUME NEW S, NEW s \in Seq(S), NEW o \in S, Once(s), o \notin Range(s)
    PROVE  Once(<<o>> \o s)
<1> DEFINE t == <<o>> \o s
<1>1. /\ Len(t) = Len(s) + 1 /\ Len(s) \in Nat /\ t[1] = o
      /\ \A i \in 2 .. Len(s) + 1 : t[i] = s[i - 1]
  BY Prepended, RangeIs
<1>2. \A i \in 1 .. Len(s) : s[i] # o
  BY RangeIs
<1> HIDE DEF t
<1>3. \A i \in 2 .. Len(s) + 1 : i - 1 \in 1 .. Len(s) /\ t[i] # o
  BY <1>1, <1>2
<1> SUFFICES ASSUME NEW i \in 1 .. Len(t), NEW j \in 1 .. Len(t), t[i] = t[j] PROVE i = j
  BY DEF Once, t
<1>4. CASE i = 1 \/ j = 1
  BY <1>1, <1>3, <1>4
<1>5. CASE i # 1 /\ j # 1
  <2>1. i \in 2 .. Len(s) + 1 /\ j \in 2 .. Len(s) + 1
    BY <1>1, <1>5
  <2>2. s[i - 1] = s[j - 1] /\ i - 1 \in 1 .. Len(s) /\ j - 1 \in 1 .. Len(s)
    BY <1>1, <1>3, <2>1
  <2>3. i - 1 = j - 1
    BY <2>2 DEF Once
  <2> QED
    BY <2>1, <2>3, <1>1
<1> QED
  BY <1>4, <1>5

-----------------------------------------------------------------------------
(* Reachability.  What can be reached from S along references r is the     *)
(* least set that contains S and is closed under r.                        *)

ReachIn(r, S) ==
    {o \in Nodes : \A C \in SUBSET Nodes :
        S \subseteq C /\ (\A x \in C : r[x] \subseteq C) => o \in C}

\* ReachFrom() is ReachIn() of the references there are.
LEMMA ReachFromIs == \A S : ReachFrom(S) = ReachIn(refs, S)
BY DEF ReachFrom, ReachIn

\* It is in every closed set around S.
LEMMA ReachLeast ==
    ASSUME NEW r, NEW S, NEW C \in SUBSET Nodes, S \subseteq C,
           \A x \in C : r[x] \subseteq C
    PROVE  ReachIn(r, S) \subseteq C
BY DEF ReachIn

\* It contains S and is closed itself.
LEMMA ReachCloses ==
    ASSUME NEW r \in [Nodes -> SUBSET Nodes], NEW S \in SUBSET Nodes
    PROVE  /\ S \subseteq ReachIn(r, S) /\ ReachIn(r, S) \in SUBSET Nodes
           /\ \A x \in ReachIn(r, S) : r[x] \subseteq ReachIn(r, S)
<1>1. S \subseteq ReachIn(r, S) /\ ReachIn(r, S) \in SUBSET Nodes
  BY DEF ReachIn
<1>2. ASSUME NEW x \in ReachIn(r, S), NEW y \in r[x] PROVE y \in ReachIn(r, S)
  <2>1. x \in Nodes /\ y \in Nodes
    BY <1>1, <1>2
  <2> SUFFICES ASSUME NEW C \in SUBSET Nodes, S \subseteq C, \A z \in C : r[z] \subseteq C
               PROVE  y \in C
    BY <2>1 DEF ReachIn
  <2>2. x \in C
    BY <1>2 DEF ReachIn
  <2> QED
    BY <2>2, <1>2
<1> QED
  BY <1>1, <1>2

\* With fewer references, from less, one comes less far.
LEMMA ReachShrinks ==
    ASSUME NEW r \in [Nodes -> SUBSET Nodes], NEW q, NEW S \in SUBSET Nodes, NEW T,
           \A x \in Nodes : q[x] \subseteq r[x], T \subseteq ReachIn(r, S)
    PROVE  ReachIn(q, T) \subseteq ReachIn(r, S)
<1>1. ReachIn(r, S) \in SUBSET Nodes /\ \A x \in ReachIn(r, S) : r[x] \subseteq ReachIn(r, S)
  BY ReachCloses
<1>2. \A x \in ReachIn(r, S) : q[x] \subseteq ReachIn(r, S)
  BY <1>1
<1> QED
  BY <1>1, <1>2, ReachLeast

\* What is reached from two sets is reached from one of them.
LEMMA ReachOfUnion ==
    ASSUME NEW r \in [Nodes -> SUBSET Nodes], NEW S \in SUBSET Nodes, NEW T \in SUBSET Nodes
    PROVE  ReachIn(r, S \cup T) \subseteq ReachIn(r, S) \cup ReachIn(r, T)
<1> DEFINE C == ReachIn(r, S) \cup ReachIn(r, T)
<1>1. C \in SUBSET Nodes /\ S \cup T \subseteq C /\ \A x \in C : r[x] \subseteq C
  BY ReachCloses
<1> HIDE DEF C
<1>2. ReachIn(r, S \cup T) \subseteq C
  BY <1>1, ReachLeast
<1> QED
  BY <1>2 DEF C

\* One reference more, to x, adds what is reached from x.
LEMMA ReachAdds ==
    ASSUME NEW r \in [Nodes -> SUBSET Nodes], NEW S \in SUBSET Nodes,
           NEW o \in Nodes, NEW x \in Nodes
    PROVE  ReachIn([r EXCEPT ![o] = @ \cup {x}], S) \subseteq ReachIn(r, S) \cup ReachIn(r, {x})
<1> DEFINE q == [r EXCEPT ![o] = @ \cup {x}]
           C == ReachIn(r, S) \cup ReachIn(r, {x})
<1>1. /\ C \in SUBSET Nodes /\ S \subseteq C /\ x \in C /\ \A y \in C : r[y] \subseteq C
  BY ReachCloses, ZenonT(30)
<1>2. \A y \in Nodes : q[y] \subseteq r[y] \cup {x}
  OBVIOUS
<1> HIDE DEF q, C
<1>3. \A y \in C : q[y] \subseteq C
  BY <1>1, <1>2
<1>4. ReachIn(q, S) \subseteq C
  BY <1>1, <1>3, ReachLeast
<1> QED
  BY <1>4 DEF q, C

\* What is reached from something reached is reached.
LEMMA ReachOfReached ==
    ASSUME NEW r \in [Nodes -> SUBSET Nodes], NEW S \in SUBSET Nodes, NEW T,
           T \subseteq ReachIn(r, S)
    PROVE  ReachIn(r, T) \subseteq ReachIn(r, S)
BY ReachShrinks

-----------------------------------------------------------------------------
(* The inductive invariant.                                                *)

Kinds   == {"free", "plain", "instance"}
Colours == {"white", "gray", "dark"}
Phases  == {"run", "marking", "destructing", "deleting", "gone"}

HeapTypes ==
    /\ type \in [Nodes -> Kinds] /\ refs \in [Nodes -> SUBSET Nodes]
    /\ marked \in [Nodes -> Colours]
    /\ gcList \in Seq(Nodes) /\ gray \in Seq(Nodes) /\ stack \in Seq(Nodes)
    /\ fixed \in SUBSET Nodes /\ globals \in SUBSET Nodes
    /\ lost \in SUBSET Nodes /\ live \in SUBSET Nodes /\ destructed \in SUBSET Nodes
    /\ newborn \in Nodes \cup {None} /\ cursor \in Nodes \cup {None}
    /\ inner \in Nat /\ phase \in Phases

Listed == Range(gcList)
Dark == {o \in Nodes : marked[o] = "dark"}

\* What exists is in the list, once; an object on its way is in no list and
\* refers to nothing.
InList ==
    /\ Once(gcList)
    /\ \A o \in Nodes : o \in Listed <=> type[o] # "free" /\ o # newborn
    /\ newborn # None => type[newborn] # "free" /\ refs[newborn] = {}

\* When there is a cursor, and a destructor, and a collector that is halted.
Moments ==
    /\ inner > 0 => /\ phase \in {"destructing", "deleting"}
                    /\ cursor \in Range(stack) /\ cursor \in destructed
    /\ cursor # None => phase \in {"destructing", "deleting"} /\ cursor \in Listed
    /\ phase = "marking" => gcList # <<>>
    /\ phase = "deleting" => newborn = None
    /\ phase = "destructing" => halted

\* From the roots and from garbage one comes to nothing that is gone, or was
\* gone and is on its way again, but what a destructor has taken hold of.
NothingGone ==
    phase # "gone" =>
        \A o \in ReachIn(refs, Roots \cup Listed) :
            type[o] = "free" \/ o = newborn => o \in lost

\* Between two collections no colour is left.
NoColours ==
    phase = "run" /\ ~halted => gray = <<>> /\ \A o \in Nodes : marked[o] = "white"

\* Marking: dark objects refer to no white one, what is gray waits in the gray
\* list, and nothing else is coloured than what could be reached at the start.
TriColour ==
    phase = "marking" =>
        /\ \A o \in Nodes : marked[o] = "gray" => o \in Range(gray)
        /\ \A o \in Dark : \A x \in refs[o] : marked[x] # "white"
        /\ \A o \in globals : marked[o] # "white"
        /\ \A o \in live : refs[o] \subseteq live
        /\ Range(gray) \subseteq live /\ inner = 0

\* The part of the stack that is not the running destructor's.
Under(s, c) == {s[i] : i \in {k \in 1 .. Len(s) : \A j \in k .. Len(s) : s[j] # c}}
Below == IF inner = 0 THEN Range(stack) ELSE Under(stack, cursor)

\* A collection: what is coloured could be reached when it began and is there;
\* what the program had on its stack or fixed is coloured.
LiveIsThere ==
    phase \in {"marking", "destructing"} =>
        /\ \A o \in Nodes : marked[o] # "white" => o \in live
        /\ \A o \in live : type[o] # "free" /\ o # newborn
        /\ \A o \in Below \cup fixed : marked[o] # "white"

\* Destructors: from what lives and from the globals one comes to nothing that
\* will be deleted but what a destructor has taken hold of.
LiveIsClosed ==
    phase = "destructing" =>
        /\ gray = <<>> /\ \A o \in Nodes : marked[o] # "gray"
        /\ inner > 0 => marked[cursor] = "white"
        /\ \A o \in ReachIn(refs, Dark \cup globals) : marked[o] = "white" => o \in lost

\* The walk of destruct_white() leaves no instance behind it that it should
\* have destructed.
Goes(o) == type[o] = "instance" /\ (phase = "destructing" => marked[o] = "white")
WalkLeavesNone ==
    phase \in {"destructing", "deleting"} /\ ~forced =>
        \A i \in 1 .. Len(gcList) :
            /\ cursor = None \/ \E j \in 1 .. Len(gcList) : gcList[j] = cursor /\ i < j
            /\ Goes(gcList[i]) /\ gcList[i] \notin lost
            => gcList[i] \in destructed

HeapInv ==
    /\ HeapTypes /\ InList /\ Moments /\ NothingGone /\ NoColours
    /\ TriColour /\ LiveIsThere /\ LiveIsClosed /\ WalkLeavesNone

-----------------------------------------------------------------------------
(* The stack while a destructor runs.                                      *)

\* A push above the destructor's argument c leaves what is below as it was.
LEMMA UnderPush ==
    ASSUME NEW s \in Seq(Nodes), NEW o \in Nodes, NEW c \in Range(s)
    PROVE  Under(<<o>> \o s, c) \subseteq Under(s, c)
<1> DEFINE t == <<o>> \o s
<1>1. Len(t) = Len(s) + 1 /\ Len(s) \in Nat /\ \A i \in 2 .. Len(s) + 1 : t[i] = s[i - 1]
  BY Prepended, RangeIs
<1>2. \A i \in 1 .. Len(s) : t[i + 1] = s[i]
  BY Prepended
<1>3. PICK m \in 1 .. Len(s) : s[m] = c
  BY RangeIs
<1> HIDE DEF t
<1> SUFFICES ASSUME NEW k \in 1 .. Len(t), \A j \in k .. Len(t) : t[j] # c
             PROVE  t[k] \in Under(s, c)
  BY DEF Under, t
<1>4. k # 1
  <2>1. m + 1 \in 1 .. Len(t) /\ t[m + 1] = c
    BY <1>1, <1>2, <1>3
  <2> QED
    BY <2>1
<1>5. k - 1 \in 1 .. Len(s) /\ t[k] = s[k - 1]
  BY <1>1, <1>4
<1>6. \A j \in k - 1 .. Len(s) : j + 1 \in k .. Len(t) /\ t[j + 1] = s[j]
  BY <1>1, <1>2, <1>4
<1>7. \A j \in k - 1 .. Len(s) : s[j] # c
  BY <1>6
<1> QED
  BY <1>5, <1>7 DEF Under

\* Nor does a pop.
LEMMA UnderPop ==
    ASSUME NEW s \in Seq(Nodes), s # <<>>, NEW c
    PROVE  Under(Tail(s), c) \subseteq Under(s, c)
<1> DEFINE t == Tail(s)
<1>1. Len(t) = Len(s) - 1 /\ Len(s) \in Nat \ {0} /\ \A i \in 1 .. Len(s) - 1 : t[i] = s[i + 1]
  BY TailIs
<1> HIDE DEF t
<1> SUFFICES ASSUME NEW k \in 1 .. Len(t), \A j \in k .. Len(t) : t[j] # c
             PROVE  t[k] \in Under(s, c)
  BY DEF Under, t
<1>2. k + 1 \in 1 .. Len(s) /\ t[k] = s[k + 1]
  BY <1>1
<1>3. \A j \in k + 1 .. Len(s) : j - 1 \in k .. Len(t) /\ t[j - 1] = s[j]
  BY <1>1
<1>4. \A j \in k + 1 .. Len(s) : s[j] # c
  BY <1>3
<1> QED
  BY <1>2, <1>4 DEF Under

\* The call of a destructor puts its argument on what there was.
LEMMA UnderCall ==
    ASSUME NEW s \in Seq(Nodes), NEW c \in Nodes
    PROVE  Under(<<c>> \o s, c) \subseteq Range(s)
<1> DEFINE t == <<c>> \o s
<1>1. Len(t) = Len(s) + 1 /\ Len(s) \in Nat /\ t[1] = c
      /\ \A i \in 2 .. Len(s) + 1 : t[i] = s[i - 1]
  BY Prepended, RangeIs
<1> HIDE DEF t
<1> SUFFICES ASSUME NEW k \in 1 .. Len(t), \A j \in k .. Len(t) : t[j] # c
             PROVE  t[k] \in Range(s)
  BY DEF Under, t
<1>2. k # 1
  BY <1>1
<1>3. k - 1 \in 1 .. Len(s) /\ t[k] = s[k - 1]
  BY <1>1, <1>2
<1> QED
  BY <1>3, RangeIs

\* When the destructor returns, what was below is the stack.
LEMMA UnderReturn ==
    ASSUME NEW s \in Seq(Nodes), NEW c, NEW k \in 1 .. Len(s),
           \A j \in k + 1 .. Len(s) : s[j] # c
    PROVE  /\ SubSeq(s, k + 1, Len(s)) \in Seq(Nodes)
           /\ Range(SubSeq(s, k + 1, Len(s))) \subseteq Under(s, c)
           /\ Range(SubSeq(s, k + 1, Len(s))) \subseteq Range(s)
<1> DEFINE t == SubSeq(s, k + 1, Len(s))
<1>1. Len(s) \in Nat /\ \A i \in 1 .. Len(s) : s[i] \in Nodes
  BY LenProperties, ElementOfSeq
<1>2. /\ t \in Seq(Nodes) /\ Len(t) = IF k + 1 <= Len(s) THEN Len(s) - (k + 1) + 1 ELSE 0
      /\ \A i \in 1 .. Len(s) - (k + 1) + 1 : t[i] = s[k + 1 + i - 1]
  <2>1. k + 1 \in Int /\ Len(s) \in Int /\ \A i \in k + 1 .. Len(s) : s[i] \in Nodes
    BY <1>1
  <2> QED
    BY <2>1, SubSeqProperties
<1> HIDE DEF t
<1>3. \A i \in 1 .. Len(t) : k + i \in 1 .. Len(s) /\ t[i] = s[k + i]
  BY <1>1, <1>2
<1>4. \A i \in 1 .. Len(t) : t[i] \in Under(s, c) /\ t[i] \in Range(s)
  <2> SUFFICES ASSUME NEW i \in 1 .. Len(t) PROVE t[i] \in Under(s, c) /\ t[i] \in Range(s)
    OBVIOUS
  <2>1. k + i \in 1 .. Len(s) /\ t[i] = s[k + i]
    BY <1>3
  <2>2. \A j \in k + i .. Len(s) : s[j] # c
    BY <1>1
  <2>3. s[k + i] \in Range(s)
    BY <2>1, RangeIs
  <2> QED
    BY <2>1, <2>2, <2>3 DEF Under
<1>5. Range(t) = {t[i] : i \in 1 .. Len(t)}
  BY <1>2, RangeIs
<1> QED
  BY <1>2, <1>4, <1>5 DEF t

-----------------------------------------------------------------------------
(* Steps of the script.                                                    *)

\* What every step of the script that makes no object has in common: it runs
\* when nothing of the collector does; from the roots and the list it comes
\* nowhere it did not come before; a destructor leaves what is below it alone,
\* and what it connects to something that lives is among the lost.
ScriptEffect ==
    /\ phase = "run" \/ InDestructor
    /\ phase = "run" => newborn = None /\ inner' = inner
    /\ UNCHANGED <<gcList, marked, gray, halted, forced, phase, cursor, destructed, live>>
    /\ UNCHANGED <<type, newborn>>
    /\ refs' \in [Nodes -> SUBSET Nodes] /\ stack' \in Seq(Nodes)
    /\ globals' \in SUBSET Nodes /\ fixed' \in SUBSET Nodes
    /\ lost' \in SUBSET Nodes /\ lost \subseteq lost' /\ inner' \in Nat
    /\ InDestructor => /\ inner' > 0 /\ fixed' = fixed /\ cursor \in Range(stack')
                       /\ Under(stack', cursor) \subseteq Under(stack, cursor)
    /\ newborn # None => refs'[newborn] = {}
    /\ ReachIn(refs', Roots' \cup Listed) \subseteq ReachIn(refs, Roots \cup Listed)
    /\ phase = "destructing" =>
         \A o \in ReachIn(refs', Dark \cup globals') :
             marked[o] = "white" => o \in lost' \/ o \in ReachIn(refs, Dark \cup globals)

\* What Runs says, and that what can be reached is where everything is.
LEMMA RunsSays ==
    ASSUME NodesAreNumbered, HeapInv, Runs
    PROVE  /\ phase = "run" \/ InDestructor
           /\ phase = "run" => newborn = None /\ inner' = inner
           /\ InDestructor => inner' > 0 /\ cursor \in Range(stack) /\ phase # "run"
           /\ inner' \in Nat
           /\ Reachable = ReachIn(refs, Roots) /\ Reachable \in SUBSET Nodes
           /\ Roots \in SUBSET Nodes /\ Listed \in SUBSET Nodes /\ Dark \in SUBSET Nodes
           /\ Roots \subseteq Reachable
           /\ Reachable \subseteq ReachIn(refs, Roots \cup Listed)
           /\ Roots \cup Listed \subseteq ReachIn(refs, Roots \cup Listed)
           /\ newborn \notin Reachable /\ \A o \in Reachable : type[o] # "free"
<1>1. HeapTypes /\ Moments
  BY DEF HeapInv
<1>2. (phase = "run" /\ inner' = inner) \/ (InDestructor /\ inner' = inner + 1)
  BY DEF Runs
<1>3. phase = "run" => newborn = None
  BY DEF Runs
<1>4. InDestructor => inner > 0 /\ phase # "run" /\ cursor \in Range(stack)
  BY <1>1 DEF InDestructor, Moments
<1>5. inner \in Nat
  BY <1>1 DEF HeapTypes
<1>6. inner' \in Nat /\ (InDestructor => inner' > 0)
  BY <1>2, <1>4, <1>5
<1>7. Roots \in SUBSET Nodes /\ Listed \in SUBSET Nodes /\ Dark \in SUBSET Nodes
  <2>1. Range(stack) \subseteq Nodes /\ Range(gcList) \subseteq Nodes
    BY <1>1, RangeIs DEF HeapTypes
  <2> QED
    BY <1>1, <2>1 DEF HeapTypes, Roots, Listed, Dark
<1>8. Reachable = ReachIn(refs, Roots)
  BY ReachFromIs DEF Reachable
<1>9. refs \in [Nodes -> SUBSET Nodes]
  BY <1>1 DEF HeapTypes
<1>10. /\ Roots \subseteq Reachable /\ Reachable \in SUBSET Nodes
       /\ Roots \cup Listed \subseteq ReachIn(refs, Roots \cup Listed)
  BY <1>7, <1>8, <1>9, ReachCloses
<1>11. Reachable \subseteq ReachIn(refs, Roots \cup Listed)
  BY <1>7, <1>8, <1>9, <1>10, ReachOfReached
<1>12. newborn \notin Reachable /\ \A o \in Reachable : type[o] # "free"
  BY DEF Runs, Intact
<1> QED
  BY <1>2, <1>3, <1>4, <1>6, <1>7, <1>8, <1>10, <1>11, <1>12

\* What a destructor takes hold of is white and reached from S.
LEMMA HoldsSays ==
    ASSUME NodesAreNumbered, HeapInv, NEW S, Holds(S)
    PROVE  /\ lost' \in SUBSET Nodes /\ lost \subseteq lost'
           /\ InDestructor => \A o \in ReachIn(refs, S) : marked[o] = "white" => o \in lost'
<1>1. lost \in SUBSET Nodes
  BY DEF HeapInv, HeapTypes
<1>2. ReachIn(refs, S) \in SUBSET Nodes /\ ReachFrom(S) = ReachIn(refs, S)
  BY ReachFromIs DEF ReachIn
<1> QED
  BY <1>1, <1>2 DEF Holds

\* Push, where nothing but the stack changes.
LEMMA PushEffect ==
    ASSUME NodesAreNumbered, HeapInv, NEW o \in Nodes, Push(o)
    PROVE  ScriptEffect
<1>1. Runs /\ o \in Reachable /\ stack' = <<o>> \o stack /\ Holds({})
  BY DEF Push
<1>2. UNCHANGED <<gcList, marked, gray, halted, forced, phase, cursor, destructed, live>>
      /\ UNCHANGED <<type, refs, fixed, globals, newborn>>
  BY DEF Push, collector
<1>3. HeapTypes /\ InList
  BY DEF HeapInv
<1>4. stack \in Seq(Nodes)
  BY <1>3 DEF HeapTypes
<1>5. stack' \in Seq(Nodes) /\ Range(stack') = Range(stack) \cup {o}
  BY <1>1, <1>4, Prepended
<1>6. InDestructor => /\ inner' > 0 /\ fixed' = fixed /\ cursor \in Range(stack')
                      /\ Under(stack', cursor) \subseteq Under(stack, cursor)
  BY <1>1, <1>2, <1>4, <1>5, RunsSays, UnderPush
<1>7. Roots' = Roots \cup {o}
  BY <1>2, <1>5 DEF Roots
<1>8. Roots' \cup Listed \subseteq ReachIn(refs, Roots \cup Listed)
  BY <1>1, <1>7, RunsSays
<1>9. ReachIn(refs', Roots' \cup Listed) \subseteq ReachIn(refs, Roots \cup Listed)
  <2>1. Roots \cup Listed \in SUBSET Nodes
    BY <1>1, RunsSays
  <2>2. ReachIn(refs, Roots' \cup Listed) \subseteq ReachIn(refs, Roots \cup Listed)
    BY <1>3, <1>8, <2>1, ReachOfReached DEF HeapTypes
  <2> QED
    BY <1>2, <2>2
<1>10. refs' \in [Nodes -> SUBSET Nodes] /\ globals' \in SUBSET Nodes /\ fixed' \in SUBSET Nodes
       /\ (newborn # None => refs'[newborn] = {})
  BY <1>2, <1>3 DEF HeapTypes, InList
<1> QED
  BY <1>1, <1>2, <1>5, <1>6, <1>9, <1>10, RunsSays, HoldsSays DEF ScriptEffect

\* Pop, of what is above a destructor's argument.
LEMMA PopEffect ==
    ASSUME NodesAreNumbered, HeapInv, Pop
    PROVE  ScriptEffect
<1>1. Runs /\ stack # <<>> /\ (InDestructor => cursor \in Range(Tail(stack)))
      /\ stack' = Tail(stack) /\ Holds({})
  BY DEF Pop
<1>2. UNCHANGED <<gcList, marked, gray, halted, forced, phase, cursor, destructed, live>>
      /\ UNCHANGED <<type, refs, fixed, globals, newborn>>
  BY DEF Pop, collector
<1>3. HeapTypes /\ InList
  BY DEF HeapInv
<1>4. stack \in Seq(Nodes)
  BY <1>3 DEF HeapTypes
<1>5. stack' \in Seq(Nodes) /\ Range(stack') \subseteq Range(stack)
  BY <1>1, <1>4, TailIs
<1>6. InDestructor => /\ inner' > 0 /\ fixed' = fixed /\ cursor \in Range(stack')
                      /\ Under(stack', cursor) \subseteq Under(stack, cursor)
  BY <1>1, <1>2, <1>4, <1>5, RunsSays, UnderPop
<1>7. Roots' \subseteq Roots
  BY <1>2, <1>5 DEF Roots
<1>8. Roots' \cup Listed \subseteq ReachIn(refs, Roots \cup Listed)
  BY <1>1, <1>7, RunsSays
<1>9. ReachIn(refs', Roots' \cup Listed) \subseteq ReachIn(refs, Roots \cup Listed)
  <2>1. Roots \cup Listed \in SUBSET Nodes
    BY <1>1, RunsSays
  <2>2. ReachIn(refs, Roots' \cup Listed) \subseteq ReachIn(refs, Roots \cup Listed)
    BY <1>3, <1>8, <2>1, ReachOfReached DEF HeapTypes
  <2> QED
    BY <1>2, <2>2
<1>10. refs' \in [Nodes -> SUBSET Nodes] /\ globals' \in SUBSET Nodes /\ fixed' \in SUBSET Nodes
       /\ (newborn # None => refs'[newborn] = {})
  BY <1>2, <1>3 DEF HeapTypes, InList
<1> QED
  BY <1>1, <1>2, <1>5, <1>6, <1>9, <1>10, RunsSays, HoldsSays DEF ScriptEffect

\* Store: a reference to something that can be reached.
LEMMA StoreEffect ==
    ASSUME NodesAreNumbered, HeapInv, NEW o \in Nodes, NEW x \in Nodes, Store(o, x)
    PROVE  ScriptEffect
<1>1. Runs /\ o \in Reachable /\ x \in Reachable
      /\ refs' = [refs EXCEPT ![o] = @ \cup {x}] /\ Holds({x})
  BY DEF Store
<1>2. UNCHANGED <<gcList, marked, gray, halted, forced, phase, cursor, destructed, live>>
      /\ UNCHANGED <<type, fixed, globals, stack, newborn>>
  BY DEF Store, collector
<1>3. HeapTypes /\ InList
  BY DEF HeapInv
<1>4. refs \in [Nodes -> SUBSET Nodes] /\ stack \in Seq(Nodes) /\ globals \in SUBSET Nodes
      /\ fixed \in SUBSET Nodes
  BY <1>3 DEF HeapTypes
<1>5. /\ Roots \cup Listed \in SUBSET Nodes /\ Dark \cup globals \in SUBSET Nodes
      /\ {x} \subseteq ReachIn(refs, Roots \cup Listed)
  BY <1>1, <1>4, RunsSays
<1>6. refs' \in [Nodes -> SUBSET Nodes]
  BY <1>1, <1>4
<1>7. newborn # None => refs'[newborn] = {}
  <2>1. newborn # o
    BY <1>1, RunsSays
  <2>2. newborn # None => newborn \in Nodes /\ refs[newborn] = {}
    BY <1>3 DEF HeapTypes, InList
  <2> QED
    BY <1>1, <1>4, <2>1, <2>2
<1>8. ReachIn(refs', Roots' \cup Listed) \subseteq ReachIn(refs, Roots \cup Listed)
  <2>1. ReachIn(refs', Roots \cup Listed)
          \subseteq ReachIn(refs, Roots \cup Listed) \cup ReachIn(refs, {x})
    BY <1>1, <1>4, <1>5, ReachAdds
  <2>2. ReachIn(refs, {x}) \subseteq ReachIn(refs, Roots \cup Listed)
    BY <1>4, <1>5, ReachOfReached
  <2>3. Roots' = Roots
    BY <1>2 DEF Roots
  <2> QED
    BY <2>1, <2>2, <2>3
<1>9. phase = "destructing" =>
        \A y \in ReachIn(refs', Dark \cup globals') :
            marked[y] = "white" => y \in lost' \/ y \in ReachIn(refs, Dark \cup globals)
  <2>1. ReachIn(refs', Dark \cup globals)
          \subseteq ReachIn(refs, Dark \cup globals) \cup ReachIn(refs, {x})
    BY <1>1, <1>4, <1>5, ReachAdds
  <2>2. phase = "destructing" => InDestructor
    BY <1>1, RunsSays
  <2>3. InDestructor => \A y \in ReachIn(refs, {x}) : marked[y] = "white" => y \in lost'
    BY <1>1, HoldsSays
  <2> QED
    BY <1>2, <2>1, <2>2, <2>3
<1>10. InDestructor => /\ inner' > 0 /\ fixed' = fixed /\ cursor \in Range(stack')
                       /\ Under(stack', cursor) \subseteq Under(stack, cursor)
  BY <1>1, <1>2, RunsSays
<1> QED
  BY <1>1, <1>2, <1>4, <1>6, <1>7, <1>8, <1>9, <1>10, RunsSays, HoldsSays DEF ScriptEffect

\* Clear: fewer references.
LEMMA ClearEffect ==
    ASSUME NodesAreNumbered, HeapInv, NEW o \in Nodes, Clear(o)
    PROVE  ScriptEffect
<1>1. Runs /\ o \in Reachable /\ refs' = [refs EXCEPT ![o] = {}] /\ Holds({})
  BY DEF Clear
<1>2. UNCHANGED <<gcList, marked, gray, halted, forced, phase, cursor, destructed, live>>
      /\ UNCHANGED <<type, fixed, globals, stack, newborn>>
  BY DEF Clear, collector
<1>3. HeapTypes /\ InList
  BY DEF HeapInv
<1>4. refs \in [Nodes -> SUBSET Nodes] /\ stack \in Seq(Nodes) /\ globals \in SUBSET Nodes
      /\ fixed \in SUBSET Nodes
  BY <1>3 DEF HeapTypes
<1>5. /\ Roots \cup Listed \in SUBSET Nodes /\ Dark \cup globals \in SUBSET Nodes
      /\ Roots \cup Listed \subseteq ReachIn(refs, Roots \cup Listed)
      /\ Dark \cup globals \subseteq ReachIn(refs, Dark \cup globals)
  BY <1>1, <1>4, RunsSays, ReachCloses
<1>6. refs' \in [Nodes -> SUBSET Nodes] /\ \A x \in Nodes : refs'[x] \subseteq refs[x]
  BY <1>1, <1>4
<1>7. newborn # None => refs'[newborn] = {}
  <2>1. newborn # None => newborn \in Nodes /\ refs[newborn] = {}
    BY <1>3 DEF HeapTypes, InList
  <2> QED
    BY <1>6, <2>1
<1>8. ReachIn(refs', Roots' \cup Listed) \subseteq ReachIn(refs, Roots \cup Listed)
  <2>1. Roots' = Roots
    BY <1>2 DEF Roots
  <2>2. ReachIn(refs', Roots \cup Listed) \subseteq ReachIn(refs, Roots \cup Listed)
    BY <1>4, <1>5, <1>6, ReachShrinks
  <2> QED
    BY <2>1, <2>2
<1>9. ReachIn(refs', Dark \cup globals') \subseteq ReachIn(refs, Dark \cup globals)
  <2>1. ReachIn(refs', Dark \cup globals) \subseteq ReachIn(refs, Dark \cup globals)
    BY <1>4, <1>5, <1>6, ReachShrinks
  <2> QED
    BY <1>2, <2>1
<1>10. InDestructor => /\ inner' > 0 /\ fixed' = fixed /\ cursor \in Range(stack')
                       /\ Under(stack', cursor) \subseteq Under(stack, cursor)
  BY <1>1, <1>2, RunsSays
<1> QED
  BY <1>1, <1>2, <1>4, <1>6, <1>7, <1>8, <1>9, <1>10, RunsSays, HoldsSays DEF ScriptEffect

\* SetGlobal: globals that can be reached already.
LEMMA SetGlobalEffect ==
    ASSUME NodesAreNumbered, HeapInv, NEW S, SetGlobal(S)
    PROVE  ScriptEffect
<1>1. Runs /\ S \subseteq Reachable /\ globals' = S /\ Holds(S)
  BY DEF SetGlobal
<1>2. UNCHANGED <<gcList, marked, gray, halted, forced, phase, cursor, destructed, live>>
      /\ UNCHANGED <<type, refs, fixed, stack, newborn>>
  BY DEF SetGlobal, collector
<1>3. HeapTypes /\ InList
  BY DEF HeapInv
<1>4. refs \in [Nodes -> SUBSET Nodes] /\ stack \in Seq(Nodes) /\ fixed \in SUBSET Nodes
  BY <1>3 DEF HeapTypes
<1>5. /\ Roots \cup Listed \in SUBSET Nodes /\ Dark \in SUBSET Nodes /\ S \in SUBSET Nodes
      /\ Roots \cup Listed \subseteq ReachIn(refs, Roots \cup Listed)
      /\ S \subseteq ReachIn(refs, Roots \cup Listed)
  BY <1>1, RunsSays
<1>6. Roots' \cup Listed \subseteq Roots \cup Listed \cup S
  BY <1>1, <1>2 DEF Roots
<1>7. ReachIn(refs', Roots' \cup Listed) \subseteq ReachIn(refs, Roots \cup Listed)
  <2>1. Roots' \cup Listed \subseteq ReachIn(refs, Roots \cup Listed)
    BY <1>5, <1>6
  <2>2. ReachIn(refs, Roots' \cup Listed) \subseteq ReachIn(refs, Roots \cup Listed)
    BY <1>4, <1>5, <2>1, ReachOfReached
  <2> QED
    BY <1>2, <2>2
<1>8. phase = "destructing" =>
        \A y \in ReachIn(refs', Dark \cup globals') :
            marked[y] = "white" => y \in lost' \/ y \in ReachIn(refs, Dark \cup globals)
  <2>1. ReachIn(refs, Dark \cup S) \subseteq ReachIn(refs, Dark) \cup ReachIn(refs, S)
    BY <1>4, <1>5, ReachOfUnion
  <2>2. ReachIn(refs, Dark) \subseteq ReachIn(refs, Dark \cup globals)
    <3>1. Dark \cup globals \in SUBSET Nodes
      BY <1>3, <1>5 DEF HeapTypes
    <3>2. Dark \subseteq ReachIn(refs, Dark \cup globals)
      BY <1>4, <3>1, ReachCloses
    <3> QED
      BY <1>4, <3>1, <3>2, ReachOfReached
  <2>3. phase = "destructing" => InDestructor
    BY <1>1, RunsSays
  <2>4. InDestructor => \A y \in ReachIn(refs, S) : marked[y] = "white" => y \in lost'
    BY <1>1, HoldsSays
  <2>5. ReachIn(refs', Dark \cup globals') = ReachIn(refs, Dark \cup S)
    BY <1>1, <1>2
  <2> QED
    BY <2>1, <2>2, <2>3, <2>4, <2>5
<1>9. refs' \in [Nodes -> SUBSET Nodes] /\ (newborn # None => refs'[newborn] = {})
  BY <1>2, <1>3 DEF HeapTypes, InList
<1>10. InDestructor => /\ inner' > 0 /\ fixed' = fixed /\ cursor \in Range(stack')
                       /\ Under(stack', cursor) \subseteq Under(stack, cursor)
  BY <1>1, <1>2, RunsSays
<1> QED
  BY <1>1, <1>2, <1>4, <1>5, <1>7, <1>8, <1>9, <1>10, RunsSays, HoldsSays DEF ScriptEffect

\* Fix, of something that can be reached, while the program runs.
LEMMA FixEffect ==
    ASSUME NodesAreNumbered, HeapInv, NEW o \in Nodes, Fix(o)
    PROVE  ScriptEffect
<1>1. Runs /\ phase = "run" /\ o \in Reachable /\ fixed' \subseteq {o} /\ lost' = lost
  BY DEF Fix
<1>2. UNCHANGED <<gcList, marked, gray, halted, forced, phase, cursor, destructed, live>>
      /\ UNCHANGED <<type, refs, globals, stack, newborn>>
  BY DEF Fix, collector
<1>3. HeapTypes /\ InList
  BY DEF HeapInv
<1>4. refs \in [Nodes -> SUBSET Nodes] /\ stack \in Seq(Nodes) /\ globals \in SUBSET Nodes
      /\ lost \in SUBSET Nodes
  BY <1>3 DEF HeapTypes
<1>5. /\ Roots \cup Listed \in SUBSET Nodes
      /\ Roots \cup Listed \subseteq ReachIn(refs, Roots \cup Listed)
      /\ o \in ReachIn(refs, Roots \cup Listed)
  BY <1>1, RunsSays
<1>6. Roots' \cup Listed \subseteq Roots \cup Listed \cup {o}
  BY <1>1, <1>2 DEF Roots
<1>7. ReachIn(refs', Roots' \cup Listed) \subseteq ReachIn(refs, Roots \cup Listed)
  <2>1. Roots' \cup Listed \subseteq ReachIn(refs, Roots \cup Listed)
    BY <1>5, <1>6
  <2>2. ReachIn(refs, Roots' \cup Listed) \subseteq ReachIn(refs, Roots \cup Listed)
    BY <1>4, <1>5, <2>1, ReachOfReached
  <2> QED
    BY <1>2, <2>2
<1>8. refs' \in [Nodes -> SUBSET Nodes] /\ (newborn # None => refs'[newborn] = {})
  BY <1>2, <1>3 DEF HeapTypes, InList
<1>9. fixed' \in SUBSET Nodes /\ ~InDestructor /\ phase # "destructing"
  BY <1>1 DEF InDestructor
<1> QED
  BY <1>1, <1>2, <1>4, <1>7, <1>8, <1>9, RunsSays DEF ScriptEffect

\* A step of the script keeps the invariant.
LEMMA ScriptKeeps ==
    ASSUME NodesAreNumbered, HeapInv, ScriptEffect
    PROVE  HeapInv'
<1>1. /\ HeapTypes /\ InList /\ Moments /\ NothingGone /\ NoColours
      /\ TriColour /\ LiveIsThere /\ LiveIsClosed /\ WalkLeavesNone
  BY DEF HeapInv
<1>2. /\ UNCHANGED <<gcList, marked, gray, halted, forced, phase, cursor, destructed, live>>
      /\ UNCHANGED <<type, newborn>> /\ lost \subseteq lost'
  BY DEF ScriptEffect
<1>3. \/ phase = "run" /\ inner' = inner
      \/ InDestructor /\ phase \in {"destructing", "deleting"} /\ inner > 0
  BY DEF ScriptEffect, InDestructor
<1>4. HeapTypes'
  BY <1>1, <1>2 DEF HeapTypes, ScriptEffect
<1>5. InList'
  BY <1>1, <1>2 DEF InList, Listed, ScriptEffect
<1>6. Moments'
  <2>1. CASE phase = "run" /\ inner' = inner
    <3>1. ~(inner' > 0)
      BY <1>1, <2>1 DEF Moments
    <3> QED
      BY <1>1, <1>2, <2>1, <3>1 DEF Moments, Listed
  <2>2. CASE InDestructor /\ phase \in {"destructing", "deleting"} /\ inner > 0
    <3>1. cursor \in Range(stack') /\ cursor \in destructed
      BY <1>1, <2>2 DEF Moments, ScriptEffect
    <3> QED
      BY <1>1, <1>2, <2>2, <3>1 DEF Moments, Listed
  <2> QED
    BY <1>3, <2>1, <2>2
<1>7. NothingGone'
  <2>1. Listed' = Listed
    BY <1>2 DEF Listed
  <2>2. ReachIn(refs', Roots' \cup Listed) \subseteq ReachIn(refs, Roots \cup Listed)
    BY DEF ScriptEffect
  <2> QED
    BY <1>1, <1>2, <2>1, <2>2 DEF NothingGone
<1>8. NoColours'
  BY <1>1, <1>2 DEF NoColours
<1>9. TriColour'
  BY <1>2, <1>3 DEF TriColour
<1>10. LiveIsThere'
  <2> SUFFICES ASSUME phase = "destructing" PROVE LiveIsThere'
    BY <1>2, <1>3 DEF LiveIsThere
  <2>1. InDestructor /\ inner > 0
    BY <1>3
  <2>2. inner' > 0 /\ fixed' = fixed /\ Under(stack', cursor) \subseteq Under(stack, cursor)
    BY <2>1 DEF ScriptEffect
  <2>3. inner # 0 /\ inner' # 0
    BY <2>1, <2>2, <1>1, <1>4 DEF HeapTypes
  <2>4. Below' \subseteq Below
    BY <1>2, <2>2, <2>3 DEF Below
  <2> QED
    BY <1>1, <1>2, <2>2, <2>4 DEF LiveIsThere
<1>11. LiveIsClosed'
  <2> SUFFICES ASSUME phase = "destructing" PROVE LiveIsClosed'
    BY <1>2 DEF LiveIsClosed
  <2>1. gray = <<>> /\ (\A o \in Nodes : marked[o] # "gray") /\ marked[cursor] = "white"
    BY <1>1, <1>3 DEF LiveIsClosed
  <2>2. \A o \in ReachIn(refs, Dark \cup globals) : marked[o] = "white" => o \in lost
    BY <1>1 DEF LiveIsClosed
  <2>3. \A o \in ReachIn(refs', Dark \cup globals') :
           marked[o] = "white" => o \in lost' \/ o \in ReachIn(refs, Dark \cup globals)
    BY DEF ScriptEffect
  <2>4. Dark' = Dark
    BY <1>2 DEF Dark
  <2> QED
    BY <1>2, <2>1, <2>2, <2>3, <2>4 DEF LiveIsClosed
<1>12. WalkLeavesNone'
  BY <1>1, <1>2 DEF WalkLeavesNone, Goes
<1> QED
  BY <1>4, <1>5, <1>6, <1>7, <1>8, <1>9, <1>10, <1>11, <1>12 DEF HeapInv

-----------------------------------------------------------------------------
(* Steps that make objects.                                                *)

\* An object that refers to nothing leads nowhere but to itself.
LEMMA ReachOfLeaf ==
    ASSUME NEW r, NEW o \in Nodes, r[o] = {}
    PROVE  ReachIn(r, {o}) \subseteq {o}
BY ReachLeast

\* The numbers of objects.
LEMMA NoneIsNoNode == ASSUME NodesAreNumbered PROVE None \notin Nodes /\ IsFiniteSet(Nodes)
<1>1. Nodes = 1 .. Cardinality(Nodes) /\ Cardinality(Nodes) \in Nat /\ IsFiniteSet(Nodes)
  BY FS_CardinalityType DEF NodesAreNumbered
<1> QED
  BY <1>1, FS_Interval DEF None

\* Allocate: an object on its way.
LEMMA AllocateKeeps ==
    ASSUME NodesAreNumbered, HeapInv, NEW o \in Nodes, NEW kind \in {"plain", "instance"},
           Allocate(o, kind)
    PROVE  HeapInv'
<1>1. /\ HeapTypes /\ InList /\ Moments /\ NothingGone /\ NoColours
  BY DEF HeapInv
<1>2. /\ Runs /\ phase = "run" /\ type[o] = "free" /\ newborn' = o /\ newborn = None
      /\ type' = [type EXCEPT ![o] = kind] /\ refs' = [refs EXCEPT ![o] = {}]
      /\ inner' = inner
  <2>1. Runs /\ phase = "run"
    BY DEF Allocate
  <2> QED
    BY <2>1, RunsSays DEF Allocate, FirstFree
<1>3. UNCHANGED <<gcList, marked, gray, halted, forced, phase, cursor, destructed,
                  live, fixed, stack, globals, lost>>
  BY DEF Allocate
<1>4. type \in [Nodes -> Kinds] /\ refs \in [Nodes -> SUBSET Nodes] /\ None \notin Nodes
  BY <1>1, NoneIsNoNode DEF HeapTypes
<1>5. /\ type'[o] = kind /\ refs'[o] = {}
      /\ \A x \in Nodes : x # o => type'[x] = type[x] /\ refs'[x] = refs[x]
  BY <1>2, <1>4
<1>6. HeapTypes'
  <2>1. type' \in [Nodes -> Kinds] /\ refs' \in [Nodes -> SUBSET Nodes]
        /\ newborn' \in Nodes \cup {None}
    BY <1>2, <1>4 DEF Kinds
  <2> QED
    BY <1>1, <1>2, <1>3, <2>1 DEF HeapTypes
<1>7. InList'
  <2>1. \A x \in Nodes : x \in Listed <=> type[x] # "free" /\ x # None
    BY <1>1, <1>2 DEF InList
  <2>2. \A x \in Nodes : x \in Listed <=> type'[x] # "free" /\ x # newborn'
    BY <2>1, <1>2, <1>4, <1>5
  <2> QED
    BY <1>1, <1>2, <1>3, <1>5, <2>2 DEF InList, Listed
<1>8. Moments'
  BY <1>1, <1>2, <1>3 DEF Moments, Listed
<1>9. NothingGone'
  <2>1. Roots' = Roots /\ Listed' = Listed
    BY <1>3 DEF Roots, Listed
  <2>2. /\ Roots \cup Listed \in SUBSET Nodes
        /\ Roots \cup Listed \subseteq ReachIn(refs, Roots \cup Listed)
    BY <1>2, RunsSays
  <2>3. ReachIn(refs', Roots \cup Listed) \subseteq ReachIn(refs, Roots \cup Listed)
    BY <1>4, <1>5, <2>2, ReachShrinks
  <2>4. \A x \in ReachIn(refs, Roots \cup Listed) : type[x] = "free" => x \in lost
    BY <1>1, <1>2 DEF NothingGone
  <2>5. ReachIn(refs, Roots \cup Listed) \subseteq Nodes
    BY DEF ReachIn
  <2>6. \A x \in ReachIn(refs', Roots' \cup Listed') :
            type'[x] = "free" \/ x = newborn' => type[x] = "free"
    BY <1>2, <1>5, <2>1, <2>3, <2>5
  <2> QED
    BY <1>3, <2>1, <2>3, <2>4, <2>6 DEF NothingGone
<1>10. NoColours'
  BY <1>1, <1>3 DEF NoColours
<1>11. TriColour' /\ LiveIsThere' /\ LiveIsClosed' /\ WalkLeavesNone'
  BY <1>2, <1>3 DEF TriColour, LiveIsThere, LiveIsClosed, WalkLeavesNone
<1> QED
  BY <1>6, <1>7, <1>8, <1>9, <1>10, <1>11 DEF HeapInv

\* Born: the object enters the list.
LEMMA BornKeeps ==
    ASSUME NodesAreNumbered, HeapInv, Born
    PROVE  HeapInv'
<1> DEFINE n == newborn
<1>1. /\ HeapTypes /\ InList /\ Moments /\ NothingGone /\ NoColours
  BY DEF HeapInv
<1>2. /\ phase = "run" /\ n # None /\ newborn' = None
      /\ gcList' = <<n>> \o gcList /\ stack' = <<n>> \o stack
      /\ marked' = [marked EXCEPT ![n] = "white"] /\ lost' = lost
  BY DEF Born, Link, InDestructor
<1>3. UNCHANGED <<type, refs, gray, fixed, globals, halted, forced, phase, cursor,
                  inner, destructed, live>>
  BY DEF Born
<1>4. /\ n \in Nodes /\ None \notin Nodes /\ gcList \in Seq(Nodes) /\ stack \in Seq(Nodes)
      /\ marked \in [Nodes -> Colours] /\ refs \in [Nodes -> SUBSET Nodes]
      /\ type[n] # "free" /\ refs[n] = {} /\ n \notin Listed
  BY <1>1, <1>2, NoneIsNoNode DEF HeapTypes, InList
<1> HIDE DEF n
<1>5. /\ gcList' \in Seq(Nodes) /\ Listed' = Listed \cup {n}
      /\ stack' \in Seq(Nodes) /\ Range(stack') = Range(stack) \cup {n}
  BY <1>2, <1>4, Prepended DEF Listed
<1>6. HeapTypes'
  <2>1. marked' \in [Nodes -> Colours]
    BY <1>2, <1>4 DEF Colours
  <2> QED
    BY <1>1, <1>2, <1>3, <1>5, <2>1 DEF HeapTypes
<1>7. InList'
  <2>1. Once(gcList')
    BY <1>1, <1>2, <1>4, OncePrepended DEF InList, Listed
  <2>2. \A x \in Nodes : x \in Listed' <=> type[x] # "free" /\ x # None
    BY <1>1, <1>4, <1>5 DEF InList, n
  <2> QED
    BY <1>2, <1>3, <2>1, <2>2 DEF InList
<1>8. Moments'
  <2>1. ~(inner' > 0) /\ cursor' = None
    BY <1>1, <1>2, <1>3 DEF Moments
  <2> QED
    BY <1>2, <1>3, <2>1 DEF Moments
<1>9. NothingGone'
  <2>1. Roots' \cup Listed' = (Roots \cup Listed) \cup {n}
    BY <1>3, <1>5 DEF Roots
  <2>2. Roots \cup Listed \in SUBSET Nodes
    <3>1. Range(stack) \subseteq Nodes /\ Listed \subseteq Nodes
      BY <1>4, RangeIs DEF Listed
    <3> QED
      BY <1>1, <3>1 DEF Roots, HeapTypes
  <2>3. ReachIn(refs, (Roots \cup Listed) \cup {n})
          \subseteq ReachIn(refs, Roots \cup Listed) \cup ReachIn(refs, {n})
    BY <1>4, <2>2, ReachOfUnion
  <2>4. ReachIn(refs, {n}) \subseteq {n}
    BY <1>4, ReachOfLeaf
  <2>5. \A x \in ReachIn(refs, Roots \cup Listed) : type[x] = "free" => x \in lost
    BY <1>1, <1>2 DEF NothingGone
  <2>6. \A x \in ReachIn(refs, Roots \cup Listed) \cup {n} : x # None
    BY <1>4 DEF ReachIn
  <2> QED
    BY <1>2, <1>3, <1>4, <2>1, <2>3, <2>4, <2>5, <2>6 DEF NothingGone
<1>10. NoColours'
  <2>1. \A x \in Nodes : marked[x] = "white" => marked'[x] = "white"
    BY <1>2, <1>4
  <2> QED
    BY <1>1, <1>3, <2>1 DEF NoColours
<1>11. TriColour' /\ LiveIsThere' /\ LiveIsClosed' /\ WalkLeavesNone'
  BY <1>2, <1>3 DEF TriColour, LiveIsThere, LiveIsClosed, WalkLeavesNone
<1> QED
  BY <1>6, <1>7, <1>8, <1>9, <1>10, <1>11 DEF HeapInv

\* NewInDestructor: the new object is white and will go with the rest, so it
\* is among the lost from the start.
LEMMA NewInDestructorKeeps ==
    ASSUME NodesAreNumbered, HeapInv, NEW o \in Nodes, NEW kind \in {"plain", "instance"},
           NewInDestructor(o, kind)
    PROVE  HeapInv'
<1>1. /\ HeapTypes /\ InList /\ Moments /\ NothingGone /\ NoColours
      /\ TriColour /\ LiveIsThere /\ LiveIsClosed /\ WalkLeavesNone
  BY DEF HeapInv
<1>2. /\ Runs /\ InDestructor /\ type[o] = "free"
      /\ type' = [type EXCEPT ![o] = kind] /\ refs' = [refs EXCEPT ![o] = {}]
      /\ gcList' = <<o>> \o gcList /\ stack' = <<o>> \o stack
      /\ marked' = [marked EXCEPT ![o] = "white"] /\ lost' = lost \cup {o}
  BY DEF NewInDestructor, Link, FirstFree
<1>3. UNCHANGED <<gray, halted, forced, phase, cursor, destructed, live, fixed,
                  globals, newborn>>
  BY DEF NewInDestructor
<1>4. /\ type \in [Nodes -> Kinds] /\ refs \in [Nodes -> SUBSET Nodes] /\ None \notin Nodes
      /\ marked \in [Nodes -> Colours] /\ gcList \in Seq(Nodes) /\ stack \in Seq(Nodes)
  BY <1>1, NoneIsNoNode DEF HeapTypes
<1>5. /\ type'[o] = kind /\ refs'[o] = {} /\ marked'[o] = "white"
      /\ \A x \in Nodes : x # o => type'[x] = type[x] /\ refs'[x] = refs[x]
                                   /\ marked'[x] = marked[x]
  BY <1>2, <1>4
<1>6. /\ gcList' \in Seq(Nodes) /\ Listed' = Listed \cup {o}
      /\ stack' \in Seq(Nodes) /\ Range(stack') = Range(stack) \cup {o}
  BY <1>2, <1>4, Prepended DEF Listed
<1>7. /\ phase \in {"destructing", "deleting"} /\ inner > 0 /\ inner' > 0 /\ inner' \in Nat
      /\ cursor \in Range(stack) /\ cursor \in Listed /\ cursor \in destructed
      /\ cursor \in Nodes /\ cursor # None
  <2>1. phase \in {"destructing", "deleting"} /\ inner > 0
    BY <1>2 DEF InDestructor
  <2>2. cursor \in Range(stack) /\ cursor \in destructed
    BY <1>1, <2>1 DEF Moments
  <2>3. cursor \in Nodes
    BY <2>2, <1>4, RangeIs
  <2>4. cursor # None /\ cursor \in Listed
    BY <2>3, <1>1, <1>4 DEF Moments
  <2> QED
    BY <2>1, <2>2, <2>3, <2>4, <1>2, RunsSays
<1>8. o \notin Listed /\ o # cursor /\ newborn # o
  <2>1. o \notin Listed
    BY <1>1, <1>2 DEF InList
  <2>2. newborn # None => type[newborn] # "free"
    BY <1>1 DEF InList
  <2>3. o # None
    BY <1>4
  <2> QED
    BY <2>1, <2>2, <2>3, <1>2, <1>7
<1>9. HeapTypes'
  <2>1. type' \in [Nodes -> Kinds] /\ refs' \in [Nodes -> SUBSET Nodes]
        /\ marked' \in [Nodes -> Colours] /\ lost' \in SUBSET Nodes
    BY <1>1, <1>2, <1>4 DEF Kinds, Colours, HeapTypes
  <2> QED
    BY <1>1, <1>3, <1>6, <1>7, <2>1 DEF HeapTypes
<1>10. InList'
  <2>1. Once(gcList')
    BY <1>1, <1>2, <1>4, <1>8, OncePrepended DEF InList, Listed
  <2>2. \A x \in Nodes : x \in Listed' <=> type'[x] # "free" /\ x # newborn
    BY <1>1, <1>2, <1>5, <1>6, <1>8 DEF InList
  <2>3. newborn # None => newborn \in Nodes
    BY <1>1 DEF HeapTypes
  <2> QED
    BY <1>1, <1>3, <1>5, <1>8, <2>1, <2>2, <2>3 DEF InList
<1>11. Moments'
  <2>1. cursor \in Range(stack') /\ cursor \in Listed'
    BY <1>6, <1>7
  <2> QED
    BY <1>1, <1>3, <1>7, <2>1 DEF Moments
<1>12. Roots \cup Listed \in SUBSET Nodes /\ Dark \cup globals \in SUBSET Nodes
       /\ Roots \cup Listed \subseteq ReachIn(refs, Roots \cup Listed)
       /\ Dark \cup globals \subseteq ReachIn(refs, Dark \cup globals)
  <2>1. Roots \cup Listed \in SUBSET Nodes /\ Dark \cup globals \in SUBSET Nodes
    BY <1>1, <1>2, RunsSays DEF HeapTypes
  <2> QED
    BY <2>1, <1>4, ReachCloses
<1>13. \A x \in Nodes : refs'[x] \subseteq refs[x]
  BY <1>5
<1>14. NothingGone'
  <2>1. Roots' \cup Listed' = (Roots \cup Listed) \cup {o}
    BY <1>3, <1>6 DEF Roots
  <2>2. ReachIn(refs', (Roots \cup Listed) \cup {o})
          \subseteq ReachIn(refs', Roots \cup Listed) \cup ReachIn(refs', {o})
    <3>1. refs' \in [Nodes -> SUBSET Nodes]
      BY <1>9 DEF HeapTypes
    <3>2. Roots \cup Listed \in SUBSET Nodes /\ {o} \in SUBSET Nodes
      BY <1>12
    <3> QED
      BY <3>1, <3>2, ReachOfUnion
  <2>3. ReachIn(refs', {o}) \subseteq {o}
    BY <1>5, ReachOfLeaf
  <2>4. ReachIn(refs', Roots \cup Listed) \subseteq ReachIn(refs, Roots \cup Listed)
    BY <1>4, <1>12, <1>13, ReachShrinks
  <2>5. \A x \in ReachIn(refs, Roots \cup Listed) :
            type[x] = "free" \/ x = newborn => x \in lost
    BY <1>1, <1>7 DEF NothingGone
  <2>6. ReachIn(refs, Roots \cup Listed) \subseteq Nodes
    BY DEF ReachIn
  <2>7. \A x \in ReachIn(refs', Roots' \cup Listed') :
            type'[x] = "free" \/ x = newborn => x \in lost'
    <3> SUFFICES ASSUME NEW x \in ReachIn(refs', Roots' \cup Listed'), x # o,
                        type'[x] = "free" \/ x = newborn
                 PROVE  x \in lost'
      BY <1>2
    <3>1. x \in ReachIn(refs, Roots \cup Listed)
      BY <2>1, <2>2, <2>3, <2>4
    <3>2. type'[x] = type[x]
      BY <3>1, <2>6, <1>5
    <3> QED
      BY <3>1, <3>2, <2>5, <1>2
  <2> QED
    BY <2>7, <1>3 DEF NothingGone
<1>15. NoColours' /\ TriColour'
  BY <1>3, <1>7 DEF NoColours, TriColour
<1>16. LiveIsThere'
  <2> SUFFICES ASSUME phase = "destructing" PROVE LiveIsThere'
    BY <1>3, <1>7 DEF LiveIsThere
  <2>1. /\ \A x \in Nodes : marked[x] # "white" => x \in live
        /\ \A x \in live : type[x] # "free" /\ x # newborn
        /\ \A x \in Below \cup fixed : marked[x] # "white"
    BY <1>1 DEF LiveIsThere
  <2>2. Below' \subseteq Below
    <3>1. inner # 0 /\ inner' # 0
      BY <1>1, <1>7 DEF HeapTypes
    <3>2. Under(stack', cursor) \subseteq Under(stack, cursor)
      BY <1>2, <1>4, <1>7, UnderPush
    <3> QED
      BY <3>1, <3>2, <1>3 DEF Below
  <2>3. Below \cup fixed \subseteq Nodes
    <3>1. \A i \in 1 .. Len(stack) : stack[i] \in Nodes
      BY <1>4, ElementOfSeq
    <3>2. Below \subseteq Nodes
      BY <3>1, <1>4, RangeIs DEF Below, Under
    <3> QED
      BY <3>2, <1>1 DEF HeapTypes
  <2>4. o \notin Below \cup fixed /\ o \notin live
    BY <2>1, <2>3, <1>2
  <2>5. live \subseteq Nodes
    BY <1>1 DEF HeapTypes
  <2>6. \A x \in Below' \cup fixed : marked'[x] # "white"
    BY <2>1, <2>2, <2>3, <2>4, <1>5
  <2>7. \A x \in Nodes : marked'[x] # "white" => x \in live
    BY <2>1, <1>5
  <2>8. \A x \in live : type'[x] # "free" /\ x # newborn
    BY <2>1, <2>4, <2>5, <1>5
  <2> QED
    BY <2>6, <2>7, <2>8, <1>3 DEF LiveIsThere
<1>17. LiveIsClosed'
  <2> SUFFICES ASSUME phase = "destructing" PROVE LiveIsClosed'
    BY <1>3 DEF LiveIsClosed
  <2>1. /\ gray = <<>> /\ \A x \in Nodes : marked[x] # "gray"
        /\ marked[cursor] = "white"
        /\ \A x \in ReachIn(refs, Dark \cup globals) : marked[x] = "white" => x \in lost
    BY <1>1, <1>7 DEF LiveIsClosed
  <2>2. Dark' \subseteq Dark
    BY <1>5 DEF Dark
  <2>3. Dark' \cup globals \subseteq ReachIn(refs, Dark \cup globals)
    BY <2>2, <1>12
  <2>4. ReachIn(refs', Dark' \cup globals) \subseteq ReachIn(refs, Dark \cup globals)
    BY <1>4, <1>12, <1>13, <2>3, ReachShrinks
  <2>5. ReachIn(refs, Dark \cup globals) \subseteq Nodes
    BY DEF ReachIn
  <2>6. \A x \in ReachIn(refs', Dark' \cup globals) : marked'[x] = "white" => x \in lost'
    BY <2>1, <2>4, <2>5, <1>2, <1>5
  <2>7. \A x \in Nodes : marked'[x] # "gray"
    BY <2>1, <1>5
  <2>8. marked'[cursor] = "white"
    BY <2>1, <1>5, <1>7, <1>8
  <2> QED
    BY <2>1, <2>6, <2>7, <2>8, <1>3 DEF LiveIsClosed
<1>18. WalkLeavesNone'
  <2> SUFFICES ASSUME ~forced, NEW i \in 1 .. Len(gcList'),
                      NEW j \in 1 .. Len(gcList'), gcList'[j] = cursor, i < j,
                      type'[gcList'[i]] = "instance",
                      phase = "destructing" => marked'[gcList'[i]] = "white",
                      gcList'[i] \notin lost'
               PROVE  gcList'[i] \in destructed
    BY <1>3, <1>7 DEF WalkLeavesNone, Goes
  <2>1. /\ Len(gcList') = Len(gcList) + 1 /\ Len(gcList) \in Nat /\ gcList'[1] = o
        /\ \A k \in 2 .. Len(gcList) + 1 : gcList'[k] = gcList[k - 1]
    BY <1>2, <1>4, Prepended, RangeIs
  <2>2. i # 1 /\ j # 1
    BY <2>1, <1>2
  <2>3. i - 1 \in 1 .. Len(gcList) /\ j - 1 \in 1 .. Len(gcList) /\ i - 1 < j - 1
    BY <2>1, <2>2
  <2>4. gcList'[i] = gcList[i - 1] /\ gcList'[j] = gcList[j - 1]
    BY <2>1, <2>2
  <2> DEFINE x == gcList[i - 1]
  <2>5. x \in Nodes /\ x \notin lost /\ x # o
    BY <2>3, <2>4, <1>2, <1>4, ElementOfSeq
  <2>6. Goes(x)
    BY <2>4, <2>5, <1>3, <1>5 DEF Goes
  <2> QED
    BY <2>3, <2>4, <2>5, <2>6, <1>1, <1>7 DEF WalkLeavesNone
<1> QED
  BY <1>9, <1>10, <1>11, <1>14, <1>15, <1>16, <1>17, <1>18 DEF HeapInv

-----------------------------------------------------------------------------
(* Marking.                                                                *)

\* Collect: the roots turn gray.
LEMMA CollectKeeps ==
    ASSUME NodesAreNumbered, HeapInv, NEW alloc, Collect(alloc)
    PROVE  HeapInv'
<1>1. /\ HeapTypes /\ InList /\ Moments /\ NothingGone /\ NoColours
  BY DEF HeapInv
<1>2. /\ phase = "run" /\ ~halted /\ gcList # <<>> /\ Intact
      /\ phase' = "marking" /\ live' = Reachable
      /\ marked' = [x \in Nodes |-> IF x \in Premarked THEN "gray" ELSE marked[x]]
      /\ gray' = SetToSeq(Premarked)
  BY DEF Collect
<1>3. UNCHANGED <<type, refs, gcList, fixed, stack, globals, halted, newborn,
                  cursor, inner, destructed, lost>>
  BY DEF Collect
<1>5. /\ refs \in [Nodes -> SUBSET Nodes] /\ marked \in [Nodes -> Colours]
      /\ Range(stack) \subseteq Nodes /\ globals \in SUBSET Nodes /\ fixed \in SUBSET Nodes
  BY <1>1, RangeIs DEF HeapTypes
<1>6. Roots \in SUBSET Nodes /\ Premarked \subseteq Roots
  BY <1>5 DEF Roots, Premarked
<1>7. /\ Reachable = ReachIn(refs, Roots) /\ Roots \subseteq Reachable
      /\ Reachable \in SUBSET Nodes /\ \A x \in Reachable : refs[x] \subseteq Reachable
  <2>1. Reachable = ReachIn(refs, Roots)
    BY ReachFromIs DEF Reachable
  <2> QED
    BY <2>1, <1>5, <1>6, ReachCloses
<1>8. gray' \in Seq(Premarked) /\ Range(gray') = Premarked
  <2>1. IsFiniteSet(Premarked)
    BY <1>6, NoneIsNoNode, FS_Subset
  <2> QED
    BY <2>1, <1>2, SetToSeqLists
<1>9. \A x \in Nodes : marked'[x] = IF x \in Premarked THEN "gray" ELSE "white"
  BY <1>1, <1>2 DEF NoColours
<1>10. ~(inner > 0) /\ inner = 0 /\ cursor = None
  <2>1. ~(inner > 0) /\ cursor = None
    BY <1>1, <1>2 DEF Moments
  <2> QED
    BY <2>1, <1>1 DEF HeapTypes
<1>11. HeapTypes'
  <2>1. gray' \in Seq(Nodes)
    BY <1>6, <1>8, SeqMonotonic
  <2>2. marked' \in [Nodes -> Colours]
    BY <1>2, <1>5 DEF Colours
  <2> QED
    BY <1>1, <1>2, <1>3, <1>7, <2>1, <2>2 DEF HeapTypes, Phases
<1>12. InList'
  BY <1>1, <1>3 DEF InList, Listed
<1>13. Moments'
  BY <1>2, <1>3, <1>10 DEF Moments
<1>14. NothingGone'
  BY <1>1, <1>2, <1>3 DEF NothingGone, Roots, Listed
<1>15. NoColours'
  BY <1>2 DEF NoColours
<1>16. TriColour'
  <2>1. \A x \in Nodes : marked'[x] = "gray" => x \in Range(gray')
    BY <1>8, <1>9
  <2>2. Dark' = {}
    BY <1>9 DEF Dark
  <2>3. \A x \in globals : marked'[x] # "white"
    BY <1>5, <1>9 DEF Premarked
  <2>4. Range(gray') \subseteq live' /\ \A x \in live' : refs[x] \subseteq live'
    BY <1>2, <1>6, <1>7, <1>8
  <2> QED
    BY <2>1, <2>2, <2>3, <2>4, <1>3, <1>10 DEF TriColour
<1>17. LiveIsThere'
  <2>1. \A x \in Nodes : marked'[x] # "white" => x \in live'
    BY <1>2, <1>6, <1>7, <1>9
  <2>2. \A x \in live' : type[x] # "free" /\ x # newborn
    BY <1>2 DEF Intact
  <2>3. Below' = Range(stack)
    BY <1>3, <1>10 DEF Below
  <2>4. fixed \subseteq Listed
    BY <1>1, <1>5, <1>7, <2>2, <1>2 DEF InList, Roots
  <2>5. Below' \cup fixed \subseteq Premarked
    BY <2>3, <2>4 DEF Premarked, Listed
  <2>6. \A x \in Below' \cup fixed : marked'[x] # "white"
    BY <2>5, <1>6, <1>9
  <2> QED
    BY <2>1, <2>2, <2>6, <1>3 DEF LiveIsThere
<1>18. LiveIsClosed' /\ WalkLeavesNone'
  BY <1>2 DEF LiveIsClosed, WalkLeavesNone
<1> QED
  BY <1>11, <1>12, <1>13, <1>14, <1>15, <1>16, <1>17, <1>18 DEF HeapInv

\* MarkNext: the head turns dark, what it refers to is gray or dark.
LEMMA MarkNextKeeps ==
    ASSUME NodesAreNumbered, HeapInv, MarkNext
    PROVE  HeapInv'
<1> DEFINE o == Head(gray)
           new == {x \in refs[o] : marked[x] = "white"} \ {o}
<1>1. /\ HeapTypes /\ InList /\ Moments /\ NothingGone /\ TriColour /\ LiveIsThere
  BY DEF HeapInv
<1>2. /\ phase = "marking" /\ gray # <<>>
      /\ marked' = [x \in Nodes |-> IF x = o THEN "dark"
                                    ELSE IF x \in new THEN "gray" ELSE marked[x]]
      /\ gray' = SetToSeq(new) \o Tail(gray)
  BY DEF MarkNext
<1>3. UNCHANGED <<type, refs, gcList, fixed, stack, globals, halted, phase,
                  newborn, cursor, inner, destructed, lost, live>>
  BY DEF MarkNext
<1>4. /\ refs \in [Nodes -> SUBSET Nodes] /\ marked \in [Nodes -> Colours]
      /\ gray \in Seq(Nodes) /\ live \in SUBSET Nodes
  BY <1>1 DEF HeapTypes
<1>5. /\ o \in Nodes /\ Tail(gray) \in Seq(Nodes)
      /\ Range(gray) = Range(Tail(gray)) \cup {o}
  BY <1>2, <1>4, TailIs
<1>6. new \in SUBSET Nodes /\ new \subseteq refs[o]
  BY <1>4, <1>5
<1>7. SetToSeq(new) \in Seq(Nodes) /\ Range(SetToSeq(new)) = new
  <2>1. IsFiniteSet(new)
    BY <1>6, NoneIsNoNode, FS_Subset
  <2>2. SetToSeq(new) \in Seq(new) /\ Range(SetToSeq(new)) = new
    BY <2>1, SetToSeqLists
  <2> QED
    BY <2>2, <1>6, SeqMonotonic
<1>8. gray' \in Seq(Nodes) /\ Range(gray') = new \cup Range(Tail(gray))
  <2> DEFINE s == SetToSeq(new)
             t == Tail(gray)
  <2>1. s \in Seq(Nodes) /\ Range(s) = new /\ t \in Seq(Nodes) /\ gray' = s \o t
    BY <1>2, <1>5, <1>7
  <2> HIDE DEF s, t, new
  <2>2. s \o t \in Seq(Nodes) /\ Range(s \o t) = Range(s) \cup Range(t)
    BY <2>1, JoinedRange
  <2>3. gray' \in Seq(Nodes) /\ Range(gray') = new \cup Range(t)
    BY <2>1, <2>2
  <2> QED
    BY <2>3 DEF t
<1>9. \A x \in new : marked[x] = "white"
  OBVIOUS
<1>10. \A x \in refs[o] : x = o \/ x \in new \/ marked[x] # "white"
  OBVIOUS
<1> HIDE DEF o, new
<1>11. \A x \in Nodes : marked'[x] = IF x = o THEN "dark"
                                     ELSE IF x \in new THEN "gray" ELSE marked[x]
  BY <1>2
<1>12. /\ \A x \in Nodes : marked[x] = "gray" => x \in Range(gray)
       /\ \A d \in Dark : \A x \in refs[d] : marked[x] # "white"
       /\ \A x \in globals : marked[x] # "white"
       /\ \A x \in live : refs[x] \subseteq live
       /\ Range(gray) \subseteq live /\ inner = 0
  BY <1>1, <1>2 DEF TriColour
<1>13. o \in live /\ new \subseteq live
  BY <1>5, <1>6, <1>12
<1>14. HeapTypes'
  <2>1. marked' \in [Nodes -> Colours]
    BY <1>2, <1>4 DEF Colours
  <2> QED
    BY <1>1, <1>3, <1>8, <2>1 DEF HeapTypes
<1>15. InList' /\ Moments' /\ NothingGone'
  <2>1. InList'
    BY <1>1, <1>3 DEF InList, Listed
  <2>2. Moments'
    BY <1>1, <1>3 DEF Moments, Listed
  <2>3. NothingGone'
    BY <1>1, <1>3 DEF NothingGone, Roots, Listed
  <2> QED
    BY <2>1, <2>2, <2>3
<1>16. NoColours' /\ LiveIsClosed' /\ WalkLeavesNone'
  BY <1>2, <1>3 DEF NoColours, LiveIsClosed, WalkLeavesNone
<1>17. \A x \in Nodes : marked[x] # "white" => marked'[x] # "white"
  BY <1>11
<1>18. TriColour'
  <2>1. \A x \in Nodes : marked'[x] = "gray" => x \in Range(gray')
    BY <1>5, <1>8, <1>11, <1>12
  <2>2. \A d \in Dark' : d = o \/ d \in Dark
    BY <1>11 DEF Dark
  <2>3. \A x \in refs[o] : marked'[x] # "white"
    BY <1>4, <1>5, <1>10, <1>11
  <2>4. \A d \in Dark : \A x \in refs[d] : marked'[x] # "white"
    <3>1. \A d \in Dark : refs[d] \subseteq Nodes
      BY <1>4 DEF Dark
    <3> QED
      BY <3>1, <1>12, <1>17
  <2>5. \A x \in globals : marked'[x] # "white"
    BY <1>1, <1>12, <1>17 DEF HeapTypes
  <2>6. Range(gray') \subseteq live
    BY <1>5, <1>8, <1>12, <1>13
  <2> QED
    BY <2>1, <2>2, <2>3, <2>4, <2>5, <2>6, <1>3, <1>12 DEF TriColour
<1>19. LiveIsThere'
  <2>1. /\ \A x \in Nodes : marked[x] # "white" => x \in live
        /\ \A x \in live : type[x] # "free" /\ x # newborn
        /\ \A x \in Below \cup fixed : marked[x] # "white"
    BY <1>1, <1>2 DEF LiveIsThere
  <2>2. \A x \in Nodes : marked'[x] # "white" => x \in live
    BY <2>1, <1>11, <1>13
  <2>3. Below' = Below /\ Below \cup fixed \subseteq Nodes
    <3>1. Below' = Below
      BY <1>3 DEF Below
    <3>2. Below = Range(stack)
      BY <1>12 DEF Below
    <3>3. Range(stack) \subseteq Nodes
      BY <1>1, RangeIs DEF HeapTypes
    <3> QED
      BY <3>1, <3>2, <3>3, <1>1 DEF HeapTypes
  <2>4. \A x \in Below' \cup fixed : marked'[x] # "white"
    BY <2>1, <2>3, <1>17
  <2> QED
    BY <2>1, <2>2, <2>4, <1>3 DEF LiveIsThere
<1> QED
  BY <1>14, <1>15, <1>16, <1>18, <1>19 DEF HeapInv

-----------------------------------------------------------------------------
(* The walk of the destructors.                                            *)

\* The head of the list is a place to start from: nothing is before it.
LEMMA WalkStarts ==
    ASSUME NodesAreNumbered, gcList \in Seq(Nodes), gcList # <<>>, Once(gcList)
    PROVE  /\ gcList[1] \in Nodes /\ gcList[1] # None /\ gcList[1] \in Listed
           /\ \A i, j \in 1 .. Len(gcList) : gcList[j] = gcList[1] => ~(i < j)
<1>1. Len(gcList) \in Nat \ {0}
  BY EmptySeq
<1>2. 1 \in 1 .. Len(gcList)
  BY <1>1
<1>3. gcList[1] \in Nodes /\ gcList[1] \in Listed
  BY <1>2, ElementOfSeq, RangeIs DEF Listed
<1>4. gcList[1] # None
  BY <1>3, NoneIsNoNode
<1>5. \A j \in 1 .. Len(gcList) : gcList[j] = gcList[1] => j = 1
  BY <1>2 DEF Once
<1>6. \A i \in 1 .. Len(gcList) : ~(i < 1)
  BY <1>1
<1> QED
  BY <1>3, <1>4, <1>5, <1>6

\* After(): the next one; what is before that was before, or is the one left.
LEMMA AfterWalks ==
    ASSUME NodesAreNumbered, gcList \in Seq(Nodes), Once(gcList), NEW c \in Listed
    PROVE  /\ After(c) = None \/ (After(c) \in Nodes /\ After(c) \in Listed)
           /\ \A i \in 1 .. Len(gcList) :
                (After(c) = None \/ \E j \in 1 .. Len(gcList) : gcList[j] = After(c) /\ i < j)
                => gcList[i] = c \/ \E j \in 1 .. Len(gcList) : gcList[j] = c /\ i < j
<1> DEFINE m == CHOOSE i \in DOMAIN gcList : gcList[i] = c
<1>1. DOMAIN gcList = 1 .. Len(gcList) /\ Len(gcList) \in Nat
      /\ Listed = {gcList[i] : i \in 1 .. Len(gcList)}
  BY RangeIs DEF Listed
<1>2. m \in 1 .. Len(gcList) /\ gcList[m] = c
  BY <1>1
<1>3. After(c) = IF m = Len(gcList) THEN None ELSE gcList[m + 1]
  BY DEF After
<1> HIDE DEF m
<1>4. CASE m = Len(gcList)
  <2>1. \A i \in 1 .. Len(gcList) : i = m \/ i < m
    BY <1>1, <1>4
  <2> QED
    BY <2>1, <1>2, <1>3, <1>4
<1>5. CASE m # Len(gcList)
  <2>0. Len(gcList) \in Nat /\ m \in 1 .. Len(gcList)
    BY <1>1, <1>2
  <2>1. m + 1 \in 1 .. Len(gcList)
    BY <2>0, <1>5
  <2>2. gcList[m + 1] \in Nodes /\ gcList[m + 1] \in Listed
    BY <2>1, <1>1, ElementOfSeq
  <2>3. gcList[m + 1] # None
    BY <2>2, NoneIsNoNode
  <2>4. \A j \in 1 .. Len(gcList) : gcList[j] = gcList[m + 1] => j = m + 1
    BY <2>1 DEF Once
  <2>5. \A i \in 1 .. Len(gcList) : i < m + 1 => i = m \/ i < m
    BY <1>1, <1>2
  <2> QED
    BY <2>2, <2>3, <2>4, <2>5, <1>2, <1>3, <1>5
<1> QED
  BY <1>4, <1>5

\* The walk goes on, from an object that was destructed or does not go.
LEMMA WalkGoesOn ==
    ASSUME NodesAreNumbered, HeapInv, phase \in {"destructing", "deleting"}, cursor \in Listed,
           ~forced /\ Goes(cursor) => cursor \in destructed,
           cursor' = After(cursor),
           UNCHANGED <<type, gcList, marked, forced, phase, destructed, lost>>
    PROVE  /\ WalkLeavesNone' /\ cursor' \in Nodes \cup {None}
           /\ cursor' # None => cursor' \in Listed
<1>1. gcList \in Seq(Nodes) /\ Once(gcList) /\ WalkLeavesNone
  BY DEF HeapInv, HeapTypes, InList
<1>2. /\ cursor' = None \/ (cursor' \in Nodes /\ cursor' \in Listed)
      /\ \A i \in 1 .. Len(gcList) :
           (cursor' = None \/ \E j \in 1 .. Len(gcList) : gcList[j] = cursor' /\ i < j)
           => gcList[i] = cursor \/ \E j \in 1 .. Len(gcList) : gcList[j] = cursor /\ i < j
  BY <1>1, AfterWalks
<1>3. WalkLeavesNone'
  <2> SUFFICES ASSUME ~forced, NEW i \in 1 .. Len(gcList),
                      cursor' = None \/ \E j \in 1 .. Len(gcList) : gcList[j] = cursor' /\ i < j,
                      Goes(gcList[i]), gcList[i] \notin lost
               PROVE  gcList[i] \in destructed
    BY DEF WalkLeavesNone, Goes
  <2>1. CASE gcList[i] = cursor
    BY <2>1
  <2>2. CASE \E j \in 1 .. Len(gcList) : gcList[j] = cursor /\ i < j
    BY <2>2, <1>1 DEF WalkLeavesNone
  <2> QED
    BY <2>1, <2>2, <1>2
<1> QED
  BY <1>2, <1>3

\* StartDestructing: the marking is complete, so what can be reached from what
\* is dark, and from the globals, is dark.
LEMMA StartDestructingKeeps ==
    ASSUME NodesAreNumbered, HeapInv, StartDestructing
    PROVE  HeapInv'
<1>1. /\ HeapTypes /\ InList /\ Moments /\ NothingGone /\ TriColour /\ LiveIsThere
  BY DEF HeapInv
<1>2. /\ phase = "marking" /\ gray = <<>>
      /\ phase' = "destructing" /\ halted' = TRUE /\ cursor' = gcList[1] /\ inner' = 0
  BY DEF StartDestructing
<1>3. UNCHANGED <<type, refs, gcList, marked, fixed, gray, stack, globals, forced,
                  newborn, destructed, lost, live>>
  BY DEF StartDestructing
<1>4. /\ gcList \in Seq(Nodes) /\ gcList # <<>> /\ Once(gcList)
      /\ refs \in [Nodes -> SUBSET Nodes] /\ marked \in [Nodes -> Colours]
      /\ globals \in SUBSET Nodes
  BY <1>1, <1>2 DEF HeapTypes, Moments, InList
<1>5. /\ cursor' \in Nodes /\ cursor' # None /\ cursor' \in Listed
      /\ \A i, j \in 1 .. Len(gcList) : gcList[j] = cursor' => ~(i < j)
  BY <1>2, <1>4, WalkStarts
<1>6. /\ \A o \in Nodes : marked[o] # "gray"
      /\ \A o \in Dark : \A x \in refs[o] : marked[x] # "white"
      /\ \A o \in globals : marked[o] # "white"
      /\ inner = 0
  <2>1. Range(gray) = {}
    BY <1>2 DEF Range
  <2> QED
    BY <2>1, <1>1, <1>2 DEF TriColour
<1>7. HeapTypes'
  BY <1>1, <1>2, <1>3, <1>5 DEF HeapTypes, Phases
<1>8. InList' /\ NothingGone'
  BY <1>1, <1>2, <1>3 DEF InList, Listed, NothingGone, Roots
<1>9. Moments'
  BY <1>2, <1>3, <1>5 DEF Moments, Listed
<1>10. NoColours' /\ TriColour'
  BY <1>2 DEF NoColours, TriColour
<1>11. LiveIsThere'
  <2>1. Below' = Below
    BY <1>2, <1>3, <1>6 DEF Below
  <2> QED
    BY <2>1, <1>1, <1>2, <1>3 DEF LiveIsThere
<1>12. LiveIsClosed'
  <2> DEFINE C == {o \in Nodes : marked[o] # "white"}
  <2>1. C = Dark
    BY <1>4, <1>6 DEF Dark, Colours
  <2>2. C \in SUBSET Nodes /\ Dark \cup globals \subseteq C
    BY <2>1, <1>4, <1>6
  <2>3. \A x \in C : refs[x] \subseteq C
    <3> SUFFICES ASSUME NEW x \in C, NEW y \in refs[x] PROVE y \in C
      OBVIOUS
    <3>1. x \in Dark /\ x \in Nodes
      BY <2>1
    <3> QED
      BY <3>1, <1>4, <1>6
  <2> HIDE DEF C
  <2>4. ReachIn(refs, Dark \cup globals) \subseteq C
    BY <2>2, <2>3, ReachLeast
  <2>5. \A o \in ReachIn(refs, Dark \cup globals) : marked[o] # "white"
    BY <2>4 DEF C
  <2>6. Dark' = Dark
    BY <1>3 DEF Dark
  <2> QED
    <3>1. ~(inner' > 0) /\ gray' = <<>>
      BY <1>2, <1>3
    <3>2. \A o \in Nodes : marked'[o] # "gray"
      BY <1>3, <1>6
    <3>3. \A o \in ReachIn(refs', Dark' \cup globals') : marked'[o] # "white"
      BY <2>5, <2>6, <1>3
    <3> QED
      BY <3>1, <3>2, <3>3 DEF LiveIsClosed
<1>13. WalkLeavesNone'
  BY <1>3, <1>5 DEF WalkLeavesNone
<1> QED
  BY <1>7, <1>8, <1>9, <1>10, <1>11, <1>12, <1>13 DEF HeapInv

\* CallDestructor: the object is on the stack, as it is in the list.
LEMMA CallDestructorKeeps ==
    ASSUME NodesAreNumbered, HeapInv, CallDestructor
    PROVE  HeapInv'
<1>1. /\ HeapTypes /\ InList /\ Moments /\ NothingGone /\ NoColours
      /\ TriColour /\ LiveIsThere /\ LiveIsClosed /\ WalkLeavesNone
  BY DEF HeapInv
<1>2. /\ phase \in {"destructing", "deleting"} /\ cursor # None /\ inner = 0
      /\ phase = "destructing" => marked[cursor] = "white"
      /\ stack' = <<cursor>> \o stack /\ inner' = 1
      /\ destructed' = destructed \cup {cursor}
  BY DEF CallDestructor
<1>3. UNCHANGED <<type, refs, gcList, marked, fixed, gray, globals, halted, forced,
                  phase, newborn, cursor, lost, live>>
  BY DEF CallDestructor
<1>4. stack \in Seq(Nodes) /\ cursor \in Nodes /\ cursor \in Listed
  BY <1>1, <1>2 DEF HeapTypes, Moments
<1>5. stack' \in Seq(Nodes) /\ Range(stack') = Range(stack) \cup {cursor}
  BY <1>2, <1>4, Prepended
<1>6. HeapTypes'
  <2>1. destructed' \in SUBSET Nodes /\ inner' \in Nat
    BY <1>1, <1>2, <1>4 DEF HeapTypes
  <2> QED
    BY <1>1, <1>3, <1>5, <2>1 DEF HeapTypes
<1>7. InList'
  BY <1>1, <1>3 DEF InList, Listed
<1>8. Moments'
  <2>1. cursor \in Range(stack') /\ cursor \in destructed'
    BY <1>2, <1>5
  <2> QED
    BY <2>1, <1>1, <1>2, <1>3 DEF Moments, Listed
<1>9. NothingGone'
  <2>1. Roots' \cup Listed' = Roots \cup Listed
    BY <1>3, <1>4, <1>5 DEF Roots, Listed
  <2> QED
    BY <2>1, <1>1, <1>3 DEF NothingGone
<1>10. NoColours' /\ TriColour'
  BY <1>2, <1>3 DEF NoColours, TriColour
<1>11. LiveIsThere'
  <2>1. Below' \subseteq Below
    <3>1. Under(stack', cursor) \subseteq Range(stack)
      BY <1>2, <1>4, UnderCall
    <3> QED
      BY <3>1, <1>2, <1>3 DEF Below
  <2> QED
    BY <2>1, <1>1, <1>3 DEF LiveIsThere
<1>12. LiveIsClosed'
  <2>1. Dark' = Dark
    BY <1>3 DEF Dark
  <2> QED
    BY <2>1, <1>1, <1>2, <1>3 DEF LiveIsClosed
<1>13. WalkLeavesNone'
  <2>1. destructed \subseteq destructed'
    BY <1>2
  <2> QED
    BY <2>1, <1>1, <1>3 DEF WalkLeavesNone, Goes
<1> QED
  BY <1>6, <1>7, <1>8, <1>9, <1>10, <1>11, <1>12, <1>13 DEF HeapInv

\* DestructorReturns: the stack is what was below.
LEMMA DestructorReturnsKeeps ==
    ASSUME NodesAreNumbered, HeapInv, DestructorReturns
    PROVE  HeapInv'
<1>1. /\ HeapTypes /\ InList /\ Moments /\ NothingGone /\ NoColours
      /\ TriColour /\ LiveIsThere /\ LiveIsClosed /\ WalkLeavesNone
  BY DEF HeapInv
<1>2. /\ phase \in {"destructing", "deleting"} /\ inner > 0 /\ inner # 0
      /\ cursor' = After(cursor) /\ inner' = 0
  BY <1>1 DEF DestructorReturns, InDestructor, HeapTypes
<1>3. UNCHANGED <<type, refs, gcList, marked, fixed, gray, globals, halted, forced,
                  phase, newborn, destructed, lost, live>>
  BY DEF DestructorReturns
<1>4. /\ stack' \in Seq(Nodes) /\ Range(stack') \subseteq Under(stack, cursor)
      /\ Range(stack') \subseteq Range(stack)
  <2>1. PICK k \in 1 .. Len(stack) : /\ \A j \in k + 1 .. Len(stack) : stack[j] # cursor
                                     /\ stack' = SubSeq(stack, k + 1, Len(stack))
    BY DEF DestructorReturns
  <2>2. stack \in Seq(Nodes)
    BY <1>1 DEF HeapTypes
  <2> DEFINE t == SubSeq(stack, k + 1, Len(stack))
  <2>3. t \in Seq(Nodes) /\ Range(t) \subseteq Under(stack, cursor) /\ Range(t) \subseteq Range(stack)
    <3>1. \A j \in k + 1 .. Len(stack) : stack[j] # cursor
      BY <2>1
    <3>2. t \in Seq(Nodes)
      BY <2>2, <3>1, UnderReturn, Zenon
    <3>3. Range(t) \subseteq Under(stack, cursor)
      BY <2>2, <3>1, UnderReturn, Zenon
    <3>4. Range(t) \subseteq Range(stack)
      <4>1. Range(stack) = {stack[i] : i \in 1 .. Len(stack)}
        BY <2>2, RangeIs
      <4>2. Under(stack, cursor) \subseteq Range(stack)
        BY <4>1 DEF Under
      <4> HIDE DEF t
      <4> QED
        BY <3>3, <4>2
    <3> QED
      BY <3>2, <3>3, <3>4
  <2> HIDE DEF t
  <2>4. stack' = t
    BY <2>1 DEF t
  <2> QED
    BY <2>3, <2>4
<1>5. cursor \in destructed /\ cursor \in Listed
  <2>1. cursor \in Range(stack) /\ cursor \in destructed
    BY <1>1, <1>2 DEF Moments
  <2>2. cursor \in Nodes
    BY <2>1, <1>1, RangeIs DEF HeapTypes
  <2> QED
    BY <2>1, <2>2, <1>1, NoneIsNoNode DEF Moments
<1>6. /\ WalkLeavesNone' /\ cursor' \in Nodes \cup {None}
      /\ cursor' # None => cursor' \in Listed
  BY <1>2, <1>3, <1>5, WalkGoesOn
<1>7. HeapTypes'
  <2>1. inner' \in Nat
    BY <1>2
  <2> QED
    BY <2>1, <1>1, <1>3, <1>4, <1>6 DEF HeapTypes
<1>8. InList'
  BY <1>1, <1>3 DEF InList, Listed
<1>9. Moments'
  <2>1. ~(inner' > 0)
    BY <1>2
  <2> QED
    BY <2>1, <1>1, <1>2, <1>3, <1>6 DEF Moments, Listed
<1>10. NothingGone'
  <2>1. /\ Roots' \cup Listed' \subseteq Roots \cup Listed
        /\ Roots \cup Listed \in SUBSET Nodes
    <3>1. Range(stack) \subseteq Nodes /\ Range(gcList) \subseteq Nodes
      BY <1>1, RangeIs DEF HeapTypes
    <3> QED
      BY <3>1, <1>1, <1>3, <1>4 DEF Roots, Listed, HeapTypes
  <2>2. refs \in [Nodes -> SUBSET Nodes]
    BY <1>1 DEF HeapTypes
  <2>3. Roots' \cup Listed' \subseteq ReachIn(refs, Roots \cup Listed)
    BY <2>1, <2>2, ReachCloses
  <2>4. ReachIn(refs, Roots' \cup Listed') \subseteq ReachIn(refs, Roots \cup Listed)
    BY <2>1, <2>2, <2>3, ReachOfReached
  <2> QED
    BY <2>4, <1>1, <1>3 DEF NothingGone
<1>11. NoColours' /\ TriColour'
  BY <1>2, <1>3 DEF NoColours, TriColour
<1>12. LiveIsThere'
  <2>1. Below' \subseteq Below
    BY <1>2, <1>4 DEF Below
  <2> QED
    BY <2>1, <1>1, <1>3 DEF LiveIsThere
<1>13. LiveIsClosed'
  <2>1. Dark' = Dark /\ ~(inner' > 0)
    BY <1>2, <1>3 DEF Dark
  <2> QED
    BY <2>1, <1>1, <1>3 DEF LiveIsClosed
<1> QED
  BY <1>6, <1>7, <1>8, <1>9, <1>10, <1>11, <1>12, <1>13 DEF HeapInv

\* PassOver: what lives, or has no destructor.
LEMMA PassOverKeeps ==
    ASSUME NodesAreNumbered, HeapInv, PassOver
    PROVE  HeapInv'
<1>1. /\ HeapTypes /\ InList /\ Moments /\ NothingGone /\ NoColours
      /\ TriColour /\ LiveIsThere /\ LiveIsClosed /\ WalkLeavesNone
  BY DEF HeapInv
<1>2. /\ phase \in {"destructing", "deleting"} /\ cursor # None /\ inner = 0
      /\ cursor' = After(cursor)
      /\ \/ phase = "destructing" /\ marked[cursor] # "white"
         \/ type[cursor] # "instance" \/ forced
  BY DEF PassOver, HasDestructor
<1>3. UNCHANGED <<type, refs, gcList, marked, fixed, gray, stack, globals, halted,
                  forced, phase, newborn, inner, destructed, lost, live>>
  BY DEF PassOver
<1>4. cursor \in Listed
  BY <1>1, <1>2 DEF Moments
<1>5. ~forced => ~Goes(cursor)
  BY <1>2 DEF Goes
<1>6. /\ WalkLeavesNone' /\ cursor' \in Nodes \cup {None}
      /\ cursor' # None => cursor' \in Listed
  BY <1>2, <1>3, <1>4, <1>5, WalkGoesOn
<1>7. HeapTypes'
  BY <1>1, <1>3, <1>6 DEF HeapTypes
<1>8. InList' /\ NothingGone'
  BY <1>1, <1>3 DEF InList, Listed, NothingGone, Roots
<1>9. Moments'
  <2>1. ~(inner > 0)
    BY <1>2
  <2> QED
    BY <2>1, <1>1, <1>2, <1>3, <1>6 DEF Moments, Listed
<1>10. NoColours' /\ TriColour'
  BY <1>2, <1>3 DEF NoColours, TriColour
<1>11. LiveIsThere'
  <2>1. Below' = Below
    BY <1>2, <1>3 DEF Below
  <2> QED
    BY <2>1, <1>1, <1>3 DEF LiveIsThere
<1>12. LiveIsClosed'
  <2>1. Dark' = Dark /\ ~(inner' > 0)
    BY <1>2, <1>3 DEF Dark
  <2> QED
    BY <2>1, <1>1, <1>3 DEF LiveIsClosed
<1> QED
  BY <1>6, <1>7, <1>8, <1>9, <1>10, <1>11, <1>12 DEF HeapInv

\* DestructorThrows: the collector stays halted; an object on its way goes,
\* and nothing but what is lost knows it.
LEMMA DestructorThrowsKeeps ==
    ASSUME NodesAreNumbered, HeapInv, DestructorThrows
    PROVE  HeapInv'
<1>1. /\ HeapTypes /\ InList /\ Moments /\ NothingGone
  BY DEF HeapInv
<1>2. /\ phase = "destructing" /\ phase' = "run" /\ inner' = 0 /\ cursor' = None
      /\ stack' = <<>> /\ newborn' = None
      /\ type' = IF newborn = None THEN type ELSE [type EXCEPT ![newborn] = "free"]
  BY DEF DestructorThrows
<1>3. UNCHANGED <<refs, gcList, marked, fixed, gray, globals, halted, forced,
                  destructed, lost, live>>
  BY DEF DestructorThrows
<1>4. /\ type \in [Nodes -> Kinds] /\ refs \in [Nodes -> SUBSET Nodes]
      /\ newborn \in Nodes \cup {None} /\ None \notin Nodes /\ halted
  BY <1>1, <1>2, NoneIsNoNode DEF HeapTypes, Moments
<1>5. \A o \in Nodes : type'[o] = IF o = newborn THEN "free" ELSE type[o]
  BY <1>2, <1>4
<1>6. HeapTypes'
  <2>1. type' \in [Nodes -> Kinds] /\ stack' \in Seq(Nodes) /\ inner' \in Nat
    BY <1>2, <1>4 DEF Kinds
  <2> QED
    BY <2>1, <1>1, <1>2, <1>3 DEF HeapTypes, Phases
<1>7. InList'
  <2>1. \A o \in Nodes : o \in Listed <=> type'[o] # "free" /\ o # None
    BY <1>1, <1>4, <1>5 DEF InList
  <2> QED
    BY <2>1, <1>1, <1>2, <1>3 DEF InList, Listed
<1>8. Moments'
  BY <1>2, <1>3 DEF Moments
<1>9. NothingGone'
  <2>1. Range(stack') = {}
    BY <1>2 DEF Range
  <2>2. /\ Roots' \cup Listed' \subseteq Roots \cup Listed
        /\ Roots \cup Listed \in SUBSET Nodes
    <3>1. Range(stack) \subseteq Nodes /\ Range(gcList) \subseteq Nodes
      BY <1>1, RangeIs DEF HeapTypes
    <3> QED
      BY <3>1, <2>1, <1>1, <1>3 DEF Roots, Listed, HeapTypes
  <2>3. Roots' \cup Listed' \subseteq ReachIn(refs, Roots \cup Listed)
    BY <2>2, <1>4, ReachCloses
  <2>4. ReachIn(refs, Roots' \cup Listed') \subseteq ReachIn(refs, Roots \cup Listed)
    BY <2>2, <2>3, <1>4, ReachOfReached
  <2>5. \A o \in ReachIn(refs, Roots \cup Listed) :
           o \in Nodes /\ (type[o] = "free" \/ o = newborn => o \in lost)
    BY <1>1, <1>2 DEF NothingGone, ReachIn
  <2>6. \A o \in ReachIn(refs, Roots \cup Listed) :
           type'[o] = "free" \/ o = None => o \in lost
    BY <2>5, <1>4, <1>5
  <2> QED
    BY <2>4, <2>6, <1>2, <1>3 DEF NothingGone
<1>10. NoColours'
  BY <1>3, <1>4 DEF NoColours
<1>11. TriColour' /\ LiveIsThere' /\ LiveIsClosed' /\ WalkLeavesNone'
  BY <1>2 DEF TriColour, LiveIsThere, LiveIsClosed, WalkLeavesNone
<1> QED
  BY <1>6, <1>7, <1>8, <1>9, <1>10, <1>11 DEF HeapInv

-----------------------------------------------------------------------------
(* Deleting.                                                               *)

\* DeleteWhite: what is left is dark, and refers to what is left or lost.
LEMMA DeleteWhiteKeeps ==
    ASSUME NodesAreNumbered, HeapInv, DeleteWhite
    PROVE  HeapInv'
<1> DEFINE D == {o \in Range(gcList) : marked[o] = "white"}
<1>1. /\ HeapTypes /\ InList /\ Moments /\ LiveIsThere /\ LiveIsClosed
  BY DEF HeapInv
<1>2. /\ phase = "destructing" /\ cursor = None
      /\ phase' = "run" /\ halted' = FALSE
      /\ type' = [o \in Nodes |-> IF o \in D THEN "free" ELSE type[o]]
      /\ gcList' = Without(gcList, D) /\ destructed' = destructed \ D
      /\ marked' = [o \in Nodes |-> "white"]
  BY DEF DeleteWhite, Deleted
<1>3. UNCHANGED <<refs, fixed, gray, stack, globals, newborn, cursor, inner, lost, live>>
  BY DEF DeleteWhite
<1>4. /\ type \in [Nodes -> Kinds] /\ refs \in [Nodes -> SUBSET Nodes]
      /\ gcList \in Seq(Nodes) /\ marked \in [Nodes -> Colours]
      /\ None \notin Nodes /\ globals \in SUBSET Nodes /\ fixed \in SUBSET Nodes
      /\ Range(stack) \subseteq Nodes /\ Listed \subseteq Nodes
      /\ newborn \in Nodes \cup {None}
  BY <1>1, RangeIs, NoneIsNoNode DEF HeapTypes, Listed
<1>5. D \subseteq Listed /\ \A o \in Listed : o \in D <=> marked[o] = "white"
  BY DEF Listed
<1> HIDE DEF D
<1>6. gcList' \in Seq(Nodes) /\ Listed' = Listed \ D /\ Once(gcList')
  BY <1>1, <1>2, <1>4, WithoutKeeps DEF InList, Listed
<1>7. inner = 0
  <2>1. ~(inner > 0)
    <3>1. cursor \notin Range(stack)
      BY <1>2, <1>4
    <3> QED
      BY <3>1, <1>1 DEF Moments
  <2> QED
    BY <2>1, <1>1 DEF HeapTypes
<1>8. /\ \A o \in Nodes : marked[o] # "white" => o \in live
      /\ \A o \in live : type[o] # "free" /\ o # newborn
      /\ \A o \in Below \cup fixed : marked[o] # "white"
      /\ gray = <<>> /\ \A o \in Nodes : marked[o] # "gray"
      /\ \A o \in ReachIn(refs, Dark \cup globals) : marked[o] = "white" => o \in lost
  BY <1>1, <1>2 DEF LiveIsThere, LiveIsClosed
<1>9. \A o \in Nodes : type'[o] = IF o \in D THEN "free" ELSE type[o]
  BY <1>2
<1>10. HeapTypes'
  <2>1. type' \in [Nodes -> Kinds] /\ marked' \in [Nodes -> Colours]
    BY <1>2, <1>4 DEF Kinds, Colours
  <2>2. destructed' \in SUBSET Nodes
    BY <1>1, <1>2 DEF HeapTypes
  <2> QED
    BY <2>1, <2>2, <1>1, <1>2, <1>3, <1>6 DEF HeapTypes, Phases
<1>11. InList'
  <2>1. \A o \in Nodes : o \in Listed <=> type[o] # "free" /\ o # newborn
    BY <1>1 DEF InList
  <2>2. \A o \in Nodes : o \in Listed' <=> type'[o] # "free" /\ o # newborn
    BY <2>1, <1>5, <1>6, <1>9
  <2>3. newborn # None => newborn \notin Listed /\ type[newborn] # "free" /\ refs[newborn] = {}
    BY <2>1, <1>1, <1>4 DEF InList
  <2>4. newborn # None => type'[newborn] # "free" /\ refs'[newborn] = {}
    BY <2>3, <1>3, <1>4, <1>5, <1>9
  <2> QED
    BY <2>2, <2>4, <1>3, <1>6 DEF InList
<1>12. Moments'
  BY <1>2, <1>3, <1>7 DEF Moments
<1>13. NothingGone'
  <2>1. \A o \in Nodes : marked[o] # "white" => o \in Dark
    BY <1>4, <1>8 DEF Dark, Colours
  <2>2. Below = Range(stack)
    BY <1>7 DEF Below
  <2>3. Range(stack) \cup fixed \subseteq Dark
    BY <2>1, <2>2, <1>4, <1>8
  <2>4. Listed' \subseteq Dark
    BY <2>1, <1>4, <1>5, <1>6
  <2>5. Roots' \cup Listed' \subseteq Dark \cup globals
    BY <2>3, <2>4, <1>3 DEF Roots
  <2>6. Dark \cup globals \in SUBSET Nodes
    BY <1>4 DEF Dark
  <2>7. Roots' \cup Listed' \subseteq ReachIn(refs, Dark \cup globals)
    BY <2>5, <2>6, <1>4, ReachCloses
  <2>8. ReachIn(refs, Roots' \cup Listed') \subseteq ReachIn(refs, Dark \cup globals)
    BY <2>6, <2>7, <1>4, ReachOfReached
  <2>9. \A o \in ReachIn(refs, Dark \cup globals) :
           o \in Nodes /\ (marked[o] = "white" \/ o \in live)
    BY <1>8 DEF ReachIn
  <2>10. \A o \in ReachIn(refs, Dark \cup globals) :
            type'[o] = "free" \/ o = newborn => marked[o] = "white"
    BY <2>9, <1>5, <1>8, <1>9
  <2> QED
    BY <2>8, <2>10, <1>3, <1>8 DEF NothingGone
<1>14. NoColours'
  BY <1>2, <1>3, <1>8 DEF NoColours
<1>15. TriColour' /\ LiveIsThere' /\ LiveIsClosed' /\ WalkLeavesNone'
  BY <1>2 DEF TriColour, LiveIsThere, LiveIsClosed, WalkLeavesNone
<1> QED
  BY <1>10, <1>11, <1>12, <1>13, <1>14, <1>15 DEF HeapInv

\* StartDeleting: the stack is empty, the walk begins.
LEMMA StartDeletingKeeps ==
    ASSUME NodesAreNumbered, HeapInv, StartDeleting
    PROVE  HeapInv'
<1>1. /\ HeapTypes /\ InList /\ Moments /\ NothingGone
  BY DEF HeapInv
<1>2. /\ phase = "run" /\ newborn = None /\ gcList # <<>>
      /\ phase' = "deleting" /\ halted' = TRUE /\ cursor' = gcList[1] /\ stack' = <<>>
  BY DEF StartDeleting
<1>3. UNCHANGED <<type, refs, gcList, marked, fixed, gray, globals, forced, newborn,
                  inner, destructed, lost, live>>
  BY DEF StartDeleting
<1>4. gcList \in Seq(Nodes) /\ Once(gcList)
  BY <1>1 DEF HeapTypes, InList
<1>5. /\ cursor' \in Nodes /\ cursor' # None /\ cursor' \in Listed
      /\ \A i, j \in 1 .. Len(gcList) : gcList[j] = cursor' => ~(i < j)
  BY <1>2, <1>4, WalkStarts
<1>6. ~(inner > 0)
  BY <1>1, <1>2 DEF Moments
<1>7. HeapTypes'
  <2>1. stack' \in Seq(Nodes)
    BY <1>2
  <2> QED
    BY <2>1, <1>1, <1>2, <1>3, <1>5 DEF HeapTypes, Phases
<1>8. InList'
  BY <1>1, <1>3 DEF InList, Listed
<1>9. Moments'
  BY <1>2, <1>3, <1>5, <1>6 DEF Moments, Listed
<1>10. NothingGone'
  <2>1. Range(stack') = {}
    BY <1>2 DEF Range
  <2>2. /\ Roots' \cup Listed' \subseteq Roots \cup Listed
        /\ Roots \cup Listed \in SUBSET Nodes
    <3>1. Range(stack) \subseteq Nodes /\ Range(gcList) \subseteq Nodes
      BY <1>1, RangeIs DEF HeapTypes
    <3> QED
      BY <3>1, <2>1, <1>1, <1>3 DEF Roots, Listed, HeapTypes
  <2>3. refs \in [Nodes -> SUBSET Nodes]
    BY <1>1 DEF HeapTypes
  <2>4. Roots' \cup Listed' \subseteq ReachIn(refs, Roots \cup Listed)
    BY <2>2, <2>3, ReachCloses
  <2>5. ReachIn(refs, Roots' \cup Listed') \subseteq ReachIn(refs, Roots \cup Listed)
    BY <2>2, <2>3, <2>4, ReachOfReached
  <2> QED
    BY <2>5, <1>1, <1>2, <1>3 DEF NothingGone
<1>11. NoColours' /\ TriColour' /\ LiveIsThere' /\ LiveIsClosed'
  BY <1>2 DEF NoColours, TriColour, LiveIsThere, LiveIsClosed
<1>12. WalkLeavesNone'
  BY <1>3, <1>5 DEF WalkLeavesNone
<1> QED
  BY <1>7, <1>8, <1>9, <1>10, <1>11, <1>12 DEF HeapInv

\* DeleteAll: the list is empty.
LEMMA DeleteAllKeeps ==
    ASSUME NodesAreNumbered, HeapInv, DeleteAll
    PROVE  HeapInv'
<1> DEFINE D == Range(gcList)
<1>1. /\ HeapTypes /\ InList /\ Moments
  BY DEF HeapInv
<1>2. /\ phase = "deleting" /\ cursor = None /\ phase' = "gone"
      /\ type' = [o \in Nodes |-> IF o \in D THEN "free" ELSE type[o]]
      /\ gcList' = Without(gcList, D) /\ destructed' = destructed \ D
  BY DEF DeleteAll, Deleted
<1>3. UNCHANGED <<refs, marked, fixed, gray, stack, globals, newborn,
                  cursor, inner, lost, live>>
  BY DEF DeleteAll
<1>4. /\ type \in [Nodes -> Kinds] /\ gcList \in Seq(Nodes) /\ None \notin Nodes
      /\ Range(stack) \subseteq Nodes /\ newborn = None
  BY <1>1, <1>2, RangeIs, NoneIsNoNode DEF HeapTypes, Moments
<1>5. gcList' \in Seq(Nodes) /\ Listed' = {} /\ Once(gcList')
  BY <1>1, <1>2, <1>4, WithoutKeeps DEF InList, Listed
<1>6. D = Listed
  BY DEF Listed
<1> HIDE DEF D
<1>7. \A o \in Nodes : type'[o] = IF o \in D THEN "free" ELSE type[o]
  BY <1>2
<1>8. HeapTypes'
  <2>1. type' \in [Nodes -> Kinds]
    BY <1>2, <1>4 DEF Kinds
  <2>2. destructed' \in SUBSET Nodes
    BY <1>1, <1>2 DEF HeapTypes
  <2> QED
    BY <2>1, <2>2, <1>1, <1>2, <1>3, <1>5 DEF HeapTypes, Phases
<1>9. InList'
  <2>1. \A o \in Nodes : o \in Listed <=> type[o] # "free"
    BY <1>1, <1>4 DEF InList
  <2>2. \A o \in Nodes : type'[o] = "free"
    BY <2>1, <1>6, <1>7
  <2> QED
    BY <2>2, <1>3, <1>4, <1>5 DEF InList
<1>10. Moments'
  <2>1. cursor \notin Range(stack)
    BY <1>2, <1>4
  <2>2. ~(inner > 0)
    BY <2>1, <1>1 DEF Moments
  <2> QED
    BY <2>2, <1>2, <1>3 DEF Moments
<1>11. NothingGone' /\ NoColours' /\ TriColour' /\ LiveIsThere' /\ LiveIsClosed'
       /\ WalkLeavesNone'
  BY <1>2 DEF NothingGone, NoColours, TriColour, LiveIsThere, LiveIsClosed, WalkLeavesNone
<1> QED
  BY <1>8, <1>9, <1>10, <1>11 DEF HeapInv

-----------------------------------------------------------------------------
(* The invariant, and what it says of the collector.                       *)

\* An empty heap is in order.
LEMMA HeapStarts == ASSUME NodesAreNumbered, Init PROVE HeapInv
<1>1. /\ type = [o \in Nodes |-> "free"] /\ refs = [n \in Nodes |-> {}]
      /\ gcList = <<>> /\ marked = [n \in Nodes |-> "white"]
      /\ fixed = {} /\ gray = <<>> /\ stack = <<>> /\ globals = {}
      /\ halted = FALSE /\ forced = FALSE /\ phase = "run" /\ newborn = None
      /\ cursor = None /\ inner = 0 /\ destructed = {} /\ lost = {} /\ live = {}
  BY DEF Init
<1>2. Range(gcList) = {} /\ Range(stack) = {} /\ Len(gcList) = 0
  BY <1>1 DEF Range
<1>3. gcList \in Seq(Nodes) /\ gray \in Seq(Nodes) /\ stack \in Seq(Nodes)
  BY <1>1
<1>4. HeapTypes
  BY <1>1, <1>3 DEF HeapTypes, Kinds, Colours, Phases
<1>5. InList
  <2>1. Once(gcList)
    BY <1>2 DEF Once
  <2> QED
    BY <2>1, <1>1, <1>2 DEF InList, Listed
<1>6. Moments
  BY <1>1 DEF Moments
<1>7. NothingGone
  <2>1. Roots \cup Listed = {}
    BY <1>1, <1>2 DEF Roots, Listed
  <2>2. ReachIn(refs, {}) \subseteq {}
    BY ReachLeast
  <2> QED
    BY <2>1, <2>2 DEF NothingGone
<1>8. NoColours
  BY <1>1 DEF NoColours
<1>9. TriColour /\ LiveIsThere /\ LiveIsClosed /\ WalkLeavesNone
  BY <1>1 DEF TriColour, LiveIsThere, LiveIsClosed, WalkLeavesNone
<1> QED
  BY <1>4, <1>5, <1>6, <1>7, <1>8, <1>9 DEF HeapInv

\* Every step keeps the invariant.
LEMMA HeapStep == ASSUME NodesAreNumbered, HeapInv, [Next]_heapVars PROVE HeapInv'
<1>1. CASE UNCHANGED heapVars
  <2>1. UNCHANGED <<type, refs, gcList, marked, fixed, gray, stack, globals, halted,
                    forced, phase, newborn, cursor, inner, destructed, lost, live>>
    BY <1>1 DEF heapVars
  <2>2. /\ HeapTypes /\ InList /\ Moments /\ NothingGone /\ NoColours
        /\ TriColour /\ LiveIsThere /\ LiveIsClosed /\ WalkLeavesNone
    BY DEF HeapInv
  <2>3. HeapTypes' /\ InList' /\ Moments' /\ NoColours' /\ WalkLeavesNone'
    BY <2>1, <2>2 DEF HeapTypes, InList, Listed, Moments, NoColours, WalkLeavesNone, Goes
  <2>4. NothingGone'
    BY <2>1, <2>2 DEF NothingGone, Roots, Listed
  <2>5. Dark' = Dark /\ Below' = Below
    BY <2>1 DEF Dark, Below
  <2>6. TriColour' /\ LiveIsThere' /\ LiveIsClosed'
    BY <2>1, <2>2, <2>5 DEF TriColour, LiveIsThere, LiveIsClosed
  <2> QED
    BY <2>3, <2>4, <2>6 DEF HeapInv
<1>2. CASE \E o \in Nodes :
             \/ Push(o) \/ Clear(o) \/ Fix(o)
             \/ \E x \in Nodes : Store(o, x)
             \/ \E kind \in {"plain", "instance"} : Allocate(o, kind) \/ NewInDestructor(o, kind)
  BY <1>2, PushEffect, ClearEffect, FixEffect, StoreEffect, ScriptKeeps, AllocateKeeps,
     NewInDestructorKeeps
<1>3. CASE Pop \/ \E S \in {{}} \cup {{o} : o \in Nodes} : SetGlobal(S)
  BY <1>3, PopEffect, SetGlobalEffect, ScriptKeeps
<1>4. CASE Born \/ \E alloc \in BOOLEAN : Collect(alloc)
  BY <1>4, BornKeeps, CollectKeeps
<1>5. CASE MarkNext \/ StartDestructing \/ CallDestructor \/ DestructorReturns
           \/ PassOver \/ DestructorThrows \/ DeleteWhite \/ StartDeleting \/ DeleteAll
  BY <1>5, MarkNextKeeps, StartDestructingKeeps, CallDestructorKeeps, DestructorReturnsKeeps,
     PassOverKeeps, DestructorThrowsKeeps, DeleteWhiteKeeps, StartDeletingKeeps, DeleteAllKeeps
<1> QED
  BY <1>1, <1>2, <1>3, <1>4, <1>5 DEF Next

\* The invariant says what the runs check.
LEMMA HeapInvSays ==
    ASSUME NodesAreNumbered, HeapInv
    PROVE  ReachableIsKept /\ HeapInOrder /\ DestructorsSeeAll
<1>1. HeapTypes /\ InList /\ Moments /\ NothingGone /\ NoColours
  BY DEF HeapInv
<1>2. /\ refs \in [Nodes -> SUBSET Nodes] /\ Roots \cup Listed \in SUBSET Nodes
      /\ gcList \in Seq(Nodes)
  <2>1. Range(stack) \subseteq Nodes /\ Range(gcList) \subseteq Nodes
    BY <1>1, RangeIs DEF HeapTypes
  <2> QED
    BY <2>1, <1>1 DEF HeapTypes, Roots, Listed
<1>3. Roots \cup Listed \subseteq ReachIn(refs, Roots \cup Listed)
  BY <1>2, ReachCloses
<1>4. ReachableIsKept
  <2>1. Reachable = ReachIn(refs, Roots)
    BY ReachFromIs DEF Reachable
  <2>2. Roots \subseteq ReachIn(refs, Roots \cup Listed)
    BY <1>3
  <2>3. Reachable \subseteq ReachIn(refs, Roots \cup Listed)
    BY <2>1, <2>2, <1>2, ReachOfReached
  <2> QED
    BY <2>3, <1>1 DEF ReachableIsKept, NothingGone
<1>5. HeapInOrder
  <2>1. DOMAIN gcList = 1 .. Len(gcList) /\ Listed \subseteq Nodes
    BY <1>2, RangeIs DEF Listed
  <2>2. \A i, j \in DOMAIN gcList : gcList[i] = gcList[j] => i = j
    BY <2>1, <1>1 DEF InList, Once
  <2>3. Listed = {o \in Nodes : type[o] # "free" /\ o # newborn}
    BY <2>1, <1>1 DEF InList
  <2>4. phase = "run" /\ ~halted => gray = <<>> /\ \A o \in Listed : marked[o] = "white"
    BY <2>1, <1>1 DEF NoColours
  <2> QED
    BY <2>2, <2>3, <2>4 DEF HeapInOrder, Listed
<1>6. DestructorsSeeAll
  <2> SUFFICES ASSUME InDestructor, lost = {}, NEW o \in ReachFrom({cursor})
               PROVE  type[o] # "free"
    BY DEF DestructorsSeeAll
  <2>1. cursor \in Range(stack) /\ phase # "gone"
    BY <1>1 DEF InDestructor, Moments
  <2>2. cursor \in Roots
    BY <2>1 DEF Roots
  <2>3. {cursor} \subseteq ReachIn(refs, Roots \cup Listed)
    BY <2>2, <1>3
  <2>4. ReachIn(refs, {cursor}) \subseteq ReachIn(refs, Roots \cup Listed)
    BY <2>3, <1>2, ReachOfReached
  <2>5. o \in ReachIn(refs, Roots \cup Listed)
    BY <2>4, ReachFromIs
  <2> QED
    BY <2>1, <2>5, <1>1 DEF NothingGone
<1> QED
  BY <1>4, <1>5, <1>6

\* The invariant holds in every run of the collector and the script.
THEOREM HeapSafe == NodesAreNumbered => (Spec => []HeapInv)
<1> SUFFICES ASSUME NodesAreNumbered PROVE Spec => []HeapInv
  OBVIOUS
<1>1. Init => HeapInv
  BY HeapStarts
<1>2. HeapInv /\ [Next]_heapVars => HeapInv'
  BY HeapStep
<1> QED
  BY <1>1, <1>2, PTL DEF Spec

\* Nothing that can be reached is deleted (be_gc.c: mark_unscanned() marks all
\* of it), but what a destructor takes hold of.
THEOREM ReachableKept == NodesAreNumbered => (Spec => []ReachableIsKept)
<1> SUFFICES ASSUME NodesAreNumbered PROVE Spec => []ReachableIsKept
  OBVIOUS
<1>1. HeapInv => ReachableIsKept
  BY HeapInvSays
<1>2. Spec => []HeapInv
  BY HeapSafe
<1> QED
  BY <1>1, <1>2, PTL

\* The list holds each object once, and a collection leaves no colour.
THEOREM ListInOrder == NodesAreNumbered => (Spec => []HeapInOrder)
<1> SUFFICES ASSUME NodesAreNumbered PROVE Spec => []HeapInOrder
  OBVIOUS
<1>1. HeapInv => HeapInOrder
  BY HeapInvSays
<1>2. Spec => []HeapInv
  BY HeapSafe
<1> QED
  BY <1>1, <1>2, PTL

\* What a destructor sees through its object is there.
THEOREM DestructorsSee == NodesAreNumbered => (Spec => []DestructorsSeeAll)
<1> SUFFICES ASSUME NodesAreNumbered PROVE Spec => []DestructorsSeeAll
  OBVIOUS
<1>1. HeapInv => DestructorsSeeAll
  BY HeapInvSays
<1>2. Spec => []HeapInv
  BY HeapSafe
<1> QED
  BY <1>1, <1>2, PTL

\* Only the two deletions delete.
LEMMA DeletesOnlyHere ==
    ASSUME NodesAreNumbered, HeapInv, Next, Deletes
    PROVE  DeleteWhite \/ DeleteAll
<1>1. phase \in {"destructing", "deleting"} /\ phase' \in {"run", "gone"} /\ cursor = None
  BY DEF Deletes
<1>2. CASE \E o \in Nodes :
             \/ Push(o) \/ Clear(o) \/ Fix(o)
             \/ \E x \in Nodes : Store(o, x)
             \/ \E kind \in {"plain", "instance"} : Allocate(o, kind) \/ NewInDestructor(o, kind)
  <2>1. phase' = phase
    BY <1>2 DEF Push, Clear, Fix, Store, Allocate, NewInDestructor, collector
  <2> QED
    BY <1>1, <2>1
<1>3. CASE Pop \/ \E S \in {{}} \cup {{o} : o \in Nodes} : SetGlobal(S)
  <2>1. phase' = phase
    BY <1>3 DEF Pop, SetGlobal, collector
  <2> QED
    BY <1>1, <2>1
<1>4. CASE Born \/ (\E alloc \in BOOLEAN : Collect(alloc)) \/ MarkNext \/ StartDestructing
           \/ CallDestructor \/ DestructorReturns \/ PassOver \/ StartDeleting
  BY <1>1, <1>4 DEF Born, Collect, MarkNext, StartDestructing, CallDestructor,
                    DestructorReturns, PassOver, StartDeleting
<1>5. CASE DestructorThrows
  <2>1. cursor \in Range(stack)
    BY <1>5 DEF DestructorThrows, HeapInv, Moments
  <2>2. Range(stack) \subseteq Nodes
    BY RangeIs DEF HeapInv, HeapTypes
  <2> QED
    BY <1>1, <2>1, <2>2, NoneIsNoNode
<1> QED
  BY <1>2, <1>3, <1>4, <1>5 DEF Next

\* What a deletion leaves could be reached when the collection began, and what
\* it takes has been destructed.
LEMMA DeletesGarbage ==
    ASSUME NodesAreNumbered, HeapInv, Next, Deletes
    PROVE  /\ \A o \in Nodes : type'[o] # "free" => o \in live \cup {newborn}
           /\ ~forced => \A o \in Nodes \ lost :
                type[o] = "instance" /\ type'[o] = "free" => o \in destructed
<1>1. /\ HeapTypes /\ InList /\ Moments /\ LiveIsThere /\ WalkLeavesNone
  BY DEF HeapInv
<1>2. phase \in {"destructing", "deleting"} /\ cursor = None
  BY DEF Deletes
<1>3. PICK D : /\ type' = [o \in Nodes |-> IF o \in D THEN "free" ELSE type[o]]
               /\ D \subseteq Listed
               /\ \/ phase = "destructing" /\ D = {o \in Listed : marked[o] = "white"}
                  \/ phase = "deleting" /\ D = Listed
  <2>1. CASE DeleteWhite
    BY <2>1 DEF DeleteWhite, Deleted, Listed
  <2>2. CASE DeleteAll
    BY <2>2 DEF DeleteAll, Deleted, Listed
  <2> QED
    BY <2>1, <2>2, DeletesOnlyHere
<1>4. /\ gcList \in Seq(Nodes) /\ type \in [Nodes -> Kinds]
      /\ \A o \in Nodes : type'[o] = IF o \in D THEN "free" ELSE type[o]
  BY <1>1, <1>3 DEF HeapTypes
<1>5. \A o \in Nodes : o \in Listed <=> type[o] # "free" /\ o # newborn
  BY <1>1 DEF InList
<1>6. ASSUME NEW o \in Nodes, type'[o] # "free" PROVE o \in live \cup {newborn}
  <2>1. o \notin D /\ type[o] # "free"
    BY <1>4, <1>6
  <2>2. CASE o \in Listed
    <3>1. phase = "destructing" /\ marked[o] # "white"
      BY <1>3, <2>1, <2>2
    <3> QED
      BY <3>1, <1>1 DEF LiveIsThere
  <2>3. CASE o \notin Listed
    BY <2>1, <2>3, <1>5
  <2> QED
    BY <2>2, <2>3
<1>7. ASSUME ~forced, NEW o \in Nodes \ lost, type[o] = "instance", type'[o] = "free"
      PROVE  o \in destructed
  <2>1. o \in D /\ o \in Listed /\ (phase = "destructing" => marked[o] = "white")
    BY <1>3, <1>4, <1>7
  <2>2. PICK i \in 1 .. Len(gcList) : gcList[i] = o
    BY <2>1, <1>4, RangeIs DEF Listed
  <2> QED
    BY <1>1, <1>2, <1>7, <2>1, <2>2 DEF WalkLeavesNone, Goes
<1> QED
  BY <1>6, <1>7

\* A collection deletes all garbage, after its destructors unless it is forced.
THEOREM GarbageCollected == NodesAreNumbered => (Spec => CollectsAllGarbage)
<1> SUFFICES ASSUME NodesAreNumbered PROVE Spec => CollectsAllGarbage
  OBVIOUS
<1> DEFINE A == Deletes =>
         /\ \A o \in Nodes : type'[o] # "free" => o \in live \cup {newborn}
         /\ ~forced => \A o \in Nodes \ lost :
              type[o] = "instance" /\ type'[o] = "free" => o \in destructed
<1>1. HeapInv /\ [Next]_heapVars => [A]_heapVars
  BY DeletesGarbage
<1>2. Spec => []HeapInv
  BY HeapSafe
<1>3. Spec => []([Next]_heapVars)
  BY PTL DEF Spec
<1>4. Spec => [][A]_heapVars
  BY <1>1, <1>2, <1>3, PTL
<1> QED
  BY <1>4 DEF CollectsAllGarbage

-----------------------------------------------------------------------------
(* Sequences without repetition.                                           *)

\* Two sequences with nothing in common.
LEMMA ConcatOnce ==
    ASSUME NEW S, NEW q \in Seq(S), NEW r \in Seq(S)
    PROVE  /\ q \o r \in Seq(S) /\ Range(q \o r) = Range(q) \cup Range(r)
           /\ IsInjective(q) /\ IsInjective(r) /\ Range(q) \cap Range(r) = {}
                => IsInjective(q \o r)
<1> DEFINE s == q \o r
<1>1. /\ s \in Seq(S) /\ Len(s) = Len(q) + Len(r) /\ Len(q) \in Nat /\ Len(r) \in Nat
      /\ \A k \in 1 .. Len(q) + Len(r) : s[k] = IF k <= Len(q) THEN q[k] ELSE r[k - Len(q)]
  BY ConcatProperties, LenProperties
<1>2. /\ DOMAIN s = 1 .. Len(q) + Len(r) /\ DOMAIN q = 1 .. Len(q) /\ DOMAIN r = 1 .. Len(r)
  BY <1>1, LenProperties
<1> HIDE DEF s
<1>4. \A k \in DOMAIN s : \/ k \in 1 .. Len(q) /\ s[k] = q[k]
                          \/ k - Len(q) \in 1 .. Len(r) /\ s[k] = r[k - Len(q)]
  BY <1>1, <1>2
<1>5. Range(s) = Range(q) \cup Range(r)
  BY RangeConcatenation DEF s
<1>6. ASSUME IsInjective(q), IsInjective(r), Range(q) \cap Range(r) = {}
      PROVE  IsInjective(s)
  <2>1. \A k \in 1 .. Len(q), j \in 1 .. Len(r) : q[k] # r[j]
    BY <1>2, <1>6 DEF Range
  <2> SUFFICES ASSUME NEW i \in DOMAIN s, NEW j \in DOMAIN s, s[i] = s[j] PROVE i = j
    BY DEF IsInjective
  <2>2. CASE i \in 1 .. Len(q) /\ s[i] = q[i]
    <3>1. j \in 1 .. Len(q) /\ s[j] = q[j]
      BY <1>4, <2>1, <2>2
    <3> QED
      BY <1>2, <1>6, <2>2, <3>1 DEF IsInjective
  <2>3. CASE i - Len(q) \in 1 .. Len(r) /\ s[i] = r[i - Len(q)]
    <3>1. j - Len(q) \in 1 .. Len(r) /\ s[j] = r[j - Len(q)]
      BY <1>4, <2>1, <2>3
    <3>2. i - Len(q) = j - Len(q)
      BY <1>2, <1>6, <2>3, <3>1 DEF IsInjective
    <3>3. i \in Int /\ j \in Int
      BY <1>1, <1>2
    <3> QED
      BY <1>1, <3>2, <3>3
  <2> QED
    BY <1>4, <2>2, <2>3
<1> QED
  BY <1>1, <1>5, <1>6 DEF s

\* A list the other way round.
LEMMA ReverseOnce ==
    ASSUME NEW S, NEW q \in Seq(S)
    PROVE  /\ Reverse(q) \in Seq(S) /\ Range(Reverse(q)) = Range(q)
           /\ IsInjective(q) => IsInjective(Reverse(q))
<1> DEFINE n == Len(q)
           r == Reverse(q)
<1>1. n \in Nat /\ DOMAIN q = 1 .. n /\ \A k \in 1 .. n : q[k] \in S
  BY LenProperties
<1>2. r = [k \in 1 .. n |-> q[n - k + 1]]
  BY DEF Reverse
<1> HIDE DEF n, r
<1>3. \A k \in 1 .. n : n - k + 1 \in 1 .. n /\ n - (n - k + 1) + 1 = k
  BY <1>1
<1>4. r \in [1 .. n -> S] /\ \A k \in 1 .. n : r[k] = q[n - k + 1]
  BY <1>1, <1>2, <1>3
<1>5. r \in Seq(S)
  BY <1>1, <1>4, IsASeq
<1>6. \A k \in 1 .. n : q[k] = r[n - k + 1]
  BY <1>3, <1>4
<1>7. Range(r) = Range(q)
  BY <1>1, <1>3, <1>4, <1>6 DEF Range
<1>8. ASSUME IsInjective(q) PROVE IsInjective(r)
  <2> SUFFICES ASSUME NEW i \in 1 .. n, NEW j \in 1 .. n, r[i] = r[j] PROVE i = j
    BY <1>4 DEF IsInjective
  <2>1. n - i + 1 = n - j + 1
    BY <1>1, <1>3, <1>4, <1>8 DEF IsInjective
  <2> QED
    BY <1>1, <2>1
<1> QED
  BY <1>5, <1>7, <1>8 DEF r

-----------------------------------------------------------------------------
(* Lists of texts.                                                         *)

\* What is chosen from a list.
Adds(q, x, T) == IF x \in T THEN Append(q, x) ELSE q
Chooses(f, s, T) == f = [i \in 0 .. Len(s) |-> IF i = 0 THEN <<>> ELSE Adds(f[i - 1], s[i], T)]

\* It is the members of the list in a set, none twice if none was.
LEMMA ChosenIs ==
    ASSUME NEW S, NEW s \in Seq(S), NEW T
    PROVE  /\ Chosen(s, T) \in Seq(S) /\ Range(Chosen(s, T)) = Range(s) \cap T
           /\ IsInjective(s) => IsInjective(Chosen(s, T))
<1> DEFINE n == Len(s)
           V == Seq(S)
           step == [x \in V \X (1 .. n) |-> Adds(x[1], s[x[2]], T)]
           f == CHOOSE f : Chooses(f, s, T)
<1>1. n \in Nat /\ DOMAIN s = 1 .. n /\ \A k \in 1 .. n : s[k] \in S
  BY LenProperties
<1>2. \A q \in V, i \in 1 .. n : Adds(q, s[i], T) \in V
  BY <1>1, AppendOnce DEF Adds
<1>3. \E g \in [0 .. n -> V] : Chooses(g, s, T)
  <2>1. step \in [V \X (1 .. n) -> V]
    BY <1>2
  <2>2. PICK e : e = <<>>
    OBVIOUS
  <2>6. e \in V
    BY <2>2
  <2> HIDE DEF step, V, n
  <2>3. PICK g \in [0 .. n -> V] : Unfolded(g, n, e, step)
    BY <1>1, <2>1, <2>6, Unfolds
  <2>4. ASSUME NEW i \in 0 .. n, i # 0 PROVE step[<<g[i - 1], i>>] = Adds(g[i - 1], s[i], T)
    <3>1. i - 1 \in 0 .. n /\ i \in 1 .. n
      BY <1>1, <2>4
    <3>2. <<g[i - 1], i>> \in V \X (1 .. n)
      BY <3>1
    <3> QED
      BY <3>2 DEF step
  <2>5. g = [i \in 0 .. n |-> IF i = 0 THEN <<>> ELSE Adds(g[i - 1], s[i], T)]
    BY <2>2, <2>3, <2>4 DEF Unfolded
  <2> QED
    BY <2>5 DEF Chooses, n
<1>4. Chooses(f, s, T)
  BY <1>3
<1>5. Chosen(s, T) = f[n]
  BY DEF Chosen, Chooses, Adds
<1> HIDE DEF f
<1>6. f[0] = <<>> /\ \A i \in 1 .. n : f[i] = Adds(f[i - 1], s[i], T)
  BY <1>1, <1>4 DEF Chooses
<1> DEFINE Good(q, i) == /\ q \in V /\ \A x : x \in Range(q) <=> x \in T /\ \E j \in 1 .. i : s[j] = x
                         /\ IsInjective(s) => IsInjective(q)
           I == {i \in 0 .. n : Good(f[i], i)}
<1>7. 0 \in I
  <2>1. Range(<<>>) = {} /\ IsInjective(<<>>)
    BY DEF Range, IsInjective
  <2>2. PICK e : e = <<>>
    OBVIOUS
  <2>3. e \in V /\ f[0] = e /\ Range(e) = {} /\ IsInjective(e) /\ 0 \in 0 .. n
    BY <1>1, <1>6, <2>1, <2>2
  <2>4. Good(e, 0)
    BY <2>3
  <2> HIDE DEF Good
  <2> QED
    BY <2>3, <2>4
<1>8. ASSUME NEW i \in 1 .. n, i - 1 \in I PROVE i \in I
  <2> DEFINE q == f[i - 1]
  <2>1. /\ Good(q, i - 1) /\ f[i] = Adds(q, s[i], T) /\ s[i] \in S
        /\ i \in 0 .. n /\ 1 .. i = (1 .. i - 1) \cup {i}
    BY <1>1, <1>6, <1>8
  <2> HIDE DEF q
  <2>2. CASE s[i] \notin T
    BY <2>1, <2>2 DEF Adds
  <2>3. CASE s[i] \in T
    <3>1. f[i] = Append(q, s[i])
      BY <2>1, <2>3 DEF Adds
    <3>2. f[i] \in V /\ Range(f[i]) = Range(q) \cup {s[i]}
      BY <2>1, <3>1, AppendOnce
    <3>3. ASSUME IsInjective(s) PROVE IsInjective(f[i])
      <4>1. s[i] \notin Range(q)
        BY <1>1, <2>1, <3>3 DEF IsInjective
      <4> QED
        BY <2>1, <3>1, <3>3, <4>1, AppendOnce
    <3> QED
      BY <2>1, <2>3, <3>2, <3>3
  <2> QED
    BY <2>2, <2>3
<1>9. Good(f[n], n)
  <2>1. 0 .. n \subseteq I
    <3> HIDE DEF I
    <3> QED
      BY <1>1, <1>7, <1>8, AlongPositions
  <2> HIDE DEF Good
  <2> QED
    BY <1>1, <2>1
<1>10. Range(f[n]) = Range(s) \cap T
  BY <1>1, <1>9 DEF Range
<1> QED
  BY <1>5, <1>9, <1>10
\* Lists put one after the other, none of which has an element of another.
Apart(t) == /\ \A b \in 1 .. Len(t) : IsInjective(t[b])
            /\ \A b, c \in 1 .. Len(t) : b # c => Range(t[b]) \cap Range(t[c]) = {}
Flattens(f, t) == f = [i \in 1 .. Len(t) |-> IF i = 1 THEN t[i] ELSE f[i - 1] \o t[i]]

\* Lists put behind each other have the members of all, none twice if they are apart.
LEMMA FlatIs ==
    ASSUME NEW S, NEW t \in Seq(Seq(S)), Len(t) # 0
    PROVE  /\ FlattenSeq(t) \in Seq(S)
           /\ \A x : x \in Range(FlattenSeq(t)) <=> \E b \in 1 .. Len(t) : x \in Range(t[b])
           /\ Apart(t) => IsInjective(FlattenSeq(t))
<1> DEFINE n == Len(t)
           V == Seq(S)
           step == [x \in V \X (1 .. n) |-> x[1] \o t[x[2]]]
           f == CHOOSE f : Flattens(f, t)
<1>1. n \in Nat /\ n \in 1 .. n /\ \A k \in 1 .. n : t[k] \in V
  BY LenProperties
<1>2. \A q \in V, i \in 1 .. n : q \o t[i] \in V
  BY <1>1, ConcatOnce
<1>3. \E g : Flattens(g, t)
  <2>1. step \in [V \X (1 .. n) -> V]
    BY <1>2
  <2>2. PICK e : e = <<>>
    OBVIOUS
  <2>3. e \in V /\ \A k \in 1 .. n : e \o t[k] = t[k]
    BY <1>1, <2>2, ConcatEmptySeq
  <2> HIDE DEF step, V, n
  <2>4. PICK h \in [0 .. n -> V] : Unfolded(h, n, e, step)
    BY <1>1, <2>1, <2>3, Unfolds
  <2>5. h[0] = e /\ \A i \in 1 .. n : h[i] = h[i - 1] \o t[i]
    <3>1. h[0] = e
      BY <1>1, <2>4 DEF Unfolded
    <3>2. ASSUME NEW i \in 1 .. n PROVE h[i] = h[i - 1] \o t[i]
      <4>1. i - 1 \in 0 .. n /\ i \in 0 .. n /\ i # 0
        BY <1>1
      <4>2. <<h[i - 1], i>> \in V \X (1 .. n)
        BY <4>1
      <4>3. h[i] = step[<<h[i - 1], i>>]
        BY <2>4, <4>1 DEF Unfolded
      <4> QED
        BY <4>2, <4>3 DEF step
    <3> QED
      BY <3>1, <3>2
  <2> DEFINE g == [i \in 1 .. n |-> h[i]]
  <2>6. ASSUME NEW i \in 1 .. n PROVE g[i] = IF i = 1 THEN t[i] ELSE g[i - 1] \o t[i]
    <3>1. CASE i = 1
      <4>1. h[1] = h[0] \o t[1]
        <5>1. 1 \in 1 .. n /\ 1 - 1 = 0
          BY <1>1
        <5> QED
          BY <2>5, <5>1
      <4>2. h[1] = t[1]
        BY <2>3, <2>5, <3>1, <4>1
      <4> QED
        BY <3>1, <4>2
    <3>2. CASE i # 1
      <4>1. i - 1 \in 1 .. n
        BY <1>1, <3>2
      <4> QED
        BY <2>5, <3>2, <4>1
    <3> QED
      BY <3>1, <3>2
  <2>7. g = [i \in 1 .. n |-> IF i = 1 THEN t[i] ELSE g[i - 1] \o t[i]]
    BY <2>6
  <2> HIDE DEF g
  <2> QED
    BY <2>7 DEF Flattens, n
<1>4. Flattens(f, t)
  BY <1>3
<1>5. FlattenSeq(t) = f[n]
  BY DEF FlattenSeq, Flattens
<1> HIDE DEF f
<1>6. f[1] = t[1] /\ \A i \in 1 .. n : i # 1 => f[i] = f[i - 1] \o t[i]
  <2>1. f = [i \in 1 .. n |-> IF i = 1 THEN t[i] ELSE f[i - 1] \o t[i]]
    BY <1>4 DEF Flattens
  <2>2. 1 \in 1 .. n
    BY <1>1
  <2> HIDE DEF n
  <2>3. \A i \in 1 .. n : f[i] = IF i = 1 THEN t[i] ELSE f[i - 1] \o t[i]
    BY <2>1
  <2> QED
    BY <2>2, <2>3
<1> DEFINE Good(q, i) == /\ q \in V /\ \A x : x \in Range(q) <=> \E b \in 1 .. i : x \in Range(t[b])
                         /\ Apart(t) => IsInjective(q)
           I == {i \in 0 .. n : i = 0 \/ Good(f[i], i)}
<1>7. ASSUME NEW i \in 1 .. n, i - 1 \in I PROVE i \in I
  <2>0. i \in 0 .. n
    BY <1>1
  <2>1. CASE i = 1
    <3>1. 1 .. 1 = {1} /\ 1 \in 1 .. n
      BY <1>1
    <3>2. Good(t[1], 1)
      BY <1>1, <3>1 DEF Apart
    <3> HIDE DEF Good
    <3> QED
      BY <1>6, <2>0, <2>1, <3>2
  <2>2. CASE i # 1
    <3> DEFINE q == f[i - 1]
    <3>4. Good(q, i - 1)
      <4>1. i - 1 # 0
        BY <1>1, <2>2
      <4> HIDE DEF Good
      <4> QED
        BY <1>7, <4>1
    <3>1. /\ Good(q, i - 1) /\ f[i] = q \o t[i] /\ t[i] \in V
          /\ 1 .. i = (1 .. i - 1) \cup {i}
      <4>1. f[i] = q \o t[i] /\ t[i] \in V
        BY <1>1, <1>6, <2>2
      <4>2. 1 .. i = (1 .. i - 1) \cup {i}
        BY <1>1
      <4> HIDE DEF Good, q
      <4> QED
        BY <3>4, <4>1, <4>2
    <3> HIDE DEF q
    <3>2. f[i] \in V /\ Range(f[i]) = Range(q) \cup Range(t[i])
      BY <3>1, ConcatOnce
    <3>3. ASSUME Apart(t) PROVE IsInjective(f[i])
      <4>1. Range(q) \cap Range(t[i]) = {}
        <5> SUFFICES ASSUME NEW x \in Range(q), x \in Range(t[i]) PROVE FALSE
          OBVIOUS
        <5>1. PICK b \in 1 .. i - 1 : x \in Range(t[b])
          BY <3>1
        <5>2. b \in 1 .. n /\ b # i
          BY <1>1
        <5> QED
          BY <3>3, <5>1, <5>2 DEF Apart
      <4> QED
        <5>1. IsInjective(q) /\ IsInjective(t[i])
          BY <3>1, <3>3 DEF Apart
        <5> QED
          BY <3>1, <4>1, <5>1, ConcatOnce
    <3> QED
      BY <2>0, <3>1, <3>2, <3>3
  <2> QED
    BY <2>1, <2>2
<1>8. Good(f[n], n)
  <2>1. 0 .. n \subseteq I
    <3>1. 0 \in I
      BY <1>1
    <3> HIDE DEF I
    <3> QED
      BY <1>1, <1>7, <3>1, AlongPositions
  <2> HIDE DEF Good
  <2> QED
    BY <1>1, <2>1
<1> QED
  BY <1>5, <1>8

-----------------------------------------------------------------------------
(* The table.                                                              *)

\* Each string is in the list of its hash, once.
Short(texts, S) == IsFiniteSet(S) /\ \A i \in S : texts[i] \in ShortTexts
TableIs(table, texts, S) ==
    /\ table \in Seq(Seq(S)) /\ Len(table) # 0
    /\ \A b \in 1 .. Len(table) :
         IsInjective(table[b]) /\ Range(table[b]) = {i \in S : Bucket(texts[i], Len(table)) = b}

\* A text belongs to one of the buckets.
LEMMA BucketIs ==
    ASSUME StringsConstants, NEW text \in ShortTexts, NEW n \in Nat, n # 0
    PROVE  Bucket(text, n) \in 1 .. n
<1>1. Hash[text] \in Nat
  BY DEF StringsConstants
<1> DEFINE h == Hash[text]
<1>2. h % n \in 0 .. n - 1
  <2> HIDE DEF h
  <2> QED
    BY <1>1 DEF h
<1> HIDE DEF h
<1> QED
  BY <1>2 DEF h, Bucket

\* All strings of a table.
LEMMA AllStrings ==
    ASSUME StringsConstants, NEW S, NEW texts, Short(texts, S), NEW table, TableIs(table, texts, S)
    PROVE  /\ FlattenSeq(table) \in Seq(S) /\ IsInjective(FlattenSeq(table))
           /\ Range(FlattenSeq(table)) = S /\ Len(FlattenSeq(table)) = Cardinality(S)
<1>1. table \in Seq(Seq(S)) /\ Len(table) # 0 /\ Len(table) \in Nat
  BY LenProperties DEF TableIs
<1>2. Apart(table)
  BY DEF TableIs, Apart
<1>3. \A x : x \in Range(FlattenSeq(table)) <=> x \in S
  <2>1. ASSUME NEW x \in S PROVE \E b \in 1 .. Len(table) : x \in Range(table[b])
    <3>1. Bucket(texts[x], Len(table)) \in 1 .. Len(table)
      BY <1>1, BucketIs DEF Short
    <3> QED
      BY <3>1 DEF TableIs
  <2>2. \A b \in 1 .. Len(table) : Range(table[b]) \subseteq S
    BY DEF TableIs
  <2> QED
    BY <1>1, <2>1, <2>2, FlatIs
<1>4. FlattenSeq(table) \in Seq(S) /\ IsInjective(FlattenSeq(table))
  BY <1>1, <1>2, FlatIs
<1>5. Range(FlattenSeq(table)) = S
  BY <1>3
<1> QED
  BY <1>4, <1>5, OnceCounted

\* A table of another size.
LEMMA ResizedIs ==
    ASSUME StringsConstants, NEW S, NEW texts, Short(texts, S), NEW table, TableIs(table, texts, S),
           NEW size \in Nat, size # 0
    PROVE  TableIs(Resized(table, size, texts), texts, S) /\ Len(Resized(table, size, texts)) = size
<1> DEFINE all == FlattenSeq(table)
           In(b) == {s \in Range(all) : Bucket(texts[s], size) = b}
           list(b) == Reverse(Chosen(all, In(b)))
           after == [b \in 1 .. size |-> list(b)]
<1>1. all \in Seq(S) /\ IsInjective(all) /\ Range(all) = S
  BY AllStrings
<1>2. Resized(table, size, texts) = after
  BY DEF Resized
<1> HIDE DEF all
<1>3. ASSUME NEW b \in 1 .. size
      PROVE  /\ list(b) \in Seq(S) /\ IsInjective(list(b))
             /\ Range(list(b)) = {i \in S : Bucket(texts[i], size) = b}
  <2>1. /\ Chosen(all, In(b)) \in Seq(S) /\ IsInjective(Chosen(all, In(b)))
        /\ Range(Chosen(all, In(b))) = Range(all) \cap In(b)
    <3> HIDE DEF In
    <3> QED
      BY <1>1, ChosenIs
  <2>2. Range(all) \cap In(b) = {i \in S : Bucket(texts[i], size) = b}
    BY <1>1
  <2> HIDE DEF In
  <2> QED
    BY <2>1, <2>2, ReverseOnce
<1> HIDE DEF list
<1>4. after \in [1 .. size -> Seq(S)] /\ \A b \in 1 .. size : after[b] = list(b)
  BY <1>3
<1> HIDE DEF after
<1>5. after \in Seq(Seq(S)) /\ Len(after) = size
  BY <1>4, IsASeq, LenProperties
<1>6. TableIs(after, texts, S)
  BY <1>3, <1>4, <1>5 DEF TableIs
<1> QED
  BY <1>2, <1>5, <1>6
\* Texts that no string of the table has do not matter.
LEMMA SameTable ==
    ASSUME NEW S, NEW table, NEW texts, TableIs(table, texts, S),
           NEW others, \A i \in S : others[i] = texts[i]
    PROVE  TableIs(table, others, S)
<1>1. \A n : \A i \in S : Bucket(others[i], n) = Bucket(texts[i], n)
  BY DEF Bucket
<1>2. \A b \in 1 .. Len(table) : {i \in S : Bucket(others[i], Len(table)) = b}
                                 = {i \in S : Bucket(texts[i], Len(table)) = b}
  BY <1>1
<1> QED
  BY <1>2 DEF TableIs

\* One more string, at the head of its list.
Into(table, b, i) == [table EXCEPT ![b] = <<i>> \o @]
AtHead(table, text, i) == Into(table, Bucket(text, Len(table)), i)

\* The table then has one string more.
LEMMA PlacedIs ==
    ASSUME StringsConstants, NEW S, NEW texts, NEW table, TableIs(table, texts, S),
           NEW i, i \notin S, NEW text \in ShortTexts, text = texts[i]
    PROVE  TableIs(AtHead(table, text, i), texts, S \cup {i})
<1> DEFINE n == Len(table)
           b == Bucket(texts[i], Len(table))
           W == S \cup {i}
           list == <<i>> \o table[b]
           after == Into(table, b, i)
           Those(U, c) == {s \in U : Bucket(texts[s], n) = c}
<1>1. /\ table \in Seq(Seq(S)) /\ n # 0 /\ n \in Nat /\ DOMAIN table = 1 .. n
      /\ \A c \in 1 .. n : table[c] \in Seq(S)
  BY LenProperties DEF TableIs
<1>2. b \in 1 .. n
  BY <1>1, BucketIs
<1> HIDE DEF b
<1>3. \A c \in 1 .. n : table[c] \in Seq(W) /\ IsInjective(table[c]) /\ Range(table[c]) = Those(S, c)
  <2>1. Seq(S) \subseteq Seq(W)
    BY SeqMonotonic
  <2> QED
    BY <1>1, <2>1 DEF TableIs
<1>4. <<i>> \in Seq(W) /\ IsInjective(<<i>>) /\ Range(<<i>>) = {i}
  <2>1. <<i>> \in Seq(W)
    OBVIOUS
  <2>2. DOMAIN <<i>> = {1} /\ <<i>>[1] = i
    OBVIOUS
  <2> QED
    BY <2>1, <2>2 DEF IsInjective, Range
<1>5. Range(<<i>>) \cap Range(table[b]) = {}
  BY <1>2, <1>3, <1>4
<1>6. list \in Seq(W) /\ IsInjective(list) /\ Range(list) = {i} \cup Those(S, b)
  <2>1. PICK one : one = <<i>>
    OBVIOUS
  <2>2. one \in Seq(W) /\ table[b] \in Seq(W)
    BY <1>2, <1>3, <1>4, <2>1
  <2>3. IsInjective(one) /\ IsInjective(table[b]) /\ Range(one) \cap Range(table[b]) = {}
    BY <1>2, <1>3, <1>4, <1>5, <2>1
  <2>4. /\ one \o table[b] \in Seq(W) /\ IsInjective(one \o table[b])
        /\ Range(one \o table[b]) = Range(one) \cup Range(table[b])
    BY <2>2, <2>3, ConcatOnce
  <2>5. Range(one) = {i} /\ Range(table[b]) = Those(S, b)
    BY <1>2, <1>3, <1>4, <2>1
  <2> HIDE DEF Those
  <2> QED
    BY <2>1, <2>4, <2>5
<1> HIDE DEF list
<1>7. /\ after \in [1 .. n -> Seq(W)] /\ after[b] = list
      /\ \A c \in 1 .. n : c # b => after[c] = table[c]
  BY <1>1, <1>2, <1>3, <1>6 DEF list, Into
<1> HIDE DEF after
<1>8. after \in Seq(Seq(W)) /\ Len(after) = n
  <2> HIDE DEF n, W
  <2> QED
    BY <1>1, <1>7, IsASeq, LenProperties
<1>9. /\ Those(W, b) = {i} \cup Those(S, b)
      /\ \A c \in 1 .. n : c # b => Those(W, c) = Those(S, c)
  BY DEF b
<1>10. \A c \in 1 .. n : IsInjective(after[c]) /\ Range(after[c]) = Those(W, c)
  <2> HIDE DEF Those
  <2> QED
    BY <1>3, <1>6, <1>7, <1>9
<1>11. TableIs(after, texts, W)
  BY <1>1, <1>8, <1>10 DEF TableIs
<1>12. AtHead(table, text, i) = after
  BY DEF AtHead, after, b
<1> QED
  BY <1>11, <1>12

\* A sweep keeps what is kept of the table.
LEMMA SweptIs ==
    ASSUME StringsConstants, NEW S, Short(strs, S), TableIs(strTable, strs, S)
    PROVE  /\ TableIs(TableSwept(strTable).table, strs, S \cap KeptStrings)
           /\ TableSwept(strTable).count = Cardinality(S \cap KeptStrings)
<1> DEFINE n == Len(strTable)
           K == S \cap KeptStrings
           swept == [b \in DOMAIN strTable |-> Chosen(strTable[b], KeptStrings)]
           count == Len(FlattenSeq(swept))
<1>1. /\ strTable \in Seq(Seq(S)) /\ n # 0 /\ n \in Nat /\ DOMAIN strTable = 1 .. n
      /\ \A b \in 1 .. n : strTable[b] \in Seq(S)
  BY LenProperties DEF TableIs
<1>2. ASSUME NEW b \in 1 .. n
      PROVE  /\ Chosen(strTable[b], KeptStrings) \in Seq(K)
             /\ IsInjective(Chosen(strTable[b], KeptStrings))
             /\ Range(Chosen(strTable[b], KeptStrings)) = {i \in K : Bucket(strs[i], n) = b}
  <2>1. IsInjective(strTable[b]) /\ Range(strTable[b]) = {i \in S : Bucket(strs[i], n) = b}
    BY DEF TableIs
  <2> DEFINE c == Chosen(strTable[b], KeptStrings)
  <2>2. c \in Seq(S) /\ Range(c) = Range(strTable[b]) \cap KeptStrings /\ IsInjective(c)
    BY <1>1, <2>1, ChosenIs
  <2> HIDE DEF c
  <2>3. Range(c) = {i \in K : Bucket(strs[i], n) = b}
    BY <2>1, <2>2
  <2>4. c \in Seq(K)
    <3>1. c \in Seq(Range(c))
      BY <2>2, SeqOfRange
    <3>2. Range(c) \subseteq K
      BY <2>3
    <3> QED
      BY <3>1, <3>2, SeqMonotonic
  <2> QED
    BY <2>2, <2>3, <2>4 DEF c
<1>3. /\ swept \in [1 .. n -> Seq(K)]
      /\ \A b \in 1 .. n : swept[b] = Chosen(strTable[b], KeptStrings)
  BY <1>1, <1>2
<1> HIDE DEF swept
<1>4. swept \in Seq(Seq(K)) /\ Len(swept) = n
  <2> HIDE DEF n, K
  <2> QED
    BY <1>1, <1>3, IsASeq, LenProperties
<1>5. TableIs(swept, strs, K)
  BY <1>1, <1>2, <1>3, <1>4 DEF TableIs
<1>6. Short(strs, K)
  BY FS_Subset DEF Short
<1>7. count = Cardinality(K)
  BY <1>5, <1>6, AllStrings
<1>8. TableSwept(strTable) = [table |-> IF count < n \div 4 /\ n > MinTable
                                        THEN Resized(swept, n \div 2, strs) ELSE swept,
                              count |-> count]
  BY DEF TableSwept, swept
<1> HIDE DEF count
<1>9. TableSwept(strTable).count = count
  BY <1>8
<1>10. ASSUME n > MinTable PROVE TableIs(Resized(swept, n \div 2, strs), strs, K)
  <2>1. n \div 2 \in Nat /\ n \div 2 # 0
    <3>1. MinTable \in Nat \ {0}
      BY DEF StringsConstants
    <3> HIDE DEF n
    <3> QED
      BY <1>1, <1>10, <3>1
  <2> QED
    BY <1>5, <1>6, <2>1, ResizedIs
<1>11. TableSwept(strTable).table = IF count < n \div 4 /\ n > MinTable
                                    THEN Resized(swept, n \div 2, strs) ELSE swept
  BY <1>8
<1>12. TableIs(TableSwept(strTable).table, strs, K)
  BY <1>5, <1>10, <1>11
<1> QED
  BY <1>7, <1>9, <1>12
-----------------------------------------------------------------------------
(* The strings of a program.                                               *)

Shorts(texts, long) == {i \in Ids : texts[i] # "" /\ ~long[i]}
AllTexts == ShortTexts \cup LongTexts \cup {""}
StringTypes(texts, long) == texts \in [Ids -> AllTexts] /\ long \in [Ids -> BOOLEAN]
TextsFit(texts, long) == \A i \in Ids : texts[i] # "" => (long[i] <=> texts[i] \in LongTexts)
AllDiffer(texts, long) ==
    /\ \A i, j \in Shorts(texts, long) : texts[i] = texts[j] => i = j
    /\ \A i \in Shorts(texts, long) : ConstOf(texts[i]) = {}

\* The strings and their table are in order.
Ordered(table, count, texts, long) ==
    /\ StringTypes(texts, long) /\ TextsFit(texts, long) /\ AllDiffer(texts, long)
    /\ TableIs(table, texts, Shorts(texts, long)) /\ count = Cardinality(Shorts(texts, long))

\* What is held exists.
HeldTypes == strHeld \subseteq ({"mem"} \X Ids) \cup ({"const"} \X Consts) /\ strFixed \subseteq Ids
HeldExist(texts) == \A i \in KeptStrings : texts[i] # ""

StringsOrdered == Ordered(strTable, strCount, strs, isLong) /\ HeldTypes /\ HeldExist(strs)
StringsInv == ~astray => StringsOrdered

\* Strings of the table are short.
LEMMA ShortsAreShort ==
    ASSUME StringsConstants, NEW texts, NEW long, StringTypes(texts, long), TextsFit(texts, long)
    PROVE  Short(texts, Shorts(texts, long))
<1>1. IsFiniteSet(Ids)
  <2>0. MaxStrings \in Nat
    BY Zenon DEF StringsConstants
  <2>1. 1 \in Int /\ MaxStrings \in Int
    BY <2>0
  <2> QED
    BY <2>1, FS_Interval DEF Ids
<1>2. IsFiniteSet(Shorts(texts, long))
  BY <1>1, FS_Subset DEF Shorts
<1>3. \A i \in Shorts(texts, long) : texts[i] \in ShortTexts
  BY DEF Shorts, StringTypes, TextsFit, AllTexts
<1> QED
  BY <1>2, <1>3 DEF Short

\* A collection keeps the order.
LEMMA CollectOrders ==
    ASSUME StringsConstants, StringsOrdered
    PROVE  /\ Ordered(TableSwept(strTable).table, TableSwept(strTable).count, Lives, isLong)
           /\ HeldExist(Lives)
<1> DEFINE S == Shorts(strs, isLong)
           K == S \cap KeptStrings
<1>1. /\ StringTypes(strs, isLong) /\ TextsFit(strs, isLong) /\ AllDiffer(strs, isLong)
      /\ TableIs(strTable, strs, S) /\ strCount = Cardinality(S) /\ HeldExist(strs)
  BY DEF StringsOrdered, Ordered
<1>2. Short(strs, S)
  BY <1>1, ShortsAreShort
<1>3. /\ TableIs(TableSwept(strTable).table, strs, K)
      /\ TableSwept(strTable).count = Cardinality(K)
  <2> HIDE DEF S
  <2> QED
    BY <1>1, <1>2, SweptIs
<1>4. \A i \in Ids : Lives[i] = IF i \in KeptStrings THEN strs[i] ELSE ""
  BY DEF Lives
<1>5. Shorts(Lives, isLong) = K
  BY <1>4 DEF Shorts
<1>6. StringTypes(Lives, isLong)
  <2>1. Lives \in [Ids -> AllTexts]
    BY <1>1 DEF StringTypes, AllTexts, Lives
  <2> QED
    BY <1>1, <2>1 DEF StringTypes
<1>7. TextsFit(Lives, isLong)
  BY <1>1, <1>4 DEF TextsFit
<1>8. \A i \in K : Lives[i] = strs[i] /\ i \in S
  BY <1>4 DEF Shorts
<1>9. AllDiffer(Lives, isLong)
  <2> HIDE DEF S, K
  <2>1. \A i, j \in S : strs[i] = strs[j] => i = j
    BY <1>1 DEF AllDiffer, S
  <2>2. \A i \in S : ConstOf(strs[i]) = {}
    BY <1>1 DEF AllDiffer, S
  <2> QED
    BY <1>5, <1>8, <2>1, <2>2 DEF AllDiffer
<1>10. TableIs(TableSwept(strTable).table, Lives, K)
  <2> HIDE DEF K
  <2> QED
    BY <1>3, <1>8, SameTable
<1>11. HeldExist(Lives)
  BY <1>1, <1>4 DEF HeldExist, KeptStrings
<1> QED
  BY <1>3, <1>5, <1>6, <1>7, <1>9, <1>10, <1>11 DEF Ordered

\* A place for a new string stays free over a collection.
LEMMA StaysFree ==
    ASSUME NEW i \in Ids, FreeId(i) PROVE strs[i] = "" /\ Lives[i] = ""
BY DEF FreeId, Lives

\* A new long string.
LEMMA LongOrders ==
    ASSUME StringsConstants, NEW table, NEW count, NEW texts, NEW long,
           Ordered(table, count, texts, long), NEW i \in Ids, texts[i] = "", NEW text \in LongTexts
    PROVE  Ordered(table, count, [texts EXCEPT ![i] = text], [long EXCEPT ![i] = TRUE])
<1> DEFINE after == [texts EXCEPT ![i] = text]
           lengths == [long EXCEPT ![i] = TRUE]
           S == Shorts(texts, long)
<1>1. /\ StringTypes(texts, long) /\ TextsFit(texts, long) /\ AllDiffer(texts, long)
      /\ TableIs(table, texts, S) /\ count = Cardinality(S)
  BY DEF Ordered
<1>2. /\ after[i] = text /\ lengths[i] = TRUE
      /\ \A j \in Ids : j # i => after[j] = texts[j] /\ lengths[j] = long[j]
      /\ StringTypes(after, lengths)
  BY <1>1 DEF StringTypes, AllTexts
<1> HIDE DEF after, lengths
<1>3. Shorts(after, lengths) = S
  BY <1>2 DEF Shorts
<1>4. \A j \in S : after[j] = texts[j]
  BY <1>2 DEF Shorts
<1>5. TextsFit(after, lengths)
  BY <1>1, <1>2 DEF TextsFit
<1>6. AllDiffer(after, lengths)
  <2> HIDE DEF S
  <2> QED
    BY <1>1, <1>3, <1>4 DEF AllDiffer, S
<1>7. TableIs(table, after, S)
  <2> HIDE DEF S
  <2> QED
    BY <1>1, <1>4, SameTable
<1> QED
  BY <1>1, <1>2, <1>3, <1>5, <1>6, <1>7 DEF Ordered, after, lengths

\* A new short string that is neither a constant nor there already.
LEMMA ShortOrders ==
    ASSUME StringsConstants, NEW table, NEW count, NEW texts, NEW long,
           Ordered(table, count, texts, long), NEW i \in Ids, texts[i] = "", NEW text \in ShortTexts,
           ConstOf(text) = {}, \A j \in Shorts(texts, long) : texts[j] # text,
           NEW placed, placed = AtHead(table, text, i)
    PROVE  Ordered(placed, count + 1, [texts EXCEPT ![i] = text], [long EXCEPT ![i] = FALSE])
<1> DEFINE after == [texts EXCEPT ![i] = text]
           lengths == [long EXCEPT ![i] = FALSE]
           S == Shorts(texts, long)
<1>1. /\ StringTypes(texts, long) /\ TextsFit(texts, long) /\ AllDiffer(texts, long)
      /\ TableIs(table, texts, S) /\ count = Cardinality(S)
  BY DEF Ordered
<1>2. /\ after[i] = text /\ lengths[i] = FALSE
      /\ \A j \in Ids : j # i => after[j] = texts[j] /\ lengths[j] = long[j]
      /\ StringTypes(after, lengths)
  BY <1>1 DEF StringTypes, AllTexts
<1> HIDE DEF after, lengths
<1>3. text # "" /\ text \notin LongTexts
  BY DEF StringsConstants
<1>4. i \notin S /\ Shorts(after, lengths) = S \cup {i}
  BY <1>2, <1>3 DEF Shorts
<1>5. \A j \in S : after[j] = texts[j]
  BY <1>2 DEF Shorts
<1>6. TextsFit(after, lengths)
  BY <1>1, <1>2, <1>3 DEF TextsFit
<1>7. AllDiffer(after, lengths)
  <2> HIDE DEF S
  <2>1. (\A j, k \in S : texts[j] = texts[k] => j = k) /\ \A j \in S : ConstOf(texts[j]) = {}
    BY <1>1 DEF AllDiffer, S
  <2>2. \A j \in S : texts[j] # text
    BY DEF S
  <2> QED
    BY <1>2, <1>4, <1>5, <2>1, <2>2 DEF AllDiffer
<1>8. TableIs(placed, after, S \cup {i})
  <2>1. TableIs(table, after, S)
    <3> HIDE DEF S
    <3> QED
      BY <1>1, <1>5, SameTable
  <2> HIDE DEF S
  <2> QED
    <3>1. i \notin S
      BY <1>4
    <3>2. text = after[i]
      BY <1>2
    <3>3. TableIs(table, after, S) /\ StringsConstants /\ text \in ShortTexts
      BY <2>1
    <3> QED
      BY <3>1, <3>2, <3>3, PlacedIs, Zenon
<1>9. count + 1 = Cardinality(S \cup {i})
  <2>1. IsFiniteSet(S)
    BY <1>1, ShortsAreShort DEF Short
  <2> HIDE DEF S
  <2> QED
    BY <1>1, <1>4, <2>1, FS_AddElement
<1> QED
  BY <1>2, <1>4, <1>6, <1>7, <1>8, <1>9 DEF Ordered, after, lengths
\* What a new string finds, whether its allocation collects or not.
TableFound(collects) == IF collects THEN TableSwept(strTable).table ELSE strTable
CountFound(collects) == IF collects THEN TableSwept(strTable).count ELSE strCount
TextsFound(collects) == IF collects THEN Lives ELSE strs

\* Either way the table is in order, with no string that was not there.
LEMMA FoundOrdered ==
    ASSUME StringsConstants, StringsOrdered, NEW collects \in BOOLEAN
    PROVE  /\ Ordered(TableFound(collects), CountFound(collects), TextsFound(collects), isLong)
           /\ HeldExist(TextsFound(collects))
           /\ Shorts(TextsFound(collects), isLong) \subseteq Shorts(strs, isLong)
           /\ \A i \in Shorts(TextsFound(collects), isLong) : TextsFound(collects)[i] = strs[i]
           /\ \A i \in Ids : FreeId(i) => strs[i] = "" /\ TextsFound(collects)[i] = ""
<1>1. \A i \in Ids : FreeId(i) => strs[i] = "" /\ Lives[i] = ""
  BY StaysFree
<1>2. CASE collects
  <2>1. TableFound(collects) = TableSwept(strTable).table /\ CountFound(collects) = TableSwept(strTable).count
        /\ TextsFound(collects) = Lives
    BY <1>2 DEF TableFound, CountFound, TextsFound
  <2>2. \A i \in Shorts(Lives, isLong) : i \in Shorts(strs, isLong) /\ Lives[i] = strs[i]
    BY DEF Shorts, Lives
  <2> QED
    BY <1>1, <2>1, <2>2, CollectOrders
<1>3. CASE ~collects
  <2>1. TableFound(collects) = strTable /\ CountFound(collects) = strCount /\ TextsFound(collects) = strs
    BY <1>3 DEF TableFound, CountFound, TextsFound
  <2> QED
    BY <1>1, <2>1 DEF StringsOrdered
<1> QED
  BY <1>2, <1>3

\* A new handle.
LEMMA HoldKeeps ==
    ASSUME HeldTypes, NEW i \in Ids, Hold(<<"mem", i>>), strFixed' \subseteq strFixed
    PROVE  HeldTypes' /\ KeptStrings' \subseteq KeptStrings \cup {i}
<1>1. <<"mem", i>> \in {"mem"} \X Ids
  OBVIOUS
<1>2. HeldTypes'
  BY <1>1 DEF HeldTypes, Hold, Ids
<1>3. ASSUME NEW j \in KeptStrings', j # i PROVE j \in KeptStrings
  <2>1. j \in Ids /\ (<<"mem", j>> \in strHeld' \/ j \in strFixed')
    BY DEF KeptStrings, Ids
  <2>2. <<"mem", j>> # <<"mem", i>>
    BY <1>3
  <2> QED
    BY <2>1, <2>2 DEF KeptStrings, Hold
<1> QED
  BY <1>2, <1>3

\* Handles come and go, strings and table stay.
LEMMA HandlesKeep ==
    ASSUME StringsOrdered, UNCHANGED <<strTable, strCount, strs, isLong>>, HeldTypes',
           \A i \in Ids : i \in KeptStrings' /\ i \notin KeptStrings => strs[i] # ""
    PROVE  StringsOrdered'
<1>1. strTable' = strTable /\ strCount' = strCount /\ strs' = strs /\ isLong' = isLong
  OBVIOUS
<1>2. Ordered(strTable', strCount', strs', isLong')
  BY <1>1 DEF StringsOrdered
<1>3. KeptStrings' \subseteq Ids
  BY DEF KeptStrings, Ids
<1>4. HeldExist(strs)'
  BY <1>1, <1>3 DEF StringsOrdered, HeldExist
<1> QED
  BY <1>2, <1>4 DEF StringsOrdered

\* A long string takes a free id and no place in the table.
LEMMA NewLongKeeps ==
    ASSUME StringsConstants, StringsOrdered, NEW text \in LongTexts, NEW collects \in BOOLEAN,
           NewLong(text, collects)
    PROVE  StringsOrdered'
<1> DEFINE texts == TextsFound(collects)
<1>1. PICK i \in Ids :
        /\ FreeId(i) /\ Hold(<<"mem", i>>) /\ strFixed' = strFixed
        /\ strs' = [texts EXCEPT ![i] = text] /\ isLong' = [isLong EXCEPT ![i] = TRUE]
        /\ strTable' = TableFound(collects) /\ strCount' = CountFound(collects)
  BY DEF NewLong, TextsFound, TableFound, CountFound
<1> HIDE DEF texts
<1>2. Ordered(TableFound(collects), CountFound(collects), texts, isLong) /\ HeldExist(texts) /\ texts[i] = ""
  BY <1>1, FoundOrdered DEF texts
<1>3. Ordered(strTable', strCount', strs', isLong')
  BY <1>1, <1>2, LongOrders
<1>4. texts \in [Ids -> AllTexts] /\ text # ""
  BY <1>2 DEF Ordered, StringTypes, StringsConstants
<1>5. strs'[i] # "" /\ \A j \in Ids : j # i => strs'[j] = texts[j]
  BY <1>1, <1>4
<1>6. HeldTypes' /\ KeptStrings' \subseteq KeptStrings \cup {i}
  BY <1>1, HoldKeeps DEF StringsOrdered
<1>7. \A j \in KeptStrings' : strs'[j] # ""
  BY <1>2, <1>5, <1>6 DEF HeldExist, KeptStrings
<1> QED
  BY <1>3, <1>6, <1>7 DEF StringsOrdered, HeldExist

\* A new short string goes to its bucket of the table, resized or not: no
\* other string has its text, or it would have been found.
LEMMA NewShortKeeps ==
    ASSUME StringsConstants, StringsOrdered, NEW text \in ShortTexts, NEW collects \in BOOLEAN,
           NewShort(text, collects, FALSE)
    PROVE  StringsOrdered'
<1> DEFINE texts == TextsFound(collects)
           table == TableFound(collects)
           count == CountFound(collects)
           grows == count + 1 > Len(table) * LoadFactor
<1>1. PICK i \in Ids :
        LET before == IF collects THEN TableSwept(strTable)
                      ELSE [table |-> strTable, count |-> strCount]
            placed == [before.table EXCEPT ![Bucket(text, Len(before.table))] = <<i>> \o @]
            after == [(IF collects THEN Lives ELSE strs) EXCEPT ![i] = text]
            grown == before.count + 1 > Len(placed) * LoadFactor
        IN  /\ FreeId(i) /\ ConstOf(text) = {}
            /\ \A s \in Range(strTable[Bucket(text, Len(strTable))]) : strs[s] # text
            /\ strTable' = IF grown THEN Resized(placed, 2 * Len(placed), after) ELSE placed
            /\ strCount' = before.count + 1
            /\ strs' = after /\ isLong' = [isLong EXCEPT ![i] = FALSE]
            /\ Hold(<<"mem", i>>) /\ strFixed' = strFixed \ {i}
  BY DEF NewShort
<1> DEFINE placed == AtHead(table, text, i)
           after == [texts EXCEPT ![i] = text]
           grown == count + 1 > Len(placed) * LoadFactor
<1>2. /\ FreeId(i) /\ ConstOf(text) = {}
      /\ \A s \in Range(strTable[Bucket(text, Len(strTable))]) : strs[s] # text
      /\ strTable' = IF grown THEN Resized(placed, 2 * Len(placed), after) ELSE placed
      /\ strCount' = count + 1
      /\ strs' = after /\ isLong' = [isLong EXCEPT ![i] = FALSE]
      /\ Hold(<<"mem", i>>) /\ strFixed' = strFixed \ {i}
  <2>1. CASE collects
    BY <1>1, <2>1 DEF AtHead, Into, TextsFound, TableFound, CountFound
  <2>2. CASE ~collects
    BY <1>1, <2>2 DEF AtHead, Into, TextsFound, TableFound, CountFound
  <2> QED
    BY <2>1, <2>2
<1> HIDE DEF texts, table, count, placed, after, grown
<1>3. /\ Ordered(table, count, texts, isLong) /\ HeldExist(texts) /\ texts[i] = ""
      /\ \A j \in Shorts(texts, isLong) : j \in Shorts(strs, isLong) /\ texts[j] = strs[j]
  BY <1>2, FoundOrdered DEF texts, table, count
<1>4. \A j \in Shorts(texts, isLong) : texts[j] # text
  <2> SUFFICES ASSUME NEW j \in Shorts(strs, isLong), strs[j] = text PROVE FALSE
    BY <1>3
  <2>1. TableIs(strTable, strs, Shorts(strs, isLong))
    BY DEF StringsOrdered, Ordered
  <2>2. Len(strTable) \in Nat /\ Len(strTable) # 0
    BY <2>1, LenProperties DEF TableIs
  <2>3. Bucket(text, Len(strTable)) \in 1 .. Len(strTable)
    BY <2>2, BucketIs
  <2>4. j \in Range(strTable[Bucket(text, Len(strTable))])
    BY <2>1, <2>3 DEF TableIs
  <2> QED
    BY <1>2, <2>4
<1>5. Ordered(placed, count + 1, after, isLong') /\ Len(placed) \in Nat \ {0}
  <2>1. placed = AtHead(table, text, i)
    BY DEF placed
  <2>2. Ordered(placed, count + 1, [texts EXCEPT ![i] = text], [isLong EXCEPT ![i] = FALSE])
    BY <1>2, <1>3, <1>4, <2>1, ShortOrders
  <2>3. Ordered(placed, count + 1, after, isLong')
    BY <1>2, <2>2 DEF after
  <2>4. Len(placed) \in Nat \ {0}
    BY <2>3, LenProperties DEF Ordered, TableIs
  <2> QED
    BY <2>3, <2>4
<1>6. Ordered(strTable', strCount', strs', isLong')
  <2>1. CASE ~grown
    BY <1>2, <1>5, <2>1
  <2>2. CASE grown
    <3> DEFINE S == Shorts(after, isLong')
    <3>1. 2 * Len(placed) \in Nat /\ 2 * Len(placed) # 0
      BY <1>5
    <3>2. TableIs(placed, after, S) /\ Short(after, S)
      BY <1>5, ShortsAreShort DEF Ordered
    <3>3. TableIs(Resized(placed, 2 * Len(placed), after), after, S)
      <4> HIDE DEF S
      <4> QED
        BY <3>1, <3>2, ResizedIs
    <3> QED
      BY <1>2, <1>5, <2>2, <3>3 DEF Ordered
  <2> QED
    BY <2>1, <2>2
<1>7. texts \in [Ids -> AllTexts] /\ text # ""
  BY <1>3 DEF Ordered, StringTypes, StringsConstants
<1>8. strs'[i] # "" /\ \A j \in Ids : j # i => strs'[j] = texts[j]
  BY <1>2, <1>7 DEF after
<1>9. HeldTypes' /\ KeptStrings' \subseteq KeptStrings \cup {i}
  BY <1>2, HoldKeeps DEF StringsOrdered
<1>10. \A j \in KeptStrings' : strs'[j] # ""
  BY <1>3, <1>8, <1>9 DEF HeldExist, KeptStrings
<1> QED
  BY <1>6, <1>9, <1>10 DEF StringsOrdered, HeldExist

\* A string that is found, in the table or among the constants, is held.
LEMMA FoundKeeps ==
    ASSUME StringsConstants, StringsOrdered, NEW text \in ShortTexts, Found(text)
    PROVE  StringsOrdered'
<1>0. UNCHANGED <<strTable, strCount, strs, isLong>> /\ strFixed' = strFixed
  BY DEF Found
<1>1. CASE \E c \in ConstOf(text) : Hold(<<"const", c>>)
  <2>1. PICK c \in Consts : Hold(<<"const", c>>)
    BY <1>1 DEF ConstOf
  <2>2. <<"const", c>> \in {"const"} \X Consts /\ \A i : <<"mem", i>> # <<"const", c>>
    OBVIOUS
  <2>3. HeldTypes' /\ KeptStrings' \subseteq KeptStrings
    BY <1>0, <2>1, <2>2 DEF StringsOrdered, HeldTypes, Hold, KeptStrings, Ids
  <2> QED
    BY <1>0, <2>3, HandlesKeep
<1>2. CASE \E i \in Range(strTable[Bucket(text, Len(strTable))]) : strs[i] = text /\ Hold(<<"mem", i>>)
  <2>1. PICK i \in Range(strTable[Bucket(text, Len(strTable))]) : strs[i] = text /\ Hold(<<"mem", i>>)
    BY <1>2
  <2>2. i \in Ids
    <3>1. TableIs(strTable, strs, Shorts(strs, isLong))
      BY DEF StringsOrdered, Ordered
    <3>2. Len(strTable) \in Nat /\ Len(strTable) # 0
      BY <3>1, LenProperties DEF TableIs
    <3>3. Bucket(text, Len(strTable)) \in 1 .. Len(strTable)
      BY <3>2, BucketIs
    <3> QED
      BY <3>1, <3>3 DEF TableIs, Shorts
  <2>3. HeldTypes' /\ KeptStrings' \subseteq KeptStrings \cup {i}
    BY <1>0, <2>1, <2>2, HoldKeeps DEF StringsOrdered
  <2>4. strs[i] # ""
    BY <2>1 DEF StringsConstants
  <2> QED
    BY <1>0, <2>3, <2>4, HandlesKeep
<1> QED
  BY <1>1, <1>2 DEF Found

\* Constants loaded, handles let go, strings fixed, a sweep by itself.
LEMMA OthersKeep ==
    ASSUME StringsConstants, StringsOrdered,
           \/ \E c \in Consts : LoadConst(c)
           \/ \E h \in strHeld : LetGo(h)
           \/ \E i \in Ids : FixString(i)
           \/ CollectStrings
    PROVE  StringsOrdered'
<1>0. HeldTypes
  BY DEF StringsOrdered
<1>1. CASE \E c \in Consts : LoadConst(c)
  <2>1. PICK c \in Consts : LoadConst(c)
    BY <1>1
  <2>2. <<"const", c>> \in {"const"} \X Consts /\ \A i : <<"mem", i>> # <<"const", c>>
    OBVIOUS
  <2>3. HeldTypes' /\ KeptStrings' \subseteq KeptStrings
    BY <1>0, <2>1, <2>2 DEF LoadConst, HeldTypes, Hold, KeptStrings, Ids
  <2> QED
    BY <2>1, <2>3, HandlesKeep DEF LoadConst
<1>2. CASE \E h \in strHeld : LetGo(h)
  <2>1. PICK h \in strHeld : LetGo(h)
    BY <1>2
  <2>2. HeldTypes' /\ KeptStrings' \subseteq KeptStrings
    BY <1>0, <2>1 DEF LetGo, HeldTypes, KeptStrings, Ids
  <2> QED
    BY <2>1, <2>2, HandlesKeep DEF LetGo
<1>3. CASE \E i \in Ids : FixString(i)
  <2>1. PICK i \in Ids : FixString(i)
    BY <1>3
  <2>2. strFixed' \subseteq {i} /\ <<"mem", i>> \in strHeld /\ strHeld' = strHeld
    BY <2>1 DEF FixString
  <2>3. HeldTypes' /\ KeptStrings' \subseteq KeptStrings
    BY <1>0, <2>2 DEF HeldTypes, KeptStrings, Ids
  <2> QED
    BY <2>1, <2>3, HandlesKeep DEF FixString
<1>4. CASE CollectStrings
  <2>1. /\ strTable' = TableSwept(strTable).table /\ strCount' = TableSwept(strTable).count
        /\ strs' = Lives /\ isLong' = isLong /\ strHeld' = strHeld /\ strFixed' = strFixed
    BY <1>4 DEF CollectStrings
  <2>2. Ordered(strTable', strCount', strs', isLong') /\ HeldExist(Lives)
    BY <2>1, CollectOrders
  <2>3. HeldTypes' /\ KeptStrings' = KeptStrings
    BY <1>0, <2>1 DEF HeldTypes, KeptStrings, Ids
  <2> QED
    BY <2>1, <2>2, <2>3 DEF StringsOrdered, HeldExist
<1> QED
  BY <1>1, <1>2, <1>3, <1>4

\* Every step keeps the strings in order, until one goes astray.
LEMMA StringsKept ==
    ASSUME StringsConstants, StringsInv, [StringsNext]_strVars PROVE StringsInv'
<1>1. CASE StringsNext
  <2> SUFFICES ASSUME ~astray' PROVE StringsOrdered'
    BY DEF StringsInv
  <2>1. StringsOrdered
    BY <1>1 DEF StringsInv, StringsNext
  <2>2. CASE \E text \in ShortTexts : Found(text)
    BY <2>1, <2>2, FoundKeeps
  <2>3. CASE \E text \in ShortTexts, collects, tight \in BOOLEAN : NewShort(text, collects, tight)
    <3>1. PICK text \in ShortTexts, collects \in BOOLEAN, tight \in BOOLEAN :
            NewShort(text, collects, tight)
      BY <2>3
    <3>2. tight = FALSE
      BY <3>1 DEF NewShort
    <3> QED
      BY <2>1, <3>1, <3>2, NewShortKeeps
  <2>4. CASE \E text \in LongTexts, collects \in BOOLEAN : NewLong(text, collects)
    BY <2>1, <2>4, NewLongKeeps
  <2>5. ASSUME ~\E text \in ShortTexts : Found(text),
               ~\E text \in ShortTexts, collects, tight \in BOOLEAN : NewShort(text, collects, tight),
               ~\E text \in LongTexts, collects \in BOOLEAN : NewLong(text, collects)
        PROVE  StringsOrdered'
    BY <1>1, <2>1, <2>5, OthersKeep DEF StringsNext
  <2> QED
    BY <2>2, <2>3, <2>4, <2>5
<1>2. CASE UNCHANGED strVars
  <2>1. KeptStrings' = KeptStrings /\ (HeldTypes => HeldTypes')
    BY <1>2 DEF strVars, KeptStrings, HeldTypes, Ids
  <2>2. StringsOrdered => StringsOrdered'
    BY <1>2, <2>1, HandlesKeep DEF strVars, StringsOrdered
  <2> QED
    BY <1>2, <2>2 DEF StringsInv, strVars
<1> QED
  BY <1>1, <1>2

\* The empty table is in order.
LEMMA StringsStart ==
    ASSUME StringsConstants, StringsInit PROVE StringsInv
<1>1. /\ strTable = [i \in 1 .. MinTable |-> <<>>] /\ strCount = 0
      /\ strs = [i \in Ids |-> ""] /\ isLong = [i \in Ids |-> FALSE]
      /\ strHeld = {} /\ strFixed = {}
  BY DEF StringsInit
<1>2. Shorts(strs, isLong) = {} /\ \A i \in Ids : strs[i] = ""
  BY <1>1 DEF Shorts
<1>3. StringTypes(strs, isLong) /\ TextsFit(strs, isLong) /\ AllDiffer(strs, isLong)
  BY <1>1, <1>2 DEF StringTypes, TextsFit, AllDiffer, AllTexts
<1>4. HeldTypes /\ HeldExist(strs)
  BY <1>1 DEF HeldTypes, HeldExist, KeptStrings
<1>5. MinTable \in Nat \ {0}
  BY Zenon DEF StringsConstants
<1>6. TableIs(strTable, strs, {})
  <2>1. PICK e : e = <<>>
    OBVIOUS
  <2>2. e \in Seq({}) /\ IsInjective(e) /\ Range(e) = {}
    BY <2>1 DEF IsInjective, Range
  <2>3. strTable \in [1 .. MinTable -> Seq({})] /\ \A b \in 1 .. MinTable : strTable[b] = e
    BY <1>1, <2>1, <2>2
  <2>4. strTable \in Seq(Seq({})) /\ Len(strTable) = MinTable
    BY <1>5, <2>3, IsASeq, LenProperties
  <2> QED
    BY <1>5, <2>2, <2>3, <2>4 DEF TableIs
<1>7. strCount = Cardinality({})
  BY <1>1, FS_EmptySet
<1> QED
  BY <1>2, <1>3, <1>4, <1>6, <1>7 DEF StringsInv, StringsOrdered, Ordered

\* What comparisons say, and the table.
LEMMA OrderedAnswers ==
    ASSUME StringsConstants, StringsInv PROVE EqualMeansSameText /\ TableInOrder
<1> SUFFICES ASSUME ~astray PROVE EqualMeansSameText /\ TableInOrder
  BY DEF EqualMeansSameText, TableInOrder
<1> DEFINE S == Shorts(strs, isLong)
<1>1. /\ StringTypes(strs, isLong) /\ TextsFit(strs, isLong) /\ AllDiffer(strs, isLong)
      /\ TableIs(strTable, strs, S) /\ strCount = Cardinality(S) /\ HeldTypes /\ HeldExist(strs)
  BY DEF StringsInv, StringsOrdered, Ordered
<1>2. TableInOrder
  <2>1. Short(strs, S)
    BY <1>1, ShortsAreShort
  <2> DEFINE all == FlattenSeq(strTable)
  <2>2. all \in Seq(S) /\ IsInjective(all) /\ Range(all) = S /\ Len(all) = Cardinality(S)
    <3> HIDE DEF S
    <3> QED
      BY <1>1, <2>1, AllStrings
  <2>3. \A i, j \in DOMAIN all : all[i] = all[j] => i = j
    BY <2>2 DEF IsInjective
  <2>4. Range(all) = {i \in Ids : strs[i] # "" /\ ~isLong[i]}
    BY <2>2 DEF Shorts
  <2>5. \A b \in DOMAIN strTable : \A i \in Range(strTable[b]) : Bucket(strs[i], Len(strTable)) = b
    <3>1. DOMAIN strTable = 1 .. Len(strTable)
      BY <1>1, LenProperties DEF TableIs
    <3> QED
      BY <1>1, <3>1 DEF TableIs
  <2>6. \A i \in Ids : <<"mem", i>> \in strHeld \/ i \in strFixed => strs[i] # ""
    BY <1>1 DEF HeldExist, KeptStrings
  <2> HIDE DEF all
  <2> QED
    BY <1>1, <2>2, <2>3, <2>4, <2>5, <2>6 DEF TableInOrder, all
<1>3. EqualMeansSameText
  <2> SUFFICES ASSUME NEW a \in strHeld, NEW b \in strHeld, NEW junk \in {0} \cup Range(Hash)
               PROVE  EqStr(a, b, junk) <=> TextOf(a) = TextOf(b)
    BY DEF EqualMeansSameText
  <2> DEFINE Mem(h) == \E i \in Ids : h = <<"mem", i>> /\ TextOf(h) = strs[i] /\ strs[i] # ""
             Const(h) == \E c \in Consts : h = <<"const", c>> /\ TextOf(h) = c.text
  <2>1. ASSUME NEW h \in strHeld PROVE Mem(h) \/ Const(h)
    <3>1. h \in {"mem"} \X Ids \/ h \in {"const"} \X Consts
      BY <1>1 DEF HeldTypes
    <3>2. CASE h \in {"mem"} \X Ids
      <4>1. PICK i \in Ids : h = <<"mem", i>>
        BY <3>2
      <4>2. h[1] = "mem" /\ h[2] = i
        BY <4>1
      <4>3. strs[i] # ""
        BY <1>1, <4>1 DEF HeldExist, KeptStrings
      <4> QED
        BY <4>1, <4>2, <4>3 DEF TextOf
    <3>3. CASE h \in {"const"} \X Consts
      <4>1. PICK c \in Consts : h = <<"const", c>>
        BY <3>3
      <4>2. h[1] = "const" /\ h[2] = c
        BY <4>1
      <4> QED
        BY <4>1, <4>2 DEF TextOf
    <3> QED
      BY <3>1, <3>2, <3>3
  <2>2. EqStr(a, b, junk) => TextOf(a) = TextOf(b)
    BY DEF EqStr, EqConst
  <2>3. ASSUME TextOf(a) = TextOf(b) PROVE EqStr(a, b, junk)
    <3>1. CASE TextOf(a) \in LongTexts
      BY <2>3, <3>1 DEF EqStr, IsLong
    <3>2. CASE TextOf(a) \notin LongTexts
      <4>0. IsLong(a) = FALSE /\ IsLong(b) = FALSE
        BY <2>3, <3>2 DEF IsLong
      <4>1. CASE Mem(a) /\ Mem(b)
        <5>1. PICK i \in Ids : a = <<"mem", i>> /\ TextOf(a) = strs[i] /\ strs[i] # ""
          BY <4>1
        <5>2. PICK j \in Ids : b = <<"mem", j>> /\ TextOf(b) = strs[j] /\ strs[j] # ""
          BY <4>1
        <5>3. i \in S /\ j \in S
          BY <1>1, <2>3, <3>2, <5>1, <5>2 DEF Shorts, TextsFit
        <5>4. i = j
          BY <1>1, <2>3, <5>1, <5>2, <5>3 DEF AllDiffer
        <5> QED
          BY <5>1, <5>2, <5>4 DEF EqStr
      <4>2. ASSUME NEW x \in strHeld, NEW y \in strHeld, Mem(x), Const(y), TextOf(x) = TextOf(y),
                   TextOf(x) \notin LongTexts
            PROVE  y[1] = "const" /\ HashField(y, junk) = 0
        <5>1. PICK i \in Ids : TextOf(x) = strs[i] /\ strs[i] # ""
          BY <4>2
        <5>2. PICK c \in Consts : y = <<"const", c>> /\ TextOf(y) = c.text
          BY <4>2
        <5>3. i \in S
          BY <1>1, <4>2, <5>1 DEF Shorts, TextsFit
        <5>4. ConstOf(strs[i]) = {}
          BY <1>1, <5>3 DEF AllDiffer
        <5>5. ~c.table
          BY <4>2, <5>1, <5>2, <5>4 DEF ConstOf
        <5>6. c.hash = 0
          BY <5>5 DEF StringsConstants
        <5>7. y[1] = "const" /\ y[2] = c
          BY <5>2
        <5> QED
          BY <5>6, <5>7 DEF HashField
      <4>3. CASE Const(a) /\ Const(b)
        <5>1. PICK c \in Consts : a = <<"const", c>> /\ TextOf(a) = c.text
          BY <4>3
        <5>2. PICK d \in Consts : b = <<"const", d>> /\ TextOf(b) = d.text
          BY <4>3
        <5>3. a[1] = "const" /\ a[2] = c /\ b[1] = "const" /\ b[2] = d
          BY <5>1, <5>2
        <5>4. c.hash # 0 /\ d.hash # 0 => c.hash = d.hash
          BY <2>3, <5>1, <5>2 DEF StringsConstants
        <5>5. EqConst(a, b, junk)
          BY <2>3, <5>3, <5>4 DEF EqConst, HashField
        <5> QED
          BY <4>0, <5>3, <5>5 DEF EqStr
      <4>4. CASE Mem(a) /\ Const(b)
        BY <2>3, <3>2, <4>0, <4>2, <4>4 DEF EqStr, EqConst
      <4>5. CASE Const(a) /\ Mem(b)
        BY <2>3, <3>2, <4>0, <4>2, <4>5 DEF EqStr, EqConst
      <4> QED
        BY <2>1, <4>1, <4>3, <4>4, <4>5
    <3> QED
      BY <3>1, <3>2
  <2> QED
    BY <2>2, <2>3
<1> QED
  BY <1>2, <1>3

\* For any texts, hashes and constants: equal to the interpreter is equal as texts,
\* and every short string is in the table once, in the list of its hash.
THEOREM StringsCorrect ==
    ASSUME StringsConstants PROVE StringsSpec => [](EqualMeansSameText /\ TableInOrder)
<1>1. StringsInit => StringsInv
  BY StringsStart
<1>2. StringsInv /\ [StringsNext]_strVars => StringsInv'
  BY StringsKept
<1>3. StringsInv => EqualMeansSameText /\ TableInOrder
  BY OrderedAnswers
<1> QED
  BY <1>1, <1>2, <1>3, PTL DEF StringsSpec

-----------------------------------------------------------------------------
(* The memory: lists of pools.                                             *)

Pool(slots) == [id : Nat, bitmap : SUBSET (0 .. slots - 1)]
IdsDiffer(pools) == \A i, j \in 1 .. Len(pools) : pools[i].id = pools[j].id => i = j
PoolList(slots) == {pools \in Seq(Pool(slots)) : IdsDiffer(pools)}

\* A slot is taken if it is not free in its pool.
LEMMA Taken ==
    ASSUME NEW slots, NEW pools \in PoolList(slots)
    PROVE  /\ UsedSlots(pools, slots) \subseteq Nat \X (0 .. slots - 1)
           /\ \A id, s : <<id, s>> \in UsedSlots(pools, slots) <=>
                \E i \in 1 .. Len(pools) :
                    id = pools[i].id /\ s \in (0 .. slots - 1) \ pools[i].bitmap
<1>1. /\ DOMAIN pools = 1 .. Len(pools)
      /\ \A i \in 1 .. Len(pools) : pools[i] \in Pool(slots)
  BY LenProperties, ElementOfSeq DEF PoolList
<1>2. \A i \in 1 .. Len(pools) : pools[i].id \in Nat
  BY <1>1 DEF Pool
<1> QED
  BY <1>1, <1>2 DEF UsedSlots

\* Slots that are given back are taken no more.
LEMMA GivenBackIs ==
    ASSUME NEW slots, NEW pools \in PoolList(slots), NEW U,
           \A b \in U : <<held[b].at[2], held[b].at[3]>> \in UsedSlots(pools, slots)
    PROVE  /\ GivenBack(pools, U) \in PoolList(slots)
           /\ UsedSlots(GivenBack(pools, U), slots) =
                UsedSlots(pools, slots) \ {<<held[b].at[2], held[b].at[3]>> : b \in U}
<1> DEFINE given(i) == {held[b].at[3] : b \in {c \in U : held[c].at[2] = pools[i].id}}
           after == GivenBack(pools, U)
           n == Len(pools)
<1>1. /\ DOMAIN pools = 1 .. n /\ n \in Nat
      /\ \A i \in 1 .. n : pools[i] \in Pool(slots)
      /\ IdsDiffer(pools)
  BY LenProperties, ElementOfSeq DEF PoolList
<1>2. ASSUME NEW i \in 1 .. n
      PROVE  given(i) \subseteq (0 .. slots - 1)
  BY Taken, ZenonT(30)
<1>3. ASSUME NEW i \in 1 .. n
      PROVE  /\ after[i].id = pools[i].id /\ after[i].bitmap = pools[i].bitmap \cup given(i)
             /\ after[i] \in Pool(slots)
  <2>1. after[i] = [pools[i] EXCEPT !.bitmap = @ \cup given(i)]
    BY <1>1 DEF GivenBack
  <2> HIDE DEF given, after
  <2> QED
    BY <1>1, <1>2, <2>1 DEF Pool
<1>4. after \in Seq(Pool(slots)) /\ Len(after) = n /\ DOMAIN after = 1 .. n
  <2>1. after = [i \in 1 .. n |-> [pools[i] EXCEPT !.bitmap = @ \cup given(i)]]
    BY <1>1 DEF GivenBack
  <2> HIDE DEF given
  <2>2. after \in [1 .. n -> Pool(slots)]
    <3> HIDE DEF after
    <3> QED
      BY <1>3, <2>1
  <2> HIDE DEF after
  <2> QED
    BY <1>1, <2>2
<1> HIDE DEF given, after
<1>5. IdsDiffer(after)
  BY <1>1, <1>3, <1>4 DEF IdsDiffer, n
<1>6. after \in PoolList(slots)
  BY <1>4, <1>5 DEF PoolList
<1>7. UsedSlots(after, slots) \subseteq UsedSlots(pools, slots)
  <2> SUFFICES ASSUME NEW id \in Nat, NEW s \in 0 .. slots - 1, <<id, s>> \in UsedSlots(after, slots)
               PROVE  <<id, s>> \in UsedSlots(pools, slots)
    BY <1>6, Taken
  <2>1. PICK i \in 1 .. n : id = after[i].id /\ s \in (0 .. slots - 1) \ after[i].bitmap
    BY <1>4, <1>6, Taken
  <2>2. id = pools[i].id /\ s \in (0 .. slots - 1) \ pools[i].bitmap
    BY <1>3, <2>1
  <2> QED
    BY <2>2, Taken DEF n
<1>8. ASSUME NEW id, NEW s, <<id, s>> \in UsedSlots(pools, slots)
      PROVE  <<id, s>> \in UsedSlots(after, slots) <=>
                 \A b \in U : ~(held[b].at[2] = id /\ held[b].at[3] = s)
  <2>1. PICK i \in 1 .. n : id = pools[i].id /\ s \in (0 .. slots - 1) \ pools[i].bitmap
    BY <1>8, Taken DEF n
  <2>2. <<id, s>> \in UsedSlots(after, slots) <=> s \notin given(i)
    <3>1. \A j \in 1 .. n : id = after[j].id => j = i
      BY <1>1, <1>3, <2>1 DEF IdsDiffer, n
    <3>2. <<id, s>> \in UsedSlots(after, slots) <=> s \in (0 .. slots - 1) \ after[i].bitmap
      <4>1. id = after[i].id
        BY <1>3, <2>1
      <4> QED
        BY <1>4, <1>6, <3>1, <4>1, Taken
    <3> QED
      BY <1>3, <2>1, <3>2
  <2>3. s \in given(i) <=> \E b \in U : held[b].at[2] = id /\ held[b].at[3] = s
    BY <2>1 DEF given
  <2> QED
    BY <2>2, <2>3
<1>9. \A x \in UsedSlots(pools, slots) : x = <<x[1], x[2]>>
  BY Taken
<1>10. UsedSlots(after, slots) =
         UsedSlots(pools, slots) \ {<<held[b].at[2], held[b].at[3]>> : b \in U}
  <2>1. ASSUME NEW x \in UsedSlots(pools, slots)
        PROVE  x \in UsedSlots(after, slots) <=>
                 x \notin {<<held[b].at[2], held[b].at[3]>> : b \in U}
    <3>1. PICK id, s : x = <<id, s>>
      BY <1>9
    <3>2. x \in UsedSlots(after, slots) <=>
             \A b \in U : ~(held[b].at[2] = id /\ held[b].at[3] = s)
      BY <1>8, <3>1
    <3>3. x \in {<<held[b].at[2], held[b].at[3]>> : b \in U} <=>
             \E b \in U : held[b].at[2] = id /\ held[b].at[3] = s
      BY <3>1
    <3> QED
      BY <3>2, <3>3
  <2> QED
    BY <1>7, <2>1
<1> QED
  BY <1>6, <1>10 DEF after


\* What two lists of pools hold, compared slot by slot.
LEMMA SameSlots ==
    ASSUME NEW S \in SUBSET (Nat \X Nat), NEW T \in SUBSET (Nat \X Nat),
           \A id, s \in Nat : <<id, s>> \in S <=> <<id, s>> \in T
    PROVE  S = T
OBVIOUS

\* One slot less is free; one pool more, with one slot taken.
OneTaken(pools, i, s) ==
    [pools EXCEPT ![i] = [id |-> pools[i].id, bitmap |-> pools[i].bitmap \ {s}]]
OneMore(pools, id, slots) == <<[id |-> id, bitmap |-> 1 .. slots - 1]>> \o pools

\* A free slot is taken.
LEMMA TakenFrom ==
    ASSUME NEW slots \in Nat, NEW pools \in PoolList(slots), NEW i \in 1 .. Len(pools),
           NEW s \in pools[i].bitmap
    PROVE  LET after == OneTaken(pools, i, s)
           IN
           /\ after \in PoolList(slots)
           /\ <<pools[i].id, s>> \in Nat \X Nat
           /\ <<pools[i].id, s>> \notin UsedSlots(pools, slots)
           /\ UsedSlots(after, slots) = UsedSlots(pools, slots) \cup {<<pools[i].id, s>>}
<1> DEFINE n == Len(pools)
           after == OneTaken(pools, i, s)
<1>1. /\ DOMAIN pools = 1 .. n /\ n \in Nat
      /\ \A j \in 1 .. n : pools[j] \in Pool(slots)
      /\ IdsDiffer(pools) /\ pools \in Seq(Pool(slots))
  BY LenProperties, ElementOfSeq DEF PoolList
<1>2. s \in 0 .. slots - 1 /\ pools[i].id \in Nat /\ s \in Nat
  BY <1>1 DEF Pool
<1>3. ASSUME NEW j \in 1 .. n
      PROVE  /\ after[j].id = pools[j].id
             /\ after[j].bitmap = IF j = i THEN pools[j].bitmap \ {s} ELSE pools[j].bitmap
             /\ after[j] \in Pool(slots)
  <2>1. CASE j = i
    <3>1. /\ after[i] = [id |-> pools[i].id, bitmap |-> pools[i].bitmap \ {s}]
          /\ pools[i] \in Pool(slots)
      BY <1>1 DEF OneTaken
    <3>2. after[i].id = pools[i].id /\ after[i].bitmap = pools[i].bitmap \ {s}
      BY <3>1 DEF Pool
    <3> QED
      BY <2>1, <3>1, <3>2 DEF Pool
  <2>2. CASE j # i
    BY <1>1, <2>2 DEF OneTaken
  <2> QED
    BY <2>1, <2>2
<1>4. after \in Seq(Pool(slots)) /\ Len(after) = n
  <2>1. after \in [1 .. n -> Pool(slots)]
    BY <1>1, <1>3 DEF OneTaken
  <2> HIDE DEF n
  <2> QED
    BY <1>1, <2>1
<1> HIDE DEF after
<1>5. after \in PoolList(slots)
  BY <1>1, <1>3, <1>4 DEF PoolList, IdsDiffer
<1>6. ASSUME NEW id, NEW t
      PROVE  <<id, t>> \in UsedSlots(after, slots) <=>
                 <<id, t>> \in UsedSlots(pools, slots) \/ (id = pools[i].id /\ t = s)
  <2>1. <<id, t>> \in UsedSlots(after, slots) <=>
          \E j \in 1 .. n : id = pools[j].id /\ t \in (0 .. slots - 1) \ after[j].bitmap
    <3>1. <<id, t>> \in UsedSlots(after, slots) <=>
            \E j \in 1 .. Len(after) : id = after[j].id /\ t \in (0 .. slots - 1) \ after[j].bitmap
      BY <1>5, Taken
    <3> QED
      BY <1>3, <1>4, <3>1
  <2>2. <<id, t>> \in UsedSlots(pools, slots) <=>
          \E j \in 1 .. n : id = pools[j].id /\ t \in (0 .. slots - 1) \ pools[j].bitmap
    BY Taken
  <2> HIDE DEF n
  <2> QED
    BY <1>2, <1>3, <2>1, <2>2 DEF n
<1>7. <<pools[i].id, s>> \notin UsedSlots(pools, slots)
  BY <1>1, Taken DEF IdsDiffer
<1>8. UsedSlots(after, slots) = UsedSlots(pools, slots) \cup {<<pools[i].id, s>>}
  <2>1. /\ UsedSlots(after, slots) \in SUBSET (Nat \X Nat)
        /\ UsedSlots(pools, slots) \cup {<<pools[i].id, s>>} \in SUBSET (Nat \X Nat)
    <3>1. 0 .. slots - 1 \subseteq Nat
      OBVIOUS
    <3>2. UsedSlots(after, slots) \subseteq Nat \X (0 .. slots - 1)
      BY <1>5, Taken
    <3>3. UsedSlots(pools, slots) \subseteq Nat \X (0 .. slots - 1)
      BY Taken
    <3> QED
      BY <1>2, <3>1, <3>2, <3>3
  <2> QED
    BY <1>6, <2>1, SameSlots
<1> QED
  BY <1>2, <1>5, <1>7, <1>8 DEF after

\* A number that no pool has.
LEMMA FreshId ==
    ASSUME NEW slots, NEW pools \in PoolList(slots)
    PROVE  LET id == Min((0 .. Len(pools)) \ {pools[k].id : k \in DOMAIN pools})
           IN  id \in Nat /\ \A k \in 1 .. Len(pools) : pools[k].id # id
<1> DEFINE n == Len(pools)
           ids == {pools[k].id : k \in DOMAIN pools}
           left == (0 .. n) \ ids
<1>1. DOMAIN pools = 1 .. n /\ n \in Nat
  BY LenProperties DEF PoolList
<1>2. IsFiniteSet(1 .. n) /\ Cardinality(1 .. n) = n /\ IsFiniteSet(0 .. n) /\ Cardinality(0 .. n) = n + 1
  <2> HIDE DEF n
  <2>1. IsFiniteSet(1 .. n) /\ Cardinality(1 .. n) = IF 1 > n THEN 0 ELSE n - 1 + 1
    BY <1>1, FS_Interval
  <2>2. IsFiniteSet(0 .. n) /\ Cardinality(0 .. n) = IF 0 > n THEN 0 ELSE n - 0 + 1
    BY <1>1, FS_Interval
  <2> QED
    BY <1>1, <2>1, <2>2
<1>3. IsFiniteSet(ids) /\ Cardinality(ids) <= n /\ Cardinality(ids) \in Nat
  <2> DEFINE f == [k \in 1 .. n |-> pools[k].id]
  <2>1. f \in Surjection(1 .. n, ids)
    BY <1>1 DEF Surjection
  <2> HIDE DEF f, ids
  <2> QED
    BY <1>2, <2>1, FS_Surjection, FS_CardinalityType
<1> HIDE DEF ids
<1>4. left # {} /\ IsFiniteSet(left) /\ left \subseteq Int
  <2>1. ~(0 .. n \subseteq ids)
    <3> SUFFICES ASSUME 0 .. n \subseteq ids PROVE FALSE
      OBVIOUS
    <3>1. n + 1 <= Cardinality(ids)
      BY <1>2, <1>3, FS_Subset
    <3> QED
      BY <1>1, <1>3, <3>1
  <2> QED
    BY <1>1, <1>2, <2>1, FS_Subset
<1> HIDE DEF left
<1>5. Min(left) \in left
  BY <1>4, Extremes
<1>6. Min(left) \in Nat /\ \A k \in 1 .. n : pools[k].id # Min(left)
  <2>1. Min(left) \in 0 .. n /\ Min(left) \notin ids
    BY <1>5 DEF left
  <2> QED
    BY <1>1, <2>1 DEF ids
<1> QED
  BY <1>6 DEF left, ids

\* A new pool at the head, the first slot of which is taken.
LEMMA TakenFromNew ==
    ASSUME NEW slots \in Nat \ {0}, NEW pools \in PoolList(slots), NEW id \in Nat,
           \A k \in 1 .. Len(pools) : pools[k].id # id
    PROVE  LET after == OneMore(pools, id, slots)
           IN
           /\ after \in PoolList(slots)
           /\ <<id, 0>> \in Nat \X Nat /\ <<id, 0>> \notin UsedSlots(pools, slots)
           /\ UsedSlots(after, slots) = UsedSlots(pools, slots) \cup {<<id, 0>>}
<1> DEFINE n == Len(pools)
           after == OneMore(pools, id, slots)
           new == [id |-> id, bitmap |-> 1 .. slots - 1]
<1>1. /\ DOMAIN pools = 1 .. n /\ n \in Nat
      /\ \A j \in 1 .. n : pools[j] \in Pool(slots)
      /\ IdsDiffer(pools) /\ pools \in Seq(Pool(slots))
  BY LenProperties, ElementOfSeq DEF PoolList
<1>2. new \in Pool(slots) /\ new.id = id /\ new.bitmap = 1 .. slots - 1
  <2>1. 1 .. slots - 1 \subseteq 0 .. slots - 1
    OBVIOUS
  <2> QED
    BY <2>1 DEF Pool
<1> HIDE DEF new
<1>3. /\ after \in Seq(Pool(slots)) /\ Len(after) = n + 1
      /\ after[1] = new /\ \A k \in 2 .. n + 1 : after[k] = pools[k - 1]
  <2>1. <<new>> \in Seq(Pool(slots)) /\ Len(<<new>>) = 1 /\ <<new>>[1] = new
    BY <1>2
  <2>2. after = <<new>> \o pools
    BY DEF new, OneMore
  <2> QED
    BY <1>1, <2>1, <2>2, ConcatProperties
<1> HIDE DEF n, after
<1>4. after \in PoolList(slots)
  <2> SUFFICES ASSUME NEW i \in 1 .. n + 1, NEW j \in 1 .. n + 1, after[i].id = after[j].id
               PROVE  i = j
    BY <1>3 DEF PoolList, IdsDiffer
  <2>1. \A k \in 2 .. n + 1 : k - 1 \in 1 .. n /\ after[k].id = pools[k - 1].id /\ after[k].id # id
    <3>1. \A k \in 2 .. n + 1 : k - 1 \in 1 .. n
      BY <1>1
    <3> QED
      BY <1>3, <3>1 DEF n
  <2>2. after[1].id = id
    BY <1>2, <1>3
  <2>3. CASE i # 1 /\ j # 1
    <3>1. i \in 2 .. n + 1 /\ j \in 2 .. n + 1
      BY <1>1, <2>3
    <3>2. i - 1 = j - 1
      BY <1>1, <2>1, <3>1 DEF IdsDiffer, n
    <3> QED
      BY <1>1, <3>2
  <2>4. CASE i = 1 \/ j = 1
    <3>1. \A k \in 1 .. n + 1 : k # 1 => k \in 2 .. n + 1
      BY <1>1
    <3> QED
      BY <2>1, <2>2, <2>4, <3>1
  <2> QED
    BY <2>3, <2>4
<1>5. ASSUME NEW i, NEW t
      PROVE  <<i, t>> \in UsedSlots(after, slots) <=>
                 <<i, t>> \in UsedSlots(pools, slots) \/ (i = id /\ t = 0)
  <2>1. <<i, t>> \in UsedSlots(after, slots) <=>
          \E j \in 1 .. n + 1 : i = after[j].id /\ t \in (0 .. slots - 1) \ after[j].bitmap
    <3>1. <<i, t>> \in UsedSlots(after, slots) <=>
            \E j \in 1 .. Len(after) : i = after[j].id /\ t \in (0 .. slots - 1) \ after[j].bitmap
      BY <1>4, Taken
    <3> QED
      BY <1>3, <3>1
  <2>2. <<i, t>> \in UsedSlots(pools, slots) <=>
          \E j \in 1 .. n : i = pools[j].id /\ t \in (0 .. slots - 1) \ pools[j].bitmap
    BY Taken DEF n
  <2>3. t \in (0 .. slots - 1) \ (1 .. slots - 1) <=> t = 0
    OBVIOUS
  <2>4. (\E j \in 2 .. n + 1 : i = after[j].id /\ t \in (0 .. slots - 1) \ after[j].bitmap) <=>
        (\E j \in 1 .. n : i = pools[j].id /\ t \in (0 .. slots - 1) \ pools[j].bitmap)
    <3>1. \A j \in 1 .. n : j + 1 \in 2 .. n + 1 /\ after[j + 1] = pools[j]
      BY <1>1, <1>3
    <3>2. \A j \in 2 .. n + 1 : j - 1 \in 1 .. n /\ after[j] = pools[j - 1]
      BY <1>1, <1>3
    <3> QED
      BY <3>1, <3>2
  <2>5. 1 .. n + 1 = {1} \cup (2 .. n + 1)
    BY <1>1
  <2> QED
    BY <1>2, <1>3, <2>1, <2>2, <2>3, <2>4, <2>5
<1>6. <<id, 0>> \notin UsedSlots(pools, slots)
  BY Taken
<1>7. UsedSlots(after, slots) = UsedSlots(pools, slots) \cup {<<id, 0>>}
  <2>1. /\ UsedSlots(after, slots) \in SUBSET (Nat \X Nat)
        /\ UsedSlots(pools, slots) \cup {<<id, 0>>} \in SUBSET (Nat \X Nat)
    <3>1. 0 .. slots - 1 \subseteq Nat
      OBVIOUS
    <3> QED
      BY <1>4, <3>1, Taken
  <2> QED
    BY <1>5, <2>1, SameSlots
<1> QED
  BY <1>4, <1>6, <1>7 DEF after


\* Pools go that nothing is taken from.
LEMMA NotEmptyIs ==
    ASSUME NEW slots \in Nat, NEW pools \in PoolList(slots)
    PROVE  /\ NotEmpty(pools, slots) \in PoolList(slots)
           /\ UsedSlots(NotEmpty(pools, slots), slots) = UsedSlots(pools, slots)
<1> DEFINE n == Len(pools)
           V == Seq(Pool(slots))
           Later(q, i) == IF Empty(pools[i], slots) THEN q ELSE Append(q, pools[i])
           step == [x \in V \X (1 .. n) |-> Later(x[1], x[2])]
           KeptBy(f) == f = [i \in 0 .. n |-> IF i = 0 THEN <<>> ELSE Later(f[i - 1], i)]
           f == CHOOSE f : KeptBy(f)
<1>1. /\ DOMAIN pools = 1 .. n /\ n \in Nat
      /\ \A j \in 1 .. n : pools[j] \in Pool(slots)
      /\ IdsDiffer(pools) /\ pools \in V
  BY LenProperties, ElementOfSeq DEF PoolList
<1>2. <<>> \in V /\ Len(<<>>) = 0
  OBVIOUS
<1>3. \A q \in V, i \in 1 .. n : Later(q, i) \in V
  BY <1>1
<1>4. KeptBy(f)
  <2>1. step \in [V \X (1 .. n) -> V]
    <3> HIDE DEF Later, V
    <3> QED
      BY <1>3
  <2> HIDE DEF step
  <2>2. PICK g : IsRecursion(g, V, n, <<>>, step)
    BY <1>1, <1>2, <2>1, RecursionExists
  <2>3. /\ g \in [0 .. n -> V] /\ g[0] = <<>>
        /\ \A i \in 1 .. n : g[i] = step[<<g[i - 1], i>>]
    BY <2>2 DEF IsRecursion
  <2>4. \A i \in 1 .. n : g[i] = Later(g[i - 1], i)
    <3> SUFFICES ASSUME NEW i \in 1 .. n PROVE g[i] = Later(g[i - 1], i)
      OBVIOUS
    <3>1. i - 1 \in 0 .. n
      BY <1>1
    <3>2. <<g[i - 1], i>> \in V \X (1 .. n)
      BY <2>3, <3>1
    <3> HIDE DEF Later, V
    <3> QED
      BY <2>3, <3>2 DEF step
  <2> HIDE DEF Later
  <2>5. KeptBy(g)
    <3>1. \A i \in 0 .. n : i # 0 => i \in 1 .. n
      BY <1>1
    <3> QED
      BY <2>3, <2>4, <3>1
  <2> HIDE DEF KeptBy
  <2> QED
    BY <2>5
<1>5. NotEmpty(pools, slots) = f[n]
  BY DEF NotEmpty
<1> HIDE DEF f
<1>6. f[0] = <<>> /\ \A i \in 1 .. n : f[i] = Later(f[i - 1], i)
  <2> HIDE DEF Later
  <2> QED
    BY <1>1, <1>4
<1> DEFINE Good(q, i) ==
             /\ q \in PoolList(slots) /\ Len(q) <= i
             /\ \A k \in 1 .. Len(q) : \E j \in 1 .. i : q[k] = pools[j]
             /\ \A j \in 1 .. i : Empty(pools[j], slots) \/ \E k \in 1 .. Len(q) : q[k] = pools[j]
           T == {i \in 0 .. n : Good(f[i], i)}
<1>7. 0 \in T
  <2>1. <<>> \in PoolList(slots) /\ Len(<<>>) = 0
    BY <1>2 DEF PoolList, IdsDiffer
  <2>2. Good(<<>>, 0)
    BY <2>1
  <2> HIDE DEF Good
  <2> QED
    BY <1>1, <1>6, <2>2
<1>8. ASSUME NEW i \in 1 .. n, i - 1 \in T PROVE i \in T
  <2> DEFINE q == f[i - 1]
  <2>1. q \in PoolList(slots) /\ Good(q, i - 1) /\ f[i] = Later(q, i) /\ i - 1 \in Nat
    BY <1>1, <1>6, <1>8
  <2> HIDE DEF q
  <2>2. CASE Empty(pools[i], slots)
    <3>1. f[i] = q
      BY <2>1, <2>2
    <3>2. Len(q) \in Nat /\ 1 .. i = (1 .. i - 1) \cup {i}
      BY <2>1, LenProperties DEF PoolList
    <3>3. Len(q) <= i /\ \A k \in 1 .. Len(q) : \E j \in 1 .. i : q[k] = pools[j]
      BY <2>1, <3>2
    <3>4. \A j \in 1 .. i : Empty(pools[j], slots) \/ \E k \in 1 .. Len(q) : q[k] = pools[j]
      BY <2>1, <2>2, <3>2
    <3>5. i \in 0 .. n
      BY <1>1
    <3> QED
      BY <2>1, <3>1, <3>3, <3>4, <3>5
  <2>3. CASE ~Empty(pools[i], slots)
    <3>1. /\ f[i] \in V /\ Len(f[i]) = Len(q) + 1 /\ Len(q) \in Nat
          /\ f[i][Len(q) + 1] = pools[i]
          /\ \A k \in 1 .. Len(q) : f[i][k] = q[k]
      BY <1>1, <2>1, <2>3, AppendProperties, LenProperties DEF PoolList
    <3>2. 1 .. Len(q) + 1 = (1 .. Len(q)) \cup {Len(q) + 1} /\ 1 .. i = (1 .. i - 1) \cup {i}
      BY <1>1, <3>1
    <3>3. \A k \in 1 .. Len(q) : q[k].id # pools[i].id
      <4> SUFFICES ASSUME NEW k \in 1 .. Len(q), q[k].id = pools[i].id PROVE FALSE
        OBVIOUS
      <4>1. PICK j \in 1 .. i - 1 : q[k] = pools[j]
        BY <2>1
      <4>2. j \in 1 .. n /\ j # i
        BY <1>1
      <4> QED
        BY <1>1, <4>1, <4>2 DEF IdsDiffer
    <3>4. IdsDiffer(f[i])
      BY <2>1, <3>1, <3>2, <3>3 DEF IdsDiffer, PoolList
    <3>5. \A k \in 1 .. Len(f[i]) : \E j \in 1 .. i : f[i][k] = pools[j]
      BY <2>1, <3>1, <3>2
    <3>6. \A j \in 1 .. i : Empty(pools[j], slots) \/ \E k \in 1 .. Len(f[i]) : f[i][k] = pools[j]
      <4> SUFFICES ASSUME NEW j \in 1 .. i
                   PROVE  Empty(pools[j], slots) \/ \E k \in 1 .. Len(q) + 1 : f[i][k] = pools[j]
        BY <3>1
      <4>1. CASE j = i
        BY <3>1, <4>1
      <4>2. CASE j \in 1 .. i - 1
        <5>1. Empty(pools[j], slots) \/ \E k \in 1 .. Len(q) : q[k] = pools[j]
          BY <2>1, <4>2
        <5> QED
          BY <3>1, <3>2, <5>1
      <4> QED
        BY <3>2, <4>1, <4>2
    <3>7. f[i] \in PoolList(slots) /\ Len(f[i]) <= i /\ i \in 0 .. n
      BY <1>1, <2>1, <3>1, <3>4 DEF PoolList
    <3> QED
      BY <3>5, <3>6, <3>7
  <2> QED
    BY <2>2, <2>3
<1>9. Good(f[n], n)
  <2> HIDE DEF Good
  <2>1. 0 .. n \subseteq T
    <3> HIDE DEF T
    <3> QED
      BY <1>1, <1>7, <1>8, AlongPositions
  <2> QED
    BY <1>1, <2>1
<1> DEFINE after == f[n]
<1>10. after \in PoolList(slots) /\ Good(after, n)
  BY <1>9
<1> HIDE DEF after, n
<1>11. UsedSlots(after, slots) \subseteq Nat \X Nat /\ UsedSlots(pools, slots) \subseteq Nat \X Nat
  <2>1. 0 .. slots - 1 \subseteq Nat
    OBVIOUS
  <2>2. UsedSlots(after, slots) \subseteq Nat \X (0 .. slots - 1)
    BY <1>10, Taken
  <2>3. UsedSlots(pools, slots) \subseteq Nat \X (0 .. slots - 1)
    BY Taken
  <2> QED
    BY <2>1, <2>2, <2>3
<1>12. ASSUME NEW id \in Nat, NEW s \in Nat
       PROVE  <<id, s>> \in UsedSlots(after, slots) <=> <<id, s>> \in UsedSlots(pools, slots)
  <2>1. <<id, s>> \in UsedSlots(after, slots) <=>
          \E k \in 1 .. Len(after) : id = after[k].id /\ s \in (0 .. slots - 1) \ after[k].bitmap
    BY <1>10, Taken
  <2>2. <<id, s>> \in UsedSlots(pools, slots) <=>
          \E j \in 1 .. n : id = pools[j].id /\ s \in (0 .. slots - 1) \ pools[j].bitmap
    BY Taken DEF n
  <2> QED
    BY <1>10, <2>1, <2>2 DEF Empty
<1>13. UsedSlots(after, slots) = UsedSlots(pools, slots)
  BY <1>11, <1>12, SameSlots
<1> QED
  BY <1>5, <1>10, <1>13 DEF after, n


-----------------------------------------------------------------------------
(* The memory and the blocks in it.                                        *)

Memories == [pool16 : PoolList(POOL16_SLOTS), pool32 : PoolList(POOL32_SLOTS),
             host : [Blocks -> Nat]]

NameOf(class) == IF class = 16 THEN "pool16" ELSE IF class = 32 THEN "pool32" ELSE "host"
IsBlock(x) ==
    /\ x = [at |-> x.at, size |-> x.size]
    /\ x.at = <<NameOf(Class(x.size)), x.at[2], x.at[3]>>
    /\ x.size \in Nat \ {0}
    /\ Class(x.size) = 64 => x.at[2] \in Blocks /\ x.at[3] = 0
SlotOf(x) == <<x.at[2], x.at[3]>>
SlotsOf(H, class) == {SlotOf(x) : x \in {y \in H : Class(y.size) = class}}

\* A memory in which the blocks of a set, and no others, are taken.
HoldsBlocks(m, H) ==
    /\ m \in Memories
    /\ \A x \in H : IsBlock(x)
    /\ \A x, y \in H : x.at = y.at => x = y
    /\ UsedSlots(m.pool16, POOL16_SLOTS) = SlotsOf(H, 16)
    /\ UsedSlots(m.pool32, POOL32_SLOTS) = SlotsOf(H, 32)
    /\ \A x \in H : Class(x.size) = 64 => m.host[x.at[2]] = x.size
    /\ \A b \in Blocks : m.host[b] # 0 => \E x \in H : x.at = <<"host", b, 0>>

\* A slot of a pool, or none.
LEMMA FromPoolIs ==
    ASSUME PoolsConstants, NEW m \in Memories, NEW name \in {"pool16", "pool32"},
           NEW slots \in Nat \ {0}, m[name] \in PoolList(slots)
    PROVE  \/ FromPool(m, name, slots) = Failed(m)
           \/ \E id, s \in Nat, after \in PoolList(slots) :
                /\ FromPool(m, name, slots) =
                      [memory |-> [m EXCEPT ![name] = after], at |-> <<name, id, s>>]
                /\ <<id, s>> \notin UsedSlots(m[name], slots)
                /\ UsedSlots(after, slots) = UsedSlots(m[name], slots) \cup {<<id, s>>}
<1> DEFINE pools == m[name]
           free == {i \in DOMAIN pools : pools[i].bitmap # {}}
           i == Min(free)
           slot == Min(pools[i].bitmap)
           id == Min((0 .. Len(pools)) \ {pools[k].id : k \in DOMAIN pools})
           new == [m EXCEPT ![name] = <<[id |-> id, bitmap |-> 1 .. slots - 1]>> \o @]
<1>1. /\ DOMAIN pools = 1 .. Len(pools) /\ Len(pools) \in Nat
      /\ \A j \in 1 .. Len(pools) : pools[j] \in Pool(slots)
      /\ pools \in PoolList(slots)
  BY LenProperties, ElementOfSeq DEF PoolList
<1>2. CASE free # {}
  <2>1. i \in free
    <3>1. IsFiniteSet(1 .. Len(pools)) /\ free \subseteq 1 .. Len(pools)
      BY <1>1, FS_Interval
    <3>2. IsFiniteSet(free) /\ free \subseteq Int
      BY <3>1, FS_Subset
    <3> HIDE DEF free
    <3> QED
      BY <1>2, <3>2, Extremes
  <2>2. i \in 1 .. Len(pools) /\ pools[i].bitmap # {} /\ pools[i] \in Pool(slots)
    BY <1>1, <2>1
  <2> HIDE DEF i
  <2>3. slot \in pools[i].bitmap
    <3> HIDE DEF pools
    <3>1. pools[i].bitmap \subseteq 0 .. slots - 1
      BY <2>2 DEF Pool
    <3>a. 0 \in Int /\ slots - 1 \in Int
      OBVIOUS
    <3>b. IsFiniteSet(0 .. slots - 1)
      BY <3>a, FS_Interval
    <3>2. IsFiniteSet(pools[i].bitmap) /\ pools[i].bitmap \subseteq Int
      BY <3>1, <3>b, FS_Subset
    <3> QED
      BY <2>2, <3>2, Extremes
  <2>4. slot \in Nat /\ pools[i].id \in Nat
    BY <2>2, <2>3 DEF Pool
  <2> HIDE DEF slot
  <2> DEFINE after == OneTaken(pools, i, slot)
  <2>5. FromPool(m, name, slots) =
          [memory |-> [m EXCEPT ![name][i].bitmap = @ \ {slot}], at |-> <<name, pools[i].id, slot>>]
    BY <1>2, Zenon DEF FromPool, i, slot
  <2>6. [m EXCEPT ![name][i].bitmap = @ \ {slot}] = [m EXCEPT ![name] = after]
    <3>1. \A p \in Pool(slots) :
            [p EXCEPT !.bitmap = p.bitmap \ {slot}] = [id |-> p.id, bitmap |-> p.bitmap \ {slot}]
      <4> SUFFICES ASSUME NEW p \in Pool(slots)
                   PROVE  [p EXCEPT !.bitmap = p.bitmap \ {slot}] =
                            [id |-> p.id, bitmap |-> p.bitmap \ {slot}]
        OBVIOUS
      <4>1. PICK i0, s0 : p = [id |-> i0, bitmap |-> s0]
        BY DEF Pool
      <4> QED
        BY <4>1
    <3>2. [m EXCEPT ![name][i].bitmap = @ \ {slot}] =
            [m EXCEPT ![name] = [pools EXCEPT ![i] = [pools[i] EXCEPT !.bitmap = pools[i].bitmap \ {slot}]]]
      OBVIOUS
    <3> HIDE DEF pools
    <3> QED
      BY <2>2, <3>1, <3>2 DEF OneTaken
  <2>7. /\ after \in PoolList(slots)
        /\ <<pools[i].id, slot>> \notin UsedSlots(pools, slots)
        /\ UsedSlots(after, slots) = UsedSlots(pools, slots) \cup {<<pools[i].id, slot>>}
    BY <1>1, <2>2, <2>3, TakenFrom
  <2> HIDE DEF after
  <2> QED
    BY <2>4, <2>5, <2>6, <2>7
<1>3. CASE free = {} /\ HostUsed(new) > HeapBytes
  BY <1>3, Zenon DEF FromPool
<1>4. CASE free = {} /\ ~(HostUsed(new) > HeapBytes)
  <2> DEFINE after == OneMore(pools, id, slots)
  <2>1. FromPool(m, name, slots) = [memory |-> new, at |-> <<name, id, 0>>]
    BY <1>4, Zenon DEF FromPool
  <2>2. id \in Nat /\ \A k \in 1 .. Len(pools) : pools[k].id # id
    BY <1>1, FreshId
  <2>3. new = [m EXCEPT ![name] = after]
    BY DEF OneMore
  <2> HIDE DEF id, new
  <2>4. /\ after \in PoolList(slots)
        /\ <<id, 0>> \notin UsedSlots(pools, slots)
        /\ UsedSlots(after, slots) = UsedSlots(pools, slots) \cup {<<id, 0>>}
    BY <1>1, <2>2, TakenFromNew
  <2> HIDE DEF after
  <2> QED
    BY <2>1, <2>2, <2>3, <2>4
<1> QED
  BY <1>2, <1>3, <1>4


\* Where a block is says how large it may be.
LEMMA BlockIs ==
    ASSUME NEW x, IsBlock(x)
    PROVE  /\ Class(x.size) \in {16, 32, 64} /\ x.size \in Nat \ {0}
           /\ x.at = <<NameOf(Class(x.size)), x.at[2], x.at[3]>>
           /\ x.at[1] = NameOf(Class(x.size))
           /\ x.at # <<>>
           /\ Class(x.size) = 64 => x.at[2] \in Blocks /\ x.at = <<"host", x.at[2], 0>>
<1>1. Class(x.size) \in {16, 32, 64}
  BY DEF Class
<1>2. x.at = <<NameOf(Class(x.size)), x.at[2], x.at[3]>>
  BY DEF IsBlock
<1>3. \A u, v, w : <<u, v, w>>[1] = u /\ <<u, v, w>> # <<>>
  OBVIOUS
<1>4. x.at[1] = NameOf(Class(x.size)) /\ x.at # <<>>
  <2> DEFINE u == NameOf(Class(x.size))
             v == x.at[2]
             w == x.at[3]
  <2>1. x.at = <<u, v, w>>
    BY <1>2
  <2> HIDE DEF u, v, w
  <2>2. x.at[1] = u /\ x.at # <<>>
    BY <2>1, <1>3
  <2> QED
    BY <2>2 DEF u
<1>5. Class(x.size) = 64 => x.at[2] \in Blocks /\ x.at = <<"host", x.at[2], 0>>
  <2>1. NameOf(64) = "host"
    BY DEF NameOf
  <2> QED
    BY <1>2, <2>1, Zenon DEF IsBlock
<1> QED
  BY <1>1, <1>2, <1>4, <1>5 DEF IsBlock

\* Blocks of one class that are in one slot are in one place.
LEMMA SamePlace ==
    ASSUME NEW x, IsBlock(x), NEW y, IsBlock(y)
    PROVE  x.at = y.at <=> Class(x.size) = Class(y.size) /\ SlotOf(x) = SlotOf(y)
<1>1. /\ x.at = <<NameOf(Class(x.size)), x.at[2], x.at[3]>> /\ Class(x.size) \in {16, 32, 64}
      /\ y.at = <<NameOf(Class(y.size)), y.at[2], y.at[3]>> /\ Class(y.size) \in {16, 32, 64}
  BY BlockIs
<1>2. NameOf(16) = "pool16" /\ NameOf(32) = "pool32" /\ NameOf(64) = "host"
  BY DEF NameOf
<1>3. x.at = y.at => Class(x.size) = Class(y.size)
  <2>1. x.at = y.at => NameOf(Class(x.size)) = NameOf(Class(y.size))
    BY BlockIs
  <2> QED
    BY <1>1, <1>2, <2>1
<1>4. SlotOf(x) = SlotOf(y) => x.at[2] = y.at[2] /\ x.at[3] = y.at[3]
  BY DEF SlotOf
<1>5. Class(x.size) = Class(y.size) /\ SlotOf(x) = SlotOf(y) => x.at = y.at
  BY <1>1, <1>4, Zenon
<1> QED
  BY <1>3, <1>5 DEF SlotOf

\* The slots of one block more, which is of a class or of another one.
LEMMA SlotsMore ==
    ASSUME NEW H, NEW x, NEW class, Class(x.size) = class
    PROVE  SlotsOf(H \cup {x}, class) = SlotsOf(H, class) \cup {SlotOf(x)}
BY DEF SlotsOf

\* See SlotsMore.
LEMMA SlotsSame ==
    ASSUME NEW H, NEW x, NEW class, Class(x.size) # class
    PROVE  SlotsOf(H \cup {x}, class) = SlotsOf(H, class)
BY DEF SlotsOf

\* One more block, in a slot of a pool.
LEMMA HoldsMore ==
    ASSUME NEW m, NEW H, HoldsBlocks(m, H), NEW m2 \in Memories, m2.host = m.host,
           NEW x, IsBlock(x), NEW class \in {16, 32}, Class(x.size) = class,
           \A y \in H : y.at # x.at,
           NEW U16, U16 = UsedSlots(m2.pool16, POOL16_SLOTS),
           NEW U32, U32 = UsedSlots(m2.pool32, POOL32_SLOTS),
           class = 16 => /\ U16 = UsedSlots(m.pool16, POOL16_SLOTS) \cup {SlotOf(x)}
                         /\ U32 = UsedSlots(m.pool32, POOL32_SLOTS),
           class = 32 => /\ U16 = UsedSlots(m.pool16, POOL16_SLOTS)
                         /\ U32 = UsedSlots(m.pool32, POOL32_SLOTS) \cup {SlotOf(x)}
    PROVE  HoldsBlocks(m2, H \cup {x})
<1>1. U16 = SlotsOf(H \cup {x}, 16) /\ U32 = SlotsOf(H \cup {x}, 32)
  <2>0. UsedSlots(m.pool16, POOL16_SLOTS) = SlotsOf(H, 16) /\ UsedSlots(m.pool32, POOL32_SLOTS) = SlotsOf(H, 32)
    BY DEF HoldsBlocks
  <2>4. SlotsOf(H \cup {x}, class) = SlotsOf(H, class) \cup {SlotOf(x)}
    BY SlotsMore
  <2>1. CASE class = 16
    <3>1. Class(x.size) # 32 /\ Class(x.size) = 16
      BY <2>1
    <3>2. SlotsOf(H \cup {x}, 32) = SlotsOf(H, 32)
      BY <3>1, SlotsSame
    <3>3. SlotsOf(H \cup {x}, 16) = SlotsOf(H, 16) \cup {SlotOf(x)}
      BY <2>4, <2>1
    <3> QED
      BY <2>0, <2>1, <3>2, <3>3
  <2>2. CASE class = 32
    <3>1. Class(x.size) # 16 /\ Class(x.size) = 32
      BY <2>2
    <3>2. SlotsOf(H \cup {x}, 16) = SlotsOf(H, 16)
      BY <3>1, SlotsSame
    <3>3. SlotsOf(H \cup {x}, 32) = SlotsOf(H, 32) \cup {SlotOf(x)}
      BY <2>4, <2>2
    <3> QED
      BY <2>0, <2>2, <3>2, <3>3
  <2> QED
    BY <2>1, <2>2
<1>2. \A y \in H \cup {x} : IsBlock(y)
  BY DEF HoldsBlocks
<1>3. \A y, z \in H \cup {x} : y.at = z.at => y = z
  BY DEF HoldsBlocks
<1>4. \A y \in H \cup {x} : Class(y.size) = 64 => m2.host[y.at[2]] = y.size
  <2>1. Class(x.size) # 64
    OBVIOUS
  <2> QED
    BY <2>1 DEF HoldsBlocks
<1>5. \A b \in Blocks : m2.host[b] # 0 => \E y \in H \cup {x} : y.at = <<"host", b, 0>>
  BY DEF HoldsBlocks
<1> QED
  BY <1>1, <1>2, <1>3, <1>4, <1>5 DEF HoldsBlocks

\* What an allocation returns: a memory with one more block, and where it is.
Got(r, H, b, size) ==
    \E x : /\ r.at = x.at /\ IsBlock(x) /\ x.size = size
           /\ Class(size) = 64 => x.at = <<"host", b, 0>>
           /\ \A y \in H : y.at # x.at
           /\ HoldsBlocks(r.memory, H \cup {x})

\* A block from malloc_from_pool() is one more.
LEMMA MallocHolds ==
    ASSUME PoolsConstants, NEW m, NEW H, HoldsBlocks(m, H), NEW b \in Blocks, NEW size \in Nat \ {0},
           Class(size) = 64 => m.host[b] = 0
    PROVE  \/ MallocFromPool(m, b, size) = Failed(m)
           \/ Got(MallocFromPool(m, b, size), H, b, size)
<1>1. /\ m \in Memories /\ \A x \in H : IsBlock(x)
      /\ UsedSlots(m.pool16, POOL16_SLOTS) = SlotsOf(H, 16)
      /\ UsedSlots(m.pool32, POOL32_SLOTS) = SlotsOf(H, 32)
  BY DEF HoldsBlocks
<1>2. /\ m.pool16 \in PoolList(POOL16_SLOTS) /\ m.pool32 \in PoolList(POOL32_SLOTS)
      /\ m.host \in [Blocks -> Nat]
      /\ m = [pool16 |-> m.pool16, pool32 |-> m.pool32, host |-> m.host]
      /\ POOL16_SLOTS \in Nat \ {0} /\ POOL32_SLOTS \in Nat \ {0}
  BY <1>1 DEF Memories, PoolsConstants
<1>3. NameOf(16) = "pool16" /\ NameOf(32) = "pool32" /\ NameOf(64) = "host"
  BY DEF NameOf
<1>4. ASSUME NEW class \in {16, 32}, Class(size) = class, NEW id \in Nat, NEW s \in Nat,
             <<id, s>> \notin SlotsOf(H, class),
             NEW x, x = [at |-> <<NameOf(class), id, s>>, size |-> size]
      PROVE  /\ IsBlock(x) /\ x.size = size /\ x.at = <<NameOf(class), id, s>>
             /\ SlotOf(x) = <<id, s>> /\ Class(x.size) = class
             /\ \A y \in H : y.at # x.at
  <2>1. x.size = size /\ x.at = <<NameOf(class), id, s>>
    BY <1>4, Zenon
  <2>2. x.at[2] = id /\ x.at[3] = s
    BY <2>1
  <2>3. IsBlock(x)
    BY <1>4, <2>1, <2>2 DEF IsBlock
  <2>4. SlotOf(x) = <<id, s>>
    BY <2>2 DEF SlotOf
  <2>5. \A y \in H : y.at # x.at
    <3> SUFFICES ASSUME NEW y \in H, y.at = x.at PROVE FALSE
      OBVIOUS
    <3>1. IsBlock(y) /\ Class(y.size) = class /\ SlotOf(y) = <<id, s>>
      BY <1>1, <1>4, <2>1, <2>3, <2>4, SamePlace
    <3> QED
      BY <1>4, <3>1 DEF SlotsOf
  <2> QED
    BY <1>4, <2>1, <2>3, <2>4, <2>5
<1>5. CASE Class(size) = 16
  <2>1. MallocFromPool(m, b, size) = FromPool(m, "pool16", POOL16_SLOTS)
    BY <1>5 DEF MallocFromPool, Class
  <2>2. CASE FromPool(m, "pool16", POOL16_SLOTS) # Failed(m)
    <3>1. PICK id \in Nat, s \in Nat, after \in PoolList(POOL16_SLOTS) :
            /\ FromPool(m, "pool16", POOL16_SLOTS) =
                  [memory |-> [m EXCEPT !["pool16"] = after], at |-> <<"pool16", id, s>>]
            /\ <<id, s>> \notin UsedSlots(m.pool16, POOL16_SLOTS)
            /\ UsedSlots(after, POOL16_SLOTS) = UsedSlots(m.pool16, POOL16_SLOTS) \cup {<<id, s>>}
      BY <1>1, <1>2, <2>2, FromPoolIs
    <3>2. PICK x : x = [at |-> <<"pool16", id, s>>, size |-> size]
      OBVIOUS
    <3>3. PICK m2 : m2 = [m EXCEPT !.pool16 = after]
      OBVIOUS
    <3>4. /\ IsBlock(x) /\ x.size = size /\ x.at = <<"pool16", id, s>>
          /\ SlotOf(x) = <<id, s>> /\ Class(x.size) = 16
          /\ \A y \in H : y.at # x.at
      BY <1>1, <1>3, <1>4, <1>5, <3>1, <3>2
    <3>5. m2.pool16 = after /\ m2.pool32 = m.pool32 /\ m2.host = m.host /\ m2 \in Memories
      BY <1>1, <1>2, <3>3 DEF Memories
    <3>6. HoldsBlocks(m2, H \cup {x})
      BY <3>1, <3>4, <3>5, HoldsMore
    <3>7. /\ MallocFromPool(m, b, size).memory = m2
          /\ MallocFromPool(m, b, size).at = x.at
      BY <2>1, <3>1, <3>3, <3>4
    <3>8. Class(size) # 64
      BY <1>5
    <3> QED
      BY <3>4, <3>6, <3>7, <3>8 DEF Got
  <2> QED
    BY <2>1, <2>2
<1>6. CASE Class(size) = 32
  <2>1. MallocFromPool(m, b, size) = FromPool(m, "pool32", POOL32_SLOTS)
    BY <1>6 DEF MallocFromPool, Class, POOL16_SIZE, POOL32_SIZE
  <2>2. CASE FromPool(m, "pool32", POOL32_SLOTS) # Failed(m)
    <3>1. PICK id \in Nat, s \in Nat, after \in PoolList(POOL32_SLOTS) :
            /\ FromPool(m, "pool32", POOL32_SLOTS) =
                  [memory |-> [m EXCEPT !["pool32"] = after], at |-> <<"pool32", id, s>>]
            /\ <<id, s>> \notin UsedSlots(m.pool32, POOL32_SLOTS)
            /\ UsedSlots(after, POOL32_SLOTS) = UsedSlots(m.pool32, POOL32_SLOTS) \cup {<<id, s>>}
      BY <1>1, <1>2, <2>2, FromPoolIs
    <3>2. PICK x : x = [at |-> <<"pool32", id, s>>, size |-> size]
      OBVIOUS
    <3>3. PICK m2 : m2 = [m EXCEPT !.pool32 = after]
      OBVIOUS
    <3>4. /\ IsBlock(x) /\ x.size = size /\ x.at = <<"pool32", id, s>>
          /\ SlotOf(x) = <<id, s>> /\ Class(x.size) = 32
          /\ \A y \in H : y.at # x.at
      BY <1>1, <1>3, <1>4, <1>6, <3>1, <3>2
    <3>5. m2.pool32 = after /\ m2.pool16 = m.pool16 /\ m2.host = m.host /\ m2 \in Memories
      BY <1>1, <1>2, <3>3 DEF Memories
    <3>6. HoldsBlocks(m2, H \cup {x})
      BY <3>1, <3>4, <3>5, HoldsMore
    <3>7. /\ MallocFromPool(m, b, size).memory = m2
          /\ MallocFromPool(m, b, size).at = x.at
      BY <2>1, <3>1, <3>3, <3>4
    <3>8. Class(size) # 64
      BY <1>6
    <3> QED
      BY <3>4, <3>6, <3>7, <3>8 DEF Got
  <2> QED
    BY <2>1, <2>2
<1>7. CASE Class(size) = 64
  <2> DEFINE x == [at |-> <<"host", b, 0>>, size |-> size]
             m2 == [m EXCEPT !.host[b] = @ + size]
  <2>1. MallocFromPool(m, b, size) =
          IF HostUsed(m2) > HeapBytes THEN Failed(m) ELSE [memory |-> m2, at |-> <<"host", b, 0>>]
    <3>1. size # 0 /\ ~(size <= POOL16_SIZE) /\ ~(size <= POOL32_SIZE)
      BY <1>7 DEF Class
    <3> QED
      BY <3>1, Zenon DEF MallocFromPool
  <2>2. x.size = size /\ x.at = <<"host", b, 0>> /\ x.at[2] = b /\ x.at[3] = 0
    OBVIOUS
  <2>3. IsBlock(x) /\ Class(x.size) = 64
    BY <1>3, <1>7, <2>2 DEF IsBlock
  <2>4. /\ m2.pool16 = m.pool16 /\ m2.pool32 = m.pool32 /\ m2 \in Memories
        /\ m2.host = [m.host EXCEPT ![b] = size]
    BY <1>2, <1>7 DEF Memories
  <2> HIDE DEF x, m2
  <2>5. \A y \in H : y.at # x.at
    <3> SUFFICES ASSUME NEW y \in H, y.at = x.at PROVE FALSE
      OBVIOUS
    <3>1. IsBlock(y) /\ Class(y.size) = 64 /\ y.at[2] = b
      BY <1>1, <2>2, <2>3, SamePlace
    <3>2. m.host[b] = y.size /\ y.size # 0
      BY <3>1, BlockIs DEF HoldsBlocks
    <3> QED
      BY <1>7, <3>2
  <2>6. SlotsOf(H \cup {x}, 16) = SlotsOf(H, 16) /\ SlotsOf(H \cup {x}, 32) = SlotsOf(H, 32)
    <3>1. Class(x.size) # 16 /\ Class(x.size) # 32
      BY <2>3
    <3> QED
      BY <3>1, SlotsSame
  <2>7. \A y \in H \cup {x} : Class(y.size) = 64 => m2.host[y.at[2]] = y.size
    <3>1. m2.host[b] = size
      BY <1>2, <2>4
    <3>2. ASSUME NEW y \in H, Class(y.size) = 64 PROVE m2.host[y.at[2]] = y.size
      <4>1. y.at[2] \in Blocks /\ y.at = <<"host", y.at[2], 0>> /\ m.host[y.at[2]] = y.size
        BY <1>1, <3>2, BlockIs DEF HoldsBlocks
      <4>2. y.at[2] # b
        BY <2>2, <2>5, <4>1
      <4> QED
        BY <1>2, <2>4, <4>1, <4>2
    <3> QED
      BY <2>2, <3>1, <3>2
  <2>8. \A c \in Blocks : m2.host[c] # 0 => \E y \in H \cup {x} : y.at = <<"host", c, 0>>
    <3> SUFFICES ASSUME NEW c \in Blocks, m2.host[c] # 0
                 PROVE  \E y \in H \cup {x} : y.at = <<"host", c, 0>>
      OBVIOUS
    <3>1. CASE c = b
      BY <2>2, <3>1
    <3>2. CASE c # b
      <4>1. m.host[c] # 0
        BY <1>2, <2>4, <3>2
      <4> QED
        BY <4>1 DEF HoldsBlocks
    <3> QED
      BY <3>1, <3>2
  <2>9. HoldsBlocks(m2, H \cup {x})
    BY <1>1, <2>3, <2>4, <2>5, <2>6, <2>7, <2>8 DEF HoldsBlocks
  <2>10. CASE MallocFromPool(m, b, size) = [memory |-> m2, at |-> <<"host", b, 0>>]
    <3>1. MallocFromPool(m, b, size).memory = m2 /\ MallocFromPool(m, b, size).at = x.at
      BY <2>2, <2>10
    <3> QED
      BY <2>2, <2>3, <2>5, <2>9, <3>1 DEF Got
  <2> QED
    BY <2>1, <2>10
<1> QED
  BY <1>5, <1>6, <1>7 DEF Class


\* What is left when some blocks go, slot by slot.
LEMMA SlotsLess ==
    ASSUME NEW m, NEW H, HoldsBlocks(m, H), NEW U, NEW class,
           \A b \in U : held[b] \in H
    PROVE  SlotsOf(H \ {held[b] : b \in U}, class) =
             SlotsOf(H, class) \ {SlotOf(held[b]) : b \in InClass(U, class)}
<1> DEFINE D == {held[b] : b \in U}
           G == {SlotOf(held[b]) : b \in InClass(U, class)}
<1>1. \A x \in H : IsBlock(x) /\ \A y \in H : x.at = y.at => x = y
  BY DEF HoldsBlocks
<1>2. ASSUME NEW x \in H, Class(x.size) = class
      PROVE  x \in D <=> SlotOf(x) \in G
  <2>1. ASSUME x \in D PROVE SlotOf(x) \in G
    <3>1. PICK b \in U : x = held[b]
      BY <2>1
    <3>2. b \in InClass(U, class)
      BY <1>2, <3>1 DEF InClass
    <3> QED
      BY <3>1, <3>2
  <2>2. ASSUME SlotOf(x) \in G PROVE x \in D
    <3>1. PICK b \in InClass(U, class) : SlotOf(x) = SlotOf(held[b])
      BY <2>2
    <3>2. b \in U /\ Class(held[b].size) = class /\ held[b] \in H
      BY <3>1 DEF InClass
    <3>3. x = held[b]
      BY <1>1, <1>2, <3>1, <3>2, SamePlace
    <3> QED
      BY <3>2, <3>3
  <2> QED
    BY <2>1, <2>2
<1> HIDE DEF D, G
<1>3. ASSUME NEW t \in SlotsOf(H \ D, class) PROVE t \in SlotsOf(H, class) \ G
  <2>1. PICK x \in H \ D : Class(x.size) = class /\ t = SlotOf(x)
    BY DEF SlotsOf
  <2> QED
    BY <1>2, <2>1 DEF SlotsOf
<1>4. ASSUME NEW t \in SlotsOf(H, class) \ G PROVE t \in SlotsOf(H \ D, class)
  <2>1. PICK x \in H : Class(x.size) = class /\ t = SlotOf(x)
    BY DEF SlotsOf
  <2>2. x \in H \ D
    BY <1>2, <2>1
  <2> QED
    BY <2>1, <2>2 DEF SlotsOf
<1>5. SlotsOf(H \ D, class) = SlotsOf(H, class) \ G
  BY <1>3, <1>4
<1> QED
  BY <1>5 DEF D, G

\* free_from_pool(): the blocks are gone, the others are where they were.
LEMMA FreeHolds ==
    ASSUME PoolsConstants, NEW m, NEW H, HoldsBlocks(m, H), NEW U \in SUBSET Blocks,
           \A b \in U : held[b] \in H /\ (Class(held[b].size) = 64 => held[b].at[2] = b)
    PROVE  HoldsBlocks(FreeFromPool(m, U), H \ {held[b] : b \in U})
<1> DEFINE D == {held[b] : b \in U}
           f == FreeFromPool(m, U)
<1>1. /\ m.pool16 \in PoolList(POOL16_SLOTS) /\ m.pool32 \in PoolList(POOL32_SLOTS)
      /\ m.host \in [Blocks -> Nat] /\ \A x \in H : IsBlock(x)
      /\ UsedSlots(m.pool16, POOL16_SLOTS) = SlotsOf(H, 16)
      /\ UsedSlots(m.pool32, POOL32_SLOTS) = SlotsOf(H, 32)
  BY DEF HoldsBlocks, Memories
<1>2. /\ f.pool16 = GivenBack(m.pool16, InClass(U, 16))
      /\ f.pool32 = GivenBack(m.pool32, InClass(U, 32))
      /\ f.host = [b \in Blocks |-> IF b \in InClass(U, 64) THEN 0 ELSE m.host[b]]
      /\ f = [pool16 |-> f.pool16, pool32 |-> f.pool32, host |-> f.host]
  BY DEF FreeFromPool
<1> HIDE DEF f
<1>3. \A class : \A b \in InClass(U, class) : SlotOf(held[b]) \in SlotsOf(H, class)
  BY DEF InClass, SlotsOf
<1>4. /\ f.pool16 \in PoolList(POOL16_SLOTS)
      /\ UsedSlots(f.pool16, POOL16_SLOTS) = SlotsOf(H \ D, 16)
  <2>1. \A b \in InClass(U, 16) : <<held[b].at[2], held[b].at[3]>> \in UsedSlots(m.pool16, POOL16_SLOTS)
    BY <1>1, <1>3 DEF SlotOf
  <2>2. /\ f.pool16 \in PoolList(POOL16_SLOTS)
        /\ UsedSlots(f.pool16, POOL16_SLOTS) =
             UsedSlots(m.pool16, POOL16_SLOTS) \ {<<held[b].at[2], held[b].at[3]>> : b \in InClass(U, 16)}
    BY <1>1, <1>2, <2>1, GivenBackIs
  <2>3. SlotsOf(H \ D, 16) = SlotsOf(H, 16) \ {SlotOf(held[b]) : b \in InClass(U, 16)}
    BY SlotsLess
  <2> QED
    BY <1>1, <2>2, <2>3 DEF SlotOf
<1>5. /\ f.pool32 \in PoolList(POOL32_SLOTS)
      /\ UsedSlots(f.pool32, POOL32_SLOTS) = SlotsOf(H \ D, 32)
  <2>1. \A b \in InClass(U, 32) : <<held[b].at[2], held[b].at[3]>> \in UsedSlots(m.pool32, POOL32_SLOTS)
    BY <1>1, <1>3 DEF SlotOf
  <2>2. /\ f.pool32 \in PoolList(POOL32_SLOTS)
        /\ UsedSlots(f.pool32, POOL32_SLOTS) =
             UsedSlots(m.pool32, POOL32_SLOTS) \ {<<held[b].at[2], held[b].at[3]>> : b \in InClass(U, 32)}
    BY <1>1, <1>2, <2>1, GivenBackIs
  <2>3. SlotsOf(H \ D, 32) = SlotsOf(H, 32) \ {SlotOf(held[b]) : b \in InClass(U, 32)}
    BY SlotsLess, ZenonT(30)
  <2> QED
    BY <1>1, <2>2, <2>3 DEF SlotOf
<1>6. f \in Memories
  <2>1. f.host \in [Blocks -> Nat]
    BY <1>1, <1>2
  <2> QED
    BY <1>2, <1>4, <1>5, <2>1 DEF Memories
<1>7. ASSUME NEW x \in H \ D, Class(x.size) = 64 PROVE f.host[x.at[2]] = x.size
  <2>1. x.at[2] \in Blocks /\ x.at = <<"host", x.at[2], 0>> /\ m.host[x.at[2]] = x.size
    BY <1>1, <1>7, BlockIs DEF HoldsBlocks
  <2>2. ASSUME NEW b \in U, Class(held[b].size) = 64, b = x.at[2] PROVE FALSE
    <3>1. held[b].at = <<"host", b, 0>>
      BY <1>1, <2>2, BlockIs
    <3>2. held[b] = x
      BY <2>1, <2>2, <3>1 DEF HoldsBlocks
    <3> QED
      BY <1>7, <3>2
  <2>3. x.at[2] \notin InClass(U, 64)
    BY <2>2 DEF InClass
  <2> QED
    BY <1>2, <2>1, <2>3
<1>8. ASSUME NEW b \in Blocks, f.host[b] # 0 PROVE \E x \in H \ D : x.at = <<"host", b, 0>>
  <2>1. b \notin InClass(U, 64) /\ m.host[b] # 0
    BY <1>2, <1>8
  <2>2. PICK x \in H : x.at = <<"host", b, 0>>
    BY <2>1 DEF HoldsBlocks
  <2>3. ASSUME NEW c \in U, x = held[c] PROVE FALSE
    <3>1. x.at[1] = "host" /\ x.at[2] = b
      BY <2>2
    <3>2. Class(x.size) = 64
      BY <1>1, <3>1, BlockIs DEF NameOf
    <3>3. c = b
      BY <2>3, <3>1, <3>2
    <3> QED
      BY <2>1, <2>3, <3>2, <3>3 DEF InClass
  <2> QED
    BY <2>2, <2>3
<1>9. HoldsBlocks(f, H \ D)
  BY <1>4, <1>5, <1>6, <1>7, <1>8 DEF HoldsBlocks
<1> QED
  BY <1>9 DEF f, D

\* Empty pools hold nothing.
LEMMA WithoutHolds ==
    ASSUME PoolsConstants, NEW m, NEW H, HoldsBlocks(m, H)
    PROVE  HoldsBlocks(WithoutEmptyPools(m), H)
<1> DEFINE f == WithoutEmptyPools(m)
<1>1. /\ m.pool16 \in PoolList(POOL16_SLOTS) /\ m.pool32 \in PoolList(POOL32_SLOTS)
      /\ m.host \in [Blocks -> Nat]
      /\ m = [pool16 |-> m.pool16, pool32 |-> m.pool32, host |-> m.host]
  BY DEF HoldsBlocks, Memories
<1>2. /\ f.pool16 = NotEmpty(m.pool16, POOL16_SLOTS)
      /\ f.pool32 = NotEmpty(m.pool32, POOL32_SLOTS) /\ f.host = m.host
      /\ f = [pool16 |-> f.pool16, pool32 |-> f.pool32, host |-> f.host]
  <2>1. PICK p, q, h : m = [pool16 |-> p, pool32 |-> q, host |-> h]
    BY <1>1, Zenon
  <2>2. f = [m EXCEPT !.pool16 = NotEmpty(m.pool16, POOL16_SLOTS),
                      !.pool32 = NotEmpty(m.pool32, POOL32_SLOTS)]
    BY DEF WithoutEmptyPools
  <2> HIDE DEF f
  <2> QED
    BY <2>1, <2>2
<1> HIDE DEF f
<1>3. /\ f.pool16 \in PoolList(POOL16_SLOTS)
      /\ UsedSlots(f.pool16, POOL16_SLOTS) = UsedSlots(m.pool16, POOL16_SLOTS)
      /\ f.pool32 \in PoolList(POOL32_SLOTS)
      /\ UsedSlots(f.pool32, POOL32_SLOTS) = UsedSlots(m.pool32, POOL32_SLOTS)
  BY <1>1, <1>2, NotEmptyIs DEF PoolsConstants
<1>4. f \in Memories
  BY <1>1, <1>2, <1>3 DEF Memories
<1>5. HoldsBlocks(f, H)
  BY <1>2, <1>3, <1>4 DEF HoldsBlocks
<1> QED
  BY <1>5 DEF f

\* The block a user has, as the memory knows it.
Own(b, old, H) ==
    /\ old = held[b]
    /\ old.size # 0 => old \in H
    /\ old \in H /\ Class(old.size) = 64 => old.at[2] = b
    /\ \A x \in H : x.at = <<"host", b, 0>> => x = old

\* A block that stays in its slot.
LEMMA StaysHolds ==
    ASSUME NEW m, NEW H, HoldsBlocks(m, H), NEW old \in H, NEW size \in Nat \ {0},
           Class(size) = Class(old.size), Class(size) # 64, NEW b
    PROVE  Got([memory |-> m, at |-> old.at], H \ {old}, b, size)
<1>0. PICK x : x = [at |-> old.at, size |-> size]
  OBVIOUS
<1>1. /\ \A y \in H : IsBlock(y) /\ \A z \in H : y.at = z.at => y = z
      /\ UsedSlots(m.pool16, POOL16_SLOTS) = SlotsOf(H, 16)
      /\ UsedSlots(m.pool32, POOL32_SLOTS) = SlotsOf(H, 32)
  BY DEF HoldsBlocks
<1>2. x.size = size /\ x.at = old.at
  BY <1>0
<1>3. IsBlock(x) /\ SlotOf(x) = SlotOf(old)
  BY <1>0, <1>1, <1>2 DEF IsBlock, SlotOf
<1>4. \A y \in H \ {old} : y.at # x.at
  BY <1>1, <1>2
<1> DEFINE K == (H \ {old}) \cup {x}
<1>5. ASSUME NEW class PROVE SlotsOf(K, class) = SlotsOf(H, class)
  <2>1. Class(x.size) = Class(old.size)
    BY <1>2
  <2>2. ASSUME NEW y \in K, Class(y.size) = class
        PROVE  \E z \in H : Class(z.size) = class /\ SlotOf(z) = SlotOf(y)
    BY <1>3, <2>1, <2>2
  <2>3. ASSUME NEW y \in H, Class(y.size) = class
        PROVE  \E z \in K : Class(z.size) = class /\ SlotOf(z) = SlotOf(y)
    <3>1. CASE y = old
      BY <1>3, <2>1, <2>3, <3>1
    <3>2. CASE y # old
      BY <2>3, <3>2
    <3> QED
      BY <3>1, <3>2
  <2> HIDE DEF K
  <2> QED
    BY <2>2, <2>3 DEF SlotsOf
<1>6. \A y \in K : IsBlock(y)
  BY <1>1, <1>3
<1>7. \A y, z \in K : y.at = z.at => y = z
  BY <1>1, <1>4
<1>8. \A y \in K : Class(y.size) = 64 => m.host[y.at[2]] = y.size
  BY <1>2 DEF HoldsBlocks
<1>9. ASSUME NEW c \in Blocks, m.host[c] # 0 PROVE \E y \in K : y.at = <<"host", c, 0>>
  <2>1. PICK y \in H : y.at = <<"host", c, 0>>
    BY <1>9 DEF HoldsBlocks
  <2>2. CASE y = old
    BY <1>2, <2>1, <2>2
  <2>3. CASE y # old
    BY <2>1, <2>3
  <2> QED
    BY <2>2, <2>3
<1> HIDE DEF K
<1>10. HoldsBlocks(m, K)
  <2>1. m \in Memories
    BY DEF HoldsBlocks
  <2>2. UsedSlots(m.pool16, POOL16_SLOTS) = SlotsOf(K, 16)
    BY <1>1, <1>5
  <2>3. UsedSlots(m.pool32, POOL32_SLOTS) = SlotsOf(K, 32)
    BY <1>1, <1>5
  <2> QED
    BY <1>6, <1>7, <1>8, <1>9, <2>1, <2>2, <2>3 DEF HoldsBlocks
<1> QED
  BY <1>2, <1>3, <1>4, <1>10 DEF K, Got

\* A block of the host that gets another size.
LEMMA HostHolds ==
    ASSUME NEW m, NEW H, HoldsBlocks(m, H), NEW b \in Blocks, NEW old \in H, NEW size \in Nat \ {0},
           Class(size) = 64, Class(old.size) = 64, old.at[2] = b
    PROVE  Got([memory |-> [m EXCEPT !.host[b] = size], at |-> <<"host", b, 0>>],
               H \ {old}, b, size)
<1>a. PICK x : x = [at |-> <<"host", b, 0>>, size |-> size]
  OBVIOUS
<1>b. PICK m2 : m2 = [m EXCEPT !.host[b] = size]
  OBVIOUS
<1>1. /\ \A y \in H : IsBlock(y) /\ \A z \in H : y.at = z.at => y = z
      /\ UsedSlots(m.pool16, POOL16_SLOTS) = SlotsOf(H, 16)
      /\ UsedSlots(m.pool32, POOL32_SLOTS) = SlotsOf(H, 32)
      /\ m.host \in [Blocks -> Nat]
  BY DEF HoldsBlocks, Memories
<1>2. x.size = size /\ x.at = <<"host", b, 0>> /\ x.at[2] = b /\ x.at[3] = 0
  BY <1>a
<1>3. IsBlock(x) /\ old.at = x.at
  <2>1. IsBlock(x)
    BY <1>a, <1>2 DEF IsBlock, NameOf
  <2> QED
    BY <1>1, <1>2, <2>1, BlockIs
<1>4. \A y \in H \ {old} : y.at # x.at
  BY <1>1, <1>3
<1>5. /\ m2.pool16 = m.pool16 /\ m2.pool32 = m.pool32 /\ m2 \in Memories
      /\ m2.host = [m.host EXCEPT ![b] = size]
  BY <1>b DEF HoldsBlocks, Memories
<1> DEFINE K == (H \ {old}) \cup {x}
<1>6. ASSUME NEW class \in {16, 32} PROVE SlotsOf(K, class) = SlotsOf(H, class)
  <2>1. Class(x.size) # class /\ Class(old.size) # class
    BY <1>2
  <2>2. \A y : Class(y.size) = class => (y \in K <=> y \in H)
    BY <2>1
  <2> HIDE DEF K
  <2> QED
    BY <2>2 DEF SlotsOf
<1>7. \A y \in K : IsBlock(y)
  BY <1>1, <1>3
<1>8. \A y, z \in K : y.at = z.at => y = z
  BY <1>1, <1>4
<1>9. ASSUME NEW y \in K, Class(y.size) = 64 PROVE m2.host[y.at[2]] = y.size
  <2>1. CASE y = x
    BY <1>1, <1>2, <1>5, <2>1
  <2>2. CASE y # x
    <3>1. y \in H \ {old} /\ m.host[y.at[2]] = y.size
      BY <1>9, <2>2 DEF HoldsBlocks
    <3>2. y.at[2] \in Blocks /\ y.at = <<"host", y.at[2], 0>>
      BY <1>1, <1>9, <3>1, BlockIs
    <3>3. y.at[2] # b
      BY <1>2, <1>4, <3>1, <3>2
    <3> QED
      BY <1>1, <1>5, <3>1, <3>2, <3>3
  <2> QED
    BY <2>1, <2>2
<1>10. ASSUME NEW c \in Blocks, m2.host[c] # 0 PROVE \E y \in K : y.at = <<"host", c, 0>>
  <2>1. CASE c = b
    BY <1>2, <2>1
  <2>2. CASE c # b
    <3>1. m.host[c] # 0
      BY <1>1, <1>5, <1>10, <2>2
    <3>2. PICK y \in H : y.at = <<"host", c, 0>>
      BY <3>1 DEF HoldsBlocks
    <3>3. y # old
      BY <1>2, <1>3, <2>2, <3>2
    <3> QED
      BY <3>2, <3>3
  <2> QED
    BY <2>1, <2>2
<1> HIDE DEF K
<1>11. HoldsBlocks(m2, K)
  <2>1. UsedSlots(m2.pool16, POOL16_SLOTS) = SlotsOf(K, 16)
    BY <1>1, <1>5, <1>6
  <2>2. UsedSlots(m2.pool32, POOL32_SLOTS) = SlotsOf(K, 32)
    BY <1>1, <1>5, <1>6
  <2> QED
    BY <1>5, <1>7, <1>8, <1>9, <1>10, <2>1, <2>2 DEF HoldsBlocks
<1> QED
  BY <1>b, <1>2, <1>3, <1>4, <1>11 DEF K, Got

\* be_realloc(), one attempt: it fails and changes nothing, or the user's block is
\* of the new size and no other is touched.
LEMMA AttemptHolds ==
    ASSUME PoolsConstants, NEW m, NEW H, HoldsBlocks(m, H), NEW b \in Blocks, NEW old,
           Own(b, old, H), NEW size \in Nat \ {0}
    PROVE  \/ Attempt(m, b, old, size) = Failed(m)
           \/ Got(Attempt(m, b, old, size), H \ {old}, b, size)
<1>1. \A x \in H : IsBlock(x) /\ x.size # 0
  BY DEF HoldsBlocks, IsBlock
<1>2. Class(old.size) # 64 \/ old.size = 0 => m.host[b] = 0
  <2> SUFFICES ASSUME m.host[b] # 0 PROVE Class(old.size) = 64 /\ old.size # 0
    OBVIOUS
  <2>1. PICK x \in H : x.at = <<"host", b, 0>>
    BY DEF HoldsBlocks
  <2>2. old \in H /\ old.at = <<"host", b, 0>>
    BY <2>1 DEF Own
  <2>3. old.at[1] = "host"
    BY <2>2
  <2> QED
    BY <1>1, <2>2, <2>3, BlockIs DEF NameOf
<1>3. CASE old.size = 0
  <2>1. Attempt(m, b, old, size) = MallocFromPool(m, b, size)
    BY <1>3 DEF Attempt
  <2>2. old \notin H
    BY <1>1, <1>3
  <2>3. H \ {old} = H
    BY <2>2
  <2> QED
    BY <1>2, <1>3, <2>1, <2>3, MallocHolds
<1>4. CASE old.size # 0 /\ Class(size) = Class(old.size) /\ Class(size) = 64
  <2>0. old \in H /\ old.at[2] = b
    BY <1>4 DEF Own
  <2>1. PICK m2 : m2 = [m EXCEPT !.host[b] = size]
    OBVIOUS
  <2>2. Attempt(m, b, old, size) = IF HostUsed(m2) > HeapBytes THEN Failed(m)
                                   ELSE [memory |-> m2, at |-> <<"host", b, 0>>]
    <3>1. Attempt(m, b, old, size) = HostRealloc(m, b, size)
      BY <1>4 DEF Attempt
    <3> QED
      BY <2>1, <3>1, Zenon DEF HostRealloc
  <2>3. Got([memory |-> m2, at |-> <<"host", b, 0>>], H \ {old}, b, size)
    <3>1. Class(size) = 64 /\ Class(old.size) = 64
      BY <1>4
    <3> QED
      BY <2>0, <2>1, <3>1, HostHolds
  <2> QED
    BY <2>2, <2>3
<1>5. CASE old.size # 0 /\ Class(size) = Class(old.size) /\ Class(size) # 64
  <2>0. old \in H
    BY <1>5 DEF Own
  <2>1. Attempt(m, b, old, size) = [memory |-> m, at |-> old.at]
    BY <1>5 DEF Attempt
  <2>2. Got([memory |-> m, at |-> old.at], H \ {old}, b, size)
    BY <1>5, <2>0, StaysHolds
  <2> QED
    BY <2>1, <2>2
<1>6. CASE old.size # 0 /\ Class(size) # Class(old.size)
  <2>0. old \in H /\ held[b] = old /\ (Class(old.size) = 64 => old.at[2] = b)
    BY <1>6 DEF Own
  <2>1. Attempt(m, b, old, size) =
          LET new == MallocFromPool(m, b, size)
          IN  IF new.at = <<>> THEN new ELSE [new EXCEPT !.memory = FreeFromPool(@, {b})]
    BY <1>6, Zenon DEF Attempt
  <2>2. Class(size) = 64 => m.host[b] = 0
    BY <1>2, <1>6
  <2>3. CASE MallocFromPool(m, b, size) = Failed(m)
    BY <2>1, <2>3 DEF Failed
  <2>4. CASE Got(MallocFromPool(m, b, size), H, b, size)
    <3> DEFINE r == MallocFromPool(m, b, size)
    <3>1. PICK x : /\ r.at = x.at /\ IsBlock(x) /\ x.size = size
                   /\ Class(size) = 64 => x.at = <<"host", b, 0>>
                   /\ \A y \in H : y.at # x.at
                   /\ HoldsBlocks(r.memory, H \cup {x})
      BY <2>4 DEF Got
    <3>2. r.at # <<>>
      BY <3>1, BlockIs
    <3>3. r = [memory |-> r.memory, at |-> r.at]
      BY DEF MallocFromPool, FromPool, Failed
    <3> HIDE DEF r
    <3>4. Attempt(m, b, old, size) = [memory |-> FreeFromPool(r.memory, {b}), at |-> r.at]
      BY <2>1, <3>2, <3>3 DEF r
    <3>5. (H \cup {x}) \ {held[c] : c \in {b}} = (H \ {old}) \cup {x}
      BY <2>0, <3>1
    <3>6. HoldsBlocks(FreeFromPool(r.memory, {b}), (H \cup {x}) \ {held[c] : c \in {b}})
      BY <2>0, <3>1, FreeHolds
    <3>7. /\ Attempt(m, b, old, size).memory = FreeFromPool(r.memory, {b})
          /\ Attempt(m, b, old, size).at = x.at
      BY <3>1, <3>4
    <3>8. \A y \in H \ {old} : y.at # x.at
      BY <3>1
    <3>9. HoldsBlocks(Attempt(m, b, old, size).memory, (H \ {old}) \cup {x})
      BY <3>5, <3>6, <3>7
    <3> QED
      BY <3>1, <3>7, <3>8, <3>9 DEF Got
  <2> QED
    BY <2>2, <2>3, <2>4, MallocHolds
<1> QED
  BY <1>3, <1>4, <1>5, <1>6

-----------------------------------------------------------------------------
(* The users' blocks.                                                      *)

Having(h) == {b \in Blocks : h[b].size > 0}
BlocksOf(h) == {h[b] : b \in Having(h)}
SizesOf(h) == [b \in Blocks |-> h[b].size]

\* No block, or one that is where the user's block may be.
MayHave(b, x) ==
    \/ x = NoBlock
    \/ IsBlock(x) /\ (Class(x.size) = 64 => x.at[2] = b)

\* The blocks h of the users are the ones in memory m, and take u bytes.
Accounts(h, m, u) ==
    /\ h = [b \in Blocks |-> h[b]]
    /\ \A b \in Blocks : MayHave(b, h[b])
    /\ \A a, b \in Having(h) : a # b => h[a].at # h[b].at
    /\ HoldsBlocks(m, BlocksOf(h))
    /\ u = Total(SizesOf(h), Blocks)

PoolsInv == garbage \subseteq Users /\ Accounts(held, Memory, usage)

\* The sizes of blocks are numbers, and so is their sum.
LEMMA SizesAre ==
    ASSUME PoolsConstants, NEW h, NEW m, NEW u, Accounts(h, m, u)
    PROVE  /\ \A b \in Blocks : /\ h[b].size \in Nat /\ SizesOf(h)[b] = h[b].size
                                /\ b \in Having(h) <=> h[b].size # 0
                                /\ b \notin Having(h) => h[b] = NoBlock
                                /\ b \in Having(h) => IsBlock(h[b])
           /\ u = SumOf(SizesOf(h), Blocks) /\ u \in Int
<1>1. ASSUME NEW b \in Blocks
      PROVE  /\ h[b].size \in Nat /\ SizesOf(h)[b] = h[b].size
             /\ b \in Having(h) <=> h[b].size # 0
             /\ b \notin Having(h) => h[b] = NoBlock
             /\ b \in Having(h) => IsBlock(h[b])
  <2>1. CASE h[b] = NoBlock
    BY <2>1 DEF NoBlock, SizesOf, Having
  <2>2. CASE IsBlock(h[b])
    BY <2>2 DEF IsBlock, SizesOf, Having
  <2> QED
    BY <2>1, <2>2 DEF Accounts, MayHave
<1>2. u = SumOf(SizesOf(h), Blocks)
  BY SumOfSet DEF Accounts, Total
<1>3. SumOf(SizesOf(h), Blocks) \in Int
  BY <1>1, SumIsNumber DEF PoolsConstants
<1> QED
  BY <1>1, <1>2, <1>3

\* The blocks of some users go.
Rest(gone) == [c \in Blocks |-> IF c \in gone THEN NoBlock ELSE held[c]]

\* After blocks are given back the accounts are right for the others.
LEMMA FreeAccounts ==
    ASSUME PoolsConstants, NEW m, NEW u, Accounts(held, m, u), NEW G \in SUBSET Having(held)
    PROVE  Accounts(Rest(G), FreeFromPool(m, G), u - SumOf(SizesOf(held), G))
<1> DEFINE h == Rest(G)
<1>0. \A b \in Blocks : MayHave(b, held[b])
  BY DEF Accounts
<1>1. /\ G \in SUBSET Blocks /\ \A b \in G : held[b] \in BlocksOf(held)
      /\ \A b \in G : Class(held[b].size) = 64 => held[b].at[2] = b
  <2>1. G \in SUBSET Blocks /\ \A b \in G : held[b] \in BlocksOf(held)
    BY DEF BlocksOf, Having
  <2>2. \A b \in G : held[b] # NoBlock
    BY DEF Having, NoBlock
  <2> QED
    BY <1>0, <2>1, <2>2 DEF MayHave
<1>2. \A b \in Blocks : h[b] = IF b \in G THEN NoBlock ELSE held[b]
  BY DEF Rest
<1>3. Having(h) = Having(held) \ G
  BY <1>2 DEF Having, NoBlock
<1>4. \A b \in Having(h) : h[b] = held[b]
  BY <1>2, <1>3 DEF Having
<1>5. BlocksOf(h) = BlocksOf(held) \ {held[b] : b \in G}
  <2>1. \A a, b \in Having(held) : held[a] = held[b] => a = b
    BY DEF Accounts
  <2> QED
    BY <1>3, <1>4, <2>1 DEF BlocksOf
<1>6. HoldsBlocks(FreeFromPool(m, G), BlocksOf(h))
  BY <1>1, <1>5, FreeHolds DEF Accounts
<1>7. /\ \A b \in Blocks : MayHave(b, h[b])
      /\ \A a, b \in Having(h) : a # b => h[a].at # h[b].at
  <2>1. \A b \in Blocks : MayHave(b, NoBlock) /\ MayHave(b, held[b])
    BY DEF Accounts, MayHave
  <2>2. \A a, b \in Having(held) : a # b => held[a].at # held[b].at
    BY DEF Accounts
  <2> QED
    BY <1>2, <1>3, <1>4, <2>1, <2>2
<1>8. u - SumOf(SizesOf(held), G) = Total(SizesOf(h), Blocks)
  <2>1. \A p \in Blocks : /\ SizesOf(held)[p] \in Int
                          /\ SizesOf(h)[p] = IF p \in G THEN 0 ELSE SizesOf(held)[p]
    <3>1. \A p \in Blocks : held[p].size \in Nat /\ SizesOf(held)[p] = held[p].size
      BY SizesAre
    <3>2. \A p \in Blocks : SizesOf(h)[p] = IF p \in G THEN 0 ELSE held[p].size
      BY <1>2 DEF SizesOf, NoBlock
    <3> QED
      BY <3>1, <3>2
  <2>2. SumOf(SizesOf(h), Blocks) = SumOf(SizesOf(held), Blocks) - SumOf(SizesOf(held), G)
    BY <1>1, <2>1, SumCleared DEF PoolsConstants
  <2>3. Total(SizesOf(h), Blocks) = SumOf(SizesOf(h), Blocks)
    BY SumOfSet DEF Total, PoolsConstants
  <2>4. u = SumOf(SizesOf(held), Blocks)
    BY SizesAre
  <2> QED
    BY <2>2, <2>3, <2>4
<1>9. h = [b \in Blocks |-> h[b]]
  BY DEF Rest
<1> HIDE DEF h
<1>10. Accounts(h, FreeFromPool(m, G), u - SumOf(SizesOf(held), G))
  BY <1>6, <1>7, <1>8, <1>9 DEF Accounts
<1> QED
  BY <1>10 DEF h

\* The block of one user moves, or grows or shrinks where it is.
LEMMA MoveAccounts ==
    ASSUME PoolsConstants, NEW h, NEW m, NEW u, Accounts(h, m, u), NEW b \in Blocks,
           NEW size \in Nat \ {0}, NEW r, Got(r, BlocksOf(h) \ {h[b]}, b, size)
    PROVE  Accounts([h EXCEPT ![b] = [at |-> r.at, size |-> size]], r.memory, u + (size - h[b].size))
<1> DEFINE k == [h EXCEPT ![b] = [at |-> r.at, size |-> size]]
<1>1. PICK x : /\ r.at = x.at /\ IsBlock(x) /\ x.size = size
               /\ Class(size) = 64 => x.at = <<"host", b, 0>>
               /\ \A y \in BlocksOf(h) \ {h[b]} : y.at # x.at
               /\ HoldsBlocks(r.memory, (BlocksOf(h) \ {h[b]}) \cup {x})
  BY DEF Got
<1>2. x = [at |-> r.at, size |-> size]
  BY <1>1 DEF IsBlock
<1>3. /\ k = [c \in Blocks |-> k[c]] /\ k[b] = x
      /\ \A c \in Blocks : c # b => k[c] = h[c]
  BY <1>2 DEF Accounts
<1> HIDE DEF k
<1>4. Having(k) = Having(h) \cup {b}
  BY <1>1, <1>3 DEF Having
<1>5. \A c \in Having(h) : c # b => h[c] # h[b]
  <2> SUFFICES ASSUME NEW c \in Having(h), c # b, h[c] = h[b] PROVE FALSE
    OBVIOUS
  <2>1. b \in Having(h)
    BY DEF Having
  <2> QED
    BY <2>1 DEF Accounts
<1>6. BlocksOf(k) = (BlocksOf(h) \ {h[b]}) \cup {x}
  <2>1. \A c \in Having(h) : c # b => k[c] = h[c]
    BY <1>3 DEF Having
  <2> QED
    BY <1>3, <1>4, <1>5, <2>1 DEF BlocksOf
<1>7. ASSUME NEW a \in Having(k), NEW c \in Having(k), a # c PROVE k[a].at # k[c].at
  <2>1. ASSUME NEW d \in Having(k), d # b
        PROVE  d \in Having(h) /\ k[d] = h[d] /\ k[d].at # x.at
    <3>1. d \in Having(h) /\ k[d] = h[d]
      BY <1>3, <1>4, <2>1 DEF Having
    <3>2. h[d] \in BlocksOf(h) \ {h[b]}
      BY <1>5, <2>1, <3>1 DEF BlocksOf
    <3> QED
      BY <1>1, <3>1, <3>2
  <2>2. CASE a = b \/ c = b
    BY <1>3, <1>7, <2>1, <2>2
  <2>3. CASE a # b /\ c # b
    BY <1>7, <2>1, <2>3 DEF Accounts
  <2> QED
    BY <2>2, <2>3
<1>8. ASSUME NEW c \in Blocks
      PROVE  MayHave(c, k[c])
  <2>1. CASE c = b
    <3>1. Class(size) = 64 => x.at[2] = b
      BY <1>1
    <3> QED
      BY <1>1, <1>3, <2>1, <3>1 DEF MayHave
  <2>2. CASE c # b
    BY <1>3, <2>2 DEF Accounts
  <2> QED
    BY <2>1, <2>2
<1>9. u + (size - h[b].size) = Total(SizesOf(k), Blocks)
  <2>1. \A p \in Blocks : h[p].size \in Nat /\ SizesOf(h)[p] = h[p].size
    <3> QED
      BY SizesAre
  <2>2. \A p \in Blocks : /\ SizesOf(h)[p] \in Int /\ SizesOf(k)[p] \in Int
                          /\ p # b => SizesOf(k)[p] = SizesOf(h)[p]
    <3> SUFFICES ASSUME NEW p \in Blocks
                 PROVE  /\ SizesOf(h)[p] \in Int /\ SizesOf(k)[p] \in Int
                        /\ p # b => SizesOf(k)[p] = SizesOf(h)[p]
      OBVIOUS
    <3>1. SizesOf(k)[p] = k[p].size
      BY DEF SizesOf
    <3>2. CASE p = b
      BY <1>1, <1>3, <2>1, <3>1, <3>2
    <3>3. CASE p # b
      BY <1>3, <2>1, <3>1, <3>3
    <3> QED
      BY <3>2, <3>3
  <2>3. SumOf(SizesOf(k), Blocks) = (SumOf(SizesOf(h), Blocks) - SizesOf(h)[b]) + SizesOf(k)[b]
    <3>1. IsFiniteSet(Blocks)
      BY DEF PoolsConstants
    <3> QED
      BY <2>2, <3>1, SumChanged
  <2>4. SizesOf(h)[b] = h[b].size /\ SizesOf(k)[b] = size
    BY <1>1, <1>3 DEF SizesOf
  <2>5. Total(SizesOf(k), Blocks) = SumOf(SizesOf(k), Blocks)
    BY SumOfSet DEF Total, PoolsConstants
  <2>6. u = SumOf(SizesOf(h), Blocks) /\ u \in Int
    BY SizesAre
  <2> QED
    BY <2>1, <2>3, <2>4, <2>5, <2>6
<1>10. Accounts(k, r.memory, u + (size - h[b].size))
  BY <1>1, <1>3, <1>6, <1>7, <1>8, <1>9 DEF Accounts
<1> QED
  BY <1>10 DEF k

-----------------------------------------------------------------------------
(* The steps.                                                              *)

\* What be_gc_memory_pools() frees holds nothing.
LEMMA SweptAccounts ==
    ASSUME PoolsConstants, PoolsInv
    PROVE  Accounts(Rest(garbage), Swept(Memory), usage - SumOf(SizesOf(held), garbage))
<1> DEFINE m == FreeFromPool(Memory, garbage)
           u == usage - SumOf(SizesOf(held), garbage)
<1>1. garbage \in SUBSET Having(held)
  BY DEF PoolsInv, Users, Having
<1>2. Accounts(Rest(garbage), m, u)
  BY <1>1, FreeAccounts DEF PoolsInv
<1> HIDE DEF m, u
<1>3. Accounts(Rest(garbage), WithoutEmptyPools(m), u)
  BY <1>2, WithoutHolds DEF Accounts
<1> QED
  BY <1>3 DEF Swept, m, u

\* A user that has its block still can have it moved.
LEMMA OwnsIt ==
    ASSUME PoolsConstants, NEW h, NEW m, NEW u, Accounts(h, m, u), NEW b \in Blocks, h[b] = held[b]
    PROVE  Own(b, held[b], BlocksOf(h))
<1>1. \A c \in Blocks : MayHave(c, h[c]) /\ (c \in Having(h) <=> h[c].size # 0)
  <2>1. \A c \in Blocks : c \in Having(h) <=> h[c].size # 0
    BY SizesAre
  <2> QED
    BY <2>1 DEF Accounts
<1>2. held[b].size # 0 => held[b] \in BlocksOf(h)
  BY <1>1 DEF BlocksOf
<1>3. \A x \in BlocksOf(h) :
        \E c \in Blocks : x = h[c] /\ IsBlock(x) /\ (Class(x.size) = 64 => x.at[2] = c)
  <2> SUFFICES ASSUME NEW c \in Having(h)
               PROVE  c \in Blocks /\ IsBlock(h[c]) /\ (Class(h[c].size) = 64 => h[c].at[2] = c)
    BY DEF BlocksOf
  <2>1. c \in Blocks /\ h[c].size # 0
    BY <1>1 DEF Having
  <2>2. h[c] # NoBlock
    BY <2>1 DEF NoBlock
  <2> QED
    BY <1>1, <2>1, <2>2 DEF MayHave
<1>4. held[b] \in BlocksOf(h) /\ Class(held[b].size) = 64 => held[b].at[2] = b
  <2> SUFFICES ASSUME held[b] \in BlocksOf(h), Class(held[b].size) = 64 PROVE held[b].at[2] = b
    OBVIOUS
  <2>1. held[b] # NoBlock
    <3>1. IsBlock(held[b])
      BY <1>3
    <3>2. held[b].size # 0
      BY <3>1 DEF IsBlock
    <3> QED
      BY <3>2 DEF NoBlock
  <2> QED
    BY <1>1, <2>1 DEF MayHave
<1>5. ASSUME NEW x \in BlocksOf(h), x.at = <<"host", b, 0>> PROVE x = held[b]
  <2>1. PICK c \in Blocks : x = h[c] /\ IsBlock(x) /\ (Class(x.size) = 64 => x.at[2] = c)
    BY <1>3
  <2>2. x.at[1] = "host" /\ x.at[2] = b
    BY <1>5
  <2>3. Class(x.size) = 64
    BY <2>1, <2>2, BlockIs DEF NameOf
  <2> QED
    BY <2>1, <2>2, <2>3
<1> QED
  BY <1>2, <1>4, <1>5 DEF Own

\* An attempt fails and changes nothing, or the user's block is of the new size.
LEMMA AttemptAccounts ==
    ASSUME PoolsConstants, NEW h, NEW m, NEW u, Accounts(h, m, u), NEW b \in Blocks, h[b] = held[b],
           NEW size \in Nat \ {0}, NEW r, r = Attempt(m, b, held[b], size)
    PROVE  \/ r.at = <<>> /\ r.memory = m
           \/ /\ r.at # <<>>
              /\ Accounts([h EXCEPT ![b] = [at |-> r.at, size |-> size]], r.memory,
                          u + (size - held[b].size))
<1>1. Own(b, held[b], BlocksOf(h))
  BY OwnsIt
<1>2. HoldsBlocks(m, BlocksOf(h))
  BY DEF Accounts
<1>3. CASE r = Failed(m)
  BY <1>3 DEF Failed
<1>4. CASE Got(r, BlocksOf(h) \ {h[b]}, b, size)
  <2>1. r.at # <<>>
    BY <1>4, BlockIs DEF Got
  <2>2. Accounts([h EXCEPT ![b] = [at |-> r.at, size |-> size]], r.memory, u + (size - h[b].size))
    BY <1>4, MoveAccounts
  <2> QED
    BY <2>1, <2>2
<1> QED
  BY <1>1, <1>2, <1>3, <1>4, AttemptHolds

\* be_realloc()
LEMMA ReallocAccounts ==
    ASSUME PoolsConstants, PoolsInv, NEW b \in Blocks, NEW size \in Sizes, Realloc(b, size)
    PROVE  PoolsInv'
<1> DEFINE old == held[b]
           first == Attempt(Memory, b, old, size)
           collects == size > 0 /\ first.at = <<>>
           gone == IF collects THEN garbage ELSE {}
           result == IF collects THEN Attempt(Swept(Memory), b, old, size) ELSE first
           freed == Total([c \in Blocks |-> held[c].size], gone)
<1>1. /\ size # old.size /\ b \notin garbage /\ garbage' = garbage \ gone
      /\ size = 0 => /\ SetMemory(FreeFromPool(Memory, {b}))
                     /\ held' = [Rest(gone) EXCEPT ![b] = NoBlock]
                     /\ usage' = Counted(0, -old.size)
      /\ size # 0 => /\ SetMemory(result.memory)
                     /\ held' = IF result.at = <<>> THEN Rest(gone)
                                ELSE [Rest(gone) EXCEPT ![b] = [at |-> result.at, size |-> size]]
                     /\ usage' = Counted(freed, IF result.at = <<>> THEN 0 ELSE size - old.size)
  BY Zenon DEF Realloc, Rest
<1>2. size \in Nat /\ Accounts(held, Memory, usage) /\ garbage \subseteq Having(held)
  BY DEF PoolsConstants, PoolsInv, Users, Having
<1>3. /\ \A c \in Blocks : held[c].size \in Nat /\ SizesOf(held)[c] = held[c].size
      /\ usage \in Int /\ held = [c \in Blocks |-> held[c]]
  BY <1>2, SizesAre DEF Accounts
<1>4. \A m : SetMemory(m) /\ m = [pool16 |-> m.pool16, pool32 |-> m.pool32, host |-> m.host] => Memory' = m
  BY DEF SetMemory, Memory
<1>5. \A h, m, u : Accounts(h, m, u) => m = [pool16 |-> m.pool16, pool32 |-> m.pool32, host |-> m.host]
  BY DEF Accounts, HoldsBlocks, Memories
<1>6. ASSUME NEW h, NEW m, NEW u, Accounts(h, m, u), SetMemory(m), held' = h, usage' = u,
             \A c \in garbage' : h[c].size = held[c].size
      PROVE  PoolsInv'
  <2>1. Accounts(held', Memory', usage')
    BY <1>4, <1>5, <1>6
  <2>2. garbage' \subseteq Users'
    BY <1>1, <1>2, <1>6 DEF Users, Having
  <2>3. (Accounts(held, Memory, usage))'
    BY <2>1
  <2> QED
    BY <2>2, <2>3 DEF PoolsInv
<1>7. CASE size = 0
  <2>1. gone = {} /\ old.size # 0 /\ Rest(gone) = held
    BY <1>1, <1>3, <1>7 DEF Rest
  <2>2. {b} \in SUBSET Having(held)
    <3>1. held[b].size > 0
      BY <1>3, <2>1
    <3> QED
      BY <3>1 DEF Having
  <2>3. Accounts(Rest({b}), FreeFromPool(Memory, {b}), usage - SumOf(SizesOf(held), {b}))
    BY <1>2, <2>2, FreeAccounts
  <2>4. Rest({b}) = [Rest(gone) EXCEPT ![b] = NoBlock]
    BY <1>3, <2>1 DEF Rest
  <2>5. SumOf(SizesOf(held), {b}) = old.size
    <3>1. SizesOf(held)[b] \in Int /\ SizesOf(held)[b] = old.size
      BY <1>3
    <3> QED
      BY <3>1, SumOfOne
  <2>6. usage - SumOf(SizesOf(held), {b}) = Counted(0, -old.size)
    BY <1>3, <2>5 DEF Counted
  <2>7. \A c \in garbage' : Rest({b})[c].size = held[c].size
    BY <1>1, <1>2 DEF Rest, Having
  <2>8. /\ SetMemory(FreeFromPool(Memory, {b})) /\ held' = Rest({b})
        /\ usage' = usage - SumOf(SizesOf(held), {b})
    BY <1>1, <1>7, <2>1, <2>4, <2>6, Zenon
  <2> QED
    BY <1>6, <2>3, <2>7, <2>8
<1>8. CASE size # 0 /\ first.at # <<>>
  <2>1. gone = {} /\ Rest(gone) = held /\ result = first
    BY <1>3, <1>8 DEF Rest
  <2>2. freed = 0
    BY <2>1, SumOfNone DEF Total
  <2>3. Accounts([held EXCEPT ![b] = [at |-> first.at, size |-> size]], first.memory,
                 usage + (size - old.size))
    BY <1>2, <1>8, AttemptAccounts
  <2>4. usage + (size - old.size) = Counted(freed, size - old.size)
    BY <1>2, <1>3, <2>2 DEF Counted
  <2>5. \A c \in garbage' : [held EXCEPT ![b] = [at |-> first.at, size |-> size]][c].size = held[c].size
    BY <1>1, <1>2, <1>3 DEF Having
  <2> HIDE DEF first
  <2> QED
    BY <1>1, <1>6, <1>8, <2>1, <2>3, <2>4, <2>5, ZenonT(30)
<1>9. CASE size # 0 /\ first.at = <<>>
  <2> DEFINE m == Swept(Memory)
             u == usage - SumOf(SizesOf(held), garbage)
             second == Attempt(m, b, old, size)
  <2>1. gone = garbage /\ result = second
    BY <1>2, <1>9
  <2>2. Accounts(Rest(garbage), m, u)
    BY SweptAccounts
  <2>3. Rest(garbage)[b] = held[b]
    BY <1>1 DEF Rest
  <2>4. freed = SumOf(SizesOf(held), garbage)
    BY <1>2, <2>1, FS_Subset, SumOfSet DEF Total, SizesOf, PoolsConstants, Having
  <2>5. freed \in Int
    <3>1. IsFiniteSet(garbage) /\ \A c \in garbage : SizesOf(held)[c] \in Int
      BY <1>2, <1>3, FS_Subset DEF PoolsConstants, Having
    <3> QED
      BY <2>4, <3>1, SumIsNumber
  <2> HIDE DEF second, m
  <2>6. \/ second.at = <<>> /\ second.memory = m
        \/ /\ second.at # <<>>
           /\ Accounts([Rest(garbage) EXCEPT ![b] = [at |-> second.at, size |-> size]], second.memory,
                       u + (size - held[b].size))
    BY <1>2, <1>9, <2>2, <2>3, AttemptAccounts DEF second
  <2>7. garbage' = {}
    BY <1>1, <2>1
  <2>8. CASE second.at = <<>> /\ second.memory = m
    <3>1. u = Counted(freed, 0)
      BY <1>3, <2>4, <2>5 DEF Counted
    <3> QED
      BY <1>1, <1>6, <1>9, <2>1, <2>2, <2>7, <2>8, <3>1
  <2>9. CASE second.at # <<>>
    <3>1. u + (size - old.size) = Counted(freed, size - old.size)
      BY <1>3, <2>4, <2>5 DEF Counted
    <3> QED
      BY <1>1, <1>6, <1>9, <2>1, <2>6, <2>7, <2>9, <3>1
  <2> QED
    BY <2>6, <2>8, <2>9
<1> QED
  BY <1>7, <1>8, <1>9

\* The memory, the users' blocks and the count agree after every operation.
THEOREM PoolsAgree == ASSUME PoolsConstants PROVE PoolsSpec => []PoolsInv
<1>1. ASSUME PoolsInit PROVE PoolsInv
  <2>1. /\ Having(held) = {} /\ Users = {} /\ BlocksOf(held) = {}
        /\ \A b \in Blocks : held[b] = NoBlock
    BY <1>1 DEF PoolsInit, Having, Users, BlocksOf, NoBlock
  <2>2. <<>> \in PoolList(POOL16_SLOTS) /\ <<>> \in PoolList(POOL32_SLOTS)
    BY DEF PoolList, IdsDiffer
  <2>3. \A slots : UsedSlots(<<>>, slots) = {}
    BY DEF UsedSlots
  <2>4. HoldsBlocks(Memory, {})
    BY <1>1, <2>2, <2>3 DEF PoolsInit, Memory, Memories, HoldsBlocks, SlotsOf
  <2>5. usage = Total(SizesOf(held), Blocks)
    <3>1. \A b \in Blocks : SizesOf(held)[b] = 0
      BY <2>1 DEF SizesOf, NoBlock
    <3>2. SumOf(SizesOf(held), Blocks) = 0
      BY <3>1, SumOfZeros DEF PoolsConstants
    <3> QED
      BY <1>1, <3>2, SumOfSet DEF PoolsInit, Total, PoolsConstants
  <2>6. Accounts(held, Memory, usage)
    BY <1>1, <2>1, <2>4, <2>5 DEF Accounts, MayHave, PoolsInit
  <2> QED
    BY <1>1, <2>6 DEF PoolsInv, PoolsInit
<1>2. ASSUME PoolsInv, [PoolsNext]_poolVars PROVE PoolsInv'
  <2>1. ASSUME NEW b \in Blocks, NEW size \in Sizes, Realloc(b, size) PROVE PoolsInv'
    BY <1>2, <2>1, ReallocAccounts
  <2>2. ASSUME NEW b \in Blocks, Drop(b) PROVE PoolsInv'
    BY <1>2, <2>2 DEF Drop, PoolsInv, Users, Memory, Accounts, Having, SizesOf
  <2>3. CASE CollectGarbage
    <3>1. Accounts(Rest(garbage), Swept(Memory), usage - SumOf(SizesOf(held), garbage))
      BY <1>2, SweptAccounts
    <3>2. Memory' = Swept(Memory) /\ held' = Rest(garbage) /\ garbage' = {}
      <4>1. SetMemory(Swept(Memory)) /\ held' = Rest(garbage) /\ garbage' = {}
        BY <2>3 DEF CollectGarbage, Rest
      <4>2. Swept(Memory) \in Memories
        BY <3>1 DEF Accounts, HoldsBlocks
      <4> QED
        BY <4>1, <4>2 DEF SetMemory, Memory, Memories
    <3>3. usage' = usage - SumOf(SizesOf(held), garbage)
      BY <1>2, <2>3, FS_Subset, SumOfSet DEF CollectGarbage, Total, SizesOf, PoolsConstants, PoolsInv, Users
    <3>4. (Accounts(held, Memory, usage))'
      BY <3>1, <3>2, <3>3
    <3> QED
      BY <3>2, <3>4 DEF PoolsInv
  <2>4. CASE UNCHANGED poolVars
    BY <1>2, <2>4 DEF poolVars, PoolsInv, Users, Memory, Accounts, Having, SizesOf
  <2> QED
    BY <1>2, <2>1, <2>2, <2>3, <2>4 DEF PoolsNext
<1> QED
  BY <1>1, <1>2, PTL DEF PoolsSpec

\* What the users hold, read off the memory.
LEMMA InvGives == ASSUME PoolsConstants, PoolsInv PROVE BlocksApart /\ UsageIsInUse
<1>1. /\ HoldsBlocks(Memory, BlocksOf(held)) /\ Having(held) = Users
      /\ \A b \in Blocks : MayHave(b, held[b]) /\ (b \in Users <=> held[b].size # 0)
  <2>1. Having(held) = Users
    BY DEF Having, Users
  <2>2. \A b \in Blocks : b \in Having(held) <=> held[b].size # 0
    BY SizesAre DEF PoolsInv
  <2> QED
    BY <2>1, <2>2 DEF PoolsInv, Accounts
<1>2. ASSUME NEW b \in Users
      PROVE  /\ IsBlock(held[b]) /\ held[b].at[1] = NameOf(Class(held[b].size))
             /\ Class(held[b].size) \in {16, 32, 64}
             /\ Class(held[b].size) = 64 => held[b].at = <<"host", b, 0>>
  <2>1. b \in Blocks /\ held[b].size # 0
    BY <1>1 DEF Users
  <2>2. held[b] # NoBlock
    BY <2>1 DEF NoBlock
  <2>3. IsBlock(held[b]) /\ (Class(held[b].size) = 64 => held[b].at[2] = b)
    BY <1>1, <2>1, <2>2 DEF MayHave
  <2> QED
    BY <2>3, BlockIs
<1>3. NameOf(16) = "pool16" /\ NameOf(32) = "pool32" /\ NameOf(64) = "host"
  BY DEF NameOf
<1>4. HeldIn("pool16") = SlotsOf(BlocksOf(held), 16) /\ HeldIn("pool32") = SlotsOf(BlocksOf(held), 32)
  <2>1. /\ \A c \in Users : held[c].at[1] = "pool16" <=> Class(held[c].size) = 16
        /\ \A c \in Users : held[c].at[1] = "pool32" <=> Class(held[c].size) = 32
    BY <1>2, <1>3
  <2>2. ASSUME NEW name, NEW class,
               \A c \in Users : held[c].at[1] = name <=> Class(held[c].size) = class
        PROVE  HeldIn(name) = SlotsOf(BlocksOf(held), class)
    <3>1. \A c \in Users : SlotOf(held[c]) = <<held[c].at[2], held[c].at[3]>>
      BY DEF SlotOf
    <3>2. BlocksOf(held) = {held[c] : c \in Users}
      BY <1>1 DEF BlocksOf
    <3> QED
      BY <2>2, <3>1, <3>2 DEF HeldIn, SlotsOf
  <2> QED
    BY <2>1, <2>2
<1>5. \A a, b \in Users : a # b => held[a].at # held[b].at
  BY <1>1 DEF PoolsInv, Accounts
<1>6. /\ UsedSlots(pool16, POOL16_SLOTS) = HeldIn("pool16")
      /\ UsedSlots(pool32, POOL32_SLOTS) = HeldIn("pool32")
  BY <1>1, <1>4 DEF HoldsBlocks, Memory
<1>7. \A b \in Users : held[b].at[1] =
         (CASE Class(held[b].size) = 16 -> "pool16" [] Class(held[b].size) = 32 -> "pool32"
            [] OTHER -> "host")
  BY <1>2, <1>3
<1>8. ASSUME NEW b \in Blocks
      PROVE  hostSize[b] = IF held[b].at # <<>> /\ held[b].at[1] = "host" THEN held[b].size ELSE 0
  <2>1. hostSize[b] # 0 => \E x \in BlocksOf(held) : x.at = <<"host", b, 0>>
    BY <1>1 DEF HoldsBlocks, Memory
  <2>2. CASE held[b].at # <<>> /\ held[b].at[1] = "host"
    <3>1. held[b] # NoBlock
      BY <2>2 DEF NoBlock
    <3>2. IsBlock(held[b]) /\ held[b].size # 0
      BY <1>1, <3>1 DEF MayHave, IsBlock
    <3>3. b \in Users /\ Class(held[b].size) = 64
      BY <1>1, <1>2, <1>3, <2>2, <3>2
    <3>4. held[b] \in BlocksOf(held) /\ held[b].at[2] = b
      BY <1>1, <1>2, <3>3 DEF BlocksOf
    <3>5. hostSize[b] = held[b].size
      BY <1>1, <3>3, <3>4 DEF HoldsBlocks, Memory
    <3> QED
      BY <2>2, <3>5
  <2>3. CASE ~(held[b].at # <<>> /\ held[b].at[1] = "host")
    <3>1. hostSize[b] = 0
      <4> SUFFICES ASSUME hostSize[b] # 0 PROVE FALSE
        OBVIOUS
      <4>1. PICK c \in Users : held[c].at = <<"host", b, 0>>
        BY <1>1, <2>1 DEF BlocksOf
      <4>2. held[c].at[1] = "host" /\ held[c].at[2] = b /\ held[c].at # <<>>
        BY <4>1
      <4>3. held[c].at = <<"host", c, 0>>
        BY <1>2, <1>3, <4>2
      <4>4. c = b
        BY <4>1, <4>3
      <4> QED
        BY <2>3, <4>2, <4>4
    <3> QED
      BY <2>3, <3>1
  <2> QED
    BY <2>2, <2>3
<1>9. UsageIsInUse
  BY DEF PoolsInv, Accounts, UsageIsInUse, SizesOf
<1> QED
  BY <1>5, <1>6, <1>7, <1>8, <1>9 DEF BlocksApart

\* No two blocks overlap, no slot leaks, and the count is what is in use, for
\* any users, sizes, pools and heap.
THEOREM PoolsCorrect == ASSUME PoolsConstants PROVE PoolsSpec => [](BlocksApart /\ UsageIsInUse)
<1>1. PoolsInv => BlocksApart /\ UsageIsInUse
  BY InvGives
<1> QED
  BY <1>1, PoolsAgree, PTL
==============================================================================
