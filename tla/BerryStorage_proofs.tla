------------------------- MODULE BerryStorage_proofs -------------------------
(***************************************************************************)
(* Where the interpreter keeps things: stacks, lists, maps and bytes       *)
(* objects, for any items, keys, hash codes and texts, and any number of   *)
(* them whose next capacity is an int.                                     *)
(***************************************************************************)
EXTENDS BerryVector, BerryList, BerryMap, BerryBytes, Inductions, SequenceTheorems, TLAPS

-----------------------------------------------------------------------------
(* Capacities.                                                             *)

\* Kept as a name in proofs: the provers do not do well on such numbers.
LEMMA LargestIs == LargestSize \in Nat
  BY SMT DEF LargestSize

\* be_nextsize() of a size that is an int is a larger one.
LEMMA NextIsLarger ==
    ASSUME NEW n \in Nat, n <= LargestSize PROVE NextSize(n) \in Nat /\ NextSize(n) > n
<1> DEFINE Above == {c \in Capacities : c > n}
<1>1. Capacities \subseteq Nat /\ IsFiniteSet(Capacities)
  <2>1. \A c \in Table : c \in Nat /\ c <= LargestSize + 1
    BY SMT DEF Table, LargestSize
  <2>2. \A c \in Powers : c \in Nat /\ c <= LargestSize + 1
    BY SMT DEF Powers, LargestSize
  <2>3. LargestSize + 1 \in Int
    BY LargestIs
  <2>4. IsFiniteSet(0 .. LargestSize + 1)
    BY <2>3, FS_Interval
  <2>5. Capacities \subseteq 0 .. LargestSize + 1
    BY <2>1, <2>2, <2>3 DEF Capacities
  <2>6. Capacities \subseteq Nat
    BY <2>3, <2>5
  <2>7. IsFiniteSet(Capacities)
    BY <2>4, <2>5, FS_Subset
  <2> QED
    BY <2>6, <2>7
<1>2. LargestSize + 1 \in Above
  <2>1. LargestSize + 1 \in Capacities
    BY SMT DEF Capacities, Powers, LargestSize
  <2> QED
    BY <2>1, LargestIs
<1>3. PICK c \in Above : \A d \in Above : c <= d
  <2>1. IsFiniteSet(Above) /\ Above \subseteq Int /\ Above # {}
    <3>1. Above \subseteq Capacities
      OBVIOUS
    <3>2. IsFiniteSet(Above)
      BY <1>1, <3>1, FS_Subset
    <3>3. Above \subseteq Int
      <4>1. Capacities \subseteq Int
        BY <1>1
      <4> HIDE DEF Above
      <4> QED
        BY <3>1, <4>1
    <3>4. Above # {}
      <4> HIDE DEF Above
      <4> QED
        BY <1>2
    <3> QED
      BY <3>2, <3>3, <3>4
  <2>2. Min(Above) \in Above /\ \A d \in Above : Min(Above) <= d
    BY <2>1, Extremes
  <2> QED
    BY <2>2
<1>4. \E d \in Capacities : d > n /\ \A e \in Capacities : e > n => d <= e
  BY <1>3
<1>5. NextSize(n) \in Capacities /\ NextSize(n) > n
  BY <1>4, Zenon DEF NextSize
<1> QED
  BY <1>1, <1>5

-----------------------------------------------------------------------------
(* The stacks.                                                             *)

StackCells  == Items \cup {Zero, Lies}
Stacks == [cells : Seq(StackCells), count : Nat, end : Int]
Kept   == [count : Nat, was : Seq(Items)]

StackTypes ==
    /\ stk \in Stacks
    /\ pushed \in Seq(Items) /\ Len(pushed) <= MaxStk
    /\ saved \in Seq(Kept)

\* The cells in use are what was pushed.
Faithful ==
    /\ stk.count = Len(pushed) /\ stk.count <= Len(stk.cells) /\ stk.end = stk.count - 1
    /\ \A i \in 1 .. Len(pushed) : stk.cells[i] = pushed[i]

\* Try blocks nest: what an outer one keeps is the beginning of what an inner
\* one keeps, and that of what is on the stack.
Nested ==
    /\ \A k \in 1 .. Len(saved) :
         /\ saved[k].count = Len(saved[k].was) /\ saved[k].count <= Len(pushed)
         /\ \A i \in 1 .. saved[k].count : saved[k].was[i] = pushed[i]
    /\ \A j, k \in 1 .. Len(saved) : j <= k => saved[j].count <= saved[k].count

StackInv == StackTypes /\ Faithful /\ Nested

-----------------------------------------------------------------------------
\* The types, taken apart.
LEMMA Shapes ==
    ASSUME StackTypes
    PROVE  /\ stk.cells \in Seq(StackCells) /\ Len(stk.cells) \in Nat
           /\ stk.count \in Nat /\ stk.end \in Int
           /\ pushed \in Seq(Items) /\ Len(pushed) \in Nat /\ Len(pushed) <= MaxStk
           /\ saved \in Seq(Kept) /\ Len(saved) \in Nat
           /\ \A k \in 1 .. Len(saved) :
                /\ saved[k].count \in Nat /\ saved[k].was \in Seq(Items)
                /\ Len(saved[k].was) \in Nat
<1>1. stk.cells \in Seq(StackCells) /\ stk.count \in Nat /\ stk.end \in Int
  BY DEF StackTypes, Stacks
<1>2. \A k \in 1 .. Len(saved) : saved[k] \in Kept
  BY DEF StackTypes
<1>3. \A k \in 1 .. Len(saved) : saved[k].count \in Nat /\ saved[k].was \in Seq(Items)
  BY <1>2 DEF Kept
<1> QED
  BY <1>1, <1>3 DEF StackTypes

\* A stack from its three parts.
LEMMA StackOf ==
    ASSUME NEW c \in Seq(StackCells), NEW n \in Nat, NEW e \in Int
    PROVE  /\ [cells |-> c, count |-> n, end |-> e] \in Stacks
           /\ [cells |-> c, count |-> n, end |-> e].cells = c
           /\ [cells |-> c, count |-> n, end |-> e].count = n
           /\ [cells |-> c, count |-> n, end |-> e].end = e
  BY DEF Stacks

\* And its parts, also with some of them changed.
LEMMA PartsOf ==
    ASSUME NEW v \in Stacks
    PROVE  /\ v.cells \in Seq(StackCells) /\ Len(v.cells) \in Nat
           /\ v.count \in Nat /\ v.end \in Int
<1>1. v.cells \in Seq(StackCells) /\ v.count \in Nat /\ v.end \in Int
  BY DEF Stacks
<1> QED
  BY <1>1, LenProperties

\* A stack with other cells, as be_vector_resize() leaves it.
LEMMA NewCells ==
    ASSUME NEW v \in Stacks, NEW c \in Seq(StackCells)
    PROVE  /\ [v EXCEPT !.cells = c] \in Stacks /\ [v EXCEPT !.cells = c].cells = c
           /\ [v EXCEPT !.cells = c].count = v.count /\ [v EXCEPT !.cells = c].end = v.end
  BY DEF Stacks

Ended(v, n, e) == [v EXCEPT !.count = n, !.end = e]

\* A stack with another count and end.
LEMMA NewEnd ==
    ASSUME NEW v \in Stacks, NEW n \in Nat, NEW e \in Int
    PROVE  /\ Ended(v, n, e) \in Stacks /\ Ended(v, n, e).cells = v.cells
           /\ Ended(v, n, e).count = n /\ Ended(v, n, e).end = e
<1>1. Ended(v, n, e) \in Stacks
  BY DEF Stacks, Ended
<1>2. Ended(v, n, e).cells = v.cells
  BY DEF Stacks, Ended
<1>3. Ended(v, n, e).count = n
  BY DEF Stacks, Ended
<1>4. Ended(v, n, e).end = e
  BY DEF Stacks, Ended
<1> QED
  BY <1>1, <1>2, <1>3, <1>4

\* More memory leaves the cells that are in use as they were.
LEMMA EnlargedKeeps ==
    ASSUME NEW v \in Stacks, NEW c \in Nat
    PROVE  /\ Enlarged(v, c) \in Stacks
           /\ Enlarged(v, c).count = v.count /\ Enlarged(v, c).end = v.end
           /\ Len(Enlarged(v, c).cells) >= Len(v.cells)
           /\ Len(Enlarged(v, c).cells) >= c
           /\ \A i \in 1 .. Len(v.cells) : Enlarged(v, c).cells[i] = v.cells[i]
<1>0. /\ v.cells \in Seq(StackCells) /\ Len(v.cells) \in Nat /\ v.count \in Nat /\ v.end \in Int
  BY PartsOf
<1>1. CASE c > Len(v.cells)
  <2> DEFINE m == c - Len(v.cells)
             more == [i \in 1 .. m |-> Lies]
             all  == v.cells \o more
  <2>1. m \in Nat /\ Len(v.cells) + m = c
    BY <1>0, <1>1
  <2>2. more \in Seq(StackCells) /\ Len(more) = m
    <3> HIDE DEF m
    <3> QED
      BY <2>1 DEF StackCells
  <2>3. Enlarged(v, c) = [v EXCEPT !.cells = all]
    BY <1>1 DEF Enlarged
  <2> HIDE DEF more, m
  <2>4. /\ all \in Seq(StackCells) /\ Len(all) = Len(v.cells) + Len(more)
        /\ \A i \in 1 .. Len(v.cells) : all[i] = v.cells[i]
    <3>1. \A i \in 1 .. Len(v.cells) : i \in 1 .. Len(v.cells) + Len(more) /\ i <= Len(v.cells)
      BY <1>0, <2>1, <2>2
    <3> QED
      BY <1>0, <2>2, <3>1, ConcatProperties
  <2>5. Len(all) = c /\ c >= Len(v.cells)
    BY <1>0, <1>1, <2>1, <2>2, <2>4
  <2> HIDE DEF all
  <2> QED
    BY <1>0, <2>3, <2>4, <2>5, NewCells
<1>2. CASE ~(c > Len(v.cells))
  BY <1>0, <1>2 DEF Enlarged
<1> QED
  BY <1>1, <1>2

-----------------------------------------------------------------------------
\* A push, with or without growing.
LEMMA PushKeeps ==
    ASSUME VectorConstants, StackInv, NEW x \in Items, StackPush(x)
    PROVE  StackInv'
<1> DEFINE g == IF stk.count >= Len(stk.cells) THEN Enlarged(stk, NextSize(Len(stk.cells))) ELSE stk
           c == [g.cells EXCEPT ![stk.count + 1] = x]
<1>0. /\ stk \in Stacks /\ Len(stk.cells) \in Nat /\ stk.count \in Nat /\ Len(saved) \in Nat
      /\ pushed \in Seq(Items) /\ Len(pushed) \in Nat /\ saved \in Seq(Kept) /\ MaxStk \in 0 .. LargestSize
  BY Shapes DEF StackInv, StackTypes, VectorConstants
<1>a. /\ stk.count = Len(pushed) /\ stk.count <= Len(stk.cells)
      /\ \A i \in 1 .. Len(pushed) : stk.cells[i] = pushed[i]
  BY DEF StackInv, Faithful
<1>2. /\ stk' = [cells |-> c, count |-> stk.count + 1, end |-> stk.count]
      /\ pushed' = Append(pushed, x) /\ saved' = saved /\ Len(pushed) < MaxStk
  BY DEF StackPush
<1>1. /\ g \in Stacks /\ Len(g.cells) > stk.count
      /\ \A i \in 1 .. Len(stk.cells) : g.cells[i] = stk.cells[i]
  <2>1. CASE stk.count >= Len(stk.cells)
    <3>1. Len(stk.cells) \in Nat /\ Len(stk.cells) <= LargestSize
      <4>1. Len(stk.cells) \in Nat /\ stk.count \in Nat /\ Len(pushed) \in Nat /\ MaxStk \in 0 .. LargestSize
        BY <1>0
      <4>2. stk.count = Len(pushed) /\ stk.count <= Len(stk.cells) /\ Len(pushed) < MaxStk
        BY <1>a, <1>2
      <4>4. Len(stk.cells) <= LargestSize
        BY <2>1, <4>1, <4>2, LargestIs
      <4> QED
        BY <4>1, <4>4
    <3>2. NextSize(Len(stk.cells)) \in Nat /\ NextSize(Len(stk.cells)) > Len(stk.cells)
      BY <3>1, NextIsLarger
    <3> DEFINE n == NextSize(Len(stk.cells))
    <3>3. g = Enlarged(stk, n)
      BY <2>1
    <3> HIDE DEF n, g
    <3>4. n \in Nat /\ n > Len(stk.cells)
      BY <3>2 DEF n
    <3>5. /\ Enlarged(stk, n) \in Stacks /\ Len(Enlarged(stk, n).cells) >= n
          /\ \A i \in 1 .. Len(stk.cells) : Enlarged(stk, n).cells[i] = stk.cells[i]
      BY <1>0, <3>4, EnlargedKeeps
    <3>6. Len(Enlarged(stk, n).cells) \in Nat
      BY <3>5, PartsOf
    <3> QED
      <4>1. Len(g.cells) > stk.count
        <5>1. stk.count <= Len(stk.cells) /\ stk.count \in Nat /\ n > Len(stk.cells) /\ n \in Nat
              /\ Len(stk.cells) \in Nat
          BY <1>0, <1>a, <3>4
        <5>2. Len(Enlarged(stk, n).cells) >= n
          BY <3>5
        <5>3. Len(Enlarged(stk, n).cells) > stk.count
          BY <3>6, <5>1, <5>2
        <5> QED
          BY <3>3, <5>3
      <4> QED
        BY <3>3, <3>5, <4>1
  <2>2. CASE ~(stk.count >= Len(stk.cells))
    BY <1>0, <2>2
  <2> QED
    BY <2>1, <2>2
<1> HIDE DEF g
<1>b. g.cells \in Seq(StackCells) /\ Len(g.cells) \in Nat
  BY <1>1, PartsOf
<1>3. c \in Seq(StackCells) /\ Len(c) = Len(g.cells) /\ \A i \in 1 .. Len(c) :
        c[i] = IF i = stk.count + 1 THEN x ELSE g.cells[i]
  <2>1. stk.count + 1 \in 1 .. Len(g.cells)
    BY <1>0, <1>1, <1>b
  <2>2. x \in StackCells
    BY DEF StackCells
  <2> QED
    BY <1>b, <2>1, <2>2, ExceptSeq
<1> HIDE DEF c
<1>4. /\ pushed' \in Seq(Items) /\ Len(pushed') = Len(pushed) + 1
      /\ \A i \in 1 .. Len(pushed) : pushed'[i] = pushed[i]
      /\ pushed'[Len(pushed) + 1] = x
  BY <1>0, <1>2, AppendProperties
<1>c. stk' \in Stacks /\ stk'.cells = c /\ stk'.count = stk.count + 1 /\ stk'.end = stk.count
  <2>1. stk.count + 1 \in Nat /\ stk.count \in Int
    BY <1>0
  <2> HIDE <1>0
  <2> QED
    BY <1>2, <1>3, <2>1, StackOf
<1>5. StackTypes'
  <2>1. Len(pushed') <= MaxStk
    <3>1. Len(pushed) \in Nat /\ MaxStk \in Nat
      BY <1>0
    <3>2. Len(pushed) < MaxStk
      BY <1>2
    <3>3. Len(pushed') = Len(pushed) + 1
      BY <1>4
    <3> QED
      BY <3>1, <3>2, <3>3
  <2> QED
    BY <1>0, <1>2, <1>4, <1>c, <2>1 DEF StackTypes
<1>6. Faithful'
  <2>1. Len(pushed) + 1 <= Len(c)
    BY <1>0, <1>1, <1>3, <1>a, <1>b
  <2>2. \A i \in 1 .. Len(pushed) + 1 : c[i] = pushed'[i]
    <3> SUFFICES ASSUME NEW i \in 1 .. Len(pushed) + 1 PROVE c[i] = pushed'[i]
      OBVIOUS
    <3>1. CASE i = Len(pushed) + 1
      BY <1>0, <1>3, <1>4, <1>a, <1>b, <2>1, <3>1
    <3>2. CASE i \in 1 .. Len(pushed)
      <4>1. i \in 1 .. Len(c) /\ i # stk.count + 1 /\ i \in 1 .. Len(stk.cells)
        BY <1>0, <1>1, <1>3, <1>a, <1>b, <2>1, <3>2
      <4> QED
        BY <1>1, <1>3, <1>4, <1>a, <3>2, <4>1
    <3> QED
      BY <1>0, <3>1, <3>2
  <2> QED
    BY <1>0, <1>4, <1>a, <1>c, <2>1, <2>2 DEF Faithful
<1>7. Nested'
  <2>1. \A k \in 1 .. Len(saved) : saved[k].count \in Nat
    BY Shapes DEF StackInv
  <2> QED
    BY <1>0, <1>2, <1>4, <2>1 DEF StackInv, Nested
<1> QED
  BY <1>5, <1>6, <1>7 DEF StackInv

\* What the innermost try block keeps, and what the outer ones do.
LEMMA FrontOfSaved ==
    ASSUME StackInv, saved # <<>>
    PROVE  /\ Len(saved) \in Nat \ {0}
           /\ Front(saved) \in Seq(Kept) /\ Len(Front(saved)) = Len(saved) - 1
           /\ \A k \in 1 .. Len(saved) - 1 : Front(saved)[k] = saved[k]
           /\ Last(saved) = saved[Len(saved)]
           /\ Last(saved).count \in Nat /\ Last(saved).was \in Seq(Items)
<1>1. saved \in Seq(Kept) /\ Len(saved) \in Nat \ {0}
  BY EmptySeq DEF StackInv, StackTypes
<1>2. Last(saved) = saved[Len(saved)] /\ Len(saved) \in 1 .. Len(saved)
  BY <1>1 DEF Last
<1>3. Last(saved).count \in Nat /\ Last(saved).was \in Seq(Items)
  BY <1>2, Shapes DEF StackInv
<1>4. /\ SubSeq(saved, 1, Len(saved) - 1) \in Seq(Kept)
      /\ Len(SubSeq(saved, 1, Len(saved) - 1)) = Len(saved) - 1
      /\ \A k \in 1 .. Len(saved) - 1 : SubSeq(saved, 1, Len(saved) - 1)[k] = saved[k]
  <2> DEFINE n == Len(saved) - 1
  <2>1. n \in Int /\ n >= 0 /\ \A k \in 1 .. n : k \in 1 .. Len(saved)
    BY <1>1
  <2>2. \A k \in 1 .. n : saved[k] \in Kept
    BY <1>1, <2>1, ElementOfSeq
  <2> HIDE DEF n
  <2>3. /\ SubSeq(saved, 1, n) \in Seq(Kept) /\ Len(SubSeq(saved, 1, n)) = n
        /\ \A k \in 1 .. n : SubSeq(saved, 1, n)[k] = saved[k]
    BY <2>1, <2>2, SubSeqProperties
  <2> QED
    BY <2>3 DEF n
<1> QED
  BY <1>1, <1>2, <1>3, <1>4 DEF Front

\* A pop, which stays above what the innermost try block keeps.
LEMMA PopKeeps ==
    ASSUME VectorConstants, StackInv, NEW releases \in BOOLEAN, StackPop(releases)
    PROVE  StackInv'
<1>0. /\ stk \in Stacks /\ Len(stk.cells) \in Nat /\ stk.count \in Nat /\ stk.end \in Int
      /\ Len(saved) \in Nat /\ stk.cells \in Seq(StackCells)
      /\ pushed \in Seq(Items) /\ Len(pushed) \in Nat /\ saved \in Seq(Kept)
      /\ \A k \in 1 .. Len(saved) : saved[k].count \in Nat
  BY Shapes DEF StackInv, StackTypes
<1>a. /\ stk.count = Len(pushed) /\ stk.count <= Len(stk.cells) /\ stk.end = stk.count - 1
      /\ \A i \in 1 .. Len(pushed) : stk.cells[i] = pushed[i]
  BY DEF StackInv, Faithful
<1>b. /\ stk.count > (IF saved = <<>> THEN 0 ELSE Last(saved).count)
      /\ stk' = IF releases /\ stk.count = 1 THEN [cells |-> <<>>, count |-> 0, end |-> -1]
                ELSE [stk EXCEPT !.count = @ - 1, !.end = @ - 1]
      /\ pushed' = Front(pushed) /\ saved' = saved
  BY DEF StackPop
<1>1. stk.count > 0 /\ stk.count - 1 \in Nat
  BY <1>0, <1>b, FrontOfSaved
<1>2. /\ pushed' \in Seq(Items) /\ Len(pushed') = Len(pushed) - 1
      /\ \A i \in 1 .. Len(pushed) - 1 : pushed'[i] = pushed[i]
  <2>1. pushed' = SubSeq(pushed, 1, Len(pushed) - 1) /\ Len(pushed) > 0
    BY <1>1, <1>a, <1>b DEF Front
  <2> DEFINE n == Len(pushed) - 1
  <2>2. n \in Int /\ n >= 0 /\ \A i \in 1 .. n : i \in 1 .. Len(pushed)
    BY <1>0, <2>1
  <2>3. \A i \in 1 .. n : pushed[i] \in Items
    BY <1>0, <2>2, ElementOfSeq
  <2>4. pushed' = SubSeq(pushed, 1, n)
    BY <2>1
  <2> HIDE DEF n
  <2>5. /\ pushed' \in Seq(Items) /\ Len(pushed') = n
        /\ \A i \in 1 .. n : pushed'[i] = pushed[i]
    BY <2>2, <2>3, <2>4, SubSeqProperties
  <2> QED
    BY <2>5 DEF n
<1>3. \A k \in 1 .. Len(saved) : saved[k].count <= Len(pushed) - 1
  <2> SUFFICES ASSUME NEW k \in 1 .. Len(saved)
               PROVE  saved[k].count <= Len(pushed) - 1
    OBVIOUS
  <2>0. saved # <<>> /\ Len(saved) \in 1 .. Len(saved)
    BY <1>0
  <2>1. saved[k].count <= saved[Len(saved)].count
    BY <1>0, <2>0 DEF StackInv, Nested
  <2>2. stk.count > saved[Len(saved)].count
    BY <1>b, <2>0, FrontOfSaved
  <2> QED
    BY <1>0, <1>a, <2>0, <2>1, <2>2
<1>4. /\ stk' \in Stacks /\ stk'.count = stk.count - 1 /\ stk'.end = stk.count - 2
      /\ stk'.cells = stk.cells \/ (stk.count = 1 /\ stk'.cells = <<>>)
  <2>1. CASE releases /\ stk.count = 1
    <3>1. stk' = [cells |-> <<>>, count |-> 0, end |-> -1] /\ <<>> \in Seq(StackCells)
      BY <1>b, <2>1
    <3>2. 0 \in Nat /\ -1 \in Int /\ stk.count - 1 = 0 /\ stk.count - 2 = -1
      BY <2>1
    <3> QED
      BY <2>1, <3>1, <3>2, StackOf
  <2>2. CASE ~(releases /\ stk.count = 1)
    <3>1. stk.end - 1 = stk.count - 2 /\ stk.count - 2 \in Int
      BY <1>0, <1>a
    <3>2. stk' = [stk EXCEPT !.count = stk.count - 1, !.end = stk.count - 2]
      BY <1>b, <2>2, <3>1
    <3> QED
      <4> DEFINE n == stk.count - 1
                 e == stk.count - 2
      <4>1. n \in Nat /\ e \in Int /\ stk' = Ended(stk, n, e)
        BY <1>1, <3>1, <3>2 DEF Ended
      <4> HIDE DEF n, e
      <4>2. stk' \in Stacks /\ stk'.cells = stk.cells /\ stk'.count = n /\ stk'.end = e
        <5>1. stk \in Stacks
          BY <1>0
        <5> QED
          BY <4>1, <5>1, NewEnd
      <4> QED
        BY <4>2 DEF n, e
  <2> QED
    BY <2>1, <2>2
<1>5. StackTypes'
  <2>1. Len(pushed') <= MaxStk
    BY <1>0, <1>2, Shapes DEF VectorConstants, StackInv
  <2> QED
    BY <1>0, <1>2, <1>4, <1>b, <2>1 DEF StackTypes
<1>6. Faithful'
  <2>1. CASE stk'.cells = stk.cells
    BY <1>0, <1>2, <1>4, <1>a, <2>1 DEF Faithful
  <2>2. CASE stk.count = 1 /\ stk'.cells = <<>>
    BY <1>0, <1>2, <1>4, <1>a, <2>2 DEF Faithful
  <2> QED
    BY <1>4, <2>1, <2>2
<1>7. Nested'
  BY <1>0, <1>2, <1>3, <1>b DEF StackInv, Nested
<1> QED
  BY <1>5, <1>6, <1>7 DEF StackInv

\* A try block begins: it keeps the stack as it is.
LEMMA TryKeeps ==
    ASSUME StackInv, StackTry PROVE StackInv'
<1> DEFINE b == [count |-> stk.count, was |-> pushed]
<1>0. /\ stk.count \in Nat /\ Len(saved) \in Nat /\ Len(pushed) \in Nat
      /\ pushed \in Seq(Items) /\ saved \in Seq(Kept) /\ stk.count = Len(pushed)
      /\ \A k \in 1 .. Len(saved) : saved[k].count \in Nat
  BY Shapes DEF StackInv, Faithful
<1>1. saved' = Append(saved, b) /\ stk' = stk /\ pushed' = pushed
  BY DEF StackTry
<1>2. b \in Kept /\ b.count = stk.count /\ b.was = pushed
  BY <1>0 DEF Kept
<1> HIDE DEF b
<1>3. /\ saved' \in Seq(Kept) /\ Len(saved') = Len(saved) + 1
      /\ \A k \in 1 .. Len(saved) : saved'[k] = saved[k]
      /\ saved'[Len(saved) + 1] = b
  BY <1>0, <1>1, <1>2, AppendProperties
<1>4. StackTypes' /\ Faithful'
  BY <1>1, <1>3 DEF StackInv, StackTypes, Faithful
<1>5. \A k \in 1 .. Len(saved') : k \in 1 .. Len(saved) \/ k = Len(saved) + 1
  BY <1>0, <1>3
<1>6. ASSUME NEW k \in 1 .. Len(saved')
      PROVE  /\ saved'[k].count = Len(saved'[k].was) /\ saved'[k].count <= Len(pushed')
             /\ \A i \in 1 .. saved'[k].count : saved'[k].was[i] = pushed'[i]
  <2>1. CASE k \in 1 .. Len(saved)
    BY <1>1, <1>3, <2>1 DEF StackInv, Nested
  <2>2. CASE k = Len(saved) + 1
    BY <1>0, <1>1, <1>2, <1>3, <2>2
  <2> QED
    BY <1>5, <1>6, <2>1, <2>2
<1>7. ASSUME NEW j \in 1 .. Len(saved'), NEW k \in 1 .. Len(saved'), j <= k
      PROVE  saved'[j].count <= saved'[k].count
  <2>1. CASE k \in 1 .. Len(saved)
    <3>1. j \in 1 .. Len(saved)
      BY <1>0, <1>3, <1>7, <2>1
    <3> QED
      BY <1>3, <1>7, <2>1, <3>1 DEF StackInv, Nested
  <2>2. CASE k = Len(saved) + 1
    <3>1. saved'[k].count = Len(pushed)
      BY <1>0, <1>2, <1>3, <2>2
    <3>2. saved'[j].count <= Len(pushed)
      BY <1>1, <1>6
    <3> QED
      BY <3>1, <3>2
  <2> QED
    BY <1>5, <2>1, <2>2
<1>8. Nested'
  BY <1>6, <1>7 DEF Nested
<1> QED
  BY <1>4, <1>8 DEF StackInv

\* A try block ends.
LEMMA CloseKeeps ==
    ASSUME StackInv, StackClose PROVE StackInv'
<1>1. saved # <<>> /\ saved' = Front(saved) /\ stk' = stk /\ pushed' = pushed
  BY DEF StackClose
<1>2. /\ Len(saved) \in Nat /\ saved' \in Seq(Kept) /\ Len(saved') = Len(saved) - 1
      /\ \A k \in 1 .. Len(saved) - 1 : saved'[k] = saved[k]
  BY <1>1, FrontOfSaved
<1>3. StackTypes' /\ Faithful'
  BY <1>1, <1>2 DEF StackInv, StackTypes, Faithful
<1>4. \A k \in 1 .. Len(saved') : k \in 1 .. Len(saved) /\ saved'[k] = saved[k]
  BY <1>2
<1>5. Nested'
  BY <1>1, <1>4, SMTT(30) DEF StackInv, Nested
<1> QED
  BY <1>3, <1>5 DEF StackInv

\* be_vector_resize() to no more cells than there are.
LEMMA ResizedKeeps ==
    ASSUME NEW v \in Stacks, NEW n \in Nat, n <= LargestSize, n <= Len(v.cells),
           n = v.count => v.end = n - 1
    PROVE  LET w == StackResized(v, n)
           IN  /\ w \in Stacks /\ w.count = n /\ w.end = n - 1 /\ n <= Len(w.cells)
               /\ \A i \in 1 .. n : w.cells[i] = v.cells[i]
<1>0. Len(v.cells) \in Nat
  BY PartsOf
<1>1. CASE n = v.count
  BY <1>1 DEF StackResized
<1>2. CASE n # v.count
  <2> DEFINE u == Enlarged(v, NextSize(n))
             e == n - 1
             w == Ended(u, n, e)
  <2>1. NextSize(n) \in Nat
    BY NextIsLarger
  <2>2. /\ u \in Stacks /\ Len(u.cells) >= Len(v.cells)
        /\ \A i \in 1 .. Len(v.cells) : u.cells[i] = v.cells[i]
    BY <2>1, EnlargedKeeps
  <2>3. StackResized(v, n) = w /\ e \in Int
    BY <1>2 DEF StackResized, Ended
  <2> HIDE DEF u, e
  <2>4. w \in Stacks /\ w.cells = u.cells /\ w.count = n /\ w.end = e
    BY <2>2, <2>3, NewEnd
  <2> HIDE DEF w
  <2>5. Len(u.cells) \in Nat
    BY <2>2, PartsOf
  <2>6. n <= Len(w.cells) /\ \A i \in 1 .. n : w.cells[i] = v.cells[i]
    BY <1>0, <2>2, <2>4, <2>5
  <2> QED
    BY <2>3, <2>4, <2>6 DEF e
<1> QED
  BY <1>1, <1>2

\* An exception, from anywhere or from a push that was counted and found no
\* memory: the stack is what the innermost block kept.
LEMMA ThrowKeeps ==
    ASSUME VectorConstants, StackInv, NEW full \in BOOLEAN, StackThrow(full)
    PROVE  StackInv'
<1> DEFINE v == IF full THEN [stk EXCEPT !.count = @ + 1] ELSE stk
           n == Last(saved).count
           was == Last(saved).was
<1>0. /\ stk \in Stacks /\ Len(stk.cells) \in Nat /\ stk.count \in Nat /\ Len(pushed) \in Nat
      /\ stk.count = Len(pushed) /\ stk.count <= Len(stk.cells) /\ stk.end = stk.count - 1
      /\ \A i \in 1 .. Len(pushed) : stk.cells[i] = pushed[i]
  BY Shapes DEF StackInv, StackTypes, Faithful
<1>1. saved # <<>> /\ saved' = Front(saved) /\ pushed' = was /\ stk' = StackResized(v, n)
  BY DEF StackThrow
<1>2. /\ Len(saved) \in Nat \ {0} /\ saved' \in Seq(Kept) /\ Len(saved') = Len(saved) - 1
      /\ \A k \in 1 .. Len(saved) - 1 : saved'[k] = saved[k]
      /\ Last(saved) = saved[Len(saved)] /\ n \in Nat /\ was \in Seq(Items)
  BY <1>1, FrontOfSaved
<1>3. /\ n <= Len(pushed) /\ n = Len(was)
      /\ \A i \in 1 .. n : was[i] = pushed[i]
  <2>1. Len(saved) \in 1 .. Len(saved)
    BY <1>2
  <2> QED
    BY <1>2, <2>1 DEF StackInv, Nested
<1>4. n <= LargestSize
  <2>1. Len(pushed) <= LargestSize
    <3>1. MaxStk \in Nat /\ MaxStk <= LargestSize
      BY LargestIs DEF VectorConstants
    <3>2. Len(pushed) \in Nat /\ Len(pushed) <= MaxStk
      BY Shapes DEF StackInv
    <3> QED
      BY <3>1, <3>2, LargestIs
  <2> QED
    BY <1>0, <1>2, <1>3, <2>1, LargestIs
<1> HIDE DEF n, was
<1>5. /\ v \in Stacks /\ v.cells = stk.cells
      /\ n = v.count => v.end = n - 1
  <2>1. CASE full
    <3>1. v = [stk EXCEPT !.count = stk.count + 1] /\ stk.count + 1 \in Nat
      BY <1>0, <2>1
    <3>2. v \in Stacks /\ v.cells = stk.cells /\ v.count = stk.count + 1
      BY <1>0, <3>1 DEF Stacks
    <3>3. n # v.count
      BY <1>0, <1>2, <1>3, <3>2
    <3> QED
      BY <3>2, <3>3
  <2>2. CASE ~full
    BY <1>0, <2>2
  <2> QED
    BY <2>1, <2>2
<1> HIDE DEF v
<1>6. n <= Len(v.cells)
  <2>1. n <= Len(pushed) /\ stk.count = Len(pushed) /\ stk.count <= Len(stk.cells)
    BY <1>0, <1>3
  <2> QED
    BY <1>0, <1>2, <1>5, <2>1
<1>7. /\ stk' \in Stacks /\ stk'.count = n /\ stk'.end = n - 1 /\ n <= Len(stk'.cells)
      /\ \A i \in 1 .. n : stk'.cells[i] = v.cells[i]
  BY <1>1, <1>2, <1>4, <1>5, <1>6, ResizedKeeps
<1>8. StackTypes'
  <2>1. Len(was) <= MaxStk
    BY <1>0, <1>2, <1>3, Shapes DEF VectorConstants, StackInv
  <2> QED
    BY <1>1, <1>2, <1>7, <2>1 DEF StackTypes
<1>9. Faithful'
  <2>1. \A i \in 1 .. n : i \in 1 .. Len(pushed)
    BY <1>0, <1>2, <1>3
  <2>2. \A i \in 1 .. n : stk'.cells[i] = was[i]
    BY <1>0, <1>3, <1>5, <1>7, <2>1
  <2> QED
    BY <1>1, <1>3, <1>7, <2>2 DEF Faithful
<1>10. Nested'
  <2>1. \A k \in 1 .. Len(saved') : /\ k \in 1 .. Len(saved) /\ k <= Len(saved)
                                     /\ saved'[k] = saved[k] /\ Len(saved) \in 1 .. Len(saved)
    BY <1>2
  <2>2. \A k \in 1 .. Len(saved') : saved[k].count <= n
    BY <1>2, <2>1 DEF StackInv, Nested, n
  <2>3. \A k \in 1 .. Len(saved') : saved[k].count \in Nat
    BY <2>1, Shapes DEF StackInv
  <2>4. ASSUME NEW k \in 1 .. Len(saved'), NEW i \in 1 .. saved[k].count
        PROVE  saved[k].was[i] = was[i]
    <3>1. i \in 1 .. n
      BY <1>2, <2>2, <2>3
    <3>2. saved[k].was[i] = pushed[i]
      BY <2>1 DEF StackInv, Nested
    <3> QED
      BY <1>3, <3>1, <3>2
  <2> QED
    <3>1. ASSUME NEW k \in 1 .. Len(saved')
          PROVE  /\ saved'[k].count = Len(saved'[k].was) /\ saved'[k].count <= Len(pushed')
                 /\ \A i \in 1 .. saved'[k].count : saved'[k].was[i] = pushed'[i]
      <4>1. saved'[k] = saved[k] /\ k \in 1 .. Len(saved) /\ saved[k].count <= n
        BY <2>1, <2>2
      <4>2. saved[k].count = Len(saved[k].was)
        BY <4>1 DEF StackInv, Nested
      <4>3. Len(pushed') = n /\ \A i \in 1 .. saved[k].count : saved[k].was[i] = pushed'[i]
        BY <1>1, <1>3, <2>4
      <4> QED
        BY <4>1, <4>2, <4>3
    <3>2. ASSUME NEW j \in 1 .. Len(saved'), NEW k \in 1 .. Len(saved'), j <= k
          PROVE  saved'[j].count <= saved'[k].count
      BY <2>1, <3>2 DEF StackInv, Nested
    <3> QED
      BY <3>1, <3>2 DEF Nested
<1> QED
  BY <1>8, <1>9, <1>10 DEF StackInv

-----------------------------------------------------------------------------
\* What the stack holds and where it ends is what was pushed, after any
\* sequence of pushes, pops, try blocks and exceptions, failed allocations
\* included.
THEOREM StackCorrect ==
    ASSUME VectorConstants PROVE VectorSpec => []StackAsPushed
<1>1. VectorInit => StackInv
  <2> SUFFICES ASSUME VectorInit PROVE StackInv
    OBVIOUS
  <2> DEFINE fresh == [i \in 1 .. 2 |-> Zero]
  <2>1. fresh \in Seq(StackCells) /\ Len(fresh) = 2
    BY DEF StackCells
  <2>2. stk = [cells |-> fresh, count |-> 0, end |-> -1] /\ pushed = <<>> /\ saved = <<>>
    BY DEF VectorInit, FreshStack
  <2> HIDE DEF fresh
  <2>3. stk \in Stacks /\ stk.cells = fresh /\ stk.count = 0 /\ stk.end = -1
    BY <2>1, <2>2, StackOf
  <2>4. pushed \in Seq(Items) /\ Len(pushed) = 0 /\ saved \in Seq(Kept) /\ Len(saved) = 0
    BY <2>2
  <2>5. StackTypes
    BY <2>3, <2>4 DEF StackTypes, VectorConstants
  <2>6. Faithful /\ Nested
    BY <2>1, <2>3, <2>4 DEF Faithful, Nested
  <2> QED
    BY <2>5, <2>6 DEF StackInv
<1>2. StackInv /\ [VectorNext]_vectorVars => StackInv'
  <2> SUFFICES ASSUME StackInv, [VectorNext]_vectorVars PROVE StackInv'
    OBVIOUS
  <2>1. CASE \E x \in Items : StackPush(x)
    BY <2>1, PushKeeps
  <2>2. CASE StackTry \/ StackClose
    BY <2>2, TryKeeps, CloseKeeps
  <2>3. CASE \E b \in BOOLEAN : StackPop(b) \/ StackThrow(b)
    BY <2>3, PopKeeps, ThrowKeeps
  <2>4. CASE UNCHANGED vectorVars
    BY <2>4 DEF vectorVars, StackInv, StackTypes, Faithful, Nested
  <2> QED
    BY <2>1, <2>2, <2>3, <2>4 DEF VectorNext
<1>3. StackInv => StackAsPushed
  <2> SUFFICES ASSUME StackInv PROVE StackAsPushed
    OBVIOUS
  <2> DEFINE n == Len(pushed)
  <2>1. /\ stk.cells \in Seq(StackCells) /\ pushed \in Seq(Items) /\ n \in Nat /\ stk.count = n
        /\ n <= Len(stk.cells) /\ Len(stk.cells) \in Nat
        /\ \A i \in 1 .. n : stk.cells[i] = pushed[i]
    BY Shapes DEF StackInv, Faithful
  <2>2. \A i \in 1 .. n : i \in 1 .. Len(stk.cells)
    BY <2>1
  <2> HIDE DEF n
  <2>3. \A i \in 1 .. n : stk.cells[i] \in StackCells
    BY <2>1, <2>2, ElementOfSeq
  <2>4. /\ SubSeq(stk.cells, 1, n) \in Seq(StackCells) /\ Len(SubSeq(stk.cells, 1, n)) = n
        /\ \A i \in 1 .. n : SubSeq(stk.cells, 1, n)[i] = stk.cells[i]
    BY <2>1, <2>3, SubSeqProperties
  <2>5. pushed \in Seq(StackCells) /\ Len(pushed) = n
    BY <2>1 DEF StackCells, n
  <2>6. SubSeq(stk.cells, 1, n) = pushed
    BY <2>1, <2>4, <2>5, SeqEqual
  <2> QED
    BY <2>1, <2>6 DEF StackInv, Faithful, StackAsPushed, n
<1> QED
  BY <1>1, <1>2, <1>3, PTL DEF VectorSpec

-----------------------------------------------------------------------------
(* Lists.                                                                  *)

Held == Elements \cup {NilItem, Junk}
ListBlocks == [cells : Seq(Held), count : Nat]

\* A list whose cells in use are a sequence, but for those nothing is said of.
Is(v, s) ==
    /\ v \in ListBlocks /\ s \in Seq(Held \cup {Unsaid})
    /\ v.count <= Len(v.cells) /\ v.count = Len(s) /\ v.count <= LargestSize
    /\ \A i \in 1 .. v.count : s[i] = v.cells[i] \/ s[i] = Unsaid

\* The parts of a list.
LEMMA BlockOf ==
    ASSUME NEW v \in ListBlocks
    PROVE  /\ v.cells \in Seq(Held) /\ Len(v.cells) \in Nat /\ v.count \in Nat
           /\ v = [cells |-> v.cells, count |-> v.count]
           /\ DOMAIN v.cells = 1 .. Len(v.cells)
           /\ \A i \in 1 .. Len(v.cells) : v.cells[i] \in Held
<1>1. v.cells \in Seq(Held) /\ v.count \in Nat /\ v = [cells |-> v.cells, count |-> v.count]
  BY DEF ListBlocks
<1> QED
  BY <1>1, LenProperties

\* A block from its two parts.
LEMMA BlockFrom ==
    ASSUME NEW c \in Seq(Held), NEW n \in Nat
    PROVE  /\ [cells |-> c, count |-> n] \in ListBlocks
           /\ [cells |-> c, count |-> n].cells = c /\ [cells |-> c, count |-> n].count = n
  BY DEF ListBlocks

\* And with one of them changed.
LEMMA WithCells ==
    ASSUME NEW v \in ListBlocks, NEW c
    PROVE  [v EXCEPT !.cells = c] = [cells |-> c, count |-> v.count]
  BY DEF ListBlocks

\* The same of the other.
LEMMA WithCount ==
    ASSUME NEW v \in ListBlocks, NEW n
    PROVE  [v EXCEPT !.count = n] = [cells |-> v.cells, count |-> n]
  BY DEF ListBlocks

\* More memory, with what lies in it, after the cells.
LEMMA GrownIs ==
    ASSUME NEW v \in ListBlocks, NEW c \in Nat
    PROVE  /\ Grown(v, c) \in ListBlocks /\ Grown(v, c).count = v.count
           /\ Len(Grown(v, c).cells) = IF c > Len(v.cells) THEN c ELSE Len(v.cells)
           /\ \A i \in 1 .. Len(v.cells) : Grown(v, c).cells[i] = v.cells[i]
<1>0. /\ v.cells \in Seq(Held) /\ Len(v.cells) \in Nat /\ v.count \in Nat
  BY BlockOf
<1>1. CASE c > Len(v.cells)
  <2>0. c - Len(v.cells) \in Nat
    BY <1>0, <1>1
  <2>1. PICK m \in Nat : m = c - Len(v.cells)
    BY <2>0
  <2>2. PICK more : more = JunkCells(m)
    OBVIOUS
  <2>3. more \in Seq(Held) /\ Len(more) = m
    BY <2>2 DEF JunkCells, Held
  <2>4. PICK all : all = v.cells \o more
    OBVIOUS
  <2>5. Grown(v, c) = [cells |-> all, count |-> v.count]
    <3>1. Grown(v, c) = [v EXCEPT !.cells = all]
      BY <1>1, <2>1, <2>2, <2>4 DEF Grown
    <3> QED
      BY <3>1, WithCells
  <2>6. /\ all \in Seq(Held) /\ Len(all) = Len(v.cells) + m
        /\ \A i \in 1 .. Len(v.cells) : all[i] = v.cells[i]
    <3>1. /\ all \in Seq(Held) /\ Len(all) = Len(v.cells) + m
          /\ \A i \in 1 .. Len(v.cells) + m :
               all[i] = IF i <= Len(v.cells) THEN v.cells[i] ELSE more[i - Len(v.cells)]
      BY <1>0, <2>3, <2>4, ConcatProperties
    <3>2. \A i \in 1 .. Len(v.cells) : i \in 1 .. Len(v.cells) + m /\ i <= Len(v.cells)
      BY <1>0
    <3> QED
      BY <3>1, <3>2
  <2>7. Len(all) = c
    BY <1>0, <2>1, <2>6
  <2> QED
    BY <1>0, <1>1, <2>5, <2>6, <2>7, BlockFrom
<1>2. CASE ~(c > Len(v.cells))
  BY <1>2 DEF Grown
<1> QED
  BY <1>1, <1>2

\* What be_list_push() and be_list_insert() make room with.
Roomy(v) == IF v.count >= Len(v.cells) THEN Grown(v, NextSize(Len(v.cells))) ELSE v

\* There is room for one more, and what is in use stays where it is.
LEMMA RoomyIs ==
    ASSUME NEW v \in ListBlocks, v.count <= Len(v.cells), v.count <= LargestSize
    PROVE  /\ Roomy(v) \in ListBlocks /\ Roomy(v).count = v.count
           /\ Len(Roomy(v).cells) >= Len(v.cells) /\ Len(Roomy(v).cells) > v.count
           /\ \A i \in 1 .. Len(v.cells) : Roomy(v).cells[i] = v.cells[i]
<1>0. /\ v.cells \in Seq(Held) /\ Len(v.cells) \in Nat /\ v.count \in Nat
  BY BlockOf
<1>1. CASE v.count >= Len(v.cells)
  <2>1. Len(v.cells) <= LargestSize
    BY <1>0, <1>1
  <2>2. PICK c \in Nat : c = NextSize(Len(v.cells)) /\ c > Len(v.cells)
    BY <1>0, <2>1, NextIsLarger
  <2>3. Roomy(v) = Grown(v, c)
    BY <1>1, <2>2 DEF Roomy
  <2>4. /\ Grown(v, c) \in ListBlocks /\ Grown(v, c).count = v.count
        /\ Len(Grown(v, c).cells) = c
        /\ \A i \in 1 .. Len(v.cells) : Grown(v, c).cells[i] = v.cells[i]
    BY <1>0, <2>2, GrownIs
  <2> QED
    BY <1>0, <2>2, <2>3, <2>4
<1>2. CASE ~(v.count >= Len(v.cells))
  BY <1>0, <1>2 DEF Roomy
<1> QED
  BY <1>1, <1>2

\* A push adds an element at the end and leaves the others.
LEMMA PushedIs ==
    ASSUME NEW v \in ListBlocks, v.count <= Len(v.cells), v.count < LargestSize, NEW x \in Held
    PROVE  /\ PushedOn(v, x) \in ListBlocks
           /\ PushedOn(v, x).count = v.count + 1 /\ v.count + 1 <= Len(PushedOn(v, x).cells)
           /\ \A i \in 1 .. v.count : PushedOn(v, x).cells[i] = v.cells[i]
           /\ PushedOn(v, x).cells[v.count + 1] = x
<1>0. /\ v.cells \in Seq(Held) /\ Len(v.cells) \in Nat /\ v.count \in Nat /\ v.count <= LargestSize
  BY BlockOf, LargestIs
<1>1. PICK g \in ListBlocks :
        /\ g = Roomy(v) /\ Len(g.cells) > v.count
        /\ \A i \in 1 .. Len(v.cells) : g.cells[i] = v.cells[i]
  BY <1>0, RoomyIs
<1>2. g.cells \in Seq(Held) /\ Len(g.cells) \in Nat
  BY BlockOf
<1>3. PICK c : c = [g.cells EXCEPT ![v.count + 1] = x]
  OBVIOUS
<1>4. PushedOn(v, x) = [cells |-> c, count |-> v.count + 1]
  BY <1>1, <1>3 DEF PushedOn, Roomy
<1>5. v.count + 1 \in 1 .. Len(g.cells)
  BY <1>0, <1>1, <1>2
<1>6. /\ c \in Seq(Held) /\ Len(c) = Len(g.cells)
      /\ \A j \in 1 .. Len(g.cells) : c[j] = IF j = v.count + 1 THEN x ELSE g.cells[j]
  BY <1>2, <1>3, <1>5, ExceptSeq
<1>7. v.count + 1 \in Nat
  BY <1>0
<1>8. /\ PushedOn(v, x) \in ListBlocks /\ PushedOn(v, x).cells = c
      /\ PushedOn(v, x).count = v.count + 1
  BY <1>4, <1>6, <1>7, BlockFrom
<1>9. \A i \in 1 .. v.count : c[i] = v.cells[i]
  BY <1>0, <1>1, <1>2, <1>6
<1>10. c[v.count + 1] = x
  BY <1>5, <1>6
<1> QED
  BY <1>5, <1>6, <1>8, <1>9, <1>10

\* So a list that is pushed on stays what it means.
LEMMA PushIs ==
    ASSUME NEW v, NEW s, Is(v, s), v.count < LargestSize, NEW x \in Held
    PROVE  Is(PushedOn(v, x), Append(s, x))
<1>0. v \in ListBlocks /\ v.count \in Nat /\ Len(s) \in Nat /\ s \in Seq(Held \cup {Unsaid})
      /\ v.count <= Len(v.cells) /\ v.count = Len(s)
      /\ \A i \in 1 .. v.count : s[i] = v.cells[i] \/ s[i] = Unsaid
  BY BlockOf DEF Is
<1>1. PICK w \in ListBlocks :
        /\ w = PushedOn(v, x)
        /\ w.count = v.count + 1 /\ v.count + 1 <= Len(w.cells)
        /\ \A i \in 1 .. v.count : w.cells[i] = v.cells[i]
        /\ w.cells[v.count + 1] = x
  BY <1>0, PushedIs
<1>2. PICK t : t = Append(s, x)
  OBVIOUS
<1>3. /\ t \in Seq(Held \cup {Unsaid}) /\ Len(t) = Len(s) + 1
      /\ \A i \in 1 .. Len(s) : t[i] = s[i]
      /\ t[Len(s) + 1] = x
  BY <1>0, <1>2, AppendProperties
<1>4. \A i \in 1 .. w.count : t[i] = w.cells[i] \/ t[i] = Unsaid
  <2> TAKE i \in 1 .. w.count
  <2>1. CASE i = v.count + 1
    BY <1>0, <1>1, <1>3, <2>1
  <2>2. CASE i # v.count + 1
    <3>1. i \in 1 .. v.count
      BY <1>0, <1>1, <2>2
    <3> QED
      BY <1>0, <1>1, <1>3, <3>1
  <2> QED
    BY <2>1, <2>2
<1>5. Is(w, t)
  BY <1>0, <1>1, <1>3, <1>4, LargestIs DEF Is
<1> QED
  BY <1>1, <1>2, <1>5

-----------------------------------------------------------------------------
(* Sequences.                                                              *)

\* A function on the first numbers is a sequence.
LEMMA FunctionIsSeq ==
    ASSUME NEW S, NEW n \in Nat, NEW f \in [1 .. n -> S]
    PROVE  f \in Seq(S) /\ Len(f) = n /\ DOMAIN f = 1 .. n
  OBVIOUS

\* What InsertAt() returns, place by place.
LEMMA InsertAtIs ==
    ASSUME NEW S, NEW s \in Seq(S), NEW p \in 1 .. Len(s) + 1, NEW x \in S
    PROVE  /\ InsertAt(s, p, x) \in Seq(S) /\ Len(InsertAt(s, p, x)) = Len(s) + 1
           /\ \A j \in 1 .. Len(s) + 1 : InsertAt(s, p, x)[j] =
                IF j < p THEN s[j] ELSE IF j = p THEN x ELSE s[j - 1]
<1>0. Len(s) \in Nat /\ p \in Int /\ p - 1 \in Nat /\ \A i \in 1 .. Len(s) : s[i] \in S
  BY LenProperties
<1>1. PICK a : a = SubSeq(s, 1, p - 1)
  OBVIOUS
<1>2. PICK b : b = SubSeq(s, p, Len(s))
  OBVIOUS
<1>3. a \in Seq(S) /\ Len(a) = p - 1 /\ \A j \in 1 .. p - 1 : a[j] = s[j]
  <2>1. /\ a \in Seq(S) /\ Len(a) = IF 1 <= p - 1 THEN (p - 1) - 1 + 1 ELSE 0
        /\ \A j \in 1 .. (p - 1) - 1 + 1 : a[j] = s[(1 + j) - 1]
    <3>1. 1 \in Int /\ p - 1 \in Int /\ \A i \in 1 .. p - 1 : s[i] \in S
      BY <1>0
    <3> QED
      BY <1>1, <3>1, SubSeqProperties
  <2> QED
    BY <1>0, <2>1
<1>4. b \in Seq(S) /\ Len(b) = (Len(s) - p) + 1 /\ \A j \in 1 .. (Len(s) - p) + 1 : b[j] = s[(p + j) - 1]
  <2>1. Len(s) \in Int /\ \A i \in p .. Len(s) : s[i] \in S
    BY <1>0
  <2>2. /\ b \in Seq(S) /\ Len(b) = IF p <= Len(s) THEN Len(s) - p + 1 ELSE 0
        /\ \A j \in 1 .. Len(s) - p + 1 : b[j] = s[p + j - 1]
    BY <1>0, <1>2, <2>1, SubSeqProperties
  <2> QED
    BY <1>0, <2>2
<1>5. PICK c : c = a \o <<x>>
  OBVIOUS
<1>6. c \in Seq(S) /\ Len(c) = p /\ \A j \in 1 .. p : c[j] = IF j < p THEN s[j] ELSE x
  <2>1. <<x>> \in Seq(S) /\ Len(<<x>>) = 1 /\ <<x>>[1] = x
    OBVIOUS
  <2>2. /\ c \in Seq(S) /\ Len(c) = Len(a) + 1
        /\ \A j \in 1 .. Len(a) + 1 : c[j] = IF j <= Len(a) THEN a[j] ELSE <<x>>[j - Len(a)]
    BY <1>3, <1>5, <2>1, ConcatProperties
  <2>3. Len(c) = p
    BY <1>0, <1>3, <2>2
  <2>4. ASSUME NEW j \in 1 .. p PROVE c[j] = IF j < p THEN s[j] ELSE x
    <3>1. CASE j < p
      BY <1>0, <1>3, <2>2, <3>1
    <3>2. CASE j = p
      <4>1. j - Len(a) = 1 /\ ~(j <= Len(a)) /\ j \in 1 .. Len(a) + 1
        BY <1>0, <1>3, <3>2
      <4> QED
        BY <2>1, <2>2, <3>2, <4>1
    <3> QED
      BY <3>1, <3>2
  <2> QED
    BY <2>2, <2>3, <2>4
<1>7. PICK d : d = InsertAt(s, p, x)
  OBVIOUS
<1>8. /\ d \in Seq(S) /\ Len(d) = Len(c) + Len(b)
      /\ \A j \in 1 .. Len(c) + Len(b) : d[j] = IF j <= Len(c) THEN c[j] ELSE b[j - Len(c)]
  <2>1. d = c \o b
    BY <1>1, <1>2, <1>5, <1>7 DEF InsertAt
  <2> QED
    BY <1>4, <1>6, <2>1, ConcatProperties
<1>9. Len(d) = Len(s) + 1
  BY <1>0, <1>4, <1>6, <1>8
<1>10. ASSUME NEW j \in 1 .. Len(s) + 1
       PROVE  d[j] = IF j < p THEN s[j] ELSE IF j = p THEN x ELSE s[j - 1]
  <2>0. j \in 1 .. Len(c) + Len(b)
    BY <1>0, <1>4, <1>6
  <2>1. CASE j <= p
    BY <1>0, <1>6, <1>8, <2>0, <2>1
  <2>2. CASE j > p
    <3>1. d[j] = b[j - p]
      BY <1>0, <1>6, <1>8, <2>0, <2>2
    <3>2. j - p \in 1 .. (Len(s) - p) + 1 /\ (p + (j - p)) - 1 = j - 1
      BY <1>0, <2>2
    <3>3. b[j - p] = s[j - 1]
      BY <1>4, <3>2
    <3> QED
      BY <1>0, <2>2, <3>1, <3>3
  <2> QED
    BY <1>0, <2>1, <2>2
<1> QED
  BY <1>7, <1>8, <1>9, <1>10

\* And RemoveAt().
LEMMA RemoveAtIs ==
    ASSUME NEW S, NEW s \in Seq(S), NEW p \in 1 .. Len(s)
    PROVE  /\ RemoveAt(s, p) \in Seq(S) /\ Len(RemoveAt(s, p)) = Len(s) - 1
           /\ \A j \in 1 .. Len(s) - 1 : RemoveAt(s, p)[j] = IF j < p THEN s[j] ELSE s[j + 1]
<1>0. Len(s) \in Nat /\ p \in Int /\ p - 1 \in Nat /\ \A i \in 1 .. Len(s) : s[i] \in S
  BY LenProperties
<1>1. PICK a : a = SubSeq(s, 1, p - 1)
  OBVIOUS
<1>2. PICK b : b = SubSeq(s, p + 1, Len(s))
  OBVIOUS
<1>3. a \in Seq(S) /\ Len(a) = p - 1 /\ \A j \in 1 .. p - 1 : a[j] = s[j]
  <2>1. /\ a \in Seq(S) /\ Len(a) = IF 1 <= p - 1 THEN (p - 1) - 1 + 1 ELSE 0
        /\ \A j \in 1 .. (p - 1) - 1 + 1 : a[j] = s[(1 + j) - 1]
    <3>1. 1 \in Int /\ p - 1 \in Int /\ \A i \in 1 .. p - 1 : s[i] \in S
      BY <1>0
    <3> QED
      BY <1>1, <3>1, SubSeqProperties
  <2> QED
    BY <1>0, <2>1
<1>4. b \in Seq(S) /\ Len(b) = Len(s) - p /\ \A j \in 1 .. Len(s) - p : b[j] = s[p + j]
  <2>1. Len(s) \in Int /\ p + 1 \in Int /\ \A i \in p + 1 .. Len(s) : s[i] \in S
    BY <1>0
  <2>2. /\ b \in Seq(S) /\ Len(b) = IF p + 1 <= Len(s) THEN Len(s) - (p + 1) + 1 ELSE 0
        /\ \A j \in 1 .. Len(s) - (p + 1) + 1 : b[j] = s[(p + 1) + j - 1]
    BY <1>0, <1>2, <2>1, SubSeqProperties
  <2>3. Len(b) = Len(s) - p
    BY <1>0, <2>2
  <2>4. ASSUME NEW j \in 1 .. Len(s) - p PROVE b[j] = s[p + j]
    <3>1. j \in 1 .. Len(s) - (p + 1) + 1 /\ (p + 1) + j - 1 = p + j
      BY <1>0
    <3> QED
      BY <2>2, <3>1
  <2> QED
    BY <2>2, <2>3, <2>4
<1>5. PICK d : d = RemoveAt(s, p)
  OBVIOUS
<1>6. /\ d \in Seq(S) /\ Len(d) = Len(a) + Len(b)
      /\ \A j \in 1 .. Len(a) + Len(b) : d[j] = IF j <= Len(a) THEN a[j] ELSE b[j - Len(a)]
  <2>1. d = a \o b
    BY <1>1, <1>2, <1>5 DEF RemoveAt
  <2> QED
    BY <1>3, <1>4, <2>1, ConcatProperties
<1>7. Len(d) = Len(s) - 1
  BY <1>0, <1>3, <1>4, <1>6
<1>8. ASSUME NEW j \in 1 .. Len(s) - 1 PROVE d[j] = IF j < p THEN s[j] ELSE s[j + 1]
  <2>0. j \in 1 .. Len(a) + Len(b) /\ j \in Int
    BY <1>0, <1>3, <1>4
  <2>1. CASE j < p
    <3>1. j <= Len(a) /\ j \in 1 .. p - 1
      BY <1>0, <1>3, <2>0, <2>1
    <3> QED
      BY <1>3, <1>6, <2>0, <2>1, <3>1
  <2>2. CASE ~(j < p)
    <3>1. ~(j <= Len(a)) /\ j - Len(a) \in 1 .. Len(s) - p /\ p + (j - Len(a)) = j + 1
      BY <1>0, <1>3, <2>0, <2>2
    <3>2. d[j] = b[j - Len(a)]
      BY <1>6, <2>0, <3>1
    <3>3. b[j - Len(a)] = s[j + 1]
      BY <1>4, <3>1
    <3> QED
      BY <2>2, <3>2, <3>3
  <2> QED
    BY <2>1, <2>2
<1> QED
  BY <1>5, <1>6, <1>7, <1>8

\* And Reverse().
LEMMA ReverseIs ==
    ASSUME NEW S, NEW s \in Seq(S)
    PROVE  /\ Reverse(s) \in Seq(S) /\ Len(Reverse(s)) = Len(s)
           /\ \A j \in 1 .. Len(s) : Reverse(s)[j] = s[(Len(s) + 1) - j]
<1>0. Len(s) \in Nat /\ \A i \in 1 .. Len(s) : s[i] \in S
  BY LenProperties
<1>1. PICK r : r = Reverse(s)
  OBVIOUS
<1>2. r = [i \in 1 .. Len(s) |-> s[(Len(s) - i) + 1]]
  BY <1>1 DEF Reverse
<1>3. \A i \in 1 .. Len(s) : (Len(s) - i) + 1 \in 1 .. Len(s) /\ (Len(s) - i) + 1 = (Len(s) + 1) - i
  BY <1>0
<1>4. r \in [1 .. Len(s) -> S]
  BY <1>0, <1>2, <1>3
<1>5. \A j \in 1 .. Len(s) : r[j] = s[(Len(s) + 1) - j]
  BY <1>2, <1>3
<1> QED
  BY <1>0, <1>1, <1>4, <1>5, FunctionIsSeq

-----------------------------------------------------------------------------
(* What each call does to a list and to what it means.                     *)

Said == Held \cup {Unsaid}

\* A list, taken apart.
LEMMA ListIs ==
    ASSUME NEW v, NEW s, Is(v, s)
    PROVE  /\ v \in ListBlocks /\ v.cells \in Seq(Held) /\ Len(v.cells) \in Nat
           /\ v.count \in Nat /\ v.count <= Len(v.cells) /\ v.count <= LargestSize
           /\ s \in Seq(Said) /\ Len(s) = v.count /\ DOMAIN s = 1 .. v.count
           /\ \A i \in 1 .. v.count : s[i] = v.cells[i] \/ s[i] = Unsaid
           /\ \A i \in 1 .. v.count : s[i] \in Said
           /\ \A i \in 1 .. Len(v.cells) : v.cells[i] \in Held
<1>1. v \in ListBlocks /\ s \in Seq(Said)
  BY DEF Is, Said
<1>2. v.cells \in Seq(Held) /\ Len(v.cells) \in Nat /\ v.count \in Nat
  BY <1>1, BlockOf
<1>3. Len(s) = v.count
  BY DEF Is
<1>4. DOMAIN s = 1 .. v.count /\ \A i \in 1 .. v.count : s[i] \in Said
  BY <1>1, <1>2, <1>3, LenProperties
<1> QED
  BY <1>1, <1>2, <1>3, <1>4, BlockOf DEF Is

\* And put together.
LEMMA IsList ==
    ASSUME NEW c \in Seq(Held), NEW s \in Seq(Said), NEW n \in Nat, n <= Len(c), n <= LargestSize,
           Len(s) = n, \A i \in 1 .. n : s[i] = c[i] \/ s[i] = Unsaid
    PROVE  Is([cells |-> c, count |-> n], s)
  BY BlockFrom DEF Is, Said

\* be_list_insert() moves the cells behind the position, from the last.
LEMMA InsertIs ==
    ASSUME NEW v, NEW s, Is(v, s), v.count < LargestSize, NEW p \in 0 .. v.count, NEW x \in Held
    PROVE  Is(InsertedAt(v, p, x), InsertAt(s, p + 1, x))
<1>0. /\ v \in ListBlocks /\ v.cells \in Seq(Held) /\ Len(v.cells) \in Nat
      /\ v.count \in Nat /\ v.count <= Len(v.cells) /\ v.count <= LargestSize
      /\ s \in Seq(Said) /\ Len(s) = v.count /\ LargestSize \in Nat /\ x \in Said
      /\ \A i \in 1 .. v.count : s[i] = v.cells[i] \/ s[i] = Unsaid
  BY ListIs, LargestIs DEF Said
<1>1. PICK g \in ListBlocks :
        /\ g = Roomy(v) /\ Len(g.cells) > v.count
        /\ \A i \in 1 .. Len(v.cells) : g.cells[i] = v.cells[i]
  BY <1>0, RoomyIs
<1>2. /\ g.cells \in Seq(Held) /\ Len(g.cells) \in Nat /\ DOMAIN g.cells = 1 .. Len(g.cells)
      /\ \A i \in 1 .. Len(g.cells) : g.cells[i] \in Held
  BY BlockOf
<1>3. PICK c : c = [i \in 1 .. Len(g.cells) |->
                      IF i <= p THEN g.cells[i] ELSE IF i = p + 1 THEN x
                      ELSE IF i <= v.count + 1 THEN g.cells[i - 1] ELSE g.cells[i]]
  OBVIOUS
<1>4. InsertedAt(v, p, x) = [cells |-> c, count |-> v.count + 1]
  BY <1>1, <1>2, <1>3 DEF InsertedAt, Roomy
<1>5. c \in [1 .. Len(g.cells) -> Held]
  <2>1. ASSUME NEW i \in 1 .. Len(g.cells), ~(i <= p), i # p + 1 PROVE i - 1 \in 1 .. Len(g.cells)
    BY <1>0, <1>2, <2>1
  <2> QED
    BY <1>2, <1>3, <2>1
<1>6. c \in Seq(Held) /\ Len(c) = Len(g.cells)
  BY <1>2, <1>5, FunctionIsSeq
<1>7. PICK t : t = InsertAt(s, p + 1, x)
  OBVIOUS
<1>8. /\ t \in Seq(Said) /\ Len(t) = v.count + 1
      /\ \A j \in 1 .. v.count + 1 : t[j] =
           IF j < p + 1 THEN s[j] ELSE IF j = p + 1 THEN x ELSE s[j - 1]
  <2>1. p + 1 \in 1 .. Len(s) + 1
    BY <1>0
  <2>2. /\ t \in Seq(Said) /\ Len(t) = Len(s) + 1
        /\ \A j \in 1 .. Len(s) + 1 : t[j] =
             IF j < p + 1 THEN s[j] ELSE IF j = p + 1 THEN x ELSE s[j - 1]
    <3> HIDE <1>7
    <3>1. \A q \in 1 .. Len(s) + 1 : /\ InsertAt(s, q, x) \in Seq(Said)
                                     /\ Len(InsertAt(s, q, x)) = Len(s) + 1
                                     /\ \A j \in 1 .. Len(s) + 1 : InsertAt(s, q, x)[j] =
                                          IF j < q THEN s[j] ELSE IF j = q THEN x ELSE s[j - 1]
      BY <1>0, InsertAtIs
    <3> QED
      BY <1>7, <2>1, <3>1
  <2> QED
    BY <1>0, <2>2
<1>9. ASSUME NEW j \in 1 .. v.count + 1 PROVE t[j] = c[j] \/ t[j] = Unsaid
  <2>0. j \in 1 .. Len(g.cells) /\ j \in Int
    BY <1>0, <1>1, <1>2
  <2>1. CASE j <= p
    <3>1. j \in 1 .. v.count /\ j \in 1 .. Len(v.cells) /\ j < p + 1
      BY <1>0, <2>0, <2>1
    <3>2. c[j] = v.cells[j] /\ t[j] = s[j]
      BY <1>1, <1>3, <1>8, <2>0, <2>1, <3>1
    <3> QED
      BY <1>0, <3>1, <3>2
  <2>2. CASE j = p + 1
    <3>1. ~(j <= p) /\ ~(j < p + 1)
      BY <1>0, <2>2
    <3> QED
      BY <1>3, <1>8, <2>0, <2>2, <3>1
  <2>3. CASE j > p + 1
    <3>1. /\ ~(j <= p) /\ j # p + 1 /\ ~(j < p + 1) /\ j <= v.count + 1
          /\ j - 1 \in 1 .. v.count /\ j - 1 \in 1 .. Len(v.cells)
      BY <1>0, <2>0, <2>3
    <3>2. c[j] = v.cells[j - 1] /\ t[j] = s[j - 1]
      BY <1>1, <1>3, <1>8, <2>0, <3>1
    <3> QED
      BY <1>0, <3>1, <3>2
  <2> QED
    BY <1>0, <2>0, <2>1, <2>2, <2>3
<1>10. /\ v.count + 1 \in Nat /\ v.count + 1 <= Len(c) /\ v.count + 1 <= LargestSize
  BY <1>0, <1>1, <1>2, <1>6
<1> QED
  BY <1>4, <1>6, <1>7, <1>8, <1>9, <1>10, IsList, SMTT(30)

\* be_list_remove() moves them back.
LEMMA RemoveIs ==
    ASSUME NEW v, NEW s, Is(v, s), NEW p \in 0 .. v.count - 1
    PROVE  Is(RemovedAt(v, p), RemoveAt(s, p + 1))
<1>0. /\ v \in ListBlocks /\ v.cells \in Seq(Held) /\ Len(v.cells) \in Nat
      /\ v.count \in Nat /\ v.count <= Len(v.cells) /\ v.count <= LargestSize
      /\ s \in Seq(Said) /\ Len(s) = v.count /\ LargestSize \in Nat
      /\ \A i \in 1 .. v.count : s[i] = v.cells[i] \/ s[i] = Unsaid
      /\ \A i \in 1 .. Len(v.cells) : v.cells[i] \in Held
  BY ListIs, LargestIs
<1>1. DOMAIN v.cells = 1 .. Len(v.cells)
  BY <1>0, LenProperties
<1>2. PICK c : c = [i \in 1 .. Len(v.cells) |->
                      IF i > p /\ i < v.count THEN v.cells[i + 1] ELSE v.cells[i]]
  OBVIOUS
<1>3. RemovedAt(v, p) = [cells |-> c, count |-> v.count - 1]
  BY <1>1, <1>2 DEF RemovedAt
<1>4. c \in [1 .. Len(v.cells) -> Held]
  <2>1. ASSUME NEW i \in 1 .. Len(v.cells), i < v.count PROVE i + 1 \in 1 .. Len(v.cells)
    BY <1>0, <2>1
  <2> QED
    BY <1>0, <1>2, <2>1
<1>5. c \in Seq(Held) /\ Len(c) = Len(v.cells)
  BY <1>0, <1>4, FunctionIsSeq
<1>6. PICK t : t = RemoveAt(s, p + 1)
  OBVIOUS
<1>7. /\ t \in Seq(Said) /\ Len(t) = v.count - 1
      /\ \A j \in 1 .. v.count - 1 : t[j] = IF j < p + 1 THEN s[j] ELSE s[j + 1]
  <2>1. p + 1 \in 1 .. Len(s)
    BY <1>0
  <2> QED
    BY <1>0, <1>6, <2>1, RemoveAtIs
<1>8. ASSUME NEW j \in 1 .. v.count - 1 PROVE t[j] = c[j] \/ t[j] = Unsaid
  <2>0. /\ j \in 1 .. Len(v.cells) /\ j \in Int /\ j < v.count
        /\ j \in 1 .. v.count /\ j + 1 \in 1 .. v.count
    BY <1>0
  <2>1. CASE j < p + 1
    <3>1. ~(j > p)
      BY <2>0, <2>1
    <3> QED
      BY <1>0, <1>2, <1>7, <2>0, <2>1, <3>1
  <2>2. CASE ~(j < p + 1)
    <3>1. j > p
      BY <2>0, <2>2
    <3> QED
      BY <1>0, <1>2, <1>7, <2>0, <2>2, <3>1
  <2> QED
    BY <2>1, <2>2
<1>9. /\ v.count - 1 \in Nat /\ v.count - 1 <= Len(c) /\ v.count - 1 <= LargestSize
  BY <1>0, <1>5
<1> QED
  BY <1>3, <1>5, <1>6, <1>7, <1>8, <1>9, IsList

\* An item is replaced.
LEMMA SetItemIs ==
    ASSUME NEW v, NEW s, Is(v, s), NEW p \in 1 .. v.count, NEW x \in Held
    PROVE  Is([v EXCEPT !.cells[p] = x], [s EXCEPT ![p] = x])
<1>0. /\ v \in ListBlocks /\ v.cells \in Seq(Held) /\ Len(v.cells) \in Nat
      /\ v.count \in Nat /\ v.count <= Len(v.cells) /\ v.count <= LargestSize
      /\ s \in Seq(Said) /\ Len(s) = v.count /\ x \in Said
      /\ \A i \in 1 .. v.count : s[i] = v.cells[i] \/ s[i] = Unsaid
  BY ListIs DEF Said
<1>1. PICK c : c = [v.cells EXCEPT ![p] = x]
  OBVIOUS
<1>2. [v EXCEPT !.cells[p] = x] = [cells |-> c, count |-> v.count]
  <2>1. [v EXCEPT !.cells[p] = x] = [v EXCEPT !.cells = c]
    BY <1>1
  <2> QED
    BY <1>0, <2>1, WithCells
<1>3. PICK t : t = [s EXCEPT ![p] = x]
  OBVIOUS
<1>4. p \in 1 .. Len(v.cells) /\ p \in 1 .. Len(s)
  BY <1>0
<1>5. /\ c \in Seq(Held) /\ Len(c) = Len(v.cells)
      /\ \A j \in 1 .. Len(v.cells) : c[j] = IF j = p THEN x ELSE v.cells[j]
  BY <1>0, <1>1, <1>4, ExceptSeq
<1>6. /\ t \in Seq(Said) /\ Len(t) = v.count
      /\ \A j \in 1 .. v.count : t[j] = IF j = p THEN x ELSE s[j]
  BY <1>0, <1>3, <1>4, ExceptSeq
<1>7. \A j \in 1 .. v.count : t[j] = c[j] \/ t[j] = Unsaid
  <2>1. \A j \in 1 .. v.count : j \in 1 .. Len(v.cells)
    BY <1>0
  <2> QED
    BY <1>0, <1>5, <1>6, <2>1
<1>8. v.count <= Len(c)
  BY <1>0, <1>5
<1>9. Is([cells |-> c, count |-> v.count], t)
  BY <1>0, <1>5, <1>6, <1>7, <1>8, IsList
<1> QED
  BY <1>2, <1>3, <1>9

\* Pairs of cells change places.
LEMMA ReversedIs ==
    ASSUME NEW v, NEW s, Is(v, s)
    PROVE  Is(ReversedIn(v), Reverse(s))
<1>0. /\ v \in ListBlocks /\ v.cells \in Seq(Held) /\ Len(v.cells) \in Nat
      /\ v.count \in Nat /\ v.count <= Len(v.cells) /\ v.count <= LargestSize
      /\ s \in Seq(Said) /\ Len(s) = v.count
      /\ \A i \in 1 .. v.count : s[i] = v.cells[i] \/ s[i] = Unsaid
      /\ \A i \in 1 .. Len(v.cells) : v.cells[i] \in Held
  BY ListIs
<1>1. DOMAIN v.cells = 1 .. Len(v.cells)
  BY <1>0, LenProperties
<1>2. PICK c : c = [i \in 1 .. Len(v.cells) |->
                      IF i <= v.count THEN v.cells[(v.count + 1) - i] ELSE v.cells[i]]
  OBVIOUS
<1>3. ReversedIn(v) = [cells |-> c, count |-> v.count]
  <2>1. ReversedIn(v) = [v EXCEPT !.cells = c]
    BY <1>1, <1>2 DEF ReversedIn
  <2> QED
    BY <1>0, <2>1, WithCells
<1>4. \A i \in 1 .. v.count : /\ (v.count + 1) - i \in 1 .. v.count
                              /\ (v.count + 1) - i \in 1 .. Len(v.cells)
                              /\ i \in 1 .. Len(v.cells) /\ i <= v.count
  BY <1>0
<1>5. c \in [1 .. Len(v.cells) -> Held]
  <2>1. ASSUME NEW i \in 1 .. Len(v.cells), i <= v.count PROVE i \in 1 .. v.count
    BY <1>0, <2>1
  <2> QED
    BY <1>0, <1>2, <1>4, <2>1
<1>6. c \in Seq(Held) /\ Len(c) = Len(v.cells)
  BY <1>0, <1>5, FunctionIsSeq
<1>7. PICK t : t = Reverse(s)
  OBVIOUS
<1>8. t \in Seq(Said) /\ Len(t) = v.count /\ \A j \in 1 .. v.count : t[j] = s[(v.count + 1) - j]
  BY <1>0, <1>7, ReverseIs
<1>9. \A j \in 1 .. v.count : t[j] = c[j] \/ t[j] = Unsaid
  BY <1>0, <1>2, <1>4, <1>8
<1> QED
  BY <1>0, <1>3, <1>6, <1>7, <1>8, <1>9, IsList

\* Cells that come with new memory are nil; of the others nothing is said.
LEMMA ResizeIs ==
    ASSUME NEW v, NEW s, Is(v, s), NEW n \in Nat, n <= LargestSize, NEW more,
           more = IF NextSize(n) > Len(v.cells) THEN NilItem ELSE Unsaid
    PROVE  Is(ResizedTo(v, n), [i \in 1 .. n |-> IF i <= Len(s) THEN s[i] ELSE more])
<1>0. /\ v \in ListBlocks /\ v.cells \in Seq(Held) /\ Len(v.cells) \in Nat
      /\ v.count \in Nat /\ v.count <= Len(v.cells)
      /\ s \in Seq(Said) /\ Len(s) = v.count /\ more \in Said
      /\ \A i \in 1 .. v.count : s[i] = v.cells[i] \/ s[i] = Unsaid
      /\ \A i \in 1 .. v.count : s[i] \in Said
  BY ListIs DEF Said, Held
<1>1. PICK t : t = [i \in 1 .. n |-> IF i <= Len(s) THEN s[i] ELSE more]
  OBVIOUS
<1>2. t \in Seq(Said) /\ Len(t) = n /\ \A i \in 1 .. n : t[i] = IF i <= v.count THEN s[i] ELSE more
  <2>1. \A i \in 1 .. n : i <= v.count => i \in 1 .. v.count
    BY <1>0
  <2>2. t \in [1 .. n -> Said]
    BY <1>0, <1>1, <2>1
  <2> QED
    BY <1>0, <1>1, <2>2, FunctionIsSeq
<1>3. PICK m \in Nat : m = NextSize(n) /\ m > n
  BY NextIsLarger
<1>4. CASE m > Len(v.cells)
  <2>1. PICK g \in ListBlocks :
          /\ g = Grown(v, m) /\ Len(g.cells) = m
          /\ \A i \in 1 .. Len(v.cells) : g.cells[i] = v.cells[i]
    BY <1>0, <1>4, GrownIs
  <2>2. /\ g.cells \in Seq(Held) /\ DOMAIN g.cells = 1 .. m
        /\ \A i \in 1 .. m : g.cells[i] \in Held
    BY <2>1, BlockOf
  <2>3. PICK c : c = [i \in 1 .. m |-> IF i > v.count /\ i <= n THEN NilItem ELSE g.cells[i]]
    OBVIOUS
  <2>4. ResizedTo(v, n) = [cells |-> c, count |-> n]
    BY <1>3, <1>4, <2>1, <2>2, <2>3 DEF ResizedTo
  <2>5. c \in Seq(Held) /\ Len(c) = m
    <3>1. c \in [1 .. m -> Held]
      BY <2>2, <2>3 DEF Held
    <3> QED
      BY <3>1, FunctionIsSeq
  <2>6. ASSUME NEW i \in 1 .. n PROVE t[i] = c[i] \/ t[i] = Unsaid
    <3>0. i \in 1 .. m
      BY <1>3
    <3>1. CASE i <= v.count
      <4>1. i \in 1 .. v.count /\ i \in 1 .. Len(v.cells) /\ ~(i > v.count)
        BY <1>0, <3>1
      <4>2. c[i] = v.cells[i] /\ t[i] = s[i]
        BY <1>2, <2>1, <2>3, <3>0, <3>1, <4>1
      <4> QED
        BY <1>0, <4>1, <4>2
    <3>2. CASE ~(i <= v.count)
      <4>1. i > v.count /\ i <= n
        BY <1>0, <3>2
      <4>2. c[i] = NilItem /\ t[i] = more
        BY <1>2, <2>3, <3>0, <3>2, <4>1
      <4> QED
        BY <1>3, <1>4, <4>2
    <3> QED
      BY <3>1, <3>2
  <2>7. n <= Len(c)
    BY <1>3, <2>5
  <2>8. Is([cells |-> c, count |-> n], t)
    BY <1>2, <2>5, <2>6, <2>7, IsList
  <2> QED
    BY <1>1, <2>4, <2>8
<1>5. CASE ~(m > Len(v.cells))
  <2>1. ResizedTo(v, n) = [cells |-> v.cells, count |-> n]
    <3>1. ResizedTo(v, n) = [v EXCEPT !.count = n]
      BY <1>3, <1>5 DEF ResizedTo
    <3> QED
      BY <1>0, <3>1, WithCount
  <2>2. n <= Len(v.cells)
    BY <1>0, <1>3, <1>5
  <2>3. \A i \in 1 .. n : t[i] = v.cells[i] \/ t[i] = Unsaid
    <3>1. more = Unsaid
      BY <1>3, <1>5
    <3>2. \A i \in 1 .. n : i <= v.count => i \in 1 .. v.count
      BY <1>0
    <3> QED
      BY <1>0, <1>2, <3>1, <3>2
  <2>4. Is([cells |-> v.cells, count |-> n], t)
    BY <1>0, <1>2, <2>2, <2>3, IsList
  <2> QED
    BY <1>1, <2>1, <2>4
<1> QED
  BY <1>0, <1>3, <1>4, <1>5

\* be_list_merge() appends the items of the other list.
LEMMA MergedIs ==
    ASSUME NEW v, NEW s, Is(v, s), NEW w, NEW t, Is(w, t), v.count + w.count <= LargestSize
    PROVE  Is(MergedWith(v, w), s \o t) /\ MergedWith(v, w).count = v.count + w.count
<1>0. /\ v \in ListBlocks /\ v.cells \in Seq(Held) /\ Len(v.cells) \in Nat
      /\ v.count \in Nat /\ v.count <= Len(v.cells)
      /\ s \in Seq(Said) /\ Len(s) = v.count
      /\ \A i \in 1 .. v.count : s[i] = v.cells[i] \/ s[i] = Unsaid
  BY ListIs
<1>1. /\ w.count \in Nat /\ w.count <= Len(w.cells) /\ Len(w.cells) \in Nat
      /\ t \in Seq(Said) /\ Len(t) = w.count
      /\ \A i \in 1 .. w.count : t[i] = w.cells[i] \/ t[i] = Unsaid
      /\ \A i \in 1 .. Len(w.cells) : w.cells[i] \in Held
  BY ListIs
<1>2. PICK n \in Nat : n = v.count + w.count /\ n <= LargestSize
  BY <1>0, <1>1
<1>3. PICK u : u = s \o t
  OBVIOUS
<1>4. /\ u \in Seq(Said) /\ Len(u) = n
      /\ \A i \in 1 .. n : u[i] = IF i <= v.count THEN s[i] ELSE t[i - v.count]
  <2>1. /\ u \in Seq(Said) /\ Len(u) = Len(s) + Len(t)
        /\ \A i \in 1 .. Len(s) + Len(t) : u[i] = IF i <= Len(s) THEN s[i] ELSE t[i - Len(s)]
    <3>1. s \in Seq(Said) /\ t \in Seq(Said)
      BY <1>0, <1>1
    <3>2. /\ s \o t \in Seq(Said) /\ Len(s \o t) = Len(s) + Len(t)
          /\ \A i \in 1 .. Len(s) + Len(t) :
               (s \o t)[i] = IF i <= Len(s) THEN s[i] ELSE t[i - Len(s)]
      BY <3>1, ConcatProperties
    <3> QED
      BY <1>3, <3>2
  <2> QED
    BY <1>0, <1>1, <1>2, <2>1
<1>5. CASE n = 0
  <2>1. v.count = 0 /\ w.count = 0
    BY <1>0, <1>1, <1>2, <1>5
  <2>2. u = s
    <3>1. Len(s) = Len(u) /\ \A i \in 1 .. Len(s) : s[i] = u[i]
      BY <1>0, <1>4, <1>5, <2>1
    <3> QED
      BY <1>0, <1>4, <3>1, SeqEqual
  <2>3. MergedWith(v, w) = v
    BY <2>1 DEF MergedWith
  <2> QED
    BY <1>3, <2>1, <2>2, <2>3
<1>6. CASE n # 0
  <2>0. PICK m \in Nat : m = NextSize(n) /\ m > n
    BY <1>2, NextIsLarger
  <2>1. PICK g \in ListBlocks :
          /\ g = Grown(v, m) /\ Len(g.cells) >= m /\ Len(g.cells) \in Nat
          /\ \A i \in 1 .. Len(v.cells) : g.cells[i] = v.cells[i]
    <3>1. /\ Grown(v, m) \in ListBlocks
          /\ Len(Grown(v, m).cells) = IF m > Len(v.cells) THEN m ELSE Len(v.cells)
          /\ \A i \in 1 .. Len(v.cells) : Grown(v, m).cells[i] = v.cells[i]
      BY <1>0, GrownIs
    <3>2. Len(Grown(v, m).cells) >= m /\ Len(Grown(v, m).cells) \in Nat
      BY <1>0, <3>1
    <3> QED
      BY <3>1, <3>2
  <2>2. /\ g.cells \in Seq(Held) /\ DOMAIN g.cells = 1 .. Len(g.cells)
        /\ \A i \in 1 .. Len(g.cells) : g.cells[i] \in Held
    BY <2>1, BlockOf
  <2>3. PICK c : c = [i \in 1 .. Len(g.cells) |->
                        IF i > v.count /\ i <= n THEN w.cells[i - v.count] ELSE g.cells[i]]
    OBVIOUS
  <2>4. MergedWith(v, w) = [cells |-> c, count |-> n]
    BY <1>2, <1>6, <2>0, <2>1, <2>2, <2>3 DEF MergedWith
  <2>5. c \in Seq(Held) /\ Len(c) = Len(g.cells)
    <3>1. ASSUME NEW i \in 1 .. Len(g.cells), i > v.count, i <= n
          PROVE  i - v.count \in 1 .. Len(w.cells)
      BY <1>0, <1>1, <1>2, <2>1, <3>1, SMTT(30)
    <3>2. c \in [1 .. Len(g.cells) -> Held]
      BY <1>1, <2>2, <2>3, <3>1
    <3> QED
      BY <2>1, <3>2, FunctionIsSeq
  <2>6. ASSUME NEW i \in 1 .. n PROVE u[i] = c[i] \/ u[i] = Unsaid
    <3>0. i \in 1 .. Len(g.cells) /\ i \in Int /\ i <= n
      BY <2>0, <2>1
    <3>1. CASE i <= v.count
      <4>1. i \in 1 .. v.count /\ i \in 1 .. Len(v.cells) /\ ~(i > v.count)
        BY <1>0, <3>1
      <4>2. c[i] = v.cells[i] /\ u[i] = s[i]
        BY <1>4, <2>1, <2>3, <3>0, <3>1, <4>1
      <4> QED
        BY <1>0, <4>1, <4>2
    <3>2. CASE ~(i <= v.count)
      <4>1. i > v.count /\ i - v.count \in 1 .. w.count
        BY <1>0, <1>1, <1>2, <3>0, <3>2
      <4>2. c[i] = w.cells[i - v.count] /\ u[i] = t[i - v.count]
        BY <1>4, <2>3, <3>0, <3>2, <4>1
      <4> QED
        BY <1>1, <4>1, <4>2
    <3> QED
      BY <3>1, <3>2
  <2>7. n <= Len(c)
    BY <2>0, <2>1, <2>5
  <2>8. Is([cells |-> c, count |-> n], u)
    BY <1>2, <1>4, <2>5, <2>6, <2>7, IsList
  <2>9. [cells |-> c, count |-> n].count = n
    OBVIOUS
  <2> QED
    BY <1>2, <1>3, <2>4, <2>8, <2>9
<1> QED
  BY <1>5, <1>6

-----------------------------------------------------------------------------
(* m_init() with any arguments.                                            *)

Part(s, i) == SubSeq(s, 1, i)
NoItems == [cells |-> JunkCells(2), count |-> 0]
Fills(f, s) == f = [i \in 0 .. Len(s) |-> IF i = 0 THEN NoItems ELSE PushedOn(f[i - 1], s[i])]

\* be_list_new() is the empty list.
LEMMA NoItemsIs == Is(NoItems, <<>>) /\ NoItems.count = 0 /\ NoItems \in ListBlocks
<1>1. JunkCells(2) \in Seq(Held) /\ Len(JunkCells(2)) = 2
  <2>1. JunkCells(2) \in [1 .. 2 -> Held]
    BY DEF JunkCells, Held
  <2> QED
    BY <2>1, FunctionIsSeq
<1>2. <<>> \in Seq(Said) /\ Len(<<>>) = 0
  BY EmptySeq
<1>3. 0 <= Len(JunkCells(2)) /\ 0 <= LargestSize
  BY <1>1, LargestIs
<1>4. Is([cells |-> JunkCells(2), count |-> 0], <<>>)
  <2>1. PICK e : e = <<>>
    OBVIOUS
  <2>2. e \in Seq(Said) /\ Len(e) = 0
    BY <1>2, <2>1
  <2>3. PICK c : c = JunkCells(2)
    OBVIOUS
  <2>4. \A i \in 1 .. 0 : e[i] = c[i] \/ e[i] = Unsaid
    OBVIOUS
  <2>5. Is([cells |-> c, count |-> 0], e)
    <3>1. PICK n \in Nat : n = 0
      OBVIOUS
    <3>2. /\ c \in Seq(Held) /\ n <= Len(c) /\ n <= LargestSize /\ Len(e) = n
          /\ \A i \in 1 .. n : e[i] = c[i] \/ e[i] = Unsaid
      BY <1>1, <1>3, <2>2, <2>3, <2>4, <3>1
    <3>3. Is([cells |-> c, count |-> n], e)
      BY <2>2, <3>2, IsList
    <3> QED
      BY <3>1, <3>3
  <2> QED
    BY <2>1, <2>3, <2>5
<1> QED
  BY <1>1, <1>4, BlockFrom DEF NoItems

\* The first arguments, and one more.
LEMMA NextPart ==
    ASSUME NEW S, NEW s \in Seq(S), NEW i \in 1 .. Len(s)
    PROVE  Part(s, i) = Append(Part(s, i - 1), s[i]) /\ Part(s, i - 1) \in Seq(S)
<1>0. Len(s) \in Nat /\ 1 \in 1 .. Len(s) /\ \A j \in 1 .. Len(s) : s[j] \in S
  BY LenProperties
<1>1. SubSeq(s, 1, i) = SubSeq(s, 1, i - 1) \o <<s[i]>>
  BY <1>0, SubSeqRecursiveSecond
<1>2. SubSeq(s, 1, i - 1) \in Seq(S)
  <2>1. 1 \in Int /\ i - 1 \in Int /\ \A j \in 1 .. i - 1 : s[j] \in S
    BY <1>0
  <2> QED
    BY <2>1, SubSeqProperties
<1>3. Append(SubSeq(s, 1, i - 1), s[i]) = SubSeq(s, 1, i - 1) \o <<s[i]>>
  BY <1>0, <1>2, AppendIsConcat
<1> QED
  BY <1>1, <1>2, <1>3 DEF Part

\* As long as the list is in order, each push adds the next argument.
LEMMA FillingIs ==
    ASSUME NEW s \in Seq(Held), Len(s) <= LargestSize, NEW f, f[0] = NoItems,
           \A i \in 1 .. Len(s) : Is(f[i - 1], Part(s, i - 1)) /\ f[i - 1].count = i - 1
                                  => f[i] = PushedOn(f[i - 1], s[i])
    PROVE  \A i \in 0 .. Len(s) : Is(f[i], Part(s, i)) /\ f[i].count = i
<1> DEFINE T == {i \in 0 .. Len(s) : Is(f[i], Part(s, i)) /\ f[i].count = i}
<1>0. Len(s) \in Nat /\ LargestSize \in Nat /\ \A j \in 1 .. Len(s) : s[j] \in Held
  BY LenProperties, LargestIs
<1>1. 0 \in T
  <2>1. Part(s, 0) = <<>>
    BY SubSeqEmpty DEF Part
  <2> QED
    BY <1>0, <2>1, NoItemsIs
<1>2. ASSUME NEW i \in 1 .. Len(s), i - 1 \in T PROVE i \in T
  <2>1. Is(f[i - 1], Part(s, i - 1)) /\ f[i - 1].count = i - 1
    BY <1>2
  <2>2. f[i] = PushedOn(f[i - 1], s[i])
    BY <2>1
  <2>3. f[i - 1].count < LargestSize
    BY <1>0, <2>1
  <2>4. Is(PushedOn(f[i - 1], s[i]), Append(Part(s, i - 1), s[i]))
    BY <1>0, <2>1, <2>3, PushIs
  <2>5. PushedOn(f[i - 1], s[i]).count = i
    <3>1. f[i - 1] \in ListBlocks /\ f[i - 1].count <= Len(f[i - 1].cells)
      BY <2>1, ListIs
    <3>2. PushedOn(f[i - 1], s[i]).count = f[i - 1].count + 1
      BY <1>0, <2>3, <3>1, PushedIs
    <3> QED
      BY <2>1, <3>2
  <2>6. Part(s, i) = Append(Part(s, i - 1), s[i])
    BY NextPart
  <2>7. Is(f[i], Part(s, i)) /\ f[i].count = i
    BY <2>2, <2>4, <2>5, <2>6
  <2> QED
    BY <1>0, <2>7
<1>3. 0 .. Len(s) \subseteq T
  <2> HIDE DEF T
  <2> QED
    BY <1>0, <1>1, <1>2, AlongPositions
<1> QED
  BY <1>3

\* The pushes of all arguments, as far as they keep the list in order.
LEMMA FillExists ==
    ASSUME NEW s \in Seq(Held), Len(s) <= LargestSize
    PROVE  \E f : Fills(f, s)
<1> DEFINE n == Len(s)
           After(v, i) == IF PushedOn(v, s[i]) \in ListBlocks THEN PushedOn(v, s[i]) ELSE v
           step == [x \in ListBlocks \X (1 .. n) |-> After(x[1], x[2])]
<1>0. n \in Nat /\ LargestSize \in Nat /\ \A j \in 1 .. n : s[j] \in Held
  BY LenProperties, LargestIs
<1>1. \A v \in ListBlocks, i \in 1 .. n : After(v, i) \in ListBlocks
  OBVIOUS
<1>2. step \in [ListBlocks \X (1 .. n) -> ListBlocks]
  <2> HIDE DEF After
  <2> QED
    BY <1>1
<1>3. PICK f : IsRecursion(f, ListBlocks, n, NoItems, step)
  <2> HIDE DEF step, n
  <2> QED
    BY <1>0, <1>2, NoItemsIs, RecursionExists
<1>4. /\ f \in [0 .. n -> ListBlocks] /\ f[0] = NoItems
      /\ \A i \in 1 .. n : f[i] = step[<<f[i - 1], i>>]
  BY <1>3 DEF IsRecursion
<1>5. ASSUME NEW i \in 1 .. n PROVE f[i] = After(f[i - 1], i)
  <2>1. f[i - 1] \in ListBlocks
    BY <1>0, <1>4
  <2>2. <<f[i - 1], i>> \in ListBlocks \X (1 .. n)
    BY <2>1
  <2> HIDE DEF After
  <2>3. step[<<f[i - 1], i>>] = After(f[i - 1], i)
    BY <2>2
  <2> QED
    BY <1>4, <2>3
<1>6. ASSUME NEW i \in 1 .. n, Is(f[i - 1], Part(s, i - 1)), f[i - 1].count = i - 1
      PROVE  f[i] = PushedOn(f[i - 1], s[i])
  <2>1. f[i - 1] \in ListBlocks /\ f[i - 1].count <= Len(f[i - 1].cells)
    BY <1>6, ListIs
  <2>2. f[i - 1].count < LargestSize
    BY <1>0, <1>6
  <2>3. PushedOn(f[i - 1], s[i]) \in ListBlocks
    BY <1>0, <2>1, <2>2, PushedIs
  <2> QED
    BY <1>5, <2>3
<1>7. \A i \in 0 .. n : Is(f[i], Part(s, i)) /\ f[i].count = i
  BY <1>4, <1>6, FillingIs
<1>8. \A i \in 1 .. n : f[i] = PushedOn(f[i - 1], s[i])
  <2>1. \A i \in 1 .. n : i - 1 \in 0 .. n
    BY <1>0
  <2> QED
    BY <1>6, <1>7, <2>1
<1>9. f = [i \in 0 .. n |-> IF i = 0 THEN NoItems ELSE PushedOn(f[i - 1], s[i])]
  <2>1. \A i \in 0 .. n : i # 0 => i \in 1 .. n
    BY <1>0
  <2> QED
    BY <1>4, <1>8, <2>1
<1>10. Fills(f, s)
  BY <1>9 DEF Fills
<1> QED
  BY <1>10

\* A new list has the arguments of the call.
LEMMA NewIs ==
    ASSUME NEW s \in Seq(Held), Len(s) <= LargestSize
    PROVE  Is(NewList(s), s) /\ NewList(s).count = Len(s)
<1> DEFINE f == CHOOSE f : Fills(f, s)
<1>1. Fills(f, s)
  BY FillExists
<1>2. NewList(s) = f[Len(s)]
  BY DEF NewList, Filled, Fills, NoItems
<1> HIDE DEF f
<1>0. Len(s) \in Nat
  BY LenProperties
<1>3. f[0] = NoItems /\ \A i \in 1 .. Len(s) : f[i] = PushedOn(f[i - 1], s[i])
  <2>1. \A i \in 1 .. Len(s) : i \in 0 .. Len(s) /\ i # 0
    BY <1>0
  <2> QED
    BY <1>0, <1>1, <2>1 DEF Fills
<1>4. \A i \in 0 .. Len(s) : Is(f[i], Part(s, i)) /\ f[i].count = i
  BY <1>3, FillingIs
<1>5. Is(f[Len(s)], Part(s, Len(s))) /\ f[Len(s)].count = Len(s)
  BY <1>0, <1>4
<1>6. Part(s, Len(s)) = s
  BY SubSeqFull DEF Part
<1> QED
  BY <1>2, <1>5, <1>6

-----------------------------------------------------------------------------
(* The lists of a program, and a loop over one of them.                    *)

ListTypes ==
    /\ vec \in [Lists -> ListBlocks \cup {Absent}] /\ meant \in [Lists -> Seq(Said)]
    /\ loop \in [index : Int, seen : Seq(Held), clean : BOOLEAN]

\* Each list is what the program made of it; the first is always there.
ListsAre ==
    /\ \A o \in Lists : vec[o] = Absent \/ Is(vec[o], meant[o])
    /\ Is(vec[1], meant[1])

\* The first items of a list.
Begins(seen, v) ==
    Len(seen) <= v.count /\ \A i \in 1 .. Len(seen) : seen[i] = v.cells[i]

\* A loop that nothing disturbed has seen the items up to its index, and in the
\* end all of them.
LoopSees ==
    /\ loop.index >= -1 /\ loop.clean => Len(loop.seen) = loop.index + 1 /\ Begins(loop.seen, vec[1])
    /\ loop.index = -3 /\ loop.clean => Len(loop.seen) = vec[1].count /\ Begins(loop.seen, vec[1])

ListInv == ListTypes /\ ListsAre /\ LoopSees

\* The parts of the loop.
LEMMA LoopIs ==
    ASSUME ListTypes
    PROVE  /\ loop.index \in Int /\ loop.seen \in Seq(Held) /\ Len(loop.seen) \in Nat
           /\ loop.clean \in BOOLEAN
<1>1. loop.index \in Int /\ loop.seen \in Seq(Held) /\ loop.clean \in BOOLEAN
  BY DEF ListTypes
<1> QED
  BY <1>1, LenProperties

\* A list that exists is what the program made of it.
LEMMA ExistsIs ==
    ASSUME ListInv, NEW o \in Lists, Exists(o)
    PROVE  Is(vec[o], meant[o]) /\ vec[o] \in ListBlocks /\ vec[o].count \in Nat
<1>1. vec[o] # Absent
  <2>1. Absent.count = -2
    BY DEF Absent
  <2> QED
    BY <2>1 DEF Exists
<1>2. Is(vec[o], meant[o])
  BY <1>1 DEF ListInv, ListsAre
<1> QED
  BY <1>2, ListIs

\* A call keeps the invariant if it makes a list of what it means, and leaves
\* the items of list 1 where it does not claim to move them.
LEMMA ChangeKeeps ==
    ASSUME ListConstants, ListInv, NEW o \in Lists, NEW v, NEW s, Is(v, s), NEW moves \in BOOLEAN,
           Change(o, v, s, moves),
           o = 1 /\ ~moves => /\ vec[1].count <= v.count
                              /\ \A i \in 1 .. vec[1].count : v.cells[i] = vec[1].cells[i]
    PROVE  ListInv'
<1>0. v \in ListBlocks /\ s \in Seq(Said)
  BY ListIs
<1>1. vec' = [vec EXCEPT ![o] = v] /\ meant' = [meant EXCEPT ![o] = s]
  BY DEF Change
<1>2. PICK clean \in BOOLEAN : clean = (loop.clean /\ (o = 1 => ~moves /\ loop.index # -3))
  OBVIOUS
<1>3. loop' = [index |-> loop.index, seen |-> loop.seen, clean |-> clean]
  <2>1. loop' = [loop EXCEPT !.clean = clean]
    BY <1>2 DEF Change
  <2> QED
    BY <2>1 DEF ListInv, ListTypes
<1>4. ListTypes'
  <2>1. vec' \in [Lists -> ListBlocks \cup {Absent}]
    BY <1>0, <1>1 DEF ListInv, ListTypes
  <2>2. meant' \in [Lists -> Seq(Said)]
    BY <1>0, <1>1 DEF ListInv, ListTypes
  <2>3. loop' \in [index : Int, seen : Seq(Held), clean : BOOLEAN]
    BY <1>3, LoopIs DEF ListInv
  <2> QED
    BY <2>1, <2>2, <2>3 DEF ListTypes
<1>5. \A q \in Lists : /\ vec'[q] = IF q = o THEN v ELSE vec[q]
                       /\ meant'[q] = IF q = o THEN s ELSE meant[q]
  BY <1>1 DEF ListInv, ListTypes
<1>6. 1 \in Lists
  BY DEF ListConstants
<1>7. ListsAre'
  <2>1. \A q \in Lists : vec'[q] = Absent \/ Is(vec'[q], meant'[q])
    BY <1>5 DEF ListInv, ListsAre
  <2>2. Is(vec'[1], meant'[1])
    BY <1>5, <1>6 DEF ListInv, ListsAre
  <2> QED
    BY <2>1, <2>2 DEF ListsAre, Is
<1>8. LoopSees'
  <2>1. loop'.index = loop.index /\ loop'.seen = loop.seen /\ loop'.clean = clean
    BY <1>3
  <2>2. CASE o # 1
    <3>1. vec'[1] = vec[1]
      BY <1>5, <1>6, <2>2
    <3>2. clean => loop.clean
      BY <1>2
    <3> QED
      BY <2>1, <3>1, <3>2 DEF ListInv, LoopSees, Begins
  <2>3. CASE o = 1
    <3>1. vec'[1] = v
      BY <1>5, <1>6, <2>3
    <3>2. clean => loop.clean /\ ~moves /\ loop.index # -3
      BY <1>2, <2>3
    <3>3. v.count \in Nat /\ vec[1].count \in Nat /\ Len(loop.seen) \in Nat
      <4>1. Is(vec[1], meant[1])
        BY DEF ListInv, ListsAre
      <4> QED
        BY <4>1, ListIs, LoopIs DEF ListInv
    <3>4. ASSUME clean, loop.index >= -1
          PROVE  Len(loop.seen) = loop.index + 1 /\ Begins(loop.seen, v)
      <4>1. Len(loop.seen) = loop.index + 1 /\ Begins(loop.seen, vec[1])
        BY <3>2, <3>4 DEF ListInv, LoopSees
      <4>2. /\ vec[1].count <= v.count
            /\ \A i \in 1 .. vec[1].count : v.cells[i] = vec[1].cells[i]
        BY <2>3, <3>2, <3>4
      <4>3. Len(loop.seen) <= v.count
        BY <3>3, <4>1, <4>2 DEF Begins
      <4>4. \A i \in 1 .. Len(loop.seen) : i \in 1 .. vec[1].count
        BY <3>3, <4>1 DEF Begins
      <4>5. \A i \in 1 .. Len(loop.seen) : loop.seen[i] = v.cells[i]
        BY <4>1, <4>2, <4>4 DEF Begins
      <4> QED
        BY <4>1, <4>3, <4>5 DEF Begins
    <3>5. clean => loop.index # -3
      BY <3>2
    <3> HIDE DEF Begins
    <3> QED
      BY <2>1, <3>1, <3>4, <3>5 DEF LoopSees, Begins
  <2> QED
    BY <2>2, <2>3
<1> QED
  BY <1>4, <1>7, <1>8 DEF ListInv

\* push(): the items stay where they are, also for a loop.
LEMMA PushStep ==
    ASSUME ListConstants, ListInv, NEW o \in Lists, NEW x \in Elements, Push(o, x)
    PROVE  ListInv'
<1>0. /\ Is(vec[o], meant[o]) /\ vec[o] \in ListBlocks /\ vec[o].count \in Nat
      /\ LargestSize \in Nat /\ x \in Held
  BY ExistsIs, LargestIs DEF Push, Held
<1>1. PICK w : w = PushedOn(vec[o], x)
  OBVIOUS
<1>2. Change(o, w, Append(meant[o], x), FALSE)
  BY <1>1 DEF Push
<1>3. vec[o].count < LargestSize
  <2>1. w.count = vec[o].count + 1
    BY <1>1 DEF PushedOn
  <2>2. w.count <= LargestSize
    BY <1>2 DEF Change
  <2> QED
    BY <1>0, <2>1, <2>2
<1>4. Is(w, Append(meant[o], x))
  BY <1>0, <1>1, <1>3, PushIs
<1>5. vec[o].count <= w.count /\ \A i \in 1 .. vec[o].count : w.cells[i] = vec[o].cells[i]
  <2>1. vec[o].count <= Len(vec[o].cells)
    BY <1>0, ListIs
  <2>2. w.count = vec[o].count + 1 /\ \A i \in 1 .. vec[o].count : w.cells[i] = vec[o].cells[i]
    BY <1>0, <1>1, <1>3, <2>1, PushedIs
  <2> QED
    BY <1>0, <2>2
<1> QED
  BY <1>2, <1>4, <1>5, ChangeKeeps

\* A call that claims to move items has only its own list to keep in order.
LEMMA MovingKeeps ==
    ASSUME ListConstants, ListInv, NEW o \in Lists, NEW v, NEW s, Is(v, s), Change(o, v, s, TRUE)
    PROVE  ListInv'
  BY ChangeKeeps

\* Positions, from both ends.
LEMMA PositionIs ==
    ASSUME ListConstants, NEW v, NEW i \in Indexes, v.count \in Nat
    PROVE  Position(v, i) \in Int /\ i \in Int
  BY DEF ListConstants, Position

\* insert()
LEMMA InsertStep ==
    ASSUME ListConstants, ListInv, NEW o \in Lists, NEW x \in Elements, NEW i \in Indexes,
           Insert(o, i, x)
    PROVE  ListInv'
<1>0. /\ Is(vec[o], meant[o]) /\ vec[o] \in ListBlocks /\ vec[o].count \in Nat
      /\ LargestSize \in Nat /\ x \in Held
  BY ExistsIs, LargestIs DEF Insert, Held
<1>1. PICK p \in 0 .. vec[o].count : p = Position(vec[o], i)
  BY DEF Insert
<1>2. PICK w : w = InsertedAt(vec[o], p, x)
  OBVIOUS
<1>3. Change(o, w, InsertAt(meant[o], p + 1, x), TRUE)
  BY <1>1, <1>2 DEF Insert
<1>4. vec[o].count < LargestSize
  <2>1. w.count = vec[o].count + 1
    BY <1>2 DEF InsertedAt
  <2>2. w.count <= LargestSize
    BY <1>3 DEF Change
  <2> QED
    BY <1>0, <2>1, <2>2
<1>5. Is(w, InsertAt(meant[o], p + 1, x))
  BY <1>0, <1>2, <1>4, InsertIs
<1> QED
  BY <1>3, <1>5, MovingKeeps

\* setitem()
LEMMA SetItemStep ==
    ASSUME ListConstants, ListInv, NEW o \in Lists, NEW x \in Elements, NEW i \in Indexes,
           SetItem(o, i, x)
    PROVE  ListInv'
<1>0. /\ Is(vec[o], meant[o]) /\ vec[o].count \in Nat /\ x \in Held
  BY ExistsIs DEF SetItem, Held
<1>1. PICK p \in 0 .. vec[o].count - 1 : p = Position(vec[o], i)
  BY DEF SetItem
<1>2. PICK q \in 1 .. vec[o].count : q = p + 1
  BY <1>0
<1>3. Change(o, [vec[o] EXCEPT !.cells[q] = x], [meant[o] EXCEPT ![q] = x], TRUE)
  BY <1>1, <1>2 DEF SetItem
<1>4. Is([vec[o] EXCEPT !.cells[q] = x], [meant[o] EXCEPT ![q] = x])
  BY <1>0, SetItemIs
<1> QED
  BY <1>3, <1>4, MovingKeeps

\* remove(), pop()
LEMMA RemoveStep ==
    ASSUME ListConstants, ListInv, NEW o \in Lists, NEW i \in Indexes, RemoveItem(o, i)
    PROVE  ListInv'
<1>0. Is(vec[o], meant[o])
  BY ExistsIs DEF RemoveItem
<1>1. PICK p \in 0 .. vec[o].count - 1 : p = Position(vec[o], i)
  BY DEF RemoveItem
<1>2. Change(o, RemovedAt(vec[o], p), RemoveAt(meant[o], p + 1), TRUE)
  BY <1>1 DEF RemoveItem
<1>3. Is(RemovedAt(vec[o], p), RemoveAt(meant[o], p + 1))
  BY <1>0, RemoveIs
<1> QED
  BY <1>2, <1>3, MovingKeeps

\* resize(), clear()
LEMMA ResizeStep ==
    ASSUME ListConstants, ListInv, NEW o \in Lists, NEW n \in Indexes, Resize(o, n)
    PROVE  ListInv'
<1>0. Is(vec[o], meant[o])
  BY ExistsIs DEF Resize
<1>1. n \in Nat
  <2>1. n \in Int
    BY DEF ListConstants
  <2>2. n >= 0
    BY DEF Resize
  <2> QED
    BY <2>1, <2>2
<1>2. PICK more : more = IF NextSize(n) > Len(vec[o].cells) THEN NilItem ELSE Unsaid
  OBVIOUS
<1>3. PICK s : s = [i \in 1 .. n |-> IF i <= Len(meant[o]) THEN meant[o][i] ELSE more]
  OBVIOUS
<1>4. Change(o, ResizedTo(vec[o], n), s, TRUE)
  BY <1>2, <1>3 DEF Resize
<1>5. n <= LargestSize
  <2>1. vec[o] \in ListBlocks
    BY <1>0, ListIs
  <2>2. ResizedTo(vec[o], n).count = n
    BY <2>1, WithCount DEF ResizedTo
  <2> QED
    BY <1>4, <2>2 DEF Change
<1>6. Is(ResizedTo(vec[o], n), s)
  BY <1>0, <1>1, <1>2, <1>3, <1>5, ResizeIs
<1> QED
  BY <1>4, <1>6, MovingKeeps

\* Counts add up.
LEMMA CountOfMerged ==
    ASSUME NEW v, NEW w, v.count \in Nat, w.count \in Nat
    PROVE  MergedWith(v, w).count = v.count + w.count
  BY DEF MergedWith

\* A new list, of which there is no loop.
LEMMA NewKeeps ==
    ASSUME ListConstants, ListInv, NEW o \in Lists, ~Exists(o), NEW v, NEW s, Is(v, s),
           Change(o, v, s, FALSE)
    PROVE  ListInv'
<1>1. Is(vec[1], meant[1])
  BY DEF ListInv, ListsAre
<1>2. vec[1].count \in Nat
  BY <1>1, ListIs
<1>3. o # 1
  BY <1>2 DEF Exists
<1> QED
  BY <1>3, ChangeKeeps

\* merge(): a new list, with the items of one and then the other.
LEMMA MergeStep ==
    ASSUME ListConstants, ListInv, NEW o \in Lists, NEW a \in Lists, NEW b \in Lists, Merge(o, a, b)
    PROVE  ListInv'
<1>0. /\ Is(vec[a], meant[a]) /\ vec[a].count \in Nat /\ Is(vec[b], meant[b])
      /\ vec[b].count \in Nat /\ ~Exists(o) /\ LargestSize \in Nat
  BY ExistsIs, LargestIs DEF Merge
<1>1. PICK none : none = NewList(<<>>)
  OBVIOUS
<1>2. Is(none, <<>>) /\ none.count = 0
  <2>1. PICK e : e = <<>>
    OBVIOUS
  <2>2. e \in Seq(Held) /\ Len(e) = 0
    BY <2>1
  <2>3. Is(NewList(e), e) /\ NewList(e).count = Len(e)
    <3>1. Len(e) <= LargestSize
      BY <1>0, <2>2
    <3> QED
      BY <2>2, <3>1, NewIs
  <2> QED
    BY <1>1, <2>1, <2>2, <2>3
<1>3. PICK half : half = MergedWith(none, vec[a])
  OBVIOUS
<1>4. PICK w : w = MergedWith(half, vec[b])
  OBVIOUS
<1>5. half.count = vec[a].count
  <2>1. half.count = none.count + vec[a].count
    BY <1>0, <1>2, <1>3, CountOfMerged
  <2> QED
    BY <1>0, <1>2, <2>1
<1>6. w.count = vec[a].count + vec[b].count
  BY <1>0, <1>4, <1>5, CountOfMerged
<1>7. Change(o, w, meant[a] \o meant[b], FALSE)
  BY <1>1, <1>3, <1>4 DEF Merge
<1>8. vec[a].count + vec[b].count <= LargestSize /\ vec[a].count <= LargestSize
  BY <1>0, <1>6, <1>7 DEF Change
<1>9. Is(half, meant[a])
  <2>1. none.count + vec[a].count <= LargestSize
    BY <1>0, <1>2, <1>8
  <2>2. Is(half, <<>> \o meant[a])
    BY <1>0, <1>2, <1>3, <2>1, MergedIs
  <2>3. meant[a] \in Seq(Said)
    BY <1>0, ListIs
  <2>4. <<>> \o meant[a] = meant[a]
    BY <2>3, ConcatEmptySeq
  <2> QED
    BY <2>2, <2>4
<1>10. Is(w, meant[a] \o meant[b])
  BY <1>0, <1>4, <1>5, <1>8, <1>9, MergedIs
<1> QED
  BY <1>0, <1>7, <1>10, NewKeeps

\* copy()
LEMMA CopyStep ==
    ASSUME ListConstants, ListInv, NEW o \in Lists, NEW a \in Lists, Copy(o, a)
    PROVE  ListInv'
<1>1. Is(vec[a], meant[a]) /\ ~Exists(o) /\ Change(o, vec[a], meant[a], FALSE)
  BY ExistsIs DEF Copy
<1> QED
  BY <1>1, NewKeeps

\* reverse()
LEMMA ReverseStep ==
    ASSUME ListConstants, ListInv, NEW o \in Lists, ReverseList(o)
    PROVE  ListInv'
<1>1. Is(vec[o], meant[o]) /\ Change(o, ReversedIn(vec[o]), Reverse(meant[o]), TRUE)
  BY ExistsIs DEF ReverseList
<1>2. Is(ReversedIn(vec[o]), Reverse(meant[o]))
  BY <1>1, ReversedIs
<1> QED
  BY <1>1, <1>2, MovingKeeps

\* The iterator starts, hands out an item, or stops.
LEMMA LoopStep ==
    ASSUME ListConstants, ListInv, StartLoop \/ Iterate
    PROVE  ListInv'
<1>0. /\ loop.index \in Int /\ loop.seen \in Seq(Held) /\ Len(loop.seen) \in Nat
      /\ loop.clean \in BOOLEAN
      /\ loop = [index |-> loop.index, seen |-> loop.seen, clean |-> loop.clean]
  BY LoopIs DEF ListInv, ListTypes
<1>1. vec' = vec /\ meant' = meant
  BY DEF StartLoop, Iterate
<1>2. /\ Is(vec[1], meant[1]) /\ vec[1].count \in Nat /\ Len(vec[1].cells) \in Nat
      /\ vec[1].count <= Len(vec[1].cells)
      /\ \A i \in 1 .. Len(vec[1].cells) : vec[1].cells[i] \in Held
  <2>1. Is(vec[1], meant[1])
    BY DEF ListInv, ListsAre
  <2> QED
    BY <2>1, ListIs
<1>3. ListsAre'
  BY <1>1 DEF ListInv, ListsAre, Is
<1>4. ASSUME loop' \in [index : Int, seen : Seq(Held), clean : BOOLEAN], LoopSees'
      PROVE  ListInv'
  BY <1>1, <1>3, <1>4 DEF ListInv, ListTypes
<1>5. CASE StartLoop
  <2>1. loop' = [index |-> -1, seen |-> <<>>, clean |-> TRUE]
    BY <1>5 DEF StartLoop
  <2>2. <<>> \in Seq(Held) /\ Len(<<>>) = 0
    BY EmptySeq
  <2>3. /\ loop' \in [index : Int, seen : Seq(Held), clean : BOOLEAN]
        /\ loop'.index = -1 /\ loop'.seen = <<>>
    BY <2>1, <2>2
  <2>4. Begins(<<>>, vec'[1])
    BY <1>1, <1>2, <2>2 DEF Begins
  <2>5. LoopSees'
    BY <2>2, <2>3, <2>4 DEF LoopSees, Begins
  <2> QED
    BY <1>4, <2>3, <2>5
<1>6. CASE Iterate /\ loop.index + 1 >= vec[1].count
  <2>1. loop' = [loop EXCEPT !.index = -3] /\ loop.index > -2
    BY <1>6 DEF Iterate
  <2>2. loop' = [index |-> -3, seen |-> loop.seen, clean |-> loop.clean]
    BY <1>0, <2>1
  <2>3. /\ loop' \in [index : Int, seen : Seq(Held), clean : BOOLEAN]
        /\ loop'.index = -3 /\ loop'.seen = loop.seen /\ loop'.clean = loop.clean
    BY <1>0, <2>2
  <2>4. loop.clean => Len(loop.seen) = loop.index + 1 /\ Begins(loop.seen, vec[1])
    <3>1. loop.index >= -1
      BY <1>0, <2>1
    <3> QED
      BY <3>1 DEF ListInv, LoopSees
  <2>5. loop.clean => Len(loop.seen) = vec[1].count
    BY <1>0, <1>2, <1>6, <2>4 DEF Begins
  <2>6. LoopSees'
    BY <1>1, <2>3, <2>4, <2>5 DEF LoopSees, Begins
  <2> QED
    BY <1>4, <2>3, <2>6
<1>7. CASE Iterate /\ ~(loop.index + 1 >= vec[1].count)
  <2>0. loop.index > -2
    BY <1>7 DEF Iterate
  <2>1. PICK n \in Nat : n = loop.index + 1
    BY <1>0, <2>0
  <2>2. n < vec[1].count /\ n + 1 \in 1 .. Len(vec[1].cells) /\ n + 1 \in 1 .. vec[1].count
    BY <1>0, <1>2, <1>7, <2>1
  <2>3. PICK x \in Held : x = vec[1].cells[n + 1]
    BY <1>2, <2>2
  <2>4. PICK seen : seen = Append(loop.seen, x)
    OBVIOUS
  <2>5. /\ seen \in Seq(Held) /\ Len(seen) = Len(loop.seen) + 1 /\ seen[Len(loop.seen) + 1] = x
        /\ \A i \in 1 .. Len(loop.seen) : seen[i] = loop.seen[i]
    BY <1>0, <2>4, AppendProperties
  <2>6. loop' = [index |-> n, seen |-> seen, clean |-> loop.clean]
    <3>1. loop' = [loop EXCEPT !.index = n, !.seen = seen]
      BY <1>7, <2>1, <2>3, <2>4 DEF Iterate
    <3> QED
      BY <1>0, <3>1
  <2>7. /\ loop' \in [index : Int, seen : Seq(Held), clean : BOOLEAN]
        /\ loop'.index = n /\ loop'.seen = seen /\ loop'.clean = loop.clean
    BY <1>0, <2>5, <2>6
  <2>8. loop.clean => Len(seen) = n + 1 /\ Begins(seen, vec[1])
    <3> SUFFICES ASSUME loop.clean PROVE Len(seen) = n + 1 /\ Begins(seen, vec[1])
      OBVIOUS
    <3>1. loop.index >= -1
      BY <1>0, <2>0
    <3>2. Len(loop.seen) = n /\ Begins(loop.seen, vec[1])
      BY <2>1, <3>1 DEF ListInv, LoopSees
    <3>3. ASSUME NEW i \in 1 .. n + 1 PROVE seen[i] = vec[1].cells[i]
      <4>1. CASE i = n + 1
        BY <2>3, <2>5, <3>2, <4>1
      <4>2. CASE i # n + 1
        <5>1. i \in 1 .. n
          BY <4>2
        <5> QED
          BY <2>5, <3>2, <5>1 DEF Begins
      <4> QED
        BY <4>1, <4>2
    <3>4. Len(seen) = n + 1 /\ Len(seen) <= vec[1].count
      BY <1>2, <2>2, <2>5, <3>2
    <3> QED
      BY <3>3, <3>4 DEF Begins
  <2>9. LoopSees'
    BY <1>1, <2>7, <2>8 DEF LoopSees, Begins
  <2> QED
    BY <1>4, <2>7, <2>9
<1> QED
  BY <1>5, <1>6, <1>7

\* Every call keeps the invariant.
LEMMA ListKept ==
    ASSUME ListConstants, ListInv, [ListNext]_listVars
    PROVE  ListInv'
<1>1. CASE UNCHANGED listVars
  BY <1>1 DEF listVars, ListInv, ListTypes, ListsAre, LoopSees, Is, Begins
<1>2. ASSUME NEW o \in Lists, \E x \in Elements : Push(o, x) PROVE ListInv'
  BY <1>2, PushStep
<1>3. ASSUME NEW o \in Lists, \E x \in Elements, i \in Indexes : Insert(o, i, x) \/ SetItem(o, i, x)
      PROVE  ListInv'
  BY <1>3, InsertStep, SetItemStep
<1>4. ASSUME NEW o \in Lists, \E i \in Indexes : RemoveItem(o, i) \/ Resize(o, i) PROVE ListInv'
  BY <1>4, RemoveStep, ResizeStep
<1>5. ASSUME NEW o \in Lists, \E a, b \in Lists : Merge(o, a, b) PROVE ListInv'
  BY <1>5, MergeStep
<1>6. ASSUME NEW o \in Lists, \E a \in Lists : Copy(o, a) PROVE ListInv'
  BY <1>6, CopyStep
<1>7. ASSUME NEW o \in Lists, ReverseList(o) PROVE ListInv'
  BY <1>7, ReverseStep
<1>8. CASE StartLoop \/ Iterate
  BY <1>8, LoopStep
<1> QED
  BY <1>1, <1>2, <1>3, <1>4, <1>5, <1>6, <1>7, <1>8 DEF ListNext

\* It holds of a program that has made its first list.
LEMMA ListStarts == ASSUME ListConstants, ListInit PROVE ListInv
<1>1. PICK s \in Contents :
        /\ vec = [o \in Lists |-> IF o = 1 THEN NewList(s) ELSE Absent]
        /\ meant = [o \in Lists |-> IF o = 1 THEN s ELSE <<>>]
  BY DEF ListInit
<1>2. s \in Seq(Held) /\ Len(s) <= LargestSize /\ 1 \in Lists
  <2>1. s \in Seq(Elements) /\ Len(s) <= LargestSize /\ 1 \in Lists
    BY DEF ListConstants
  <2>2. Elements \subseteq Held
    BY DEF Held
  <2> QED
    BY <2>1, <2>2, SeqMonotonic
<1>3. Is(NewList(s), s)
  BY <1>2, NewIs
<1>4. NewList(s) \in ListBlocks /\ s \in Seq(Said)
  BY <1>3, ListIs
<1>5. ListsAre
  BY <1>1, <1>2, <1>3 DEF ListsAre
<1>6. loop = [index |-> -2, seen |-> <<>>, clean |-> TRUE]
  BY DEF ListInit, NoLoop
<1>7. LoopSees
  BY <1>6 DEF LoopSees
<1>8. ListTypes
  <2>1. <<>> \in Seq(Said) /\ <<>> \in Seq(Held)
    BY EmptySeq
  <2>2. vec \in [Lists -> ListBlocks \cup {Absent}]
    BY <1>1, <1>4
  <2>3. meant \in [Lists -> Seq(Said)]
    BY <1>1, <1>4, <2>1
  <2>4. loop \in [index : Int, seen : Seq(Held), clean : BOOLEAN]
    BY <1>6, <2>1
  <2> QED
    BY <2>2, <2>3, <2>4 DEF ListTypes
<1> QED
  BY <1>5, <1>7, <1>8 DEF ListInv

-----------------------------------------------------------------------------
(* What a list answers.                                                    *)

\* The sequence a list shows.
LEMMA ShownIs ==
    ASSUME NEW v, NEW m, Is(v, m)
    PROVE  /\ Shown(v) \in Seq(Held) /\ Len(Shown(v)) = v.count /\ DOMAIN Shown(v) = 1 .. v.count
           /\ \A i \in 1 .. v.count : Shown(v)[i] = v.cells[i]
<1>1. /\ Len(v.cells) \in Nat /\ v.count \in Nat /\ v.count <= Len(v.cells)
      /\ \A i \in 1 .. Len(v.cells) : v.cells[i] \in Held
  BY ListIs
<1>2. PICK s : s = SubSeq(v.cells, 1, v.count)
  OBVIOUS
<1>3. /\ s \in Seq(Held) /\ Len(s) = (IF 1 <= v.count THEN v.count - 1 + 1 ELSE 0)
      /\ \A i \in 1 .. v.count - 1 + 1 : s[i] = v.cells[1 + i - 1]
  <2>1. 1 \in Int /\ v.count \in Int /\ \A i \in 1 .. v.count : v.cells[i] \in Held
    BY <1>1
  <2> QED
    BY <1>2, <2>1, SubSeqProperties
<1>4. Len(s) = v.count /\ \A i \in 1 .. v.count : s[i] = v.cells[i]
  BY <1>1, <1>3
<1> QED
  BY <1>2, <1>3, <1>4, LenProperties DEF Shown

\* A position, from either end, or none.
LEMMA ItemIs ==
    ASSUME ListConstants, NEW v, NEW m, Is(v, m), NEW s, s = Shown(v), NEW i \in Int
    PROVE  Item(v, i) = IF i \in -v.count .. v.count - 1
                        THEN s[(IF i < 0 THEN v.count + i ELSE i) + 1] ELSE IndexError
<1>1. v.count \in Nat
  BY ListIs
<1>2. \A j \in 1 .. v.count : s[j] = v.cells[j]
  BY ShownIs
<1>3. PICK p \in Int : p = Position(v, i) /\ p = IF i < 0 THEN v.count + i ELSE i
  BY <1>1 DEF Position
<1>4. Item(v, i) = IF p \in 0 .. v.count - 1 THEN v.cells[p + 1] ELSE IndexError
  BY <1>3 DEF Item
<1>5. i \in -v.count .. v.count - 1 <=> p \in 0 .. v.count - 1
  BY <1>1, <1>3
<1>6. p \in 0 .. v.count - 1 => s[p + 1] = v.cells[p + 1]
  BY <1>1, <1>2
<1> QED
  BY <1>3, <1>4, <1>5, <1>6

\* The items of a sequence between two positions, from both ends.
Between(s, i, j) ==
    LET n == Len(s)
        low == IF i < 0 THEN n + i ELSE i
        high == IF j < 0 THEN n + j ELSE j
        from == IF low < 0 THEN 1 ELSE low + 1
    IN  SubSeq(s, from, IF high < n THEN high + 1 ELSE n)

\* A range, kept within the list.
LEMMA RangeIs ==
    ASSUME ListConstants, NEW v, NEW m, Is(v, m), NEW i \in Int, NEW j \in Int
    PROVE  ItemRange(v, i, j) = Between(Shown(v), i, j)
<1> DEFINE low == IF i < 0 THEN v.count + i ELSE i
           high == IF j < 0 THEN v.count + j ELSE j
           from == IF low < 0 THEN 1 ELSE low + 1
           to == IF high < v.count THEN high + 1 ELSE v.count
<1>0. PICK s : s = Shown(v)
  OBVIOUS
<1>1. v.count \in Nat /\ low \in Int /\ high \in Int /\ from \in Int /\ to \in Int
      /\ from >= 1 /\ to <= v.count
  <2>1. v.count \in Nat
    BY ListIs
  <2>2. low \in Int /\ high \in Int
    BY <2>1
  <2> QED
    BY <2>1, <2>2
<1>2. s \in Seq(Held) /\ Len(s) = v.count /\ \A k \in 1 .. v.count : s[k] \in Held /\ s[k] = v.cells[k]
  BY <1>0, ShownIs, LenProperties
<1>3. PICK n \in Nat : n = IF from <= to THEN to - from + 1 ELSE 0
  BY <1>1
<1>4. PICK t : t = SubSeq(s, from, to)
  OBVIOUS
<1>5. t \in Seq(Held) /\ Len(t) = n /\ \A k \in 1 .. n : t[k] = s[from + k - 1]
  <2>1. \A k \in from .. to : s[k] \in Held
    BY <1>1, <1>2
  <2>2. /\ t \in Seq(Held) /\ Len(t) = IF from <= to THEN to - from + 1 ELSE 0
        /\ \A k \in 1 .. to - from + 1 : t[k] = s[from + k - 1]
    <3>1. PICK a \in Int : a = from
      BY <1>1
    <3>2. PICK b \in Int : b = to
      BY <1>1
    <3>3. t = SubSeq(s, a, b) /\ \A k \in a .. b : s[k] \in Held
      BY <1>4, <2>1, <3>1, <3>2
    <3>4. /\ t \in Seq(Held) /\ Len(t) = IF a <= b THEN b - a + 1 ELSE 0
          /\ \A k \in 1 .. b - a + 1 : t[k] = s[a + k - 1]
      BY <3>3, SubSeqProperties
    <3> QED
      BY <3>1, <3>2, <3>4
  <2> QED
    BY <1>1, <1>3, <2>2
<1>6. PICK r : r = RangeOf(v, i, j)
  OBVIOUS
<1>7. r.lower = from - 1 /\ r.upper = to - 1
  <2>1. Position(v, i) = low /\ Position(v, j) = high
    BY DEF Position
  <2>2. r = [lower |-> IF low < 0 THEN 0 ELSE low, upper |-> IF high < v.count THEN high ELSE v.count - 1]
    BY <1>6, <2>1 DEF RangeOf
  <2> QED
    BY <1>1, <2>2
<1>8. (IF r.upper < r.lower THEN 0 ELSE (r.upper - r.lower) + 1) = n
  BY <1>1, <1>3, <1>7
<1>9. PICK u : u = ItemRange(v, i, j)
  OBVIOUS
<1>10. u = [k \in 1 .. n |-> Item(v, (r.lower + k) - 1)]
  BY <1>6, <1>8, <1>9 DEF ItemRange
<1>11. ASSUME NEW k \in 1 .. n PROVE u[k] = t[k] /\ u[k] \in Held
  <2>1. PICK p \in 1 .. v.count : p = from + k - 1 /\ p - 1 = (r.lower + k) - 1
    <3>1. from + k - 1 \in 1 .. v.count /\ (from + k - 1) - 1 = (r.lower + k) - 1
      BY <1>1, <1>3, <1>7
    <3> QED
      BY <3>1
  <2>2. Position(v, p - 1) = p - 1 /\ p - 1 \in 0 .. v.count - 1 /\ (p - 1) + 1 = p
    BY <1>1 DEF Position
  <2>3. Item(v, p - 1) = v.cells[p]
    BY <2>2 DEF Item
  <2> QED
    BY <1>2, <1>5, <1>10, <2>1, <2>3
<1>12. u \in Seq(Held) /\ Len(u) = n
  <2>1. u \in [1 .. n -> Held]
    <3>1. DOMAIN u = 1 .. n /\ u = [k \in 1 .. n |-> u[k]]
      BY <1>10
    <3> QED
      BY <1>11, <3>1
  <2> QED
    BY <2>1, FunctionIsSeq
<1>13. u = t
  BY <1>5, <1>11, <1>12, SeqEqual
<1>14. t = Between(s, i, j)
  BY <1>2, <1>4 DEF Between
<1> QED
  BY <1>0, <1>9, <1>13, <1>14

\* The first item that is equal, or nil.
LEMMA FindIs ==
    ASSUME NEW v, NEW m, Is(v, m), NEW s, s = Shown(v), NEW x, NEW p, p = Find(v, x)
    PROVE  IF x \in Range(s) THEN s[p + 1] = x /\ x \notin Range(SubSeq(s, 1, p)) ELSE p = NilItem
<1>1. v.count \in Nat
  BY ListIs
<1>2. /\ s \in Seq(Held) /\ Len(s) = v.count /\ DOMAIN s = 1 .. v.count
      /\ \A k \in 1 .. v.count : s[k] \in Held /\ s[k] = v.cells[k]
  BY ShownIs, LenProperties
<1> DEFINE at == {q \in 0 .. v.count - 1 : v.cells[q + 1] = x}
<1>3. x \in Range(s) <=> at # {}
  <2>1. ASSUME x \in Range(s) PROVE at # {}
    <3>1. PICK k \in 1 .. v.count : s[k] = x
      BY <1>2, <2>1 DEF Range
    <3>2. k - 1 \in 0 .. v.count - 1 /\ (k - 1) + 1 = k
      BY <1>1
    <3>3. k - 1 \in at
      BY <1>2, <3>1, <3>2
    <3> QED
      BY <3>3
  <2>2. ASSUME NEW q \in at PROVE x \in Range(s)
    <3>1. q + 1 \in 1 .. v.count
      BY <1>1
    <3>2. s[q + 1] = x
      BY <1>2, <3>1
    <3> QED
      BY <1>2, <3>1, <3>2 DEF Range
  <2> QED
    BY <2>1, <2>2
<1>4. p = IF at = {} THEN NilItem ELSE CHOOSE q \in at : \A k \in at : q <= k
  BY Zenon DEF Find
<1>5. ASSUME at # {} PROVE s[p + 1] = x /\ x \notin Range(SubSeq(s, 1, p))
  <2>1. p \in at /\ \A k \in at : p <= k
    <3>1. IsFiniteSet(at) /\ at \subseteq Int
      <4>1. IsFiniteSet(0 .. v.count - 1)
        BY <1>1, FS_Interval
      <4>2. at \subseteq 0 .. v.count - 1
        OBVIOUS
      <4>3. IsFiniteSet(at)
        BY <4>1, <4>2, FS_Subset
      <4> QED
        BY <1>1, <4>2, <4>3
    <3>2. \E q \in at : \A k \in at : q <= k
      <4> HIDE DEF at
      <4>1. Min(at) \in at /\ \A k \in at : Min(at) <= k
        BY <1>5, <3>1, Extremes
      <4> QED
        BY <4>1
    <3> HIDE DEF at
    <3> QED
      BY <1>4, <1>5, <3>2, Zenon
  <2>2. p \in Nat /\ p + 1 \in 1 .. v.count /\ p <= v.count /\ v.cells[p + 1] = x
    BY <1>1, <2>1
  <2>3. s[p + 1] = x
    BY <1>2, <2>2
  <2>4. PICK t : t = SubSeq(s, 1, p)
    OBVIOUS
  <2>5. t \in Seq(Held) /\ Len(t) = p /\ \A k \in 1 .. p : t[k] = s[k]
    <3>1. 1 \in Int /\ p \in Int /\ \A k \in 1 .. p : s[k] \in Held
      BY <1>1, <1>2, <2>2
    <3>2. /\ t \in Seq(Held) /\ Len(t) = IF 1 <= p THEN p - 1 + 1 ELSE 0
          /\ \A k \in 1 .. p - 1 + 1 : t[k] = s[1 + k - 1]
      BY <2>4, <3>1, SubSeqProperties
    <3> QED
      BY <2>2, <3>2
  <2>6. x \notin Range(t)
    <3> SUFFICES ASSUME NEW k \in 1 .. p, t[k] = x PROVE FALSE
      BY <2>5, LenProperties DEF Range
    <3>1. k - 1 \in 0 .. v.count - 1 /\ (k - 1) + 1 = k /\ k \in 1 .. v.count
      BY <1>1, <2>2
    <3>2. v.cells[k] = x
      BY <1>2, <2>5, <3>1
    <3>3. k - 1 \in at
      BY <3>1, <3>2
    <3>4. p <= k - 1
      BY <2>1, <3>3
    <3> QED
      BY <2>2, <3>1, <3>4
  <2> QED
    BY <2>3, <2>4, <2>6
<1> HIDE DEF at
<1> QED
  BY <1>3, <1>4, <1>5

\* Lists are equal if they show the same.
LEMMA EqualIs ==
    ASSUME NEW v, NEW m, Is(v, m), NEW w, NEW k, Is(w, k)
    PROVE  EqualLists(v, w) <=> Shown(v) = Shown(w)
<1>1. PICK s : s = Shown(v)
  OBVIOUS
<1>2. PICK t : t = Shown(w)
  OBVIOUS
<1>3. /\ s \in Seq(Held) /\ Len(s) = v.count /\ \A i \in 1 .. v.count : s[i] = v.cells[i]
      /\ t \in Seq(Held) /\ Len(t) = w.count /\ \A i \in 1 .. w.count : t[i] = w.cells[i]
  BY <1>1, <1>2, ShownIs
<1>4. ASSUME EqualLists(v, w) PROVE s = t
  <2>1. Len(s) = Len(t) /\ \A i \in 1 .. Len(s) : s[i] = t[i]
    BY <1>3, <1>4 DEF EqualLists
  <2> QED
    BY <1>3, <2>1, SeqEqual
<1>5. s = t => EqualLists(v, w)
  BY <1>3 DEF EqualLists
<1> QED
  BY <1>1, <1>2, <1>4, <1>5

\* What the invariant gives.
LEMMA ListAnswers ==
    ASSUME ListConstants, ListInv
    PROVE  ListAsMeant /\ ReadsAsMeant /\ LoopSeesAll
<1>1. ListAsMeant
  <2> SUFFICES ASSUME NEW o \in Lists, Exists(o)
               PROVE  /\ vec[o].count <= Len(vec[o].cells)
                      /\ vec[o].count = Len(meant[o])
                      /\ \A i \in 1 .. vec[o].count : meant[o][i] \in {vec[o].cells[i], Unsaid}
    BY DEF ListAsMeant
  <2>1. Is(vec[o], meant[o])
    BY ExistsIs
  <2> QED
    BY <2>1 DEF Is
<1>2. ReadsAsMeant
  <2> SUFFICES ASSUME NEW o \in Lists, Exists(o)
      PROVE
        LET s == Shown(vec[o])
            n == Len(s)
        IN  /\ \A i, j \in Indexes :
                 ItemRange(vec[o], i, j) =
                   LET low == IF i < 0 THEN n + i ELSE i
                       high == IF j < 0 THEN n + j ELSE j
                       from == IF low < 0 THEN 1 ELSE low + 1
                   IN  SubSeq(s, from, IF high < n THEN high + 1 ELSE n)
            /\ \A i \in Indexes : Item(vec[o], i) =
                 (IF i \in -n .. n - 1 THEN s[(IF i < 0 THEN n + i ELSE i) + 1]
                  ELSE IndexError)
            /\ \A i \in Indexes : ItemList(vec[o], <<i>>) =
                 (IF i \in 0 .. n - 1 THEN <<s[i + 1]>> ELSE <<NilItem>>)
            /\ \A x \in Elements : LET p == Find(vec[o], x) IN
                 IF x \in Range(s) THEN s[p + 1] = x /\ x \notin Range(SubSeq(s, 1, p))
                 ELSE p = NilItem
            /\ \A a \in Lists : Exists(a) =>
                 (EqualLists(vec[o], vec[a]) <=> s = Shown(vec[a]))
    BY Zenon DEF ReadsAsMeant
  <2> DEFINE s == Shown(vec[o])
             n == Len(s)
  <2>0. Is(vec[o], meant[o]) /\ vec[o].count \in Nat /\ Indexes \subseteq Int
    BY ExistsIs DEF ListConstants
  <2>1. n = vec[o].count /\ \A i \in 1 .. n : s[i] = vec[o].cells[i]
    BY <2>0, ShownIs
  <2>2. ASSUME NEW i \in Indexes, NEW j \in Indexes
        PROVE  ItemRange(vec[o], i, j) =
                   LET low == IF i < 0 THEN n + i ELSE i
                       high == IF j < 0 THEN n + j ELSE j
                       from == IF low < 0 THEN 1 ELSE low + 1
                   IN  SubSeq(s, from, IF high < n THEN high + 1 ELSE n)
    <3>1. i \in Int /\ j \in Int
      BY <2>0
    <3>2. ItemRange(vec[o], i, j) = Between(s, i, j)
      BY <2>0, <3>1, RangeIs
    <3> QED
      BY <3>2 DEF Between
  <2>3. ASSUME NEW i \in Indexes
        PROVE  Item(vec[o], i) = (IF i \in -n .. n - 1 THEN s[(IF i < 0 THEN n + i ELSE i) + 1]
                                  ELSE IndexError)
    <3>1. i \in Int
      BY <2>0
    <3> HIDE DEF s
    <3>2. s = Shown(vec[o])
      BY DEF s
    <3>3. Item(vec[o], i) = IF i \in -vec[o].count .. vec[o].count - 1
                        THEN s[(IF i < 0 THEN vec[o].count + i ELSE i) + 1] ELSE IndexError
      BY <2>0, <3>1, <3>2, ItemIs
    <3> QED
      BY <2>1, <3>3
  <2>4. ASSUME NEW i \in Indexes
        PROVE  ItemList(vec[o], <<i>>) = (IF i \in 0 .. n - 1 THEN <<s[i + 1]>> ELSE <<NilItem>>)
    <3>1. ItemList(vec[o], <<i>>) =
            <<IF i \in 0 .. vec[o].count - 1 THEN vec[o].cells[i + 1] ELSE NilItem>>
      BY DEF ItemList
    <3>2. i \in 0 .. n - 1 => s[i + 1] = vec[o].cells[i + 1]
      <4> HIDE DEF n, s
      <4> QED
        BY <2>0, <2>1
    <3> HIDE DEF n, s
    <3> QED
      BY <2>1, <3>1, <3>2
  <2>5. ASSUME NEW x \in Elements
        PROVE  LET p == Find(vec[o], x) IN
                 IF x \in Range(s) THEN s[p + 1] = x /\ x \notin Range(SubSeq(s, 1, p))
                 ELSE p = NilItem
    BY <2>0, FindIs
  <2>6. ASSUME NEW a \in Lists, Exists(a)
        PROVE  EqualLists(vec[o], vec[a]) <=> s = Shown(vec[a])
    <3>1. Is(vec[a], meant[a])
      BY <2>6, ExistsIs
    <3> QED
      BY <2>0, <3>1, EqualIs
  <2> HIDE DEF n, s
  <2> QED
    BY <2>2, <2>3, <2>4, <2>5, <2>6, Zenon DEF n, s
<1>3. LoopSeesAll
  <2> SUFFICES ASSUME loop.index = -3, loop.clean PROVE loop.seen = Shown(vec[1])
    BY DEF LoopSeesAll
  <2>1. Len(loop.seen) = vec[1].count /\ Begins(loop.seen, vec[1])
    BY DEF ListInv, LoopSees
  <2>2. Is(vec[1], meant[1]) /\ loop.seen \in Seq(Held)
    BY LoopIs DEF ListInv, ListsAre
  <2>3. PICK s : s = Shown(vec[1])
    OBVIOUS
  <2>4. s \in Seq(Held) /\ Len(s) = vec[1].count /\ \A i \in 1 .. vec[1].count : s[i] = vec[1].cells[i]
    BY <2>2, <2>3, ShownIs
  <2>5. loop.seen = s
    BY <2>1, <2>2, <2>4, SeqEqual DEF Begins
  <2> QED
    BY <2>3, <2>5
<1> QED
  BY <1>1, <1>2, <1>3

\* Whatever is done to lists, each shows the sequence the program made of it,
\* answers ranges, positions and searches as that sequence does, and a loop over
\* a list that only grows at its end sees each item once, in order.
THEOREM ListsCorrect ==
    ASSUME ListConstants
    PROVE  ListSpec => [](ListAsMeant /\ ReadsAsMeant /\ LoopSeesAll)
<1>1. ListInit => ListInv
  BY ListStarts
<1>2. ListInv /\ [ListNext]_listVars => ListInv'
  BY ListKept
<1>3. ListInv => ListAsMeant /\ ReadsAsMeant /\ LoopSeesAll
  BY ListAnswers
<1> QED
  BY <1>1, <1>2, <1>3, PTL DEF ListSpec

-----------------------------------------------------------------------------
(* Maps: the chains of a block, as functions: keys K, links N.             *)

Home(k, n) == (HashOf[k] % n) + 1

\* Keys are on the chain of their main slot, which begins there.
Chains(n, K, N) ==
    /\ n \in Nat \ {0} /\ K \in [1 .. n -> Keys \cup {NoKey}] /\ N \in [1 .. n -> 0 .. n]
    /\ \A i, j \in 1 .. n : K[i] = K[j] /\ K[i] # NoKey => i = j
    /\ \A i \in 1 .. n : K[i] # NoKey =>
         /\ K[Home(K[i], n)] # NoKey /\ Home(K[Home(K[i], n)], n) = Home(K[i], n)
         /\ N[i] # 0 => /\ K[N[i]] # NoKey /\ N[i] # Home(K[i], n)
                        /\ Home(K[N[i]], n) = Home(K[i], n)
         /\ i = Home(K[i], n) \/ \E p \in 1 .. n : K[p] # NoKey /\ N[p] = i
    /\ \A i, j \in 1 .. n : K[i] # NoKey /\ K[j] # NoKey /\ N[i] = N[j] /\ N[i] # 0 => i = j

\* No links, also those of empty slots, go in a circle.
Falls(n, N, B, R) ==
    B \in Nat /\ R \in [1 .. n -> 0 .. B] /\ \A i \in 1 .. n : N[i] # 0 => R[N[i]] < R[i]

\* A function, changed at a point.
With(f, i, x) == [f EXCEPT ![i] = x]

\* be_map: the main slot of a key is a slot.
LEMMA HomeIs ==
    ASSUME MapConstants, NEW k \in Keys, NEW n \in Nat \ {0}
    PROVE  Home(k, n) \in 1 .. n
<1> DEFINE h == HashOf[k]
<1>1. h \in Nat
  BY Zenon DEF MapConstants
<1> HIDE DEF h
<1>2. h % n \in 0 .. n - 1
  BY <1>1
<1> QED
  BY <1>2 DEF Home, h

\* A key goes to its main slot if that is empty.
LEMMA ToEmpty ==
    ASSUME MapConstants, NEW n, NEW K, NEW N, Chains(n, K, N),
           NEW k \in Keys, \A i \in 1 .. n : K[i] # k,
           NEW s, s = Home(k, n), K[s] = NoKey
    PROVE  Chains(n, With(K, s, k), With(N, s, 0))
<1> DEFINE K2 == With(K, s, k)
           N2 == With(N, s, 0)
<1>0. /\ n \in Nat \ {0} /\ K \in [1 .. n -> Keys \cup {NoKey}] /\ N \in [1 .. n -> 0 .. n]
      /\ k # NoKey /\ s \in 1 .. n
  <2>1. n \in Nat \ {0} /\ K \in [1 .. n -> Keys \cup {NoKey}] /\ N \in [1 .. n -> 0 .. n]
    BY Zenon DEF Chains
  <2>2. NoKey \notin Keys
    BY Zenon DEF MapConstants
  <2> QED
    BY <2>1, <2>2, HomeIs
<1>1. /\ K2 \in [1 .. n -> Keys \cup {NoKey}] /\ N2 \in [1 .. n -> 0 .. n]
      /\ K2[s] = k /\ N2[s] = 0
      /\ \A i \in 1 .. n : i # s => K2[i] = K[i] /\ N2[i] = N[i]
  BY <1>0 DEF With
<1> HIDE DEF K2, N2
<1>2. \A i, j \in 1 .. n : K2[i] = K2[j] /\ K2[i] # NoKey => i = j
  BY <1>0, <1>1, SMTT(30) DEF Chains
<1>3. ASSUME NEW i \in 1 .. n, K2[i] # NoKey, i # s
      PROVE  /\ K2[Home(K2[i], n)] # NoKey /\ Home(K2[Home(K2[i], n)], n) = Home(K2[i], n)
             /\ N2[i] # 0 => /\ K2[N2[i]] # NoKey /\ N2[i] # Home(K2[i], n)
                             /\ Home(K2[N2[i]], n) = Home(K2[i], n)
             /\ i = Home(K2[i], n) \/ \E p \in 1 .. n : K2[p] # NoKey /\ N2[p] = i
  <2>1. K2[i] = K[i] /\ N2[i] = N[i] /\ K[i] \in Keys
    BY <1>0, <1>1, <1>3
  <2>2. Home(K[i], n) \in 1 .. n /\ Home(K[i], n) # s
    BY <1>0, <2>1, <1>3, HomeIs DEF Chains
  <2>3. N[i] # 0 => N[i] \in 1 .. n /\ N[i] # s
    BY <1>0, <1>3, <2>1 DEF Chains
  <2>4. i = Home(K[i], n) \/ \E p \in 1 .. n : K2[p] # NoKey /\ N2[p] = i
    <3>1. CASE \E p \in 1 .. n : K[p] # NoKey /\ N[p] = i
      <4>1. PICK p \in 1 .. n : K[p] # NoKey /\ N[p] = i
        BY <3>1
      <4> QED
        BY <1>0, <1>1, <4>1
    <3> QED
      BY <1>3, <2>1, <3>1 DEF Chains
  <2> QED
    BY <1>1, <1>3, <2>1, <2>2, <2>3, <2>4 DEF Chains
<1>4. \A i, j \in 1 .. n : K2[i] # NoKey /\ K2[j] # NoKey /\ N2[i] = N2[j] /\ N2[i] # 0 => i = j
  BY <1>0, <1>1, SMTT(30) DEF Chains
<1>5. Home(K2[s], n) = s
  BY <1>1
<1> QED
  BY <1>0, <1>1, <1>2, <1>3, <1>4, <1>5 DEF Chains, K2, N2

\* What Chains says of a slot that is not empty.
OnChain(i, n, K, N) ==
    /\ K[Home(K[i], n)] # NoKey /\ Home(K[Home(K[i], n)], n) = Home(K[i], n)
    /\ N[i] # 0 => /\ K[N[i]] # NoKey /\ N[i] # Home(K[i], n)
                   /\ Home(K[N[i]], n) = Home(K[i], n)
    /\ i = Home(K[i], n) \/ \E p \in 1 .. n : K[p] # NoKey /\ N[p] = i

Homes(n, K) ==
    \A i \in 1 .. n : K[i] # NoKey =>
        /\ K[i] \in Keys /\ Home(K[i], n) \in 1 .. n /\ K[Home(K[i], n)] # NoKey
        /\ Home(K[Home(K[i], n)], n) = Home(K[i], n)
Links(n, K, N) ==
    \A i \in 1 .. n : K[i] # NoKey /\ N[i] # 0 =>
        /\ N[i] \in 1 .. n /\ K[N[i]] # NoKey /\ N[i] # Home(K[i], n)
        /\ Home(K[N[i]], n) = Home(K[i], n)
KeysOnce(n, K) == \A i, j \in 1 .. n : K[i] = K[j] /\ K[i] # NoKey => i = j
LinksOnce(n, K, N) ==
    \A i, j \in 1 .. n : K[i] # NoKey /\ K[j] # NoKey /\ N[i] = N[j] /\ N[i] # 0 => i = j
Linked(n, K, N) ==
    \A i \in 1 .. n : K[i] # NoKey /\ i # Home(K[i], n) =>
        \E p \in 1 .. n : K[p] # NoKey /\ N[p] = i

\* What Chains says, part by part.
LEMMA ChainsSay ==
    ASSUME MapConstants, NEW n, NEW K, NEW N, Chains(n, K, N)
    PROVE  /\ n \in Nat \ {0} /\ K \in [1 .. n -> Keys \cup {NoKey}] /\ N \in [1 .. n -> 0 .. n]
           /\ Homes(n, K) /\ Links(n, K, N) /\ KeysOnce(n, K) /\ LinksOnce(n, K, N)
           /\ Linked(n, K, N)
<1>1. n \in Nat \ {0} /\ K \in [1 .. n -> Keys \cup {NoKey}] /\ N \in [1 .. n -> 0 .. n]
  BY DEF Chains
<1>2. \A i \in 1 .. n : K[i] # NoKey => K[i] \in Keys /\ Home(K[i], n) \in 1 .. n
  BY <1>1, HomeIs
<1>3. Homes(n, K)
  BY <1>2 DEF Chains, Homes
<1>4. Links(n, K, N)
  BY <1>1 DEF Chains, Links
<1>5. KeysOnce(n, K) /\ LinksOnce(n, K, N)
  BY DEF Chains, KeysOnce, LinksOnce
<1>6. Linked(n, K, N)
  BY DEF Chains, Linked
<1> QED
  BY <1>1, <1>3, <1>4, <1>5, <1>6

\* And when it holds.
LEMMA ChainsHold ==
    ASSUME NEW n \in Nat \ {0}, NEW K \in [1 .. n -> Keys \cup {NoKey}],
           NEW N \in [1 .. n -> 0 .. n],
           \A i, j \in 1 .. n : K[i] = K[j] /\ K[i] # NoKey => i = j,
           \A i \in 1 .. n : K[i] # NoKey => OnChain(i, n, K, N),
           \A i, j \in 1 .. n : K[i] # NoKey /\ K[j] # NoKey /\ N[i] = N[j] /\ N[i] # 0 => i = j
    PROVE  Chains(n, K, N)
  BY DEF Chains, OnChain

\* A key whose main slot has a key at home goes to an empty slot, behind that.
LEMMA AtHome ==
    ASSUME MapConstants, NEW n, NEW K, NEW N, Chains(n, K, N),
           NEW k \in Keys, \A i \in 1 .. n : K[i] # k,
           NEW s, s = Home(k, n), K[s] # NoKey, Home(K[s], n) = s,
           NEW e \in 1 .. n, K[e] = NoKey
    PROVE  Chains(n, With(K, e, k), With(With(N, e, N[s]), s, e))
<1> DEFINE K2 == With(K, e, k)
           N2 == With(With(N, e, N[s]), s, e)
<1>0. /\ n \in Nat \ {0} /\ K \in [1 .. n -> Keys \cup {NoKey}] /\ N \in [1 .. n -> 0 .. n]
      /\ k # NoKey /\ s \in 1 .. n /\ e # s
      /\ Homes(n, K) /\ Links(n, K, N) /\ KeysOnce(n, K) /\ LinksOnce(n, K, N) /\ Linked(n, K, N)
  <2>1. /\ n \in Nat \ {0} /\ K \in [1 .. n -> Keys \cup {NoKey}] /\ N \in [1 .. n -> 0 .. n]
        /\ Homes(n, K) /\ Links(n, K, N) /\ KeysOnce(n, K) /\ LinksOnce(n, K, N) /\ Linked(n, K, N)
    BY ChainsSay
  <2>2. NoKey \notin Keys
    BY Zenon DEF MapConstants
  <2>3. k # NoKey /\ e # s
    BY <2>2
  <2>4. s \in 1 .. n
    BY <2>1, HomeIs
  <2> QED
    BY <2>1, <2>3, <2>4
<1>1. /\ K2 \in [1 .. n -> Keys \cup {NoKey}] /\ N2 \in [1 .. n -> 0 .. n]
      /\ K2[e] = k /\ N2[e] = N[s] /\ N2[s] = e
      /\ \A i \in 1 .. n : i # e => K2[i] = K[i]
      /\ \A i \in 1 .. n : i # e /\ i # s => N2[i] = N[i]
  BY <1>0 DEF With
<1> HIDE DEF K2, N2
<1>2. \A i, j \in 1 .. n : K2[i] = K2[j] /\ K2[i] # NoKey => i = j
  BY <1>0, <1>1, SMTT(30) DEF Chains
<1>a. N[s] # 0 => /\ N[s] \in 1 .. n /\ K[N[s]] # NoKey /\ N[s] # s /\ N[s] # e
                  /\ Home(K[N[s]], n) = s
  BY <1>0 DEF Links
<1>3. ASSUME NEW i \in 1 .. n, K2[i] # NoKey PROVE OnChain(i, n, K2, N2)
  <2>1. CASE i = e
    <3>1. K2[s] = K[s] /\ Home(K2[i], n) = s
      BY <1>0, <1>1, <2>1
    <3>2. N2[i] # 0 => K2[N2[i]] = K[N[s]]
      BY <1>1, <1>a, <2>1
    <3> QED
      BY <1>0, <1>1, <1>a, <2>1, <3>1, <3>2 DEF OnChain
  <2>2. CASE i = s
    <3>1. K2[s] = K[s] /\ Home(K2[i], n) = s
      BY <1>0, <1>1, <2>2
    <3> QED
      BY <1>0, <1>1, <2>2, <3>1 DEF OnChain
  <2>3. CASE i # e /\ i # s
    <3>1. K2[i] = K[i] /\ N2[i] = N[i] /\ K[i] # NoKey
      BY <1>1, <1>3, <2>3
    <3>2. /\ Home(K[i], n) \in 1 .. n /\ Home(K[i], n) # e /\ K[Home(K[i], n)] # NoKey
          /\ Home(K[Home(K[i], n)], n) = Home(K[i], n)
      BY <1>0, <3>1 DEF Homes
    <3>a. K2[Home(K[i], n)] = K[Home(K[i], n)]
      BY <1>1, <3>2
    <3>3. N[i] # 0 => /\ N[i] \in 1 .. n /\ N[i] # e /\ K[N[i]] # NoKey
                      /\ N[i] # Home(K[i], n) /\ Home(K[N[i]], n) = Home(K[i], n)
      BY <1>0, <3>1 DEF Links
    <3>b. N[i] # 0 => K2[N[i]] = K[N[i]]
      BY <1>1, <3>3
    <3>c. i = Home(K[i], n) \/ \E p \in 1 .. n : K[p] # NoKey /\ N[p] = i
      BY <1>0, <3>1 DEF Linked
    <3>4. ASSUME NEW p \in 1 .. n, K[p] # NoKey, N[p] = i
          PROVE  \E q \in 1 .. n : K2[q] # NoKey /\ N2[q] = i
      <4>1. CASE p = s
        BY <1>0, <1>1, <3>4, <4>1
      <4>2. CASE p # s
        BY <1>0, <1>1, <3>4, <4>2
      <4> QED
        BY <4>1, <4>2
    <3> QED
      BY <3>1, <3>2, <3>a, <3>3, <3>b, <3>c, <3>4 DEF OnChain
  <2> QED
    BY <2>1, <2>2, <2>3
<1>4. \A i, j \in 1 .. n : K2[i] # NoKey /\ K2[j] # NoKey /\ N2[i] = N2[j] /\ N2[i] # 0 => i = j
  <2> SUFFICES ASSUME NEW i \in 1 .. n, NEW j \in 1 .. n, K2[i] # NoKey, K2[j] # NoKey,
                      N2[i] = N2[j], N2[i] # 0
               PROVE  i = j
    OBVIOUS
  <2>1. ASSUME NEW a \in 1 .. n, a # e, a # s, K2[a] # NoKey
        PROVE  K[a] # NoKey /\ N2[a] = N[a] /\ N[a] # e
    <3>1. K[a] # NoKey /\ N2[a] = N[a]
      BY <1>1, <2>1
    <3> QED
      BY <1>0, <2>1, <3>1 DEF Links
  <2>2. \A a, b \in 1 .. n : K[a] # NoKey /\ K[b] # NoKey /\ N[a] = N[b] /\ N[a] # 0 => a = b
    BY <1>0 DEF LinksOnce
  <2>3. CASE i # e /\ i # s /\ j # e /\ j # s
    BY <2>1, <2>2, <2>3
  <2>4. CASE i = e \/ i = s \/ j = e \/ j = s
    <3>1. \A a \in 1 .. n : a # e /\ a # s /\ K2[a] # NoKey => N2[a] # e /\ (N2[a] = N[s] => N[s] = 0)
      BY <1>0, <2>1, <2>2
    <3> QED
      BY <1>0, <1>1, <1>a, <2>4, <3>1, SMTT(30)
  <2> QED
    BY <2>3, <2>4
<1>5. Chains(n, K2, N2)
  BY <1>0, <1>1, <1>2, <1>3, <1>4, ChainsHold
<1> QED
  BY <1>5 DEF K2, N2

\* A key whose main slot has a key that is not at home takes its place.
LEMMA Moves ==
    ASSUME MapConstants, NEW n, NEW K, NEW N, Chains(n, K, N),
           NEW k \in Keys, \A i \in 1 .. n : K[i] # k,
           NEW s, s = Home(k, n), K[s] # NoKey, Home(K[s], n) # s, N[s] # s,
           NEW e \in 1 .. n, K[e] = NoKey,
           NEW p \in 1 .. n, K[p] # NoKey, N[p] = s
    PROVE  Chains(n, With(With(K, e, K[s]), s, k), With(With(With(N, p, e), e, N[s]), s, 0))
<1> DEFINE K2 == With(With(K, e, K[s]), s, k)
           N2 == With(With(With(N, p, e), e, N[s]), s, 0)
           h == Home(K[s], n)
<1>0. /\ n \in Nat \ {0} /\ K \in [1 .. n -> Keys \cup {NoKey}] /\ N \in [1 .. n -> 0 .. n]
      /\ k # NoKey /\ s \in 1 .. n /\ e # s /\ p # e /\ p # s
      /\ Homes(n, K) /\ Links(n, K, N) /\ KeysOnce(n, K) /\ LinksOnce(n, K, N) /\ Linked(n, K, N)
  <2>1. /\ n \in Nat \ {0} /\ K \in [1 .. n -> Keys \cup {NoKey}] /\ N \in [1 .. n -> 0 .. n]
        /\ Homes(n, K) /\ Links(n, K, N) /\ KeysOnce(n, K) /\ LinksOnce(n, K, N) /\ Linked(n, K, N)
    BY ChainsSay
  <2>2. NoKey \notin Keys
    BY Zenon DEF MapConstants
  <2>3. k # NoKey
    BY <2>2
  <2>4. s \in 1 .. n
    BY <2>1, HomeIs
  <2>5. e # s /\ p # e /\ p # s
    OBVIOUS
  <2> QED
    BY <2>1, <2>3, <2>4, <2>5
<1>1. /\ K2 \in [1 .. n -> Keys \cup {NoKey}] /\ N2 \in [1 .. n -> 0 .. n]
      /\ K2[e] = K[s] /\ K2[s] = k /\ N2[e] = N[s] /\ N2[s] = 0 /\ N2[p] = e
      /\ \A i \in 1 .. n : i # e /\ i # s => K2[i] = K[i]
      /\ \A i \in 1 .. n : i # e /\ i # s /\ i # p => N2[i] = N[i]
  BY <1>0 DEF With
<1> HIDE DEF K2, N2
<1>2. \A i, j \in 1 .. n : K2[i] = K2[j] /\ K2[i] # NoKey => i = j
  <2> SUFFICES ASSUME NEW i \in 1 .. n, NEW j \in 1 .. n, K2[i] = K2[j], K2[i] # NoKey
               PROVE  i = j
    OBVIOUS
  <2>1. K2[i] = k <=> i = s
    BY <1>0, <1>1
  <2>2. K2[j] = k <=> j = s
    BY <1>0, <1>1, SMTT(30)
  <2>3. CASE i # s /\ j # s
    <3>1. PICK a \in 1 .. n : a = (IF i = e THEN s ELSE i) /\ K[a] = K2[i]
      BY <1>0, <1>1, <2>3
    <3>2. PICK b \in 1 .. n : b = (IF j = e THEN s ELSE j) /\ K[b] = K2[j]
      BY <1>0, <1>1, <2>3
    <3>3. a = b
      BY <1>0, <3>1, <3>2 DEF KeysOnce
    <3> QED
      BY <2>3, <3>1, <3>2, <3>3
  <2> QED
    BY <2>1, <2>2, <2>3
<1>a. N[s] # 0 => /\ N[s] \in 1 .. n /\ K[N[s]] # NoKey /\ N[s] # h /\ N[s] # e
                  /\ Home(K[N[s]], n) = h
  BY <1>0 DEF Links
<1>b. /\ h \in 1 .. n /\ K[h] # NoKey /\ Home(K[h], n) = h /\ h # e /\ h # s
      /\ Home(K[p], n) = h
  <2>1. h \in 1 .. n /\ K[h] # NoKey /\ Home(K[h], n) = h
    BY <1>0 DEF Homes
  <2>2. Home(K[p], n) = h
    BY <1>0 DEF Links
  <2> QED
    BY <2>1, <2>2
<1> HIDE DEF h
<1>c. Home(K[s], n) = h
  BY DEF h
<1>d. \A a, b \in 1 .. n : K[a] # NoKey /\ K[b] # NoKey /\ N[a] = N[b] /\ N[a] # 0 => a = b
  BY <1>0 DEF LinksOnce
<1>3. ASSUME NEW i \in 1 .. n, K2[i] # NoKey PROVE OnChain(i, n, K2, N2)
  <2>1. CASE i = e
    <3>1. K2[h] = K[h] /\ Home(K2[i], n) = h
      BY <1>1, <1>b, <1>c, <2>1
    <3>2. N2[i] # 0 => K2[N2[i]] = K[N[s]] /\ N2[i] = N[s]
      BY <1>1, <1>a, <2>1
    <3>3. K2[p] # NoKey /\ N2[p] = i
      BY <1>0, <1>1, <2>1
    <3> QED
      BY <1>a, <1>b, <3>1, <3>2, <3>3 DEF OnChain
  <2>2. CASE i = s
    <3>1. K2[i] = k /\ Home(K2[i], n) = s /\ N2[i] = 0
      BY <1>0, <1>1, <2>2
    <3> QED
      BY <1>0, <2>2, <3>1 DEF OnChain
  <2>3. CASE i # e /\ i # s
    <3>1. K2[i] = K[i] /\ K[i] # NoKey
      BY <1>1, <1>3, <2>3
    <3>2. /\ Home(K[i], n) \in 1 .. n /\ K[Home(K[i], n)] # NoKey
          /\ Home(K[Home(K[i], n)], n) = Home(K[i], n)
          /\ Home(K[i], n) # e /\ Home(K[i], n) # s
      BY <1>0, <1>b, <1>c, <3>1 DEF Homes
    <3>a. K2[Home(K[i], n)] = K[Home(K[i], n)]
      BY <1>1, <3>2
    <3>c. i = Home(K[i], n) \/ \E q \in 1 .. n : K[q] # NoKey /\ N[q] = i
      BY <1>0, <3>1 DEF Linked
    <3>3. N2[i] # 0 => /\ K2[N2[i]] # NoKey /\ N2[i] # Home(K[i], n)
                       /\ Home(K2[N2[i]], n) = Home(K[i], n)
      <4>1. CASE i = p
        BY <1>0, <1>1, <1>b, <1>c, <3>2, <4>1
      <4>2. CASE i # p
        <5>1. N2[i] = N[i]
          BY <1>1, <2>3, <4>2
        <5>2. N[i] # 0 => N[i] \in 1 .. n /\ N[i] # e /\ N[i] # s
          BY <1>0, <1>d, <3>1, <4>2 DEF Links
        <5>3. N[i] # 0 => /\ K[N[i]] # NoKey /\ N[i] # Home(K[i], n)
                          /\ Home(K[N[i]], n) = Home(K[i], n)
          BY <1>0, <3>1 DEF Links
        <5> QED
          BY <1>1, <3>1, <5>1, <5>2, <5>3
      <4> QED
        BY <4>1, <4>2
    <3>4. ASSUME NEW q \in 1 .. n, K[q] # NoKey, N[q] = i
          PROVE  \E r \in 1 .. n : K2[r] # NoKey /\ N2[r] = i
      <4>1. CASE q = s
        BY <1>0, <1>1, <3>4, <4>1
      <4>2. CASE q # s
        <5>1. q # p /\ q # e
          BY <2>3, <3>4
        <5> QED
          BY <1>0, <1>1, <3>4, <4>2, <5>1
      <4> QED
        BY <4>1, <4>2
    <3> QED
      BY <3>1, <3>2, <3>a, <3>3, <3>c, <3>4 DEF OnChain
  <2> QED
    BY <2>1, <2>2, <2>3
<1>4. \A i, j \in 1 .. n : K2[i] # NoKey /\ K2[j] # NoKey /\ N2[i] = N2[j] /\ N2[i] # 0 => i = j
  <2> SUFFICES ASSUME NEW i \in 1 .. n, NEW j \in 1 .. n, K2[i] # NoKey, K2[j] # NoKey,
                      N2[i] = N2[j], N2[i] # 0
               PROVE  i = j
    OBVIOUS
  <2>1. ASSUME NEW a \in 1 .. n, a # e, a # s, a # p, K2[a] # NoKey
        PROVE  K[a] # NoKey /\ N2[a] = N[a] /\ N[a] # e
    <3>1. K[a] # NoKey /\ N2[a] = N[a]
      BY <1>1, <2>1
    <3> QED
      BY <1>0, <2>1, <3>1, SMTT(30) DEF Links
  <2>2. CASE i \notin {e, s, p} /\ j \notin {e, s, p}
    BY <1>d, <2>1, <2>2
  <2>3. CASE i \in {e, s, p} \/ j \in {e, s, p}
    <3>1. \A a \in 1 .. n : a \notin {e, s, p} /\ K2[a] # NoKey => N2[a] # e /\ (N2[a] = N[s] => N[s] = 0)
      BY <1>0, <1>d, <2>1
    <3> QED
      BY <1>0, <1>1, <1>a, <2>3, <3>1, SMTT(30)
  <2> QED
    BY <2>2, <2>3
<1>5. Chains(n, K2, N2)
  BY <1>0, <1>1, <1>2, <1>3, <1>4, ChainsHold
<1> QED
  BY <1>5 DEF K2, N2

\* A key that is alone on its chain goes.
LEMMA AloneGoes ==
    ASSUME MapConstants, NEW n, NEW K, NEW N, Chains(n, K, N),
           NEW s \in 1 .. n, K[s] # NoKey, Home(K[s], n) = s, N[s] = 0,
           \A i \in 1 .. n : K[i] # NoKey /\ i # s => Home(K[i], n) # s
    PROVE  Chains(n, With(K, s, NoKey), N)
<1> DEFINE K2 == With(K, s, NoKey)
<1>0. /\ n \in Nat \ {0} /\ K \in [1 .. n -> Keys \cup {NoKey}] /\ N \in [1 .. n -> 0 .. n]
      /\ Homes(n, K) /\ Links(n, K, N) /\ KeysOnce(n, K) /\ LinksOnce(n, K, N) /\ Linked(n, K, N)
  BY ChainsSay
<1>1. /\ K2 \in [1 .. n -> Keys \cup {NoKey}] /\ K2[s] = NoKey
      /\ \A i \in 1 .. n : i # s => K2[i] = K[i]
  BY <1>0 DEF With
<1> HIDE DEF K2
<1>2. \A i, j \in 1 .. n : K2[i] = K2[j] /\ K2[i] # NoKey => i = j
  BY <1>0, <1>1 DEF KeysOnce
<1>3. ASSUME NEW i \in 1 .. n, K2[i] # NoKey PROVE OnChain(i, n, K2, N)
  <2>1. i # s /\ K2[i] = K[i] /\ K[i] # NoKey
    BY <1>1, <1>3
  <2>2. /\ Home(K[i], n) \in 1 .. n /\ K[Home(K[i], n)] # NoKey
        /\ Home(K[Home(K[i], n)], n) = Home(K[i], n)
    BY <1>0, <2>1 DEF Homes
  <2>3. Home(K[i], n) # s /\ K2[Home(K[i], n)] = K[Home(K[i], n)]
    BY <1>1, <2>1, <2>2
  <2>4. N[i] # 0 => /\ N[i] \in 1 .. n /\ K[N[i]] # NoKey
                    /\ N[i] # Home(K[i], n) /\ Home(K[N[i]], n) = Home(K[i], n)
    BY <1>0, <2>1 DEF Links
  <2>5. N[i] # 0 => N[i] # s
    <3> SUFFICES ASSUME N[i] # 0, N[i] = s PROVE FALSE
      OBVIOUS
    <3> QED
      BY <2>3, <2>4
  <2>6. i = Home(K[i], n) \/ \E p \in 1 .. n : K[p] # NoKey /\ N[p] = i /\ p # s
    BY <1>0, <2>1 DEF Linked
  <2> QED
    BY <1>1, <2>1, <2>2, <2>3, <2>4, <2>5, <2>6 DEF OnChain
<1>4. \A i, j \in 1 .. n : K2[i] # NoKey /\ K2[j] # NoKey /\ N[i] = N[j] /\ N[i] # 0 => i = j
  BY <1>0, <1>1 DEF LinksOnce
<1>5. Chains(n, K2, N)
  BY <1>0, <1>1, <1>2, <1>3, <1>4, ChainsHold
<1> QED
  BY <1>5 DEF K2

\* The first key of a chain goes: the second takes its slot.
LEMMA FirstGoes ==
    ASSUME MapConstants, NEW n, NEW K, NEW N, Chains(n, K, N),
           NEW s \in 1 .. n, K[s] # NoKey, Home(K[s], n) = s,
           NEW t \in 1 .. n, N[s] = t, N[t] # t
    PROVE  Chains(n, With(With(K, s, K[t]), t, NoKey), With(N, s, N[t]))
<1> DEFINE K2 == With(With(K, s, K[t]), t, NoKey)
           N2 == With(N, s, N[t])
<1>0. /\ n \in Nat \ {0} /\ K \in [1 .. n -> Keys \cup {NoKey}] /\ N \in [1 .. n -> 0 .. n]
      /\ Homes(n, K) /\ Links(n, K, N) /\ KeysOnce(n, K) /\ LinksOnce(n, K, N) /\ Linked(n, K, N)
  BY ChainsSay
<1>a. K[t] # NoKey /\ t # s /\ Home(K[t], n) = s
  <2>1. N[s] # 0
    BY <1>0
  <2> QED
    BY <1>0, <2>1 DEF Links
<1>b. N[t] # 0 => N[t] \in 1 .. n /\ K[N[t]] # NoKey /\ N[t] # s /\ Home(K[N[t]], n) = s
  BY <1>0, <1>a DEF Links
<1>1. /\ K2 \in [1 .. n -> Keys \cup {NoKey}] /\ N2 \in [1 .. n -> 0 .. n]
      /\ K2[s] = K[t] /\ K2[t] = NoKey /\ N2[s] = N[t]
      /\ \A i \in 1 .. n : i # s /\ i # t => K2[i] = K[i]
      /\ \A i \in 1 .. n : i # s => N2[i] = N[i]
  BY <1>0, <1>a DEF With
<1> HIDE DEF K2, N2
<1>2. \A i, j \in 1 .. n : K2[i] = K2[j] /\ K2[i] # NoKey => i = j
  <2> SUFFICES ASSUME NEW i \in 1 .. n, NEW j \in 1 .. n, K2[i] = K2[j], K2[i] # NoKey
               PROVE  i = j
    OBVIOUS
  <2>1. PICK a \in 1 .. n : a = (IF i = s THEN t ELSE i) /\ K[a] = K2[i]
    BY <1>0, <1>1
  <2>2. PICK b \in 1 .. n : b = (IF j = s THEN t ELSE j) /\ K[b] = K2[j]
    BY <1>0, <1>1
  <2>3. a = b
    BY <1>0, <2>1, <2>2 DEF KeysOnce
  <2> QED
    BY <1>1, <2>1, <2>2, <2>3
<1>3. ASSUME NEW i \in 1 .. n, K2[i] # NoKey PROVE OnChain(i, n, K2, N2)
  <2>1. CASE i = s
    <3>1. K2[i] = K[t] /\ Home(K2[i], n) = s /\ N2[i] = N[t]
      BY <1>1, <1>a, <2>1
    <3>2. N[t] # 0 => K2[N[t]] = K[N[t]]
      BY <1>1, <1>b
    <3> QED
      BY <1>a, <1>b, <2>1, <3>1, <3>2 DEF OnChain
  <2>2. CASE i # s
    <3>1. i # t /\ K2[i] = K[i] /\ N2[i] = N[i] /\ K[i] # NoKey
      BY <1>1, <1>3, <2>2
    <3>2. /\ Home(K[i], n) \in 1 .. n /\ K[Home(K[i], n)] # NoKey
          /\ Home(K[Home(K[i], n)], n) = Home(K[i], n)
          /\ Home(K[i], n) # t
      BY <1>0, <1>a, <3>1 DEF Homes
    <3>3. /\ K2[Home(K[i], n)] # NoKey
          /\ Home(K2[Home(K[i], n)], n) = Home(K[i], n)
      BY <1>1, <1>a, <3>2
    <3>4. N[i] # 0 => /\ N[i] \in 1 .. n /\ K[N[i]] # NoKey
                      /\ N[i] # Home(K[i], n) /\ Home(K[N[i]], n) = Home(K[i], n)
      BY <1>0, <3>1 DEF Links
    <3>5. N[i] # t
      BY <1>0, <3>1, <2>2 DEF LinksOnce
    <3>6. N[i] # 0 => N[i] # s /\ K2[N[i]] = K[N[i]]
      BY <1>1, <3>4, <3>5
    <3>7. i = Home(K[i], n) \/ \E p \in 1 .. n : K[p] # NoKey /\ N[p] = i
      BY <1>0, <3>1 DEF Linked
    <3>8. ASSUME NEW p \in 1 .. n, K[p] # NoKey, N[p] = i
          PROVE  \E q \in 1 .. n : K2[q] # NoKey /\ N2[q] = i
      <4>1. CASE p = t
        BY <1>1, <1>a, <3>8, <4>1
      <4>2. CASE p # t
        <5>1. p # s
          BY <3>1, <3>8
        <5> QED
          BY <1>1, <3>8, <4>2, <5>1
      <4> QED
        BY <4>1, <4>2
    <3> QED
      BY <3>1, <3>2, <3>3, <3>4, <3>6, <3>7, <3>8 DEF OnChain
  <2> QED
    BY <2>1, <2>2
<1>4. \A i, j \in 1 .. n : K2[i] # NoKey /\ K2[j] # NoKey /\ N2[i] = N2[j] /\ N2[i] # 0 => i = j
  <2> SUFFICES ASSUME NEW i \in 1 .. n, NEW j \in 1 .. n, K2[i] # NoKey, K2[j] # NoKey,
                      N2[i] = N2[j], N2[i] # 0
               PROVE  i = j
    OBVIOUS
  <2>1. PICK a \in 1 .. n : a = (IF i = s THEN t ELSE i) /\ N[a] = N2[i] /\ K[a] # NoKey
    BY <1>0, <1>1, <1>a
  <2>2. PICK b \in 1 .. n : b = (IF j = s THEN t ELSE j) /\ N[b] = N2[j] /\ K[b] # NoKey
    BY <1>0, <1>1, <1>a
  <2>3. a = b
    BY <1>0, <2>1, <2>2 DEF LinksOnce
  <2> QED
    BY <1>1, <2>1, <2>2, <2>3
<1>5. Chains(n, K2, N2)
  BY <1>0, <1>1, <1>2, <1>3, <1>4, ChainsHold
<1> QED
  BY <1>5 DEF K2, N2

\* Another key of a chain goes: the link to it goes past it.
LEMMA LaterGoes ==
    ASSUME MapConstants, NEW n, NEW K, NEW N, Chains(n, K, N),
           NEW t \in 1 .. n, K[t] # NoKey, Home(K[t], n) # t, N[t] # t,
           NEW p \in 1 .. n, K[p] # NoKey, N[p] = t
    PROVE  Chains(n, With(K, t, NoKey), With(N, p, N[t]))
<1> DEFINE K2 == With(K, t, NoKey)
           N2 == With(N, p, N[t])
<1>0. /\ n \in Nat \ {0} /\ K \in [1 .. n -> Keys \cup {NoKey}] /\ N \in [1 .. n -> 0 .. n]
      /\ Homes(n, K) /\ Links(n, K, N) /\ KeysOnce(n, K) /\ LinksOnce(n, K, N) /\ Linked(n, K, N)
  BY ChainsSay
<1>a. p # t /\ Home(K[t], n) = Home(K[p], n)
  <2>1. N[p] # 0
    BY <1>0
  <2> QED
    BY <1>0, <2>1 DEF Links
<1>b. N[t] # 0 => /\ N[t] \in 1 .. n /\ K[N[t]] # NoKey /\ N[t] # Home(K[p], n)
                  /\ Home(K[N[t]], n) = Home(K[p], n)
  BY <1>0, <1>a DEF Links
<1>1. /\ K2 \in [1 .. n -> Keys \cup {NoKey}] /\ N2 \in [1 .. n -> 0 .. n]
      /\ K2[t] = NoKey /\ N2[p] = N[t]
      /\ \A i \in 1 .. n : i # t => K2[i] = K[i]
      /\ \A i \in 1 .. n : i # p => N2[i] = N[i]
  BY <1>0, <1>a DEF With
<1> HIDE DEF K2, N2
<1>2. \A i, j \in 1 .. n : K2[i] = K2[j] /\ K2[i] # NoKey => i = j
  <2>1. \A i \in 1 .. n : K2[i] # NoKey => i # t /\ K2[i] = K[i]
    BY <1>1, Zenon
  <2> QED
    BY <1>0, <2>1 DEF KeysOnce
<1>3. ASSUME NEW i \in 1 .. n, K2[i] # NoKey PROVE OnChain(i, n, K2, N2)
  <2>1. i # t /\ K2[i] = K[i] /\ K[i] # NoKey
    BY <1>1, <1>3
  <2>2. /\ Home(K[i], n) \in 1 .. n /\ K[Home(K[i], n)] # NoKey
        /\ Home(K[Home(K[i], n)], n) = Home(K[i], n)
    BY <1>0, <2>1 DEF Homes
  <2>3. Home(K[i], n) # t
    BY <2>2
  <2>4. K2[Home(K[i], n)] = K[Home(K[i], n)]
    BY <1>1, <2>2, <2>3
  <2>5. N2[i] # 0 => /\ K2[N2[i]] # NoKey /\ N2[i] # Home(K[i], n)
                     /\ Home(K2[N2[i]], n) = Home(K[i], n)
    <3>1. CASE i = p
      BY <1>1, <1>b, <3>1
    <3>2. CASE i # p
      <4>1. N2[i] = N[i]
        BY <1>1, <3>2
      <4>2. N[i] # 0 => /\ N[i] \in 1 .. n /\ K[N[i]] # NoKey
                        /\ N[i] # Home(K[i], n) /\ Home(K[N[i]], n) = Home(K[i], n)
        BY <1>0, <2>1 DEF Links
      <4>3. N[i] # t
        BY <1>0, <2>1, <3>2 DEF LinksOnce
      <4> QED
        BY <1>1, <4>1, <4>2, <4>3
    <3> QED
      BY <3>1, <3>2
  <2>6. i = Home(K[i], n) \/ \E q \in 1 .. n : K[q] # NoKey /\ N[q] = i
    BY <1>0, <2>1 DEF Linked
  <2>7. ASSUME NEW q \in 1 .. n, K[q] # NoKey, N[q] = i
        PROVE  \E r \in 1 .. n : K2[r] # NoKey /\ N2[r] = i
    <3>1. CASE q = t
      BY <1>1, <1>a, <2>7, <3>1
    <3>2. CASE q # t
      <4>1. q # p
        BY <2>1, <2>7
      <4> QED
        BY <1>1, <2>7, <3>2, <4>1
    <3> QED
      BY <3>1, <3>2
  <2> QED
    BY <2>1, <2>2, <2>4, <2>5, <2>6, <2>7 DEF OnChain
<1>4. \A i, j \in 1 .. n : K2[i] # NoKey /\ K2[j] # NoKey /\ N2[i] = N2[j] /\ N2[i] # 0 => i = j
  <2> SUFFICES ASSUME NEW i \in 1 .. n, NEW j \in 1 .. n, K2[i] # NoKey, K2[j] # NoKey,
                      N2[i] = N2[j], N2[i] # 0
               PROVE  i = j
    OBVIOUS
  <2>1. PICK a \in 1 .. n : a = (IF i = p THEN t ELSE i) /\ N[a] = N2[i] /\ K[a] # NoKey
    BY <1>0, <1>1, <1>a
  <2>2. PICK b \in 1 .. n : b = (IF j = p THEN t ELSE j) /\ N[b] = N2[j] /\ K[b] # NoKey
    BY <1>0, <1>1, <1>a
  <2>3. a = b
    BY <1>0, <2>1, <2>2 DEF LinksOnce
  <2> QED
    BY <1>1, <2>1, <2>2, <2>3
<1>5. Chains(n, K2, N2)
  BY <1>0, <1>1, <1>2, <1>3, <1>4, ChainsHold
<1> QED
  BY <1>5 DEF K2, N2

-----------------------------------------------------------------------------
(* No circles.                                                             *)

\* Ranks, doubled.
LEMMA Doubled ==
    ASSUME NEW b \in Nat, NEW x \in Int, NEW y \in Int, 0 <= x, x <= b, 0 <= y, y <= b
    PROVE  /\ 2 * x \in 0 .. 4 * b + 3 /\ 2 * x + 1 \in 0 .. 4 * b + 3
           /\ 2 * x + 2 * b + 3 \in 0 .. 4 * b + 3
           /\ y < x => /\ 2 * y + 1 < 2 * x /\ 2 * y + 1 < 2 * x + 1
                       /\ 2 * y + 2 * b + 3 < 2 * x + 2 * b + 3
           /\ 2 * y < 2 * x + 2 * b + 3 /\ 2 * y + 1 < 2 * x + 2 * b + 3
           /\ y <= x => 2 * y < 2 * x + 1
OBVIOUS

\* A key that goes to an empty slot e is linked in before what s links to.
LinkedIn(n, K, N, M, R, e, s) ==
    /\ n \in Nat /\ N \in [1 .. n -> 0 .. n] /\ M \in [1 .. n -> 0 .. n]
    /\ \A i \in 1 .. n : K[i] # NoKey /\ N[i] # 0 => K[N[i]] # NoKey
    /\ e \in 1 .. n /\ K[e] = NoKey /\ s \in 1 .. n /\ K[s] # NoKey
    /\ M[e] = N[s]
    /\ \A i \in 1 .. n : i # e =>
         M[i] \in {0, N[i]} \/ (K[i] # NoKey /\ M[i] = e /\ R[s] <= R[i])

\* A link put into a chain makes no circle.
LEMMA FallsIn ==
    ASSUME NEW n, NEW K, NEW N, NEW M, NEW B, NEW R, NEW e, NEW s,
           Falls(n, N, B, R), LinkedIn(n, K, N, M, R, e, s)
    PROVE  \E C, S : Falls(n, M, C, S)
<1> DEFINE S == [i \in 1 .. n |-> IF i = e THEN 2 * R[s]
                                 ELSE IF K[i] # NoKey THEN 2 * R[i] + 1
                                 ELSE 2 * R[i] + 2 * B + 3]
           C == 4 * B + 3
<1>1. B \in Nat /\ R \in [1 .. n -> 0 .. B] /\ \A i \in 1 .. n : N[i] # 0 => R[N[i]] < R[i]
  BY DEF Falls
<1>2. \A i \in 1 .. n : R[i] \in Int /\ 0 <= R[i] /\ R[i] <= B
  BY <1>1
<1>c. /\ n \in Nat /\ N \in [1 .. n -> 0 .. n] /\ M \in [1 .. n -> 0 .. n]
      /\ (\A i \in 1 .. n : K[i] # NoKey /\ N[i] # 0 => K[N[i]] # NoKey)
      /\ e \in 1 .. n /\ K[e] = NoKey /\ s \in 1 .. n /\ K[s] # NoKey
      /\ M[e] = N[s]
      /\ \A i \in 1 .. n : i # e =>
            M[i] \in {0, N[i]} \/ (K[i] # NoKey /\ M[i] = e /\ R[s] <= R[i])
  BY DEF LinkedIn
<1>a. \A i \in 1 .. n : N[i] # 0 => N[i] \in 1 .. n
  BY <1>c
<1>b. B \in Nat
  BY <1>1
<1>3. S \in [1 .. n -> 0 .. C]
  <2>1. ASSUME NEW i \in 1 .. n PROVE S[i] \in 0 .. C
    <3>1. PICK x \in Int : x = R[i] /\ 0 <= x /\ x <= B
      BY <1>2
    <3>2. PICK y \in Int : y = R[s] /\ 0 <= y /\ y <= B
      BY <1>2, <1>c
    <3>3. S[i] = IF i = e THEN 2 * y ELSE IF K[i] # NoKey THEN 2 * x + 1 ELSE 2 * x + 2 * B + 3
      BY <3>1, <3>2
    <3> HIDE DEF S
    <3>4. S[i] = 2 * y \/ S[i] = 2 * x + 1 \/ S[i] = 2 * x + 2 * B + 3
      BY <3>3
    <3>5. 2 * y \in 0 .. C /\ 2 * x + 1 \in 0 .. C /\ 2 * x + 2 * B + 3 \in 0 .. C
      BY <1>b, <3>1, <3>2, Doubled
    <3> HIDE DEF C
    <3> QED
      BY <3>4, <3>5
  <2> QED
    BY <2>1
<1>4. /\ S[e] = 2 * R[s]
      /\ \A i \in 1 .. n : i # e => S[i] = IF K[i] # NoKey THEN 2 * R[i] + 1 ELSE 2 * R[i] + 2 * B + 3
  BY <1>c
<1> HIDE DEF S, C
<1>5. ASSUME NEW i \in 1 .. n, M[i] # 0 PROVE S[M[i]] < S[i]
  <2>0. PICK x \in Int : x = R[i] /\ 0 <= x /\ x <= B
    BY <1>2
  <2>a. PICK y \in Int : y = R[s] /\ 0 <= y /\ y <= B
    BY <1>2, <1>c
  <2>1. CASE i = e
    <3>1. M[i] = N[s] /\ N[s] \in 1 .. n /\ N[s] # 0
      BY <1>5, <1>a, <1>c, <2>1
    <3>2. K[N[s]] # NoKey /\ R[N[s]] < R[s]
      BY <1>1, <1>c, <3>1
    <3>3. PICK z \in Int : z = R[N[s]]
      BY <1>2, <3>1
    <3>4. S[N[s]] = 2 * z + 1 /\ S[i] = 2 * y /\ z < y
      <4>1. N[s] # e
        BY <1>c, <3>2
      <4> QED
        BY <1>4, <2>1, <2>a, <3>1, <3>2, <3>3, <4>1
    <3> QED
      BY <3>1, <3>4
  <2>2. CASE i # e /\ M[i] = N[i]
    <3>1. N[i] \in 1 .. n /\ N[i] # 0 /\ R[N[i]] < R[i]
      BY <1>1, <1>5, <1>a, <2>2
    <3>2. PICK z \in Int : z = R[N[i]] /\ 0 <= z /\ z <= B /\ z < x
      BY <1>2, <2>0, <3>1
    <3>3. CASE K[i] # NoKey
      <4>1. K[N[i]] # NoKey /\ N[i] # e
        BY <1>c, <3>1, <3>3
      <4>2. S[N[i]] = 2 * z + 1 /\ S[i] = 2 * x + 1
        BY <1>4, <2>0, <2>2, <3>1, <3>2, <3>3, <4>1
      <4>3. 2 * z + 1 < 2 * x + 1
        BY <1>b, <2>0, <3>2, Doubled
      <4>4. S[M[i]] = 2 * z + 1
        BY <2>2, <4>2
      <4> QED
        BY <4>2, <4>3, <4>4
    <3>4. CASE K[i] = NoKey
      <4>1. S[i] = 2 * x + 2 * B + 3
        BY <1>4, <2>0, <2>2, <3>4
      <4>2. S[N[i]] = 2 * y \/ S[N[i]] = 2 * z + 1 \/ S[N[i]] = 2 * z + 2 * B + 3
        BY <1>4, <2>a, <3>1, <3>2
      <4>3. /\ 2 * y < 2 * x + 2 * B + 3 /\ 2 * z + 1 < 2 * x + 2 * B + 3
            /\ 2 * z + 2 * B + 3 < 2 * x + 2 * B + 3
        BY <1>b, <2>0, <2>a, <3>2, Doubled
      <4>4. S[M[i]] = 2 * y \/ S[M[i]] = 2 * z + 1 \/ S[M[i]] = 2 * z + 2 * B + 3
        BY <2>2, <4>2
      <4> QED
        BY <4>1, <4>3, <4>4
    <3> QED
      BY <3>3, <3>4
  <2>3. CASE i # e /\ M[i] # N[i]
    <3>1. K[i] # NoKey /\ M[i] = e /\ R[s] <= R[i]
      BY <1>5, <1>c, <2>3
    <3>2. S[M[i]] = 2 * y /\ S[i] = 2 * x + 1 /\ y <= x
      BY <1>4, <2>0, <2>a, <2>3, <3>1
    <3> QED
      BY <3>2
  <2> QED
    BY <2>1, <2>2, <2>3
<1>6. C \in Nat
  BY <1>1 DEF C
<1>7. Falls(n, M, C, S)
  BY <1>3, <1>5, <1>6 DEF Falls
<1> QED
  BY <1>7

\* Links that go past a slot.
LEMMA FallsOut ==
    ASSUME NEW n \in Nat, NEW N \in [1 .. n -> 0 .. n], NEW B, NEW R, Falls(n, N, B, R),
           NEW M \in [1 .. n -> 0 .. n],
           \A i \in 1 .. n : M[i] \in {0, N[i]} \/ (N[i] # 0 /\ M[i] = N[N[i]])
    PROVE  Falls(n, M, B, R)
<1>1. B \in Nat /\ R \in [1 .. n -> 0 .. B] /\ \A i \in 1 .. n : N[i] # 0 => R[N[i]] < R[i]
  BY DEF Falls
<1>2. ASSUME NEW i \in 1 .. n, M[i] # 0 PROVE R[M[i]] < R[i]
  <2>1. CASE M[i] = N[i]
    BY <1>1, <1>2, <2>1
  <2>2. CASE M[i] # N[i]
    <3>1. N[i] \in 1 .. n /\ N[N[i]] \in 1 .. n /\ M[i] = N[N[i]]
      BY <1>2, <2>2
    <3>2. R[N[i]] < R[i] /\ R[N[N[i]]] < R[N[i]]
      BY <1>1, <3>1, SMTT(30)
    <3>3. R[N[N[i]]] \in Int /\ R[N[i]] \in Int /\ R[i] \in Int
      BY <1>1, <3>1
    <3> QED
      BY <3>1, <3>2, <3>3
  <2> QED
    BY <2>1, <2>2
<1> QED
  BY <1>1, <1>2 DEF Falls

-----------------------------------------------------------------------------
(* Walks along the links.                                                  *)

\* From a slot along the links to the last.
IsPath(P, i, n, N) ==
    /\ P \in Seq(1 .. n) /\ Len(P) \in 1 .. n /\ P[1] = i
    /\ \A a \in 1 .. Len(P) - 1 : N[P[a]] = P[a + 1]
    /\ N[P[Len(P)]] = 0

Onward(m, p) ==
    LET next == m.slots[Last(p)].next IN IF next = 0 THEN p ELSE Append(p, next)
Walks(f, m, i) ==
    f = [k \in 0 .. SizeOf(m) |-> IF k = 0 THEN <<i>> ELSE Onward(m, f[k - 1])]

\* What a walk has passed after k links, if it has not ended.
Passed(p, i, k, n, N, R) ==
    /\ p \in Seq(1 .. n) /\ Len(p) \in Nat \ {0} /\ p[1] = i
    /\ \A a \in 1 .. Len(p) - 1 : N[p[a]] = p[a + 1]
    /\ \A a, b \in 1 .. Len(p) : a < b => R[p[b]] < R[p[a]]
    /\ Len(p) = k + 1 \/ N[p[Len(p)]] = 0

\* One more step along the links.
LEMMA OnwardIs ==
    ASSUME NEW n \in Nat, NEW N \in [1 .. n -> 0 .. n], NEW B, NEW R, Falls(n, N, B, R),
           NEW m, \A j \in 1 .. n : m.slots[j].next = N[j],
           NEW i, NEW k \in Nat, NEW p, Passed(p, i, k, n, N, R)
    PROVE  Passed(Onward(m, p), i, k + 1, n, N, R)
<1> DEFINE l == Len(p)
           x == N[p[l]]
<1>1. /\ p \in Seq(1 .. n) /\ l \in Nat \ {0} /\ p[1] = i
      /\ \A a \in 1 .. l - 1 : N[p[a]] = p[a + 1]
      /\ \A a, b \in 1 .. l : a < b => R[p[b]] < R[p[a]]
      /\ l = k + 1 \/ x = 0
  BY DEF Passed
<1>2. p[l] \in 1 .. n /\ x \in 0 .. n /\ \A a \in 1 .. l : p[a] \in 1 .. n
  BY <1>1, ElementOfSeq
<1>3. Onward(m, p) = IF x = 0 THEN p ELSE Append(p, x)
  BY <1>2 DEF Onward, Last
<1>4. CASE x = 0
  BY <1>1, <1>3, <1>4 DEF Passed
<1>5. CASE x # 0
  <2> DEFINE q == Append(p, x)
  <2>1. /\ q \in Seq(1 .. n) /\ Len(q) = l + 1 /\ q[l + 1] = x
        /\ \A a \in 1 .. l : q[a] = p[a]
    <3>1. x \in 1 .. n
      BY <1>2, <1>5
    <3> HIDE DEF x
    <3> QED
      BY <1>1, <3>1, AppendProperties
  <2>2. R[x] < R[p[l]] /\ R[x] \in Int /\ \A a \in 1 .. l : R[p[a]] \in Int
    BY <1>2, <1>5, SMTT(30) DEF Falls
  <2> HIDE DEF q, l
  <2>3. ASSUME NEW a \in 1 .. Len(q) - 1 PROVE N[q[a]] = q[a + 1]
    <3>1. CASE a = l
      BY <1>1, <2>1, <3>1, SMTT(30)
    <3>2. CASE a # l
      <4>1. a \in 1 .. l - 1 /\ a \in 1 .. l /\ a + 1 \in 1 .. l
        BY <1>1, <2>1, <3>2
      <4> QED
        BY <1>1, <2>1, <4>1
    <3> QED
      BY <3>1, <3>2
  <2>0. l \in Nat /\ Len(q) = l + 1 /\ k + 1 \in Nat
    BY <1>1, <2>1
  <2>4. ASSUME NEW a \in 1 .. l + 1, NEW b \in 1 .. l + 1, a < b
        PROVE  R[q[b]] < R[q[a]]
    <3>0. a \in 1 .. l
      BY <2>0, <2>4
    <3>1. a \in 1 .. l /\ q[a] = p[a]
      BY <2>1, <3>0
    <3>2. CASE b = l + 1
      <4>1. q[b] = x
        BY <2>1, <3>2
      <4>2. a = l \/ R[p[l]] < R[p[a]]
        BY <1>1, <3>1
      <4>3. R[p[l]] \in Int /\ R[p[a]] \in Int
        BY <1>1, <2>2, <3>1
      <4> QED
        BY <2>2, <3>1, <4>1, <4>2, <4>3
    <3>3. CASE b # l + 1
      <4>0. b \in 1 .. l
        BY <2>0, <3>3
      <4>1. b \in 1 .. l /\ q[b] = p[b]
        BY <2>1, <4>0
      <4>2. R[p[b]] < R[p[a]]
        BY <1>1, <2>4, <3>1, <4>1
      <4> QED
        BY <3>1, <4>1, <4>2
    <3> QED
      BY <3>2, <3>3
  <2>5. Len(q) \in Nat \ {0} /\ q[1] = i /\ Len(q) = (k + 1) + 1
    <3>1. l = k + 1 /\ 1 \in 1 .. l
      BY <1>1, <1>5, <2>0
    <3>2. q[1] = p[1]
      BY <2>1, <3>1
    <3>3. Len(q) \in Nat \ {0} /\ Len(q) = (k + 1) + 1
      BY <2>0, <3>1
    <3> QED
      BY <1>1, <3>2, <3>3
  <2>6. Passed(q, i, k + 1, n, N, R)
    BY <2>1, <2>0, <2>3, <2>4, <2>5 DEF Passed
  <2> QED
    BY <1>3, <1>5, <2>6 DEF q
<1> QED
  BY <1>4, <1>5

\* A walk passes no slot twice, so it ends.
LEMMA PathIs ==
    ASSUME NEW n \in Nat \ {0}, NEW N \in [1 .. n -> 0 .. n], NEW B, NEW R, Falls(n, N, B, R),
           NEW m, SizeOf(m) = n, \A j \in 1 .. n : m.slots[j].next = N[j],
           NEW i \in 1 .. n
    PROVE  IsPath(From(m, i), i, n, N)
<1> DEFINE V == Seq(1 .. n) \ {<<>>}
           step == [x \in V \X (1 .. n) |-> Onward(m, x[1])]
           f == CHOOSE f : Walks(f, m, i)
<1>2. ASSUME NEW q \in V PROVE Onward(m, q) \in V
  <2>1. /\ q \in Seq(1 .. n) /\ Len(q) \in Nat /\ Len(q) # 0
    BY EmptySeq, LenProperties
  <2>2. q[Len(q)] \in 1 .. n
    BY <2>1, ElementOfSeq
  <2>3. PICK x \in 0 .. n : x = N[q[Len(q)]]
    BY <2>2
  <2>4. Onward(m, q) = IF x = 0 THEN q ELSE Append(q, x)
    BY <2>2, <2>3 DEF Onward, Last
  <2>5. CASE x = 0
    BY <2>4, <2>5
  <2>6. CASE x # 0
    <3>1. x \in 1 .. n
      BY <2>6
    <3>a. Append(q, x) \in Seq(1 .. n) /\ Len(Append(q, x)) = Len(q) + 1
      BY <2>1, <3>1, AppendProperties
    <3>b. Len(Append(q, x)) # 0
      BY <2>1, <3>a
    <3>2. Append(q, x) \in Seq(1 .. n) /\ Append(q, x) # <<>>
      BY <3>a, <3>b, EmptySeq
    <3> QED
      BY <2>4, <2>6, <3>2
  <2> QED
    BY <2>5, <2>6
<1>3. \E g \in [0 .. n -> V] : Walks(g, m, i)
  <2>1. step \in [V \X (1 .. n) -> V]
    BY <1>2
  <2>2. <<i>> \in V
    OBVIOUS
  <2> HIDE DEF step, V
  <2>3. PICK g \in [0 .. n -> V] : Unfolded(g, n, <<i>>, step)
    BY <2>1, <2>2, Unfolds
  <2>4. ASSUME NEW k \in 0 .. n, k # 0 PROVE step[<<g[k - 1], k>>] = Onward(m, g[k - 1])
    <3>1. k - 1 \in 0 .. n /\ k \in 1 .. n
      BY <2>4
    <3>2. <<g[k - 1], k>> \in V \X (1 .. n)
      BY <3>1
    <3> QED
      BY <3>2 DEF step
  <2>5. g = [k \in 0 .. n |-> IF k = 0 THEN <<i>> ELSE Onward(m, g[k - 1])]
    BY <2>3, <2>4 DEF Unfolded
  <2> QED
    BY <2>5 DEF Walks
<1>4. Walks(f, m, i)
  BY <1>3
<1>5. From(m, i) = f[n]
  BY DEF From, Walks, Onward
<1> HIDE DEF f
<1>6. f[0] = <<i>> /\ \A k \in 1 .. n : f[k] = Onward(m, f[k - 1])
  BY <1>4 DEF Walks
<1> DEFINE I == {k \in 0 .. n : Passed(f[k], i, k, n, N, R)}
<1>7. 0 \in I
  <2>1. <<i>> \in Seq(1 .. n) /\ Len(<<i>>) = 1 /\ <<i>>[1] = i
    OBVIOUS
  <2>2. Passed(<<i>>, i, 0, n, N, R)
    BY <2>1 DEF Passed
  <2>3. Passed(f[0], i, 0, n, N, R)
    <3>1. f[0] = <<i>>
      BY <1>6
    <3> QED
      BY <2>2, <3>1
  <2>4. 0 \in 0 .. n
    OBVIOUS
  <2> QED
    BY <2>3, <2>4
<1>8. ASSUME NEW k \in 1 .. n, k - 1 \in I PROVE k \in I
  <2>1. Passed(f[k - 1], i, k - 1, n, N, R) /\ f[k] = Onward(m, f[k - 1]) /\ k - 1 \in Nat
    BY <1>6, <1>8
  <2>a. PICK c \in Nat : c = k - 1
    BY <2>1
  <2>b. PICK q : q = f[k - 1]
    OBVIOUS
  <2>c. Passed(Onward(m, q), i, c + 1, n, N, R)
    <3>1. Passed(q, i, c, n, N, R)
      BY <2>1, <2>a, <2>b
    <3> QED
      BY <3>1, OnwardIs
  <2>2. Passed(f[k], i, c + 1, n, N, R)
    BY <2>1, <2>b, <2>c
  <2>3. c + 1 = k /\ k \in 0 .. n
    BY <2>a
  <2> QED
    BY <2>2, <2>3
<1>9. Passed(f[n], i, n, n, N, R)
  <2>1. 0 .. n \subseteq I
    <3> HIDE DEF I
    <3> QED
      BY <1>7, <1>8, AlongPositions
  <2> QED
    BY <2>1
<1> DEFINE P == f[n]
           l == Len(P)
<1> HIDE DEF P
<1>10. /\ P \in Seq(1 .. n) /\ l \in Nat \ {0} /\ P[1] = i
       /\ \A a \in 1 .. l - 1 : N[P[a]] = P[a + 1]
       /\ \A a, b \in 1 .. l : a < b => R[P[b]] < R[P[a]]
       /\ l = n + 1 \/ N[P[l]] = 0
  BY <1>9 DEF Passed, P
<1>11. l <= n
  <2>1. P \in Injection(1 .. l, 1 .. n)
    <3>1. P \in [1 .. l -> 1 .. n]
      BY <1>10, LenProperties
    <3>2. ASSUME NEW a \in 1 .. l, NEW b \in 1 .. l, P[a] = P[b], a < b PROVE FALSE
      <4>1. R[P[b]] < R[P[a]]
        BY <1>10, <3>2
      <4>2. R[P[b]] = R[P[a]]
        BY <3>2
      <4>3. R[P[a]] \in Int
        <5>1. R \in [1 .. n -> 0 .. B] /\ P[a] \in 1 .. n
          BY <3>1 DEF Falls
        <5> QED
          BY <5>1
      <4> QED
        BY <4>1, <4>2, <4>3
    <3>3. ASSUME NEW a \in 1 .. l, NEW b \in 1 .. l, P[a] = P[b] PROVE a = b
      <4>1. a \in Int /\ b \in Int
        BY <1>10
      <4> QED
        BY <3>2, <3>3, <4>1
    <3> QED
      BY <3>1, <3>3 DEF Injection, IsInjective
  <2> HIDE DEF l
  <2>2. IsFiniteSet(1 .. n) /\ Cardinality(1 .. n) = n
    <3>1. 1 \in Int /\ n \in Int /\ 1 <= n + 1 /\ (n - 1) + 1 = n
      OBVIOUS
    <3> QED
      BY <3>1, FS_Interval
  <2>3. Cardinality(1 .. l) = l
    BY <1>10, FS_Interval
  <2>4. Cardinality(1 .. l) <= Cardinality(1 .. n)
    BY <2>1, <2>2, FS_Injection
  <2> QED
    BY <2>2, <2>3, <2>4
<1>12. IsPath(P, i, n, N)
  BY <1>10, <1>11 DEF IsPath
<1> QED
  BY <1>5, <1>12 DEF P

\* A walk from a slot with a key passes only such slots; with the links closed
\* on a set, only those.
LEMMA PathStays ==
    ASSUME NEW n \in Nat \ {0}, NEW N \in [1 .. n -> 0 .. n], NEW i \in 1 .. n, NEW P,
           IsPath(P, i, n, N), NEW T, i \in T,
           \A j \in 1 .. n : j \in T /\ N[j] # 0 => N[j] \in T
    PROVE  Range(P) \subseteq T
<1> DEFINE l == Len(P)
           I == {0} \cup {a \in 1 .. l : P[a] \in T}
<1>1. /\ P \in Seq(1 .. n) /\ l \in 1 .. n /\ P[1] = i /\ DOMAIN P = 1 .. l
      /\ \A a \in 1 .. l - 1 : N[P[a]] = P[a + 1]
      /\ \A a \in 1 .. l : P[a] \in 1 .. n
  BY LenProperties, ElementOfSeq DEF IsPath
<1>2. ASSUME NEW a \in 1 .. l, a - 1 \in I PROVE a \in I
  <2>1. CASE a = 1
    BY <1>1, <2>1
  <2>2. CASE a # 1
    <3>1. a - 1 \in 1 .. l - 1 /\ a - 1 \in 1 .. l /\ (a - 1) + 1 = a /\ a - 1 # 0
      BY <1>1, <2>2
    <3>2. P[a - 1] \in T /\ N[P[a - 1]] = P[a]
      BY <1>1, <1>2, <3>1
    <3>3. P[a] # 0 /\ P[a - 1] \in 1 .. n
      BY <1>1, <3>1, SMTT(30)
    <3> QED
      BY <3>2, <3>3
  <2> QED
    BY <2>1, <2>2
<1>3. 0 .. l \subseteq I
  <2>1. 0 \in I /\ l \in Nat
    BY <1>1
  <2> HIDE DEF I, l
  <2> QED
    BY <1>2, <2>1, AlongPositions
<1> QED
  BY <1>1, <1>3 DEF Range

\* It goes on to whatever a slot it passes links to.
LEMMA PathGoesOn ==
    ASSUME NEW n \in Nat \ {0}, NEW N \in [1 .. n -> 0 .. n], NEW i \in 1 .. n, NEW P,
           IsPath(P, i, n, N), NEW j \in Range(P), N[j] # 0
    PROVE  N[j] \in Range(P)
<1>1. /\ P \in Seq(1 .. n) /\ Len(P) \in 1 .. n /\ DOMAIN P = 1 .. Len(P)
      /\ \A a \in 1 .. Len(P) - 1 : N[P[a]] = P[a + 1]
      /\ N[P[Len(P)]] = 0
  BY LenProperties DEF IsPath
<1>2. PICK a \in 1 .. Len(P) : P[a] = j
  BY <1>1 DEF Range
<1>3. a # Len(P)
  BY <1>1, <1>2
<1>4. a \in 1 .. Len(P) - 1 /\ a + 1 \in 1 .. Len(P)
  <2>1. PICK l \in Nat : l = Len(P)
    BY <1>1, LenProperties
  <2>2. a \in 1 .. l /\ a # l
    BY <1>3, <2>1
  <2>3. a \in 1 .. l - 1 /\ a + 1 \in 1 .. l
    BY <2>2
  <2> QED
    BY <2>1, <2>3
<1> QED
  BY <1>1, <1>2, <1>4, ZenonT(30) DEF Range

\* Each key is on the chain of its main slot.
LEMMA Reaches ==
    ASSUME MapConstants, NEW n, NEW K, NEW N, Chains(n, K, N), NEW B, NEW R, Falls(n, N, B, R),
           NEW h \in 1 .. n, NEW P, IsPath(P, h, n, N),
           NEW i \in 1 .. n, K[i] # NoKey, Home(K[i], n) = h
    PROVE  i \in Range(P)
<1>0. /\ n \in Nat \ {0} /\ K \in [1 .. n -> Keys \cup {NoKey}] /\ N \in [1 .. n -> 0 .. n]
      /\ Homes(n, K) /\ Links(n, K, N) /\ KeysOnce(n, K) /\ LinksOnce(n, K, N) /\ Linked(n, K, N)
  BY ChainsSay
<1>1. B \in Nat /\ R \in [1 .. n -> 0 .. B] /\ \A j \in 1 .. n : N[j] # 0 => R[N[j]] < R[j]
  BY DEF Falls
<1> DEFINE T == {d \in Nat : \A j \in 1 .. n :
                    K[j] # NoKey /\ Home(K[j], n) = h /\ B - R[j] <= d => j \in Range(P)}
<1>2. h \in Range(P)
  <2>1. P[1] = h /\ 1 \in DOMAIN P
    BY <1>0, LenProperties DEF IsPath
  <2> QED
    BY <2>1 DEF Range
<1>3. ASSUME NEW j \in 1 .. n, K[j] # NoKey, Home(K[j], n) = h, j # h
      PROVE  \E p \in 1 .. n : /\ K[p] # NoKey /\ N[p] = j /\ Home(K[p], n) = h
                               /\ R[j] < R[p]
  <2>1. PICK p \in 1 .. n : K[p] # NoKey /\ N[p] = j
    BY <1>0, <1>3 DEF Linked
  <2>2. N[p] # 0
    BY <2>1
  <2>3. Home(K[p], n) = h
    BY <1>0, <1>3, <2>1, <2>2 DEF Links
  <2> QED
    BY <1>1, <2>1, <2>2, <2>3
<1>4. ASSUME NEW j \in 1 .. n, NEW p \in 1 .. n, N[p] = j, p \in Range(P) PROVE j \in Range(P)
  BY <1>0, <1>4, PathGoesOn, SMTT(30)
<1>5. 0 \in T
  <2> SUFFICES ASSUME NEW j \in 1 .. n, K[j] # NoKey, Home(K[j], n) = h, B - R[j] <= 0
               PROVE  j \in Range(P)
    OBVIOUS
  <2>1. CASE j = h
    BY <1>2, <2>1
  <2>2. CASE j # h
    <3>1. PICK p \in 1 .. n : R[j] < R[p]
      BY <1>3, <2>2
    <3>2. R[j] \in 0 .. B /\ R[p] \in 0 .. B
      BY <1>1
    <3> QED
      BY <1>1, <3>1, <3>2
  <2> QED
    BY <2>1, <2>2
<1>6. ASSUME NEW d \in T PROVE d + 1 \in T
  <2> SUFFICES ASSUME NEW j \in 1 .. n, K[j] # NoKey, Home(K[j], n) = h, B - R[j] <= d + 1
               PROVE  j \in Range(P)
    OBVIOUS
  <2>1. CASE j = h
    BY <1>2, <2>1
  <2>2. CASE j # h
    <3>1. PICK p \in 1 .. n : K[p] # NoKey /\ N[p] = j /\ Home(K[p], n) = h /\ R[j] < R[p]
      BY <1>3, <2>2
    <3>2. R[j] \in 0 .. B /\ R[p] \in 0 .. B /\ d \in Nat
      BY <1>1
    <3>3. B - R[p] <= d
      BY <1>1, <3>1, <3>2
    <3>4. p \in Range(P)
      BY <3>1, <3>3
    <3> QED
      BY <1>4, <3>1, <3>4
  <2> QED
    BY <2>1, <2>2
<1>7. T = Nat
  <2>1. T \in SUBSET Nat
    OBVIOUS
  <2> HIDE DEF T
  <2> QED
    BY <1>5, <1>6, <2>1, SetInduction
<1>8. B - R[i] <= B
  <2>1. R[i] \in 0 .. B /\ B \in Nat
    BY <1>1
  <2> QED
    BY <2>1
<1>a. B \in T
  BY <1>1, <1>7
<1>9. \A j \in 1 .. n :
        K[j] # NoKey /\ Home(K[j], n) = h /\ B - R[j] <= B => j \in Range(P)
  BY <1>a
<1> HIDE DEF T
<1> QED
  BY <1>8, <1>9

\* The one slot of a walk that is in a set.
LEMMA FirstAtIs ==
    ASSUME NEW n \in Nat, NEW P \in Seq(1 .. n), NEW T, NEW t \in Range(P) \cap T,
           \A j \in Range(P) \cap T : j = t
    PROVE  FirstAt(P, T) = t
<1> DEFINE at == {a \in DOMAIN P : P[a] \in T}
<1>1. Len(P) \in Nat /\ DOMAIN P = 1 .. Len(P)
  BY LenProperties
<1>2. at # {} /\ IsFiniteSet(at) /\ at \subseteq Int
  <2>1. PICK a \in 1 .. Len(P) : P[a] = t
    BY <1>1 DEF Range
  <2>2. a \in at
    BY <1>1, <2>1
  <2>3. IsFiniteSet(1 .. Len(P)) /\ 1 .. Len(P) \subseteq Int
    BY <1>1, FS_Interval
  <2>4. at \subseteq 1 .. Len(P)
    BY <1>1
  <2> QED
    BY <2>2, <2>3, <2>4, FS_Subset
<1>3. \E a \in at : \A l \in at : a <= l
  <2> HIDE DEF at
  <2> QED
    BY <1>2, Extremes
<1>4. PICK a \in at : FirstAt(P, T) = P[a]
  <2> DEFINE c == CHOOSE a \in at : \A l \in at : a <= l
  <2>1. FirstAt(P, T) = P[c]
    BY <1>2, Zenon DEF FirstAt
  <2> HIDE DEF at
  <2>2. c \in at
    BY <1>3
  <2> QED
    BY <2>1, <2>2
<1> QED
  BY <1>4 DEF Range

\* A path that passes none of some slots.
LEMMA NoFirstAt ==
    ASSUME NEW P, NEW T, Range(P) \cap T = {}
    PROVE  FirstAt(P, T) = 0
<1>1. {a \in DOMAIN P : P[a] \in T} = {}
  BY DEF Range
<1> QED
  BY <1>1, Zenon DEF FirstAt

-----------------------------------------------------------------------------
(* Blocks of slots.                                                        *)

Slot == [key : Keys \cup {NoKey}, value : MapValues \cup {NoValue}, next : Nat]
MapBlocks == [slots : Seq(Slot), lastfree : Nat, count : Nat]
Entry(k, x, next) == [key |-> k, value |-> x, next |-> next]
Cells(n, K, V, N) == [i \in 1 .. n |-> Entry(K[i], V[i], N[i])]
Block(n, K, V, N, l, c) == [slots |-> Cells(n, K, V, N), lastfree |-> l, count |-> c]
KeysOf(m) == [i \in 1 .. SizeOf(m) |-> m.slots[i].key]
ValuesOf(m) == [i \in 1 .. SizeOf(m) |-> m.slots[i].value]
NextOf(m) == [i \in 1 .. SizeOf(m) |-> m.slots[i].next]

\* Chains in order, and the slots above lastfree in use.
Sound(n, K, V, N, l) ==
    /\ Chains(n, K, N) /\ V \in [1 .. n -> MapValues \cup {NoValue}]
    /\ \E B, R : Falls(n, N, B, R)
    /\ l \in 0 .. n /\ \A i \in 1 .. n : i > l => K[i] # NoKey
IsMap(m) ==
    /\ m \in MapBlocks
    /\ Sound(SizeOf(m), KeysOf(m), ValuesOf(m), NextOf(m), m.lastfree)

\* It has what was put into it.
Puts == [Keys -> MapValues \cup {NoValue}]
Stored(p) == {k \in Keys : p[k] # NoValue}
Holding(n, K, V, p) ==
    /\ \A i \in 1 .. n : K[i] # NoKey => V[i] # NoValue /\ p[K[i]] = V[i]
    /\ \A k \in Stored(p) : \E i \in 1 .. n : K[i] = k
Stores(m, p) == Holding(SizeOf(m), KeysOf(m), ValuesOf(m), p)

\* The parts of a block.
View(m, n, K, V, N, l, c) ==
    /\ SizeOf(m) = n /\ KeysOf(m) = K /\ ValuesOf(m) = V /\ NextOf(m) = N
    /\ m.lastfree = l /\ m.count = c

\* What a map in order is made of.
LEMMA MapSays ==
    ASSUME MapConstants, NEW m, IsMap(m)
    PROVE  /\ SizeOf(m) \in Nat \ {0} /\ m.slots \in Seq(Slot) /\ Len(m.slots) = SizeOf(m)
           /\ DOMAIN m.slots = 1 .. SizeOf(m) /\ m.lastfree \in Nat /\ m.count \in Nat
           /\ m = Block(SizeOf(m), KeysOf(m), ValuesOf(m), NextOf(m), m.lastfree, m.count)
           /\ KeysOf(m) \in [1 .. SizeOf(m) -> Keys \cup {NoKey}]
           /\ ValuesOf(m) \in [1 .. SizeOf(m) -> MapValues \cup {NoValue}]
           /\ NextOf(m) \in [1 .. SizeOf(m) -> 0 .. SizeOf(m)]
           /\ \A i \in 1 .. SizeOf(m) : /\ m.slots[i].key = KeysOf(m)[i]
                                        /\ m.slots[i].value = ValuesOf(m)[i]
                                        /\ m.slots[i].next = NextOf(m)[i]
<1>1. /\ SizeOf(m) \in Nat \ {0} /\ KeysOf(m) \in [1 .. SizeOf(m) -> Keys \cup {NoKey}]
      /\ NextOf(m) \in [1 .. SizeOf(m) -> 0 .. SizeOf(m)]
  BY ChainsSay DEF IsMap, Sound
<1>2. m \in MapBlocks /\ SizeOf(m) = Len(m.slots)
  BY DEF IsMap, SizeOf
<1>3. /\ m.slots \in Seq(Slot) /\ m.lastfree \in Nat /\ m.count \in Nat
      /\ m = [slots |-> m.slots, lastfree |-> m.lastfree, count |-> m.count]
  BY <1>2 DEF MapBlocks
<1>4. DOMAIN m.slots = 1 .. SizeOf(m) /\ \A i \in 1 .. SizeOf(m) : m.slots[i] \in Slot
  BY <1>2, <1>3, LenProperties, ElementOfSeq
<1>5. \A i \in 1 .. SizeOf(m) : /\ m.slots[i].key = KeysOf(m)[i]
                                /\ m.slots[i].value = ValuesOf(m)[i]
                                /\ m.slots[i].next = NextOf(m)[i]
  BY DEF KeysOf, NextOf, ValuesOf
<1>6. m.slots = Cells(SizeOf(m), KeysOf(m), ValuesOf(m), NextOf(m))
  <2> DEFINE f == Cells(SizeOf(m), KeysOf(m), ValuesOf(m), NextOf(m))
  <2>1. ASSUME NEW i \in 1 .. SizeOf(m) PROVE m.slots[i] = f[i]
    <3>1. m.slots[i] \in Slot
      BY <1>4
    <3>2. m.slots[i] = Entry(m.slots[i].key, m.slots[i].value, m.slots[i].next)
      BY <3>1 DEF Slot, Entry
    <3> QED
      BY <1>5, <3>2 DEF Cells
  <2>2. m.slots = [i \in 1 .. SizeOf(m) |-> m.slots[i]]
    <3>1. m.slots \in [1 .. SizeOf(m) -> Slot]
      BY <1>2, <1>3, LenProperties
    <3> QED
      BY <3>1
  <2>3. f = [i \in 1 .. SizeOf(m) |-> f[i]]
    BY DEF Cells
  <2> HIDE DEF f
  <2> QED
    BY <2>1, <2>2, <2>3 DEF f
<1>7. m = Block(SizeOf(m), KeysOf(m), ValuesOf(m), NextOf(m), m.lastfree, m.count)
  BY <1>3, <1>6 DEF Block
<1>8. ValuesOf(m) \in [1 .. SizeOf(m) -> MapValues \cup {NoValue}]
  BY DEF IsMap, Sound
<1> QED
  BY <1>1, <1>2, <1>3, <1>4, <1>5, <1>7, <1>8

\* A block with parts that are sound is a map.
LEMMA MapFrom ==
    ASSUME MapConstants, NEW n, NEW K, NEW V, NEW N, NEW l, Sound(n, K, V, N, l), NEW c \in Nat
    PROVE  IsMap(Block(n, K, V, N, l, c)) /\ View(Block(n, K, V, N, l, c), n, K, V, N, l, c)
<1> DEFINE m == Block(n, K, V, N, l, c)
           f == Cells(n, K, V, N)
<1>1. /\ n \in Nat \ {0} /\ K \in [1 .. n -> Keys \cup {NoKey}] /\ N \in [1 .. n -> 0 .. n]
      /\ V \in [1 .. n -> MapValues \cup {NoValue}] /\ l \in 0 .. n
  BY ChainsSay DEF Sound
<1>2. m.slots = f /\ m.lastfree = l /\ m.count = c
  BY DEF Block
<1>3. \A i \in 1 .. n : f[i] \in Slot /\ f[i].key = K[i] /\ f[i].value = V[i] /\ f[i].next = N[i]
  <2> SUFFICES ASSUME NEW i \in 1 .. n
               PROVE  f[i] \in Slot /\ f[i].key = K[i] /\ f[i].value = V[i] /\ f[i].next = N[i]
    OBVIOUS
  <2>1. f[i] = Entry(K[i], V[i], N[i])
    BY DEF Cells
  <2>2. K[i] \in Keys \cup {NoKey} /\ V[i] \in MapValues \cup {NoValue} /\ N[i] \in Nat
    BY <1>1
  <2> HIDE DEF f
  <2> QED
    BY <2>1, <2>2 DEF Entry, Slot
<1>4. f \in Seq(Slot) /\ Len(f) = n
  <2>1. f \in [1 .. n -> Slot]
    <3>1. f = [i \in 1 .. n |-> f[i]]
      BY DEF Cells
    <3> HIDE DEF f
    <3> QED
      BY <1>3, <3>1
  <2> HIDE DEF f
  <2> QED
    BY <1>1, <2>1
<1>5. m \in MapBlocks
  <2>1. l \in Nat
    BY <1>1
  <2>2. m = [slots |-> f, lastfree |-> l, count |-> c]
    BY DEF Block
  <2> HIDE DEF m, f
  <2> QED
    BY <1>4, <2>1, <2>2 DEF MapBlocks
<1> HIDE DEF m, f
<1>6. SizeOf(m) = n
  BY <1>2, <1>4 DEF SizeOf
<1>7. KeysOf(m) = K /\ ValuesOf(m) = V /\ NextOf(m) = N
  <2>1. K = [i \in 1 .. n |-> K[i]] /\ V = [i \in 1 .. n |-> V[i]] /\ N = [i \in 1 .. n |-> N[i]]
    BY <1>1
  <2>2. KeysOf(m) = [i \in 1 .. n |-> K[i]]
    BY <1>2, <1>3, <1>6 DEF KeysOf
  <2>3. ValuesOf(m) = [i \in 1 .. n |-> V[i]]
    BY <1>2, <1>3, <1>6 DEF ValuesOf
  <2>4. NextOf(m) = [i \in 1 .. n |-> N[i]]
    BY <1>2, <1>3, <1>6 DEF NextOf
  <2> QED
    BY <2>1, <2>2, <2>3, <2>4
<1> QED
  BY <1>2, <1>5, <1>6, <1>7 DEF m, IsMap, View

\* One slot changed.
LEMMA CellsWith ==
    ASSUME NEW n, NEW K, NEW V, NEW N, DOMAIN K = 1 .. n, DOMAIN V = 1 .. n, DOMAIN N = 1 .. n,
           NEW e \in 1 .. n, NEW k, NEW x, NEW l
    PROVE  With(Cells(n, K, V, N), e, Entry(k, x, l)) = Cells(n, With(K, e, k), With(V, e, x), With(N, e, l))
BY DEF With, Cells

\* A change at a point leaves the domain.
LEMMA WithDomain == ASSUME NEW f, NEW e, NEW x PROVE DOMAIN With(f, e, x) = DOMAIN f
BY DEF With

\* The walks of a block end; each key is on that of its main slot.
LEMMA ChainOf ==
    ASSUME MapConstants, NEW m, IsMap(m), NEW i \in 1 .. SizeOf(m)
    PROVE  /\ IsPath(From(m, i), i, SizeOf(m), NextOf(m))
           /\ KeysOf(m)[i] # NoKey => \A j \in Range(From(m, i)) : KeysOf(m)[j] # NoKey
           /\ \A j \in 1 .. SizeOf(m) : KeysOf(m)[j] # NoKey /\ MainSlot(m, KeysOf(m)[j]) = i =>
                j \in Range(From(m, i))
<1> DEFINE n == SizeOf(m)
           K == KeysOf(m)
           N == NextOf(m)
           P == From(m, i)
<1>1. Chains(n, K, N)
  BY DEF IsMap, Sound
<1>2. n \in Nat \ {0} /\ N \in [1 .. n -> 0 .. n] /\ \A j \in 1 .. n : m.slots[j].next = N[j]
  BY MapSays
<1>3. PICK B, R : Falls(n, N, B, R)
  BY DEF IsMap, Sound
<1>4. \A k : MainSlot(m, k) = Home(k, n)
  BY DEF MainSlot, Home
<1> HIDE DEF n, K, N
<1>5. IsPath(P, i, n, N)
  <2>1. SizeOf(m) = n
    BY DEF n
  <2> QED
    BY <1>2, <1>3, <2>1, PathIs
<1>6. ASSUME K[i] # NoKey PROVE \A j \in Range(P) : K[j] # NoKey
  <2> DEFINE T == {j \in 1 .. n : K[j] # NoKey}
  <2>1. i \in T
    BY <1>6 DEF n
  <2>2. \A j \in 1 .. n : j \in T /\ N[j] # 0 => N[j] \in T
    BY <1>1, ChainsSay DEF Links
  <2> HIDE DEF P
  <2>3. Range(P) \subseteq T
    <3> HIDE DEF T
    <3> QED
      BY <1>2, <1>5, <2>1, <2>2, PathStays DEF n
  <2> QED
    BY <2>3
<1>7. ASSUME NEW j \in 1 .. n, K[j] # NoKey, MainSlot(m, K[j]) = i PROVE j \in Range(P)
  <2>1. Home(K[j], n) = i
    BY <1>4, <1>7
  <2> HIDE DEF P
  <2>2. i \in 1 .. n
    BY DEF n
  <2> QED
    BY <1>1, <1>3, <1>5, <1>7, <2>1, <2>2, Reaches
<1> QED
  BY <1>5, <1>6, <1>7 DEF n, K, N

\* The slot of a key.
Has(m, k) == \E i \in 1 .. SizeOf(m) : KeysOf(m)[i] = k

\* find() finds the slot of a key that is there, and none of another.
LEMMA FindSlotIs ==
    ASSUME MapConstants, NEW m, IsMap(m), NEW k \in Keys, NEW i, i = FindSlot(m, k)
    PROVE  /\ Has(m, k) => i \in 1 .. SizeOf(m) /\ KeysOf(m)[i] = k
           /\ ~Has(m, k) => i = 0
<1> DEFINE n == SizeOf(m)
           K == KeysOf(m)
           h == MainSlot(m, k)
           T == {j \in DOMAIN m.slots : m.slots[j].key = k}
           P == From(m, h)
<1>1. n \in Nat \ {0} /\ DOMAIN m.slots = 1 .. n /\ \A j \in 1 .. n : m.slots[j].key = K[j]
  BY MapSays
<1>2. Homes(n, K) /\ KeysOnce(n, K)
  BY ChainsSay DEF IsMap, Sound
<1>3. h \in 1 .. n /\ h = Home(k, n) /\ k # NoKey
  <2>1. h = Home(k, n)
    BY DEF MainSlot, Home
  <2> QED
    BY <1>1, <2>1, HomeIs DEF MapConstants
<1>4. i = IF K[h] = NoKey THEN 0 ELSE FirstAt(P, T)
  BY <1>1, <1>3 DEF FindSlot
<1> HIDE DEF n, K, h
<1>5. IsPath(P, h, n, NextOf(m))
  BY <1>3, ChainOf DEF n
<1>6. ASSUME NEW t \in 1 .. n, K[t] = k PROVE i = t
  <2>1. K[h] # NoKey
    BY <1>2, <1>3, <1>6 DEF Homes
  <2>2. t \in Range(P)
    <3>1. MainSlot(m, K[t]) = h
      BY <1>6 DEF h
    <3> QED
      BY <1>3, <1>6, <3>1, ChainOf DEF n, K
  <2>3. T = {t}
    BY <1>1, <1>2, <1>3, <1>6 DEF KeysOnce
  <2>4. P \in Seq(1 .. n)
    BY <1>5 DEF IsPath
  <2> HIDE DEF P, T
  <2>5. t \in Range(P) \cap T /\ \A j \in Range(P) \cap T : j = t
    BY <2>2, <2>3
  <2>6. FirstAt(P, T) = t
    BY <1>1, <2>4, <2>5, FirstAtIs
  <2> QED
    BY <1>4, <2>1, <2>6
<1>7. ASSUME ~Has(m, k) PROVE i = 0
  <2>1. T = {}
    BY <1>1, <1>7 DEF Has, n, K
  <2>2. FirstAt(P, T) = 0
    BY <2>1, NoFirstAt
  <2> QED
    BY <1>4, <2>2
<1> QED
  BY <1>6, <1>7 DEF Has, n, K

\* What links to a slot that is not the first of its chain.
LEMMA LinkTo ==
    ASSUME MapConstants, NEW m, IsMap(m), NEW t \in 1 .. SizeOf(m), KeysOf(m)[t] # NoKey,
           NEW h, h = MainSlot(m, KeysOf(m)[t]), h # t
    PROVE  \E p \in 1 .. SizeOf(m) :
             /\ KeysOf(m)[p] # NoKey /\ NextOf(m)[p] = t
             /\ \A T : /\ p \in T
                       /\ \A j \in T : /\ j \in 1 .. SizeOf(m)
                                       /\ KeysOf(m)[j] # NoKey => NextOf(m)[j] = t
                       => FirstAt(From(m, h), T) = p
<1> DEFINE n == SizeOf(m)
           K == KeysOf(m)
           N == NextOf(m)
           P == From(m, h)
<1>1. /\ n \in Nat \ {0} /\ Homes(n, K) /\ Links(n, K, N) /\ LinksOnce(n, K, N) /\ Linked(n, K, N)
  BY ChainsSay DEF IsMap, Sound
<1>2. h = Home(K[t], n) /\ \A k : MainSlot(m, k) = Home(k, n)
  BY DEF MainSlot, Home
<1> HIDE DEF n, K, N
<1>3. PICK p \in 1 .. n : K[p] # NoKey /\ N[p] = t
  BY <1>1, <1>2 DEF Linked, n, K
<1>4. Home(K[p], n) = h /\ t # 0
  <2>1. t # 0
    BY <1>1 DEF n
  <2> QED
    BY <1>1, <1>2, <1>3, <2>1 DEF Links
<1>5. h \in 1 .. n /\ K[h] # NoKey
  BY <1>1, <1>3, <1>4 DEF Homes
<1>6. /\ P \in Seq(1 .. n) /\ p \in Range(P) /\ \A j \in Range(P) : K[j] # NoKey
  <2>1. MainSlot(m, K[p]) = h
    BY <1>2, <1>4
  <2>2. IsPath(P, h, n, N) /\ (\A j \in Range(P) : K[j] # NoKey)
    BY <1>5, ChainOf DEF n, K, N
  <2>3. p \in Range(P)
    BY <1>3, <1>5, <2>1, ChainOf DEF n, K
  <2> QED
    BY <2>2, <2>3 DEF IsPath
<1> HIDE DEF P
<1>7. ASSUME NEW T, p \in T, \A j \in T : j \in 1 .. n /\ (K[j] # NoKey => N[j] = t)
      PROVE  FirstAt(P, T) = p
  <2>1. \A j \in Range(P) \cap T : j = p
    <3>1. ASSUME NEW j \in Range(P) \cap T PROVE j = p
      <4>1. j \in 1 .. n /\ K[j] # NoKey /\ N[j] = t
        BY <1>6, <1>7
      <4> QED
        BY <1>1, <1>3, <1>4, <4>1 DEF LinksOnce
    <3> QED
      BY <3>1
  <2> QED
    BY <1>1, <1>6, <1>7, <2>1, FirstAtIs
<1> QED
  BY <1>3, <1>7 DEF n, K, N, P

\* An empty slot is found if there is one.
LEMMA FreeIs ==
    ASSUME MapConstants, NEW m, IsMap(m), \E i \in 1 .. SizeOf(m) : KeysOf(m)[i] = NoKey,
           NEW e, e = NextFree(m)
    PROVE  /\ e \in 1 .. SizeOf(m) /\ KeysOf(m)[e] = NoKey
           /\ \A i \in 1 .. SizeOf(m) : i > e => KeysOf(m)[i] # NoKey
<1> DEFINE n == SizeOf(m)
           K == KeysOf(m)
           free == {i \in 1 .. m.lastfree : m.slots[i].key = NoKey}
<1>1. /\ n \in Nat \ {0} /\ m.lastfree \in Nat /\ m.lastfree <= n
      /\ \A i \in 1 .. n : m.slots[i].key = K[i] /\ (i > m.lastfree => K[i] # NoKey)
  <2>1. m.lastfree \in 0 .. n /\ \A i \in 1 .. n : i > m.lastfree => K[i] # NoKey
    BY DEF IsMap, Sound
  <2>2. n \in Nat \ {0} /\ \A i \in 1 .. n : m.slots[i].key = K[i]
    BY MapSays
  <2> QED
    BY <2>1, <2>2
<1> HIDE DEF n, K
<1>2. \A i : i \in free <=> i \in 1 .. n /\ K[i] = NoKey
  BY <1>1
<1>3. free # {} /\ IsFiniteSet(free) /\ free \subseteq Int
  <2>1. IsFiniteSet(1 .. n) /\ 1 .. n \subseteq Int
    BY <1>1, FS_Interval
  <2>2. free \subseteq 1 .. n
    BY <1>2
  <2>3. free # {}
    BY <1>2 DEF n, K
  <2> QED
    BY <2>1, <2>2, <2>3, FS_Subset
<1>4. \E i \in free : \A j \in free : j <= i
  <2> HIDE DEF free
  <2> QED
    BY <1>3, Extremes
<1>5. e = CHOOSE i \in free : \A j \in free : j <= i
  BY <1>3, Zenon DEF NextFree
<1> HIDE DEF free
<1>6. e \in free /\ \A j \in free : j <= e
  BY <1>4, <1>5
<1>7. e \in 1 .. n /\ K[e] = NoKey
  BY <1>2, <1>6
<1>8. ASSUME NEW i \in 1 .. n, i > e PROVE K[i] # NoKey
  <2>1. i \notin free
    <3>1. i \in Int /\ e \in Int
      BY <1>7
    <3> QED
      BY <1>6, <1>8, <3>1
  <2> QED
    BY <1>2, <2>1
<1> QED
  BY <1>7, <1>8 DEF n, K

-----------------------------------------------------------------------------
(* A key goes in.                                                          *)

Inserted(m, r, k, x) ==
    /\ IsMap(r) /\ SizeOf(r) = SizeOf(m) /\ r.count = m.count
    /\ \A p \in Puts : Stores(m, p) => Stores(r, With(p, k, x))

\* The new key has its value, the others keep theirs wherever they are now.
OneKeyMore(n, K, V, K2, V2, k, x) ==
    /\ \E s \in 1 .. n : K2[s] = k
    /\ \A i \in 1 .. n : K2[i] = k => V2[i] = x
    /\ \A i \in 1 .. n : K2[i] # NoKey /\ K2[i] # k =>
         \E j \in 1 .. n : K[j] = K2[i] /\ V[j] = V2[i]
    /\ \A j \in 1 .. n : K[j] # NoKey => \E i \in 1 .. n : K2[i] = K[j]

\* What is held after a key is put.
LEMMA HoldingMore ==
    ASSUME MapConstants, NEW n, NEW K, NEW V, NEW K2 \in [1 .. n -> Keys \cup {NoKey}], NEW V2,
           NEW k \in Keys, NEW x \in MapValues, OneKeyMore(n, K, V, K2, V2, k, x),
           NEW p \in Puts, Holding(n, K, V, p)
    PROVE  Holding(n, K2, V2, With(p, k, x))
<1> DEFINE q == With(p, k, x)
<1>1. /\ q[k] = x /\ \A l \in Keys : l # k => q[l] = p[l]
  BY DEF With, Puts
<1> HIDE DEF q
<1>2. x # NoValue /\ k # NoKey
  BY DEF MapConstants
<1>3. ASSUME NEW i \in 1 .. n, K2[i] # NoKey PROVE V2[i] # NoValue /\ q[K2[i]] = V2[i]
  <2>1. CASE K2[i] = k
    BY <1>1, <1>2, <2>1 DEF OneKeyMore
  <2>2. CASE K2[i] # k
    <3>1. PICK j \in 1 .. n : K[j] = K2[i] /\ V[j] = V2[i]
      BY <1>3, <2>2 DEF OneKeyMore
    <3>2. V[j] # NoValue /\ p[K[j]] = V[j]
      BY <1>3, <3>1 DEF Holding
    <3>3. K2[i] \in Keys
      BY <1>3
    <3> QED
      BY <1>1, <2>2, <3>1, <3>2, <3>3
  <2> QED
    BY <2>1, <2>2
<1>4. ASSUME NEW l \in Stored(q) PROVE \E i \in 1 .. n : K2[i] = l
  <2>1. CASE l = k
    BY <2>1 DEF OneKeyMore
  <2>2. CASE l # k
    <3>1. l \in Stored(p)
      BY <1>1, <2>2 DEF Stored
    <3>2. PICK j \in 1 .. n : K[j] = l
      BY <3>1 DEF Holding
    <3>3. l # NoKey
      BY DEF MapConstants, Stored
    <3> QED
      BY <3>2, <3>3 DEF OneKeyMore
  <2> QED
    BY <2>1, <2>2
<1>5. Holding(n, K2, V2, q)
  BY <1>3, <1>4 DEF Holding
<1> QED
  BY <1>5 DEF q

\* A block in order with one key more is what an insertion leaves.
LEMMA InsertedIs ==
    ASSUME MapConstants, NEW m, IsMap(m), NEW K2, NEW V2, NEW N2, NEW l,
           Sound(SizeOf(m), K2, V2, N2, l),
           NEW k \in Keys, NEW x \in MapValues,
           OneKeyMore(SizeOf(m), KeysOf(m), ValuesOf(m), K2, V2, k, x)
    PROVE  Inserted(m, Block(SizeOf(m), K2, V2, N2, l, m.count), k, x)
<1> DEFINE r == Block(SizeOf(m), K2, V2, N2, l, m.count)
<1>1. m.count \in Nat
  BY MapSays
<1>2. IsMap(r) /\ View(r, SizeOf(m), K2, V2, N2, l, m.count)
  BY <1>1, MapFrom
<1> HIDE DEF r
<1>3. K2 \in [1 .. SizeOf(m) -> Keys \cup {NoKey}]
  BY ChainsSay DEF Sound
<1>4. ASSUME NEW p \in Puts, Stores(m, p) PROVE Stores(r, With(p, k, x))
  <2>1. Holding(SizeOf(m), K2, V2, With(p, k, x))
    BY <1>3, <1>4, HoldingMore DEF Stores
  <2> QED
    BY <1>2, <2>1 DEF Stores, View
<1>5. Inserted(m, r, k, x)
  BY <1>2, <1>4 DEF Inserted, View
<1> QED
  BY <1>5 DEF r

\* insert(), the main slot empty.
LEMMA IntoEmpty ==
    ASSUME MapConstants, NEW m, IsMap(m), NEW k \in Keys, ~Has(m, k), NEW x \in MapValues,
           KeysOf(m)[MainSlot(m, k)] = NoKey
    PROVE  Inserted(m, InsertInto(m, k, x), k, x)
<1> DEFINE n == SizeOf(m)
           K == KeysOf(m)
           V == ValuesOf(m)
           N == NextOf(m)
           s == MainSlot(m, k)
           K2 == With(K, s, k)
           V2 == With(V, s, x)
           N2 == With(N, s, 0)
           r == Block(n, K2, V2, N2, m.lastfree, m.count)
<1>1. /\ n \in Nat \ {0} /\ m = Block(n, K, V, N, m.lastfree, m.count)
      /\ K \in [1 .. n -> Keys \cup {NoKey}] /\ V \in [1 .. n -> MapValues \cup {NoValue}]
      /\ N \in [1 .. n -> 0 .. n] /\ \A i \in 1 .. n : m.slots[i].key = K[i]
  BY MapSays
<1>2. s = Home(k, n) /\ s \in 1 .. n
  <2>1. s = Home(k, n)
    BY DEF MainSlot, Home
  <2> QED
    BY <1>1, <2>1, HomeIs
<1>3. m.slots = Cells(n, K, V, N) /\ m.slots[s].key = NoKey
  <2>1. Block(n, K, V, N, m.lastfree, m.count).slots = Cells(n, K, V, N)
    BY DEF Block
  <2> QED
    BY <1>1, <1>2, <2>1
<1>4. InsertInto(m, k, x) = [m EXCEPT !.slots[s] = Entry(k, x, 0)]
  BY <1>3 DEF InsertInto, Entry
<1>5. /\ Sound(n, K, V, N, m.lastfree) /\ (\A i \in 1 .. n : K[i] # k) /\ K[s] = NoKey
  BY DEF IsMap, Has
<1> HIDE DEF n, K, V, N, s
<1>6. With(m.slots, s, Entry(k, x, 0)) = Cells(n, K2, V2, N2)
  BY <1>1, <1>2, <1>3, CellsWith
<1>7. InsertInto(m, k, x) = r
  <2>1. [m EXCEPT !.slots[s] = Entry(k, x, 0)] =
          [slots |-> With(m.slots, s, Entry(k, x, 0)), lastfree |-> m.lastfree, count |-> m.count]
    <3>1. m = [slots |-> m.slots, lastfree |-> m.lastfree, count |-> m.count]
      BY <1>1, <1>3 DEF Block
    <3> QED
      BY <3>1 DEF With
  <2> QED
    BY <1>4, <1>6, <2>1 DEF Block
<1>8. Chains(n, K2, N2)
  BY <1>2, <1>5, ToEmpty DEF Sound
<1>9. /\ K2[s] = k /\ V2[s] = x /\ N2[s] = 0 /\ N2 \in [1 .. n -> 0 .. n]
      /\ V2 \in [1 .. n -> MapValues \cup {NoValue}]
      /\ \A i \in 1 .. n : i # s => K2[i] = K[i] /\ V2[i] = V[i] /\ N2[i] = N[i]
  BY <1>1, <1>2 DEF With
<1> HIDE DEF K2, V2, N2
<1>10. \E B, R : Falls(n, N2, B, R)
  <2>1. PICK B, R : Falls(n, N, B, R)
    BY <1>5 DEF Sound
  <2>2. \A i \in 1 .. n : N2[i] \in {0, N[i]}
    BY <1>9
  <2>3. Falls(n, N2, B, R)
    BY <1>1, <1>9, <2>1, <2>2, FallsOut
  <2> QED
    BY <2>3
<1>11. Sound(n, K2, V2, N2, m.lastfree)
  <2>1. m.lastfree \in 0 .. n /\ \A i \in 1 .. n : i > m.lastfree => K[i] # NoKey
    BY <1>5 DEF Sound
  <2>2. k # NoKey
    BY DEF MapConstants
  <2>3. \A i \in 1 .. n : i > m.lastfree => K2[i] # NoKey
    BY <1>9, <2>1, <2>2
  <2> QED
    BY <1>8, <1>9, <1>10, <2>1, <2>3 DEF Sound
<1>12. OneKeyMore(n, K, V, K2, V2, k, x)
  BY <1>2, <1>5, <1>9 DEF OneKeyMore
<1>13. Inserted(m, r, k, x)
  BY <1>11, <1>12, InsertedIs DEF n, K, V
<1> QED
  BY <1>7, <1>13

\* A slot, a link, a key, the counters of a block.
LEMMA BlockSlot ==
    ASSUME NEW n, NEW K, NEW V, NEW N, NEW l, NEW c,
           DOMAIN K = 1 .. n, DOMAIN V = 1 .. n, DOMAIN N = 1 .. n,
           NEW e \in 1 .. n, NEW k, NEW x, NEW y,
           NEW m, m = Block(n, K, V, N, l, c), NEW r, r = [m EXCEPT !.slots[e] = Entry(k, x, y)]
    PROVE  r = Block(n, With(K, e, k), With(V, e, x), With(N, e, y), l, c)
<1>1. PICK t : t = Cells(n, K, V, N)
  OBVIOUS
<1>2. PICK a : a = Entry(k, x, y)
  OBVIOUS
<1>4. m = [slots |-> t, lastfree |-> l, count |-> c] /\ r = [m EXCEPT !.slots[e] = a]
  BY <1>1, <1>2 DEF Block
<1>5. r = [slots |-> With(t, e, a), lastfree |-> l, count |-> c]
  BY <1>4 DEF With
<1>6. With(t, e, a) = Cells(n, With(K, e, k), With(V, e, x), With(N, e, y))
  BY <1>1, <1>2, CellsWith
<1> QED
  BY <1>5, <1>6 DEF Block

\* A block with one link changed.
LEMMA BlockNext ==
    ASSUME NEW n, NEW K, NEW V, NEW N, NEW l, NEW c,
           DOMAIN K = 1 .. n, DOMAIN V = 1 .. n, DOMAIN N = 1 .. n,
           NEW e \in 1 .. n, NEW y,
           NEW m, m = Block(n, K, V, N, l, c), NEW r, r = [m EXCEPT !.slots[e].next = y]
    PROVE  r = Block(n, K, V, With(N, e, y), l, c)
<1>1. PICK t : t = Cells(n, K, V, N)
  OBVIOUS
<1>4. m = [slots |-> t, lastfree |-> l, count |-> c] /\ r = [m EXCEPT !.slots[e].next = y]
  BY <1>1 DEF Block
<1>5. r = [slots |-> [t EXCEPT ![e] = [t[e] EXCEPT !.next = y]], lastfree |-> l, count |-> c]
  BY <1>4
<1>6. [t[e] EXCEPT !.next = y] = Entry(K[e], V[e], y)
  <2>1. t[e] = [key |-> K[e], value |-> V[e], next |-> N[e]]
    BY <1>1 DEF Cells, Entry
  <2> QED
    BY <2>1 DEF Entry
<1>7. [t EXCEPT ![e] = Entry(K[e], V[e], y)] = Cells(n, K, V, With(N, e, y))
  <2>1. [t EXCEPT ![e] = Entry(K[e], V[e], y)] =
          [i \in 1 .. n |-> IF i = e THEN Entry(K[e], V[e], y) ELSE Entry(K[i], V[i], N[i])]
    BY <1>1 DEF Cells
  <2>2. \A i \in 1 .. n : With(N, e, y)[i] = IF i = e THEN y ELSE N[i]
    BY DEF With
  <2> QED
    BY <2>1, <2>2 DEF Cells
<1> QED
  BY <1>5, <1>6, <1>7 DEF Block

\* A block with one key changed.
LEMMA BlockKey ==
    ASSUME NEW n, NEW K, NEW V, NEW N, NEW l, NEW c,
           DOMAIN K = 1 .. n, DOMAIN V = 1 .. n, DOMAIN N = 1 .. n,
           NEW e \in 1 .. n, NEW k,
           NEW m, m = Block(n, K, V, N, l, c), NEW r, r = [m EXCEPT !.slots[e].key = k]
    PROVE  r = Block(n, With(K, e, k), V, N, l, c)
<1>1. PICK t : t = Cells(n, K, V, N)
  OBVIOUS
<1>4. m = [slots |-> t, lastfree |-> l, count |-> c] /\ r = [m EXCEPT !.slots[e].key = k]
  BY <1>1 DEF Block
<1>5. r = [slots |-> [t EXCEPT ![e] = [t[e] EXCEPT !.key = k]], lastfree |-> l, count |-> c]
  BY <1>4
<1>6. [t[e] EXCEPT !.key = k] = Entry(k, V[e], N[e])
  <2>1. t[e] = [key |-> K[e], value |-> V[e], next |-> N[e]]
    BY <1>1 DEF Cells, Entry
  <2> QED
    BY <2>1 DEF Entry
<1>7. [t EXCEPT ![e] = Entry(k, V[e], N[e])] = Cells(n, With(K, e, k), V, N)
  <2>1. [t EXCEPT ![e] = Entry(k, V[e], N[e])] =
          [i \in 1 .. n |-> IF i = e THEN Entry(k, V[e], N[e]) ELSE Entry(K[i], V[i], N[i])]
    BY <1>1 DEF Cells
  <2>2. \A i \in 1 .. n : With(K, e, k)[i] = IF i = e THEN k ELSE K[i]
    BY DEF With
  <2> QED
    BY <2>1, <2>2 DEF Cells
<1> QED
  BY <1>5, <1>6, <1>7 DEF Block

\* A block with lastfree or the count changed.
LEMMA BlockCounts ==
    ASSUME NEW n, NEW K, NEW V, NEW N, NEW l, NEW c, NEW x, NEW m, m = Block(n, K, V, N, l, c)
    PROVE  /\ [m EXCEPT !.lastfree = x] = Block(n, K, V, N, x, c)
           /\ [m EXCEPT !.count = x] = Block(n, K, V, N, l, x)
BY DEF Block

\* insert(), behind a key that is at home.
LEMMA BehindHome ==
    ASSUME MapConstants, NEW m, IsMap(m), NEW k \in Keys, ~Has(m, k), NEW x \in MapValues,
           NEW s, s = MainSlot(m, k), KeysOf(m)[s] # NoKey,
           MainSlot(m, KeysOf(m)[s]) = s,
           \E i \in 1 .. SizeOf(m) : KeysOf(m)[i] = NoKey
    PROVE  Inserted(m, InsertInto(m, k, x), k, x)
<1> DEFINE n == SizeOf(m)
           K == KeysOf(m)
           V == ValuesOf(m)
           N == NextOf(m)
           e == NextFree(m)
           K2 == With(K, e, k)
           V2 == With(V, e, x)
           N2 == With(With(N, e, N[s]), s, e)
           r == Block(n, K2, V2, N2, e, m.count)
<1>1. /\ n \in Nat \ {0} /\ m = Block(n, K, V, N, m.lastfree, m.count)
      /\ K \in [1 .. n -> Keys \cup {NoKey}] /\ V \in [1 .. n -> MapValues \cup {NoValue}]
      /\ N \in [1 .. n -> 0 .. n]
      /\ \A i \in 1 .. n : m.slots[i].key = K[i] /\ m.slots[i].next = N[i]
  BY MapSays
<1>2. s = Home(k, n) /\ s \in 1 .. n /\ Home(K[s], n) = s
  <2>1. s = Home(k, n) /\ Home(K[s], n) = s
    BY DEF MainSlot, Home
  <2> QED
    BY <1>1, <2>1, HomeIs
<1>3. /\ e \in 1 .. n /\ K[e] = NoKey
      /\ \A i \in 1 .. n : i > e => K[i] # NoKey
  BY FreeIs
<1>4. /\ Sound(n, K, V, N, m.lastfree) /\ (\A i \in 1 .. n : K[i] # k) /\ K[s] # NoKey /\ e # s
  BY <1>3 DEF IsMap, Has
<1>5. InsertInto(m, k, x) =
        [m EXCEPT !.slots[e] = Entry(k, x, N[s]), !.slots[s].next = e, !.lastfree = e]
  <2>1. m.slots[s].key = K[s] /\ m.slots[s].next = N[s]
    BY <1>1, <1>2
  <2> QED
    BY <1>4, <2>1, Zenon DEF InsertInto, Entry
<1> HIDE DEF n, K, V, N, e
<1>6. InsertInto(m, k, x) = r
  <2>0. DOMAIN K = 1 .. n /\ DOMAIN V = 1 .. n /\ DOMAIN N = 1 .. n
    BY <1>1
  <2>1. PICK m1 : m1 = [m EXCEPT !.slots[e] = Entry(k, x, N[s])]
    OBVIOUS
  <2>2. m1 = Block(n, K2, V2, With(N, e, N[s]), m.lastfree, m.count)
    <3>1. PICK l, c : l = m.lastfree /\ c = m.count
      OBVIOUS
    <3>2. m = Block(n, K, V, N, l, c)
      BY <1>1, <3>1
    <3>3. PICK y : y = N[s]
      OBVIOUS
    <3>4. m1 = [m EXCEPT !.slots[e] = Entry(k, x, y)]
      BY <2>1, <3>3
    <3>5. m1 = Block(n, With(K, e, k), With(V, e, x), With(N, e, y), l, c)
      BY <1>3, <2>0, <3>2, <3>4, BlockSlot
    <3> QED
      BY <3>1, <3>3, <3>5
  <2>3. PICK m2 : m2 = [m1 EXCEPT !.slots[s].next = e]
    OBVIOUS
  <2>4. DOMAIN K2 = 1 .. n /\ DOMAIN V2 = 1 .. n /\ DOMAIN With(N, e, N[s]) = 1 .. n
    BY <2>0, WithDomain
  <2>5. m2 = Block(n, K2, V2, N2, m.lastfree, m.count)
    <3> HIDE DEF K2, V2
    <3> QED
      BY <1>2, <2>2, <2>3, <2>4, BlockNext
  <2>6. [m2 EXCEPT !.lastfree = e] = r
    BY <2>5, BlockCounts
  <2>7. InsertInto(m, k, x) = [m2 EXCEPT !.lastfree = e]
    BY <1>5, <2>1, <2>3
  <2> QED
    BY <2>6, <2>7
<1>7. Chains(n, K2, N2)
  BY <1>2, <1>3, <1>4, AtHome DEF Sound
<1>8. e \in 0 .. n /\ \A i \in 1 .. n : i > e => i # e
  BY <1>1, <1>3
<1>9. /\ K2[e] = k /\ V2[e] = x /\ N2[e] = N[s] /\ N2[s] = e /\ N2 \in [1 .. n -> 0 .. n]
      /\ V2 \in [1 .. n -> MapValues \cup {NoValue}]
      /\ \A i \in 1 .. n : i # e => K2[i] = K[i] /\ V2[i] = V[i]
      /\ \A i \in 1 .. n : i # e /\ i # s => N2[i] = N[i]
  BY <1>1, <1>2, <1>3, <1>4, <1>8 DEF With
<1> HIDE DEF K2, V2, N2
<1>10. \E C, S : Falls(n, N2, C, S)
  <2>1. PICK B, R : Falls(n, N, B, R)
    BY <1>4 DEF Sound
  <2>2. \A i \in 1 .. n : K[i] # NoKey /\ N[i] # 0 => K[N[i]] # NoKey
    BY <1>4, ChainsSay DEF Links, Sound
  <2>3. R[s] <= R[s]
    <3>1. R[s] \in Int
      BY <1>2, <2>1 DEF Falls
    <3> QED
      BY <3>1
  <2>4. LinkedIn(n, K, N, N2, R, e, s)
    BY <1>1, <1>2, <1>3, <1>4, <1>9, <2>2, <2>3 DEF LinkedIn
  <2> QED
    BY <2>1, <2>4, FallsIn
<1>11. Sound(n, K2, V2, N2, e)
  BY <1>3, <1>7, <1>8, <1>9, <1>10 DEF Sound
<1>12. OneKeyMore(n, K, V, K2, V2, k, x)
  BY <1>3, <1>4, <1>9 DEF OneKeyMore
<1>13. Inserted(m, r, k, x)
  BY <1>11, <1>12, InsertedIs DEF n, K, V
<1> QED
  BY <1>6, <1>13

\* insert(), in place of a key that is not at home and goes to a free slot.
LEMMA InPlace ==
    ASSUME MapConstants, NEW m, IsMap(m), NEW k \in Keys, ~Has(m, k), NEW x \in MapValues,
           NEW s, s = MainSlot(m, k), KeysOf(m)[s] # NoKey,
           MainSlot(m, KeysOf(m)[s]) # s,
           \E i \in 1 .. SizeOf(m) : KeysOf(m)[i] = NoKey
    PROVE  Inserted(m, InsertInto(m, k, x), k, x)
<1> DEFINE n == SizeOf(m)
           K == KeysOf(m)
           V == ValuesOf(m)
           N == NextOf(m)
           h == MainSlot(m, K[s])
           e == NextFree(m)
<1>1. /\ n \in Nat \ {0} /\ m = Block(n, K, V, N, m.lastfree, m.count)
      /\ K \in [1 .. n -> Keys \cup {NoKey}] /\ V \in [1 .. n -> MapValues \cup {NoValue}]
      /\ N \in [1 .. n -> 0 .. n] /\ DOMAIN m.slots = 1 .. n
      /\ \A i \in 1 .. n : m.slots[i].key = K[i] /\ m.slots[i].next = N[i]
  BY MapSays
<1>2. s = Home(k, n) /\ s \in 1 .. n /\ h = Home(K[s], n) /\ h # s
  <2>1. s = Home(k, n) /\ h = Home(K[s], n)
    BY DEF MainSlot, Home
  <2> QED
    BY <1>1, <2>1, HomeIs
<1>3. /\ e \in 1 .. n /\ K[e] = NoKey
      /\ \A i \in 1 .. n : i > e => K[i] # NoKey
  BY FreeIs
<1>4. /\ Sound(n, K, V, N, m.lastfree) /\ (\A i \in 1 .. n : K[i] # k) /\ K[s] # NoKey /\ e # s
  BY <1>3 DEF IsMap, Has
<1>5. PICK p \in 1 .. n :
             /\ K[p] # NoKey /\ N[p] = s
             /\ \A T : /\ p \in T
                       /\ \A j \in T : /\ j \in 1 .. n
                                       /\ K[j] # NoKey => N[j] = s
                       => FirstAt(From(m, h), T) = p
  BY <1>2, <1>4, LinkTo
<1>6. FirstAt(From(m, h), {j \in DOMAIN m.slots : m.slots[j].next = s}) = p
  <2> DEFINE T == {j \in DOMAIN m.slots : m.slots[j].next = s}
  <2>1. p \in T /\ \A j \in T : j \in 1 .. n /\ N[j] = s
    BY <1>1, <1>5
  <2> HIDE DEF T
  <2>2. FirstAt(From(m, h), T) = p
    BY <1>5, <2>1
  <2> QED
    BY <2>2 DEF T
<1>7. m.slots[s] = Entry(K[s], V[s], N[s])
  <2>1. m.slots = Cells(n, K, V, N)
    <3>1. Block(n, K, V, N, m.lastfree, m.count).slots = Cells(n, K, V, N)
      BY DEF Block
    <3> QED
      BY <1>1, <3>1
  <2> QED
    BY <1>2, <2>1 DEF Cells
<1>8. InsertInto(m, k, x) =
        [m EXCEPT !.slots[p].next = e, !.slots[e] = Entry(K[s], V[s], N[s]),
                  !.slots[s] = Entry(k, x, 0), !.lastfree = e]
  <2>1. m.slots[s].key = K[s]
    BY <1>1, <1>2
  <2>2. InsertInto(m, k, x) =
          [m EXCEPT !.slots[p].next = e, !.slots[e] = m.slots[s],
                    !.slots[s] = Entry(k, x, 0), !.lastfree = e]
    BY <1>2, <1>4, <1>6, <2>1, ZenonT(30) DEF InsertInto, Entry
  <2> QED
    BY <1>7, <2>2, Zenon
<1> HIDE DEF n, K, V, N, e, h
<1>9. PICK B, R : Falls(n, N, B, R)
  BY <1>4 DEF Sound
<1>a. \A i \in 1 .. n : R[i] \in Int
  BY <1>9 DEF Falls
<1>b. N[s] # s /\ R[s] <= R[p]
  <2>1. N[s] # 0 => R[N[s]] < R[s]
    BY <1>2, <1>9 DEF Falls
  <2>2. s # 0
    BY <1>1, <1>2
  <2>3. R[s] < R[p]
    BY <1>5, <1>9, <2>2 DEF Falls
  <2>4. R[s] \in Int /\ R[p] \in Int
    BY <1>2, <1>a
  <2> QED
    BY <2>1, <2>2, <2>3, <2>4
<1>c. p # s /\ p # e
  BY <1>3, <1>5, <1>b
<1> DEFINE K1 == With(K, e, K[s])
           V1 == With(V, e, V[s])
           N0 == With(N, p, e)
           N1 == With(N0, e, N[s])
           K2 == With(K1, s, k)
           V2 == With(V1, s, x)
           N2 == With(N1, s, 0)
           r == Block(n, K2, V2, N2, e, m.count)
<1>10. InsertInto(m, k, x) = r
  <2>0. DOMAIN K = 1 .. n /\ DOMAIN V = 1 .. n /\ DOMAIN N = 1 .. n
    BY <1>1
  <2>1. PICK m1 : m1 = [m EXCEPT !.slots[p].next = e]
    OBVIOUS
  <2>2. m1 = Block(n, K, V, N0, m.lastfree, m.count)
    <3>1. PICK l, c : l = m.lastfree /\ c = m.count
      OBVIOUS
    <3>2. m = Block(n, K, V, N, l, c)
      BY <1>1, <3>1
    <3>3. m1 = Block(n, K, V, With(N, p, e), l, c)
      BY <2>0, <2>1, <3>2, BlockNext
    <3> QED
      BY <3>1, <3>3
  <2>3. PICK m2 : m2 = [m1 EXCEPT !.slots[e] = Entry(K[s], V[s], N[s])]
    OBVIOUS
  <2>4. DOMAIN N0 = 1 .. n
    BY <2>0, WithDomain
  <2>5. m2 = Block(n, K1, V1, N1, m.lastfree, m.count)
    <3> HIDE DEF N0
    <3> QED
      BY <1>3, <2>0, <2>2, <2>3, <2>4, BlockSlot
  <2>6. PICK m3 : m3 = [m2 EXCEPT !.slots[s] = Entry(k, x, 0)]
    OBVIOUS
  <2>7. DOMAIN K1 = 1 .. n /\ DOMAIN V1 = 1 .. n /\ DOMAIN N1 = 1 .. n
    BY <2>0, <2>4, WithDomain
  <2>8. m3 = Block(n, K2, V2, N2, m.lastfree, m.count)
    <3> HIDE DEF K1, V1, N1
    <3> QED
      BY <1>2, <2>5, <2>6, <2>7, BlockSlot
  <2>9. [m3 EXCEPT !.lastfree = e] = r
    BY <2>8, BlockCounts
  <2>10. InsertInto(m, k, x) = [m3 EXCEPT !.lastfree = e]
    BY <1>8, <2>1, <2>3, <2>6
  <2> QED
    BY <2>9, <2>10
<1>11. Chains(n, K2, N2)
  <2>1. Chains(n, K, N) /\ Home(K[s], n) # s
    BY <1>2, <1>4 DEF Sound
  <2> QED
    BY <1>2, <1>3, <1>4, <1>5, <1>b, <2>1, Moves
<1>12. e \in 0 .. n /\ \A i \in 1 .. n : i > e => i # e
  BY <1>1, <1>3
<1>13. /\ K2[e] = K[s] /\ K2[s] = k /\ V2[e] = V[s] /\ V2[s] = x
       /\ V2 \in [1 .. n -> MapValues \cup {NoValue}]
       /\ \A i \in 1 .. n : i # e /\ i # s => K2[i] = K[i] /\ V2[i] = V[i]
  BY <1>1, <1>2, <1>3, <1>4 DEF With
<1>14. /\ N2[e] = N[s] /\ N2[p] = e /\ N2[s] = 0 /\ N2 \in [1 .. n -> 0 .. n]
       /\ \A i \in 1 .. n : i # e /\ i # s /\ i # p => N2[i] = N[i]
  <2>1. N0[p] = e /\ N0 \in [1 .. n -> 0 .. n] /\ \A i \in 1 .. n : i # p => N0[i] = N[i]
    BY <1>1, <1>12 DEF With
  <2> HIDE DEF N0
  <2>2. /\ N1[e] = N[s] /\ N1 \in [1 .. n -> 0 .. n] /\ \A i \in 1 .. n : i # e => N1[i] = N0[i]
    BY <1>1, <1>2, <1>3, <2>1 DEF With
  <2> HIDE DEF N1
  <2>3. /\ N2[s] = 0 /\ N2 \in [1 .. n -> 0 .. n] /\ \A i \in 1 .. n : i # s => N2[i] = N1[i]
    BY <1>1, <1>2, <2>2 DEF With
  <2> HIDE DEF N2
  <2> QED
    BY <1>2, <1>3, <1>4, <1>c, <2>1, <2>2, <2>3
<1> HIDE DEF K2, V2, N2
<1>15. \E C, S : Falls(n, N2, C, S)
  <2>1. \A i \in 1 .. n : K[i] # NoKey /\ N[i] # 0 => K[N[i]] # NoKey
    BY <1>4, ChainsSay DEF Links, Sound
  <2>2. \A i \in 1 .. n : i # e =>
            N2[i] \in {0, N[i]} \/ (K[i] # NoKey /\ N2[i] = e /\ R[s] <= R[i])
    BY <1>5, <1>b, <1>14
  <2>3. LinkedIn(n, K, N, N2, R, e, s)
    BY <1>1, <1>2, <1>3, <1>4, <1>14, <2>1, <2>2 DEF LinkedIn
  <2> QED
    BY <1>9, <2>3, FallsIn
<1>16. Sound(n, K2, V2, N2, e)
  <2>1. k # NoKey
    BY DEF MapConstants
  <2>2. \A i \in 1 .. n : i > e => K2[i] # NoKey
    BY <1>3, <1>12, <1>13, <2>1
  <2> QED
    BY <1>11, <1>12, <1>13, <1>14, <1>15, <2>2 DEF Sound
<1>17. OneKeyMore(n, K, V, K2, V2, k, x)
  <2>1. \A i \in 1 .. n : K2[i] = k => i = s
    BY <1>2, <1>4, <1>13
  <2>2. ASSUME NEW i \in 1 .. n, K2[i] # NoKey, K2[i] # k
        PROVE  \E j \in 1 .. n : K[j] = K2[i] /\ V[j] = V2[i]
    <3>1. i # s
      BY <1>13, <2>2
    <3>2. CASE i = e
      BY <1>2, <1>13, <3>2
    <3>3. CASE i # e
      BY <1>13, <3>1, <3>3
    <3> QED
      BY <3>2, <3>3
  <2>3. ASSUME NEW j \in 1 .. n, K[j] # NoKey PROVE \E i \in 1 .. n : K2[i] = K[j]
    <3>1. CASE j = s
      BY <1>3, <1>13, <3>1
    <3>2. CASE j # s
      BY <1>3, <1>13, <2>3, <3>2
    <3> QED
      BY <3>1, <3>2
  <2> QED
    BY <1>2, <1>13, <2>1, <2>2, <2>3 DEF OneKeyMore
<1>18. Inserted(m, r, k, x)
  BY <1>16, <1>17, InsertedIs DEF n, K, V
<1> QED
  BY <1>10, <1>18

\* insert()
LEMMA InsertIntoIs ==
    ASSUME MapConstants, NEW m, IsMap(m), NEW k \in Keys, ~Has(m, k), NEW x \in MapValues,
           \E i \in 1 .. SizeOf(m) : KeysOf(m)[i] = NoKey
    PROVE  Inserted(m, InsertInto(m, k, x), k, x)
BY IntoEmpty, BehindHome, InPlace

-----------------------------------------------------------------------------
(* How much a block has.                                                   *)

\* As many slots are in use as keys are stored: with fewer there is room.
LEMMA UsedCounted ==
    ASSUME MapConstants, NEW m, IsMap(m), NEW p \in Puts, Stores(m, p)
    PROVE  /\ IsFiniteSet(Stored(p)) /\ Cardinality(Stored(p)) \in Nat
           /\ Cardinality(Stored(p)) <= SizeOf(m)
           /\ Cardinality(Stored(p)) # SizeOf(m) =>
                \E i \in 1 .. SizeOf(m) : KeysOf(m)[i] = NoKey
<1> DEFINE n == SizeOf(m)
           K == KeysOf(m)
           U == {i \in 1 .. n : K[i] # NoKey}
           f == [i \in U |-> K[i]]
<1>1. n \in Nat /\ K \in [1 .. n -> Keys \cup {NoKey}]
  BY MapSays
<1>2. \A i, j \in 1 .. n : K[i] = K[j] /\ K[i] # NoKey => i = j
  BY DEF IsMap, Sound, Chains
<1>3. /\ \A i \in 1 .. n : K[i] # NoKey => p[K[i]] # NoValue
      /\ \A k \in Stored(p) : \E i \in 1 .. n : K[i] = k
  BY DEF Stores, Holding
<1> HIDE DEF n, K
<1>4. IsFiniteSet(U) /\ Cardinality(U) <= n /\ (Cardinality(U) = n => U = 1 .. n)
  <2>1. 1 \in Int /\ n \in Int
    BY <1>1
  <2>2. IsFiniteSet(1 .. n) /\ Cardinality(1 .. n) = n
    BY <1>1, <2>1, FS_Interval
  <2>3. U \in SUBSET (1 .. n)
    OBVIOUS
  <2> HIDE DEF U
  <2> QED
    BY <2>2, <2>3, FS_Subset
<1>5. ExistsBijection(U, Stored(p))
  <2>1. \A i \in U : K[i] \in Stored(p)
    BY <1>1, <1>3 DEF Stored
  <2>2. \A k \in Stored(p) : \E i \in U : K[i] = k
    BY <1>3 DEF Stored, MapConstants
  <2>3. f \in Bijection(U, Stored(p))
    BY <1>2, <2>1, <2>2 DEF Bijection, Injection, Surjection, IsInjective
  <2> QED
    BY <2>3 DEF ExistsBijection
<1> HIDE DEF f
<1>6. IsFiniteSet(Stored(p)) /\ Cardinality(Stored(p)) = Cardinality(U)
  <2> HIDE DEF U
  <2> QED
    BY <1>4, <1>5, FS_Bijection
<1>7. Cardinality(U) \in Nat
  BY <1>4, FS_CardinalityType
<1>8. ASSUME Cardinality(Stored(p)) # n, \A i \in 1 .. n : K[i] # NoKey PROVE FALSE
  <2>1. U = 1 .. n
    BY <1>8
  <2>2. IsFiniteSet(1 .. n) /\ Cardinality(1 .. n) = n
    <3>1. 1 \in Int /\ n \in Int
      BY <1>1
    <3> QED
      BY <1>1, <3>1, FS_Interval
  <2> QED
    BY <1>6, <1>8, <2>1, <2>2
<1> QED
  BY <1>4, <1>6, <1>7, <1>8 DEF n, K

\* What a value put under a key adds.
LEMMA StoredWith ==
    ASSUME MapConstants, NEW p \in Puts, NEW k \in Keys, NEW x \in MapValues
    PROVE  With(p, k, x) \in Puts /\ Stored(With(p, k, x)) = Stored(p) \cup {k}
<1>1. DOMAIN p = Keys /\ x # NoValue
  BY DEF Puts, MapConstants
<1> QED
  BY <1>1 DEF With, Stored, Puts

\* What a removal takes away.
LEMMA StoredWithout ==
    ASSUME NEW p \in Puts, NEW k \in Keys
    PROVE  With(p, k, NoValue) \in Puts /\ Stored(With(p, k, NoValue)) = Stored(p) \ {k}
<1>1. DOMAIN p = Keys
  BY DEF Puts
<1> QED
  BY <1>1 DEF With, Stored, Puts

-----------------------------------------------------------------------------
(* A new block.                                                            *)

NothingPut == [k \in Keys |-> NoValue]
EmptyMap(n, c) == [slots |-> EmptySlots(n), lastfree |-> n, count |-> c]

\* A new block is in order and holds nothing.
LEMMA EmptyIs ==
    ASSUME MapConstants, NEW n \in Nat \ {0}, NEW c \in Nat
    PROVE  /\ IsMap(EmptyMap(n, c)) /\ SizeOf(EmptyMap(n, c)) = n
           /\ EmptyMap(n, c).count = c /\ Stores(EmptyMap(n, c), NothingPut)
           /\ NothingPut \in Puts /\ Stored(NothingPut) = {}
<1> DEFINE K == [i \in 1 .. n |-> NoKey]
           V == [i \in 1 .. n |-> NoValue]
           N == [i \in 1 .. n |-> 0]
           R == [i \in 1 .. n |-> 0]
<1>1. EmptyMap(n, c) = Block(n, K, V, N, n, c)
  BY DEF EmptyMap, EmptySlots, Block, Cells, Entry
<1>2. Chains(n, K, N)
  <2>1. K \in [1 .. n -> Keys \cup {NoKey}] /\ N \in [1 .. n -> 0 .. n] /\ \A i \in 1 .. n : K[i] = NoKey
    OBVIOUS
  <2> HIDE DEF K, N
  <2> QED
    BY <2>1 DEF Chains
<1>3. Falls(n, N, 0, R)
  BY DEF Falls
<1>4. V \in [1 .. n -> MapValues \cup {NoValue}] /\ n \in 0 .. n
  OBVIOUS
<1>5. \A i \in 1 .. n : ~ (i > n) /\ K[i] = NoKey
  OBVIOUS
<1> HIDE DEF K, V, N, R
<1>6. Sound(n, K, V, N, n)
  BY <1>2, <1>3, <1>4, <1>5 DEF Sound
<1>7. IsMap(Block(n, K, V, N, n, c)) /\ View(Block(n, K, V, N, n, c), n, K, V, N, n, c)
  BY <1>6, MapFrom
<1>8. NothingPut \in Puts /\ Stored(NothingPut) = {}
  BY DEF NothingPut, Puts, Stored
<1>9. Holding(n, K, V, NothingPut)
  BY <1>5, <1>8 DEF Holding
<1> QED
  BY <1>1, <1>7, <1>8, <1>9 DEF View, Stores

\* What was put in, as far as it was at the first i slots.
Upto(m, p, i) ==
    [k \in Keys |-> IF \E j \in 1 .. i : KeysOf(m)[j] = k THEN p[k] ELSE NoValue]

\* From none of the slots to all of them.
LEMMA UptoIs ==
    ASSUME MapConstants, NEW m, IsMap(m), NEW p \in Puts, Stores(m, p),
           NEW n, n = SizeOf(m)
    PROVE  /\ Upto(m, p, 0) = NothingPut /\ Upto(m, p, n) = p
           /\ \A i \in 1 .. n :
                /\ KeysOf(m)[i] = NoKey => Upto(m, p, i) = Upto(m, p, i - 1)
                /\ KeysOf(m)[i] # NoKey =>
                     /\ KeysOf(m)[i] \in Keys /\ ValuesOf(m)[i] \in MapValues
                     /\ Upto(m, p, i) = With(Upto(m, p, i - 1), KeysOf(m)[i], ValuesOf(m)[i])
                     /\ KeysOf(m)[i] \notin Stored(Upto(m, p, i - 1))
                     /\ KeysOf(m)[i] \in Stored(p)
                /\ Upto(m, p, i - 1) \in Puts /\ Stored(Upto(m, p, i - 1)) \subseteq Stored(p)
<1> DEFINE K == KeysOf(m)
           V == ValuesOf(m)
<1>1. /\ n \in Nat \ {0} /\ K \in [1 .. n -> Keys \cup {NoKey}]
      /\ V \in [1 .. n -> MapValues \cup {NoValue}] /\ NoKey \notin Keys
  BY MapSays DEF MapConstants
<1>2. \A i, j \in 1 .. n : K[i] = K[j] /\ K[i] # NoKey => i = j
  BY DEF IsMap, Sound, Chains
<1>3. /\ \A i \in 1 .. n : K[i] # NoKey => V[i] # NoValue /\ p[K[i]] = V[i]
      /\ \A k \in Stored(p) : \E i \in 1 .. n : K[i] = k
  BY DEF Stores, Holding
<1>p. p = [k \in Keys |-> p[k]] /\ \A k \in Keys : p[k] \in MapValues \cup {NoValue}
  BY DEF Puts
<1> DEFINE U(i) == [k \in Keys |-> IF \E j \in 1 .. i : K[j] = k THEN p[k] ELSE NoValue]
<1>0. \A i \in 0 .. n : Upto(m, p, i) = U(i)
  BY DEF Upto
<1> HIDE DEF K, V
<1>4. U(0) = NothingPut
  BY DEF NothingPut
<1>5. U(n) = p
  <2>1. \A k \in Keys : U(n)[k] = p[k]
    BY <1>3 DEF Stored
  <2> HIDE DEF U
  <2> QED
    BY <1>p, <2>1 DEF U
<1>6. ASSUME NEW i \in 1 .. n, K[i] = NoKey PROVE U(i) = U(i - 1)
  <2>1. \A k \in Keys : (\E j \in 1 .. i : K[j] = k) <=> (\E j \in 1 .. i - 1 : K[j] = k)
    BY <1>1, <1>6
  <2> QED
    BY <2>1
<1>7. ASSUME NEW i \in 1 .. n, K[i] # NoKey
      PROVE  /\ K[i] \in Keys /\ V[i] \in MapValues
             /\ U(i) = With(U(i - 1), K[i], V[i])
             /\ K[i] \notin Stored(U(i - 1)) /\ K[i] \in Stored(p)
  <2>1. K[i] \in Keys /\ V[i] \in MapValues /\ V[i] = p[K[i]] /\ V[i] # NoValue
    BY <1>1, <1>3, <1>7
  <2>2. \A k \in Keys : (\E j \in 1 .. i : K[j] = k) <=> k = K[i] \/ (\E j \in 1 .. i - 1 : K[j] = k)
    <3>1. \A j \in 1 .. i : j = i \/ j \in 1 .. i - 1
      BY <1>1
    <3>2. i \in 1 .. i /\ \A j \in 1 .. i - 1 : j \in 1 .. i
      BY <1>1
    <3> QED
      BY <3>1, <3>2
  <2>3. U(i) = With(U(i - 1), K[i], V[i])
    BY <2>1, <2>2 DEF With
  <2>4. ~ \E j \in 1 .. i - 1 : K[j] = K[i]
    BY <1>1, <1>2, <1>7
  <2> QED
    BY <2>1, <2>3, <2>4 DEF Stored
<1>8. ASSUME NEW i \in 1 .. n PROVE U(i - 1) \in Puts /\ Stored(U(i - 1)) \subseteq Stored(p)
  BY <1>p DEF Puts, Stored
<1>9. 0 \in 0 .. n /\ n \in 0 .. n /\ \A i \in 1 .. n : i \in 0 .. n /\ i - 1 \in 0 .. n
  BY <1>1
<1> HIDE DEF U
<1> QED
  BY <1>0, <1>4, <1>5, <1>6, <1>7, <1>8, <1>9 DEF K, V

-----------------------------------------------------------------------------
(* A larger block, a smaller one.                                          *)

\* What resize() has done when it has come past slot i.
MovedOver(m, p, n, r, i) ==
    IsMap(r) /\ SizeOf(r) = n /\ r.count = m.count /\ Stores(r, Upto(m, p, i))
MoveOver(m, r, i) ==
    IF m.slots[i].key = NoKey THEN r ELSE InsertInto(r, m.slots[i].key, m.slots[i].value)
MovesOver(f, m, n) ==
    f = [i \in 0 .. SizeOf(m) |->
           IF i = 0 THEN [slots |-> EmptySlots(n), lastfree |-> n, count |-> m.count]
           ELSE IF m.slots[i].key = NoKey THEN f[i - 1]
           ELSE InsertInto(f[i - 1], m.slots[i].key, m.slots[i].value)]

\* A step of it finds room, as there are no more keys than slots.
LEMMA MoveOverStep ==
    ASSUME MapConstants, NEW m, IsMap(m), NEW p \in Puts, Stores(m, p),
           NEW n \in Nat, Cardinality(Stored(p)) <= n,
           NEW i \in 1 .. SizeOf(m), NEW r, MovedOver(m, p, n, r, i - 1)
    PROVE  MovedOver(m, p, n, MoveOver(m, r, i), i)
<1> DEFINE k == KeysOf(m)[i]
           x == ValuesOf(m)[i]
           q == Upto(m, p, i - 1)
<1>1. m.slots[i].key = k /\ m.slots[i].value = x
  BY MapSays
<1>2. /\ k = NoKey => Upto(m, p, i) = q
      /\ k # NoKey => /\ k \in Keys /\ x \in MapValues /\ Upto(m, p, i) = With(q, k, x)
                      /\ k \notin Stored(q) /\ k \in Stored(p)
      /\ q \in Puts /\ Stored(q) \subseteq Stored(p)
  BY UptoIs
<1>3. IsFiniteSet(Stored(p)) /\ Cardinality(Stored(p)) \in Nat
  BY UsedCounted
<1> HIDE DEF k, x, q
<1>4. IsMap(r) /\ SizeOf(r) = n /\ r.count = m.count /\ Stores(r, q)
  BY DEF MovedOver, q
<1>5. CASE k = NoKey
  BY <1>1, <1>2, <1>4, <1>5 DEF MovedOver, MoveOver
<1>6. CASE k # NoKey
  <2>1. IsFiniteSet(Stored(q)) /\ Cardinality(Stored(q)) \in Nat
    BY <1>2, <1>4, UsedCounted
  <2>2. Cardinality(Stored(q)) # n
    <3>1. Stored(q) \in SUBSET Stored(p) /\ Stored(q) # Stored(p)
      BY <1>2, <1>6
    <3>2. Cardinality(Stored(q)) <= Cardinality(Stored(p))
          /\ Cardinality(Stored(p)) # Cardinality(Stored(q))
      BY <1>3, <3>1, FS_Subset
    <3> QED
      BY <1>3, <2>1, <3>2
  <2>3. \E j \in 1 .. SizeOf(r) : KeysOf(r)[j] = NoKey
    BY <1>2, <1>4, <2>2, UsedCounted
  <2>4. ~Has(r, k)
    <3>1. \A j \in 1 .. SizeOf(r) : KeysOf(r)[j] # NoKey => q[KeysOf(r)[j]] # NoValue
      BY <1>4 DEF Stores, Holding
    <3> QED
      BY <1>2, <1>6, <3>1 DEF Has, Stored
  <2>5. Inserted(r, InsertInto(r, k, x), k, x)
    BY <1>2, <1>4, <1>6, <2>3, <2>4, InsertIntoIs
  <2> QED
    BY <1>1, <1>2, <1>4, <1>6, <2>5 DEF Inserted, MovedOver, MoveOver
<1> QED
  BY <1>5, <1>6

\* resize(): the same keys and values in another block.
LEMMA ResizedIs ==
    ASSUME MapConstants, NEW m, IsMap(m), NEW p \in Puts, Stores(m, p),
           NEW n \in Nat \ {0}, Cardinality(Stored(p)) <= n, m.count <= n
    PROVE  /\ IsMap(ResizedMap(m, n)) /\ SizeOf(ResizedMap(m, n)) = n
           /\ ResizedMap(m, n).count = m.count /\ Stores(ResizedMap(m, n), p)
<1> DEFINE l == SizeOf(m)
           f == CHOOSE f : MovesOver(f, m, n)
           fresh == EmptyMap(n, m.count)
           step == [x \in MapBlocks \X (1 .. l) |->
                      IF MoveOver(m, x[1], x[2]) \in MapBlocks THEN MoveOver(m, x[1], x[2]) ELSE x[1]]
<1>1. l \in Nat \ {0} /\ m.count \in Nat
  BY MapSays
<1>2. ResizedMap(m, n) = f[l]
  BY <1>1 DEF ResizedMap, MovesOver
<1>3. MovedOver(m, p, n, fresh, 0)
  BY <1>1, EmptyIs, UptoIs DEF MovedOver
<1>4. \A r, i : MovedOver(m, p, n, r, i) => r \in MapBlocks
  BY DEF MovedOver, IsMap
<1>5. \E g : MovesOver(g, m, n)
  <2>1. step \in [MapBlocks \X (1 .. l) -> MapBlocks]
    OBVIOUS
  <2>2. fresh \in MapBlocks
    BY <1>3, <1>4
  <2> HIDE DEF step, fresh, f
  <2>3. PICK g \in [0 .. l -> MapBlocks] : Unfolded(g, l, fresh, step)
    BY <1>1, <2>1, <2>2, Unfolds
  <2>4. g[0] = fresh /\ \A i \in 1 .. l : g[i] = step[<<g[i - 1], i>>] /\ i - 1 \in 0 .. l
    BY <1>1, <2>3 DEF Unfolded
  <2> DEFINE T == {i \in 0 .. l : MovedOver(m, p, n, g[i], i)}
  <2>5. 0 \in T
    BY <1>1, <1>3, <2>4
  <2>6. ASSUME NEW i \in 1 .. l, i - 1 \in T
        PROVE  i \in T /\ step[<<g[i - 1], i>>] = MoveOver(m, g[i - 1], i)
    <3>1. PICK r : r = g[i - 1]
      OBVIOUS
    <3>2. MovedOver(m, p, n, MoveOver(m, r, i), i)
      BY <2>6, <3>1, MoveOverStep
    <3>3. MoveOver(m, r, i) \in MapBlocks /\ r \in MapBlocks
      BY <1>4, <2>3, <2>4, <3>1, <3>2
    <3>4. <<r, i>> \in MapBlocks \X (1 .. l)
      BY <3>3
    <3>5. step[<<r, i>>] = MoveOver(m, r, i)
      BY <3>3, <3>4 DEF step
    <3>6. i \in 0 .. l
      OBVIOUS
    <3> QED
      BY <2>4, <3>1, <3>2, <3>5, <3>6
  <2>7. 0 .. l \subseteq T
    <3> HIDE DEF T
    <3> QED
      BY <1>1, <2>5, <2>6, AlongPositions
  <2>8. \A i \in 1 .. l : g[i] = MoveOver(m, g[i - 1], i)
    <3>1. \A i \in 1 .. l : i - 1 \in T
      <4> HIDE DEF T
      <4> QED
        BY <2>4, <2>7
    <3> HIDE DEF T
    <3> QED
      BY <2>4, <2>6, <3>1
  <2>9. \A i \in 0 .. l : i # 0 => i \in 1 .. l
    BY <1>1
  <2>10. g = [i \in 0 .. l |-> g[i]]
    BY <2>3
  <2>11. MovesOver(g, m, n)
    <3>1. g = [i \in 0 .. l |-> IF i = 0 THEN fresh ELSE MoveOver(m, g[i - 1], i)]
      BY <2>4, <2>8, <2>9, <2>10
    <3> QED
      BY <3>1 DEF MovesOver, MoveOver, fresh, EmptyMap
  <2> QED
    BY <2>11
<1>6. MovesOver(f, m, n)
  BY <1>5
<1> HIDE DEF f, step
<1>7. f[0] = fresh /\ \A i \in 1 .. l : f[i] = MoveOver(m, f[i - 1], i)
  BY <1>1, <1>6 DEF MovesOver, MoveOver, EmptyMap
<1> DEFINE T == {i \in 0 .. l : MovedOver(m, p, n, f[i], i)}
<1>8. 0 \in T
  BY <1>1, <1>3, <1>7
<1>9. ASSUME NEW i \in 1 .. l, i - 1 \in T PROVE i \in T
  <2>1. PICK r : r = f[i - 1]
    OBVIOUS
  <2>2. MovedOver(m, p, n, MoveOver(m, r, i), i)
    BY <1>9, <2>1, MoveOverStep
  <2> QED
    BY <1>7, <2>1, <2>2
<1>10. MovedOver(m, p, n, f[l], l)
  <2>1. 0 .. l \subseteq T
    <3> HIDE DEF T
    <3> QED
      BY <1>1, <1>8, <1>9, AlongPositions
  <2>2. l \in T
    <3> HIDE DEF T
    <3> QED
      BY <1>1, <2>1
  <2> QED
    BY <2>2
<1> QED
  BY <1>2, <1>10, UptoIs DEF MovedOver

-----------------------------------------------------------------------------
(* A key more.                                                             *)

\* The keys a block has are those that are stored.
LEMMA HasIs ==
    ASSUME MapConstants, NEW m, NEW p \in Puts, Stores(m, p), NEW k \in Keys
    PROVE  Has(m, k) <=> k \in Stored(p)
<1>1. k # NoKey
  BY DEF MapConstants
<1> QED
  BY <1>1 DEF Stores, Holding, Has, Stored

\* The count is apart from the rest.
LEMMA CountApart ==
    ASSUME MapConstants, NEW m, IsMap(m), NEW c \in Nat, NEW r, r = [m EXCEPT !.count = c]
    PROVE  /\ IsMap(r) /\ SizeOf(r) = SizeOf(m) /\ r.count = c
           /\ \A p : Stores(m, p) => Stores(r, p)
<1> DEFINE n == SizeOf(m)
           K == KeysOf(m)
           V == ValuesOf(m)
           N == NextOf(m)
<1>1. m = Block(n, K, V, N, m.lastfree, m.count) /\ Sound(n, K, V, N, m.lastfree)
  BY MapSays DEF IsMap
<1>2. r = Block(n, K, V, N, m.lastfree, c)
  <2>1. PICK l, d : l = m.lastfree /\ d = m.count
    OBVIOUS
  <2>2. m = Block(n, K, V, N, l, d)
    BY <1>1, <2>1
  <2> HIDE DEF n, K, V, N
  <2>3. r = Block(n, K, V, N, l, c)
    BY <2>2 DEF Block
  <2> QED
    BY <2>1, <2>3
<1>3. IsMap(r) /\ View(r, n, K, V, N, m.lastfree, c)
  <2> HIDE DEF n, K, V, N
  <2> QED
    BY <1>1, <1>2, MapFrom
<1> QED
  BY <1>3 DEF View, Stores

\* be_map_insert() of a new key: it has its value, the others keep theirs.
LEMMA AddedIs ==
    ASSUME MapConstants, NEW m, IsMap(m), NEW p \in Puts, Stores(m, p),
           m.count = Cardinality(Stored(p)), m.count <= LargestSize,
           NEW k \in Keys, k \notin Stored(p), NEW x \in MapValues
    PROVE  /\ IsMap(Added(m, k, x)) /\ Stores(Added(m, k, x), With(p, k, x))
           /\ Added(m, k, x).count = m.count + 1
<1> DEFINE room == IF m.count >= SizeOf(m) THEN ResizedMap(m, NextSize(SizeOf(m))) ELSE m
<1>1. /\ SizeOf(m) \in Nat /\ m.count \in Nat /\ IsFiniteSet(Stored(p)) /\ m.count <= SizeOf(m)
  BY MapSays, UsedCounted
<1>2. /\ IsMap(room) /\ Stores(room, p) /\ room.count = m.count /\ m.count < SizeOf(room)
      /\ SizeOf(room) \in Nat
  <2>1. CASE m.count >= SizeOf(m)
    <3>1. SizeOf(m) <= LargestSize
      BY <1>1, <2>1
    <3>2. PICK n : n = NextSize(SizeOf(m))
      OBVIOUS
    <3>3. n \in Nat /\ n > SizeOf(m)
      BY <1>1, <3>1, <3>2, NextIsLarger
    <3>4. n \in Nat \ {0} /\ m.count <= n /\ m.count < n
      BY <1>1, <3>3
    <3>5. room = ResizedMap(m, n)
      BY <2>1, <3>2
    <3>6. /\ IsMap(ResizedMap(m, n)) /\ SizeOf(ResizedMap(m, n)) = n
          /\ ResizedMap(m, n).count = m.count /\ Stores(ResizedMap(m, n), p)
      BY <3>4, ResizedIs
    <3> QED
      BY <3>4, <3>5, <3>6
  <2>2. CASE ~ (m.count >= SizeOf(m))
    BY <1>1, <2>2
  <2> QED
    BY <2>1, <2>2
<1>3. Added(m, k, x) = [InsertInto(room, k, x) EXCEPT !.count = @ + 1]
  BY DEF Added
<1> HIDE DEF room
<1>4. ~Has(room, k)
  BY <1>2, HasIs
<1>5. \E i \in 1 .. SizeOf(room) : KeysOf(room)[i] = NoKey
  <2>1. Cardinality(Stored(p)) # SizeOf(room)
    BY <1>1, <1>2
  <2> QED
    BY <1>2, <2>1, UsedCounted
<1>6. PICK r : r = InsertInto(room, k, x)
  OBVIOUS
<1>7. IsMap(r) /\ r.count = m.count /\ Stores(r, With(p, k, x))
  <2>1. Inserted(room, InsertInto(room, k, x), k, x)
    BY <1>2, <1>4, <1>5, InsertIntoIs
  <2> QED
    BY <1>2, <1>6, <2>1 DEF Inserted
<1>8. PICK c \in Nat : c = m.count + 1
  BY <1>1
<1>9. PICK s : s = [r EXCEPT !.count = c]
  OBVIOUS
<1>10. IsMap(s) /\ s.count = c /\ Stores(s, With(p, k, x))
  BY <1>7, <1>9, CountApart
<1>11. Added(m, k, x) = s
  BY <1>3, <1>6, <1>7, <1>8, <1>9
<1> QED
  BY <1>8, <1>10, <1>11

-----------------------------------------------------------------------------
(* A key less.                                                             *)

Removed(m, r, k) ==
    /\ IsMap(r) /\ SizeOf(r) = SizeOf(m) /\ r.count = m.count - 1
    /\ \A p \in Puts : Stores(m, p) => Stores(r, With(p, k, NoValue))

\* The key is gone, the others keep their values wherever they are now.
OneKeyLess(n, K, V, K2, V2, k) ==
    /\ \A i \in 1 .. n : K2[i] # NoKey =>
         K2[i] # k /\ \E j \in 1 .. n : K[j] = K2[i] /\ V[j] = V2[i]
    /\ \A j \in 1 .. n : K[j] # NoKey /\ K[j] # k => \E i \in 1 .. n : K2[i] = K[j]

\* What is held after a key is gone.
LEMMA HoldingLess ==
    ASSUME MapConstants, NEW n, NEW K, NEW V, NEW K2 \in [1 .. n -> Keys \cup {NoKey}], NEW V2,
           NEW k \in Keys, OneKeyLess(n, K, V, K2, V2, k),
           NEW p \in Puts, Holding(n, K, V, p)
    PROVE  Holding(n, K2, V2, With(p, k, NoValue))
<1> DEFINE q == With(p, k, NoValue)
<1>1. q[k] = NoValue /\ \A l \in Keys : l # k => q[l] = p[l]
  BY DEF With, Puts
<1> HIDE DEF q
<1>2. ASSUME NEW i \in 1 .. n, K2[i] # NoKey PROVE V2[i] # NoValue /\ q[K2[i]] = V2[i]
  BY <1>1, <1>2 DEF OneKeyLess, Holding
<1>3. ASSUME NEW l \in Stored(q) PROVE \E i \in 1 .. n : K2[i] = l
  <2>1. l \in Keys /\ l # k /\ l \in Stored(p) /\ l # NoKey
    BY <1>1 DEF Stored, MapConstants
  <2> QED
    BY <2>1 DEF OneKeyLess, Holding
<1> QED
  BY <1>2, <1>3 DEF Holding, q

\* A block in order with one key less is what a removal leaves.
LEMMA RemovedAs ==
    ASSUME MapConstants, NEW m, IsMap(m), NEW K2, NEW V2, NEW N2, NEW l,
           Sound(SizeOf(m), K2, V2, N2, l), m.count # 0,
           NEW k \in Keys, OneKeyLess(SizeOf(m), KeysOf(m), ValuesOf(m), K2, V2, k)
    PROVE  Removed(m, Block(SizeOf(m), K2, V2, N2, l, m.count - 1), k)
<1> DEFINE r == Block(SizeOf(m), K2, V2, N2, l, m.count - 1)
<1>1. m.count - 1 \in Nat
  BY MapSays
<1>2. IsMap(r) /\ View(r, SizeOf(m), K2, V2, N2, l, m.count - 1)
  BY <1>1, MapFrom
<1> HIDE DEF r
<1>3. K2 \in [1 .. SizeOf(m) -> Keys \cup {NoKey}]
  BY ChainsSay DEF Sound
<1>4. ASSUME NEW p \in Puts, Stores(m, p) PROVE Stores(r, With(p, k, NoValue))
  <2>1. Holding(SizeOf(m), K2, V2, With(p, k, NoValue))
    BY <1>3, <1>4, HoldingLess DEF Stores
  <2> QED
    BY <1>2, <2>1 DEF Stores, View
<1>5. Removed(m, r, k)
  BY <1>2, <1>4 DEF Removed, View
<1> QED
  BY <1>5 DEF r

\* setnil(), and the next free slot is at least this one.
Above(l, i) == IF l < i THEN i ELSE l

\* setnil(), as a block.
LEMMA FreedIs ==
    ASSUME NEW n, NEW K, NEW V, NEW N, NEW l, NEW c,
           DOMAIN K = 1 .. n, DOMAIN V = 1 .. n, DOMAIN N = 1 .. n,
           NEW i \in 1 .. n, NEW m, m = Block(n, K, V, N, l, c)
    PROVE  Freed(m, i) = Block(n, With(K, i, NoKey), V, N, Above(l, i), c - 1)
<1>1. PICK a : a = [m EXCEPT !.slots[i].key = NoKey]
  OBVIOUS
<1>2. a = Block(n, With(K, i, NoKey), V, N, l, c)
  BY <1>1, BlockKey
<1>3. PICK y, z : y = Above(l, i) /\ z = c - 1
  OBVIOUS
<1>4. m.lastfree = l /\ m.count = c
  BY DEF Block
<1>5. Freed(m, i) = [a EXCEPT !.count = z, !.lastfree = y]
  BY <1>1, <1>3, <1>4, Zenon DEF Freed, Above
<1>6. PICK b : b = [a EXCEPT !.count = z]
  OBVIOUS
<1>7. PICK K2 : K2 = With(K, i, NoKey)
  OBVIOUS
<1>8. b = Block(n, K2, V, N, l, z)
  BY <1>2, <1>6, <1>7 DEF Block
<1>9. [b EXCEPT !.lastfree = y] = Block(n, K2, V, N, y, z)
  BY <1>8, BlockCounts
<1>10. [a EXCEPT !.count = z, !.lastfree = y] = [b EXCEPT !.lastfree = y]
  BY <1>6, SMTT(30)
<1> QED
  BY <1>3, <1>5, <1>7, <1>9, <1>10

\* be_map_remove() of a key that is not there.
LEMMA NoneGoes ==
    ASSUME MapConstants, NEW m, IsMap(m), NEW k \in Keys, ~Has(m, k)
    PROVE  RemovedFrom(m, k) = m
<1> DEFINE n == SizeOf(m)
           s == MainSlot(m, k)
           T == {j \in DOMAIN m.slots : m.slots[j].next # 0 /\ m.slots[m.slots[j].next].key = k}
<1>1. /\ n \in Nat \ {0} /\ DOMAIN m.slots = 1 .. n /\ NextOf(m) \in [1 .. n -> 0 .. n]
      /\ \A j \in 1 .. n : m.slots[j].key = KeysOf(m)[j] /\ m.slots[j].next = NextOf(m)[j]
  BY MapSays
<1>2. s \in 1 .. n
  <2>1. s = Home(k, n)
    BY DEF MainSlot, Home
  <2> QED
    BY <1>1, <2>1, HomeIs
<1>3. m.slots[s].key # k
  BY <1>1, <1>2 DEF Has
<1>4. T = {}
  BY <1>1 DEF Has
<1>5. FirstAt(From(m, s), T) = 0
  <2> HIDE DEF T, s
  <2> QED
    BY <1>4, NoFirstAt
<1> QED
  BY <1>3, <1>5 DEF RemovedFrom

\* What a block of a key is, for the three ways to remove it.
Parted(m, k, n, K, V, N, t, l, c) ==
    /\ n \in Nat \ {0} /\ m = Block(n, K, V, N, l, c)
    /\ n = SizeOf(m) /\ K = KeysOf(m) /\ V = ValuesOf(m) /\ N = NextOf(m)
    /\ l = m.lastfree /\ c = m.count
    /\ K \in [1 .. n -> Keys \cup {NoKey}] /\ V \in [1 .. n -> MapValues \cup {NoValue}]
    /\ N \in [1 .. n -> 0 .. n] /\ DOMAIN m.slots = 1 .. n
    /\ \A j \in 1 .. n : m.slots[j].key = K[j] /\ m.slots[j].next = N[j]
    /\ \A j \in 1 .. n : m.slots[j] = Entry(K[j], V[j], N[j])
    /\ Sound(n, K, V, N, l) /\ t \in 1 .. n /\ K[t] = k /\ k # NoKey
    /\ \A i, j \in 1 .. n : K[i] = K[j] /\ K[i] # NoKey => i = j
    /\ \A i \in 1 .. n : N[i] # 0 => N[i] # i
    /\ l \in 0 .. n /\ \A i \in 1 .. n : i > l => K[i] # NoKey

\* A block is made of such parts.
LEMMA PartedIs ==
    ASSUME MapConstants, NEW m, IsMap(m), NEW k \in Keys, Has(m, k)
    PROVE  \E t : Parted(m, k, SizeOf(m), KeysOf(m), ValuesOf(m), NextOf(m), t, m.lastfree, m.count)
<1>1. PICK t \in 1 .. SizeOf(m) : KeysOf(m)[t] = k
  BY DEF Has
<1>2. PICK n, K, V, N, l, c :
        /\ n = SizeOf(m) /\ K = KeysOf(m) /\ V = ValuesOf(m) /\ N = NextOf(m)
        /\ l = m.lastfree /\ c = m.count
  OBVIOUS
<1>3. /\ n \in Nat \ {0} /\ m = Block(n, K, V, N, l, c)
      /\ K \in [1 .. n -> Keys \cup {NoKey}] /\ V \in [1 .. n -> MapValues \cup {NoValue}]
      /\ N \in [1 .. n -> 0 .. n] /\ DOMAIN m.slots = 1 .. n
      /\ \A j \in 1 .. n : m.slots[j].key = K[j] /\ m.slots[j].next = N[j]
  BY <1>2, MapSays
<1>4. Sound(n, K, V, N, l) /\ k # NoKey
  BY <1>2 DEF IsMap, MapConstants
<1>5. /\ \A i, j \in 1 .. n : K[i] = K[j] /\ K[i] # NoKey => i = j
      /\ l \in 0 .. n /\ \A i \in 1 .. n : i > l => K[i] # NoKey
  BY <1>4 DEF Sound, Chains
<1>6. ASSUME NEW i \in 1 .. n, N[i] # 0 PROVE N[i] # i
  <2>1. PICK B, R : Falls(n, N, B, R)
    BY <1>4 DEF Sound
  <2>2. R[N[i]] < R[i] /\ R[i] \in Int
    BY <1>6, <2>1 DEF Falls
  <2> QED
    BY <2>2
<1>7. \A j \in 1 .. n : m.slots[j] = Entry(K[j], V[j], N[j])
  <2>1. m.slots = Cells(n, K, V, N)
    BY <1>3 DEF Block
  <2> QED
    BY <2>1 DEF Cells
<1>8. Parted(m, k, n, K, V, N, t, l, c)
  BY <1>1, <1>2, <1>3, <1>4, <1>5, <1>6, <1>7 DEF Parted
<1> QED
  BY <1>2, <1>8

\* The slots above the next free one are in use.
LEMMA AboveIs ==
    ASSUME NEW n \in Nat, NEW l \in 0 .. n, NEW t \in 1 .. n
    PROVE  /\ Above(l, t) \in 0 .. n
           /\ \A i \in 1 .. n : i > Above(l, t) => i > l /\ i # t
BY DEF Above

\* The walk from a slot without a link.
LEMMA EndsAtOnce ==
    ASSUME NEW n \in Nat \ {0}, NEW N \in [1 .. n -> 0 .. n], NEW i \in 1 .. n, NEW P,
           IsPath(P, i, n, N), N[i] = 0
    PROVE  Range(P) \subseteq {i}
<1>1. PICK S : S = {i}
  OBVIOUS
<1>2. i \in S /\ \A j \in 1 .. n : j \in S /\ N[j] # 0 => N[j] \in S
  BY <1>1
<1>3. Range(P) \subseteq S
  BY <1>2, PathStays
<1> QED
  BY <1>1, <1>3

\* be_map_remove() of the only key of a chain.
LEMMA OnlyOneGoes ==
    ASSUME MapConstants, NEW m, IsMap(m), NEW k \in Keys, m.count # 0,
           NEW n, NEW K, NEW V, NEW N, NEW t, NEW l, NEW c, Parted(m, k, n, K, V, N, t, l, c),
           t = MainSlot(m, k), N[t] = 0
    PROVE  Removed(m, RemovedFrom(m, k), k)
<1>a. /\ n \in Nat \ {0} /\ n \in Nat /\ K \in [1 .. n -> Keys \cup {NoKey}]
      /\ V \in [1 .. n -> MapValues \cup {NoValue}] /\ N \in [1 .. n -> 0 .. n]
  BY Zenon DEF Parted
<1>b. \A i, j \in 1 .. n : K[i] = K[j] /\ K[i] # NoKey => i = j
  BY Zenon DEF Parted
<1>d. l \in 0 .. n /\ \A i \in 1 .. n : i > l => K[i] # NoKey
  BY Zenon DEF Parted
<1>e. /\ DOMAIN m.slots = 1 .. n
      /\ \A j \in 1 .. n : m.slots[j].key = K[j] /\ m.slots[j].next = N[j]
  BY Zenon DEF Parted
<1>g. n = SizeOf(m) /\ K = KeysOf(m) /\ V = ValuesOf(m) /\ N = NextOf(m) /\ c = m.count
  BY Zenon DEF Parted
<1>h. t \in 1 .. n /\ K[t] = k /\ k # NoKey /\ K[t] # NoKey
  BY Zenon DEF Parted
<1>i. Chains(n, K, N) /\ \E B, R : Falls(n, N, B, R)
  BY Zenon DEF Parted, Sound
<1>j. DOMAIN K = 1 .. n /\ DOMAIN V = 1 .. n /\ DOMAIN N = 1 .. n /\ m = Block(n, K, V, N, l, c)
  <2>1. m = Block(n, K, V, N, l, c)
    BY Zenon DEF Parted
  <2>2. DOMAIN K = 1 .. n
    BY <1>a, Zenon
  <2>3. DOMAIN V = 1 .. n
    BY <1>a, Zenon
  <2>4. DOMAIN N = 1 .. n
    BY <1>a, ZenonT(30)
  <2> QED
    BY <2>1, <2>2, <2>3, <2>4, Zenon
<1>1. RemovedFrom(m, k) = Freed(m, t)
  BY <1>e, <1>h DEF RemovedFrom
<1> DEFINE K2 == With(K, t, NoKey)
<1>3. Freed(m, t) = Block(n, K2, V, N, Above(l, t), c - 1)
  BY <1>h, <1>j, FreedIs
<1>4. /\ \A i \in 1 .. n : i # t => K2[i] = K[i]
      /\ K2[t] = NoKey /\ K2 \in [1 .. n -> Keys \cup {NoKey}]
  BY <1>a, <1>h DEF With
<1>5. \A i \in 1 .. n : K[i] # NoKey /\ i # t => Home(K[i], n) # t
  <2>1. PICK P : P = From(m, t)
    OBVIOUS
  <2>2. IsPath(P, t, n, N) /\ \A j \in 1 .. n : K[j] # NoKey /\ MainSlot(m, K[j]) = t => j \in Range(P)
    <3>1. /\ IsPath(From(m, t), t, SizeOf(m), NextOf(m))
          /\ \A j \in 1 .. SizeOf(m) : KeysOf(m)[j] # NoKey /\ MainSlot(m, KeysOf(m)[j]) = t =>
               j \in Range(From(m, t))
      BY <1>g, <1>h, ChainOf
    <3> QED
      BY <1>g, <2>1, <3>1
  <2>3. Range(P) \subseteq {t}
    BY <1>a, <1>h, <2>2, EndsAtOnce
  <2>4. \A j \in 1 .. n : MainSlot(m, K[j]) = Home(K[j], n)
    BY <1>g DEF MainSlot, Home
  <2> QED
    BY <2>2, <2>3, <2>4
<1>6. Home(K[t], n) = t
  BY <1>g, <1>h DEF MainSlot, Home
<1>7. Chains(n, K2, N)
  BY <1>5, <1>6, <1>h, <1>i, AloneGoes
<1> HIDE DEF K2
<1>8. /\ Above(l, t) \in 0 .. n
      /\ \A i \in 1 .. n : i > Above(l, t) => i > l /\ i # t
  BY <1>a, <1>d, <1>h, AboveIs
<1>9. Sound(n, K2, V, N, Above(l, t))
  BY <1>4, <1>7, <1>8, <1>a, <1>d, <1>i DEF Sound
<1>10. OneKeyLess(n, K, V, K2, V, k)
  BY <1>4, <1>a, <1>b, <1>h DEF OneKeyLess
<1>11. Removed(m, Block(n, K2, V, N, Above(l, t), c - 1), k)
  BY <1>9, <1>10, <1>g, RemovedAs
<1> QED
  BY <1>1, <1>3, <1>11, Zenon

\* be_map_remove() of the first of a chain: the second takes its place.
LEMMA SecondComes ==
    ASSUME MapConstants, NEW m, IsMap(m), NEW k \in Keys, m.count # 0,
           NEW n, NEW K, NEW V, NEW N, NEW t, NEW l, NEW c, Parted(m, k, n, K, V, N, t, l, c),
           t = MainSlot(m, k), N[t] # 0
    PROVE  Removed(m, RemovedFrom(m, k), k)
<1>a. /\ n \in Nat \ {0} /\ n \in Nat /\ K \in [1 .. n -> Keys \cup {NoKey}]
      /\ V \in [1 .. n -> MapValues \cup {NoValue}] /\ N \in [1 .. n -> 0 .. n]
  BY Zenon DEF Parted
<1>b. \A i, j \in 1 .. n : K[i] = K[j] /\ K[i] # NoKey => i = j
  BY Zenon DEF Parted
<1>c. \A i \in 1 .. n : N[i] # 0 => N[i] # i
  BY Zenon DEF Parted
<1>d. l \in 0 .. n /\ \A i \in 1 .. n : i > l => K[i] # NoKey
  BY Zenon DEF Parted
<1>e. /\ DOMAIN m.slots = 1 .. n
      /\ \A j \in 1 .. n : m.slots[j].key = K[j] /\ m.slots[j].next = N[j]
  BY Zenon DEF Parted
<1>f. \A j \in 1 .. n : m.slots[j] = Entry(K[j], V[j], N[j])
  BY Zenon DEF Parted
<1>g. n = SizeOf(m) /\ K = KeysOf(m) /\ V = ValuesOf(m) /\ N = NextOf(m) /\ c = m.count
  BY Zenon DEF Parted
<1>h. t \in 1 .. n /\ K[t] = k /\ k # NoKey /\ K[t] # NoKey
  BY Zenon DEF Parted
<1>i. Chains(n, K, N) /\ \E B, R : Falls(n, N, B, R)
  BY Zenon DEF Parted, Sound
<1>j. DOMAIN K = 1 .. n /\ DOMAIN V = 1 .. n /\ DOMAIN N = 1 .. n /\ m = Block(n, K, V, N, l, c)
  <2>1. m = Block(n, K, V, N, l, c)
    BY Zenon DEF Parted
  <2>2. DOMAIN K = 1 .. n
    BY <1>a, Zenon
  <2>3. DOMAIN V = 1 .. n
    BY <1>a, Zenon
  <2>4. DOMAIN N = 1 .. n
    BY <1>a, Zenon
  <2> QED
    BY <2>1, <2>2, <2>3, <2>4, Zenon
<1>1. PICK u : u = N[t]
  OBVIOUS
<1>2. u \in 1 .. n /\ u # t /\ u # 0
  <2>1. u # 0 /\ u \in 0 .. n /\ u # t
    BY <1>1, <1>a, <1>c, <1>h
  <2> QED
    BY <1>a, <2>1
<1>3. PICK a : a = [m EXCEPT !.slots[t] = Entry(K[u], V[u], N[u])]
  OBVIOUS
<1>4. RemovedFrom(m, k) = Freed(a, u)
  <2>1. m.slots[t].key = k /\ m.slots[t].next = u /\ m.slots[u] = Entry(K[u], V[u], N[u]) /\ u # 0
    BY <1>1, <1>2, <1>e, <1>f, <1>h
  <2> QED
    BY <1>3, <2>1 DEF RemovedFrom
<1> DEFINE K1 == With(K, t, K[u])
           V2 == With(V, t, V[u])
           N2 == With(N, t, N[u])
           K2 == With(K1, u, NoKey)
<1>5. a = Block(n, K1, V2, N2, l, c)
  <2>1. PICK x, y, z : x = K[u] /\ y = V[u] /\ z = N[u]
    OBVIOUS
  <2>2. a = [m EXCEPT !.slots[t] = Entry(x, y, z)]
    BY <1>3, <2>1
  <2>3. a = Block(n, With(K, t, x), With(V, t, y), With(N, t, z), l, c)
    BY <1>h, <1>j, <2>2, BlockSlot
  <2> QED
    BY <2>1, <2>3
<1>6. Freed(a, u) = Block(n, K2, V2, N2, Above(l, u), c - 1)
  <2>1. DOMAIN K1 = 1 .. n /\ DOMAIN V2 = 1 .. n /\ DOMAIN N2 = 1 .. n
    BY <1>j, WithDomain
  <2> HIDE DEF K1, V2, N2
  <2> QED
    BY <1>2, <1>5, <2>1, FreedIs
<1>7. Chains(n, K, N) /\ K[t] # NoKey /\ Home(K[t], n) = t /\ N[u] # u
      /\ \E B, R : Falls(n, N, B, R)
  <2>1. Home(K[t], n) = t
    BY <1>g, <1>h DEF MainSlot, Home
  <2> QED
    BY <1>2, <1>c, <1>h, <1>i, <2>1
<1>8. Chains(n, K2, N2)
  BY <1>1, <1>2, <1>7, <1>h, FirstGoes
<1>9. /\ K2[t] = K[u] /\ K2[u] = NoKey /\ V2[t] = V[u]
      /\ \A i \in 1 .. n : i # t /\ i # u => K2[i] = K[i] /\ V2[i] = V[i]
      /\ V2 \in [1 .. n -> MapValues \cup {NoValue}]
      /\ N2[t] = N[u] /\ N2 \in [1 .. n -> 0 .. n] /\ \A i \in 1 .. n : i # t => N2[i] = N[i]
  BY <1>2, <1>a, <1>h DEF With
<1> HIDE DEF K2, V2, N2
<1>10. \E B, R : Falls(n, N2, B, R)
  <2>1. PICK B, R : Falls(n, N, B, R)
    BY <1>7
  <2>2. \A i \in 1 .. n : N2[i] \in {0, N[i]} \/ (N[i] # 0 /\ N2[i] = N[N[i]])
    BY <1>1, <1>9
  <2> QED
    BY <1>9, <1>a, <2>1, <2>2, FallsOut
<1>11. K[u] # NoKey /\ K[u] # k
  <2>1. Links(n, K, N)
    BY <1>7, ChainsSay
  <2> QED
    BY <1>1, <1>2, <1>b, <1>h, <2>1 DEF Links
<1>12. /\ Above(l, u) \in 0 .. n
       /\ \A i \in 1 .. n : i > Above(l, u) => i > l /\ i # u
  BY <1>2, <1>a, <1>d, AboveIs
<1>13. Sound(n, K2, V2, N2, Above(l, u))
  <2>1. \A i \in 1 .. n : i > Above(l, u) => K2[i] # NoKey
    BY <1>9, <1>11, <1>12, <1>d
  <2> QED
    BY <1>8, <1>9, <1>10, <1>12, <2>1 DEF Sound
<1>14. OneKeyLess(n, K, V, K2, V2, k)
  <2>1. \A i \in 1 .. n : K2[i] # NoKey => K2[i] # k /\ \E j \in 1 .. n : K[j] = K2[i] /\ V[j] = V2[i]
    BY <1>2, <1>9, <1>11, <1>b, <1>h
  <2>2. \A j \in 1 .. n : K[j] # NoKey /\ K[j] # k => \E i \in 1 .. n : K2[i] = K[j]
    BY <1>2, <1>9, <1>11, <1>b, <1>h
  <2> QED
    BY <2>1, <2>2 DEF OneKeyLess
<1>15. Removed(m, Block(n, K2, V2, N2, Above(l, u), c - 1), k)
  BY <1>13, <1>14, <1>g, RemovedAs
<1> QED
  BY <1>4, <1>6, <1>15, Zenon

\* be_map_remove() of a later one: the slot before it links past it.
LEMMA PassedBy ==
    ASSUME MapConstants, NEW m, IsMap(m), NEW k \in Keys, m.count # 0,
           NEW n, NEW K, NEW V, NEW N, NEW t, NEW l, NEW c, Parted(m, k, n, K, V, N, t, l, c),
           t # MainSlot(m, k)
    PROVE  Removed(m, RemovedFrom(m, k), k)
<1>a. /\ n \in Nat \ {0} /\ n \in Nat /\ K \in [1 .. n -> Keys \cup {NoKey}]
      /\ V \in [1 .. n -> MapValues \cup {NoValue}] /\ N \in [1 .. n -> 0 .. n]
  BY Zenon DEF Parted
<1>b. \A i, j \in 1 .. n : K[i] = K[j] /\ K[i] # NoKey => i = j
  BY Zenon DEF Parted
<1>c. \A i \in 1 .. n : N[i] # 0 => N[i] # i
  BY Zenon DEF Parted
<1>d. l \in 0 .. n /\ \A i \in 1 .. n : i > l => K[i] # NoKey
  BY Zenon DEF Parted
<1>e. /\ DOMAIN m.slots = 1 .. n
      /\ \A j \in 1 .. n : m.slots[j].key = K[j] /\ m.slots[j].next = N[j]
  BY Zenon DEF Parted
<1>g. n = SizeOf(m) /\ K = KeysOf(m) /\ V = ValuesOf(m) /\ N = NextOf(m) /\ c = m.count
  BY Zenon DEF Parted
<1>h. t \in 1 .. n /\ K[t] = k /\ k # NoKey /\ K[t] # NoKey
  BY Zenon DEF Parted
<1>i. Chains(n, K, N) /\ \E B, R : Falls(n, N, B, R)
  BY Zenon DEF Parted, Sound
<1>j. DOMAIN K = 1 .. n /\ DOMAIN V = 1 .. n /\ DOMAIN N = 1 .. n /\ m = Block(n, K, V, N, l, c)
  <2>1. m = Block(n, K, V, N, l, c)
    BY Zenon DEF Parted
  <2>2. DOMAIN K = 1 .. n
    BY <1>a, Zenon
  <2>3. DOMAIN V = 1 .. n
    BY <1>a, Zenon
  <2>4. DOMAIN N = 1 .. n
    BY <1>a, Zenon
  <2> QED
    BY <2>1, <2>2, <2>3, <2>4, Zenon
<1> DEFINE s == MainSlot(m, k)
           T == {j \in DOMAIN m.slots : m.slots[j].next # 0 /\ m.slots[m.slots[j].next].key = k}
<1>2. s = Home(K[t], n) /\ s \in 1 .. n
  <2>1. s = Home(K[t], n)
    BY <1>g, <1>h DEF MainSlot, Home
  <2> QED
    BY <1>a, <1>h, <2>1, HomeIs
<1>3. PICK p \in 1 .. n :
        /\ K[p] # NoKey /\ N[p] = t
        /\ \A U : /\ p \in U
                  /\ \A j \in U : /\ j \in 1 .. n
                                  /\ K[j] # NoKey => N[j] = t
                  => FirstAt(From(m, s), U) = p
  <2>1. t \in 1 .. SizeOf(m) /\ KeysOf(m)[t] # NoKey /\ s = MainSlot(m, KeysOf(m)[t]) /\ s # t
    BY <1>g, <1>h
  <2> HIDE DEF T, s
  <2>2. \E p \in 1 .. SizeOf(m) :
          /\ KeysOf(m)[p] # NoKey /\ NextOf(m)[p] = t
          /\ \A U : /\ p \in U
                    /\ \A j \in U : /\ j \in 1 .. SizeOf(m)
                                    /\ KeysOf(m)[j] # NoKey => NextOf(m)[j] = t
                    => FirstAt(From(m, s), U) = p
    BY <2>1, LinkTo
  <2> QED
    BY <1>g, <2>2
<1>4. FirstAt(From(m, s), T) = p
  <2>1. \A j \in T : j \in 1 .. n /\ N[j] = t
    <3> SUFFICES ASSUME NEW j \in T PROVE j \in 1 .. n /\ N[j] = t
      OBVIOUS
    <3>1. j \in 1 .. n /\ N[j] # 0 /\ m.slots[N[j]].key = k
      BY <1>e
    <3>2. N[j] \in 1 .. n
      <4>1. N[j] \in 0 .. n
        BY <1>a, <3>1
      <4> QED
        BY <1>a, <3>1, <4>1
    <3>3. K[N[j]] = k
      BY <1>e, <3>1, <3>2
    <3> QED
      BY <1>b, <1>h, <3>1, <3>2, <3>3
  <2>2. p \in T
    <3>1. t # 0
      BY <1>a, <1>h
    <3> QED
      BY <1>3, <1>e, <1>h, <3>1
  <2> HIDE DEF T
  <2> QED
    BY <1>3, <2>1, <2>2
<1>5. PICK a : a = [m EXCEPT !.slots[p].next = N[t]]
  OBVIOUS
<1>6. RemovedFrom(m, k) = Freed(a, t)
  <2>1. m.slots[s].key # k
    BY <1>2, <1>b, <1>e, <1>h
  <2>2. p # 0 /\ m.slots[p].next = t /\ m.slots[t].next = N[t]
    BY <1>3, <1>a, <1>e, <1>h
  <2> QED
    BY <1>4, <1>5, <2>1, <2>2 DEF RemovedFrom
<1> HIDE DEF T, s
<1> DEFINE N2 == With(N, p, N[t])
           K2 == With(K, t, NoKey)
<1>7. a = Block(n, K, V, N2, l, c)
  <2>1. PICK y : y = N[t]
    OBVIOUS
  <2>2. a = [m EXCEPT !.slots[p].next = y]
    BY <1>5, <2>1
  <2>3. a = Block(n, K, V, With(N, p, y), l, c)
    BY <1>3, <1>j, <2>2, BlockNext
  <2> QED
    BY <2>1, <2>3
<1>8. Freed(a, t) = Block(n, K2, V, N2, Above(l, t), c - 1)
  <2>1. DOMAIN N2 = 1 .. n
    BY <1>j, WithDomain
  <2> HIDE DEF N2
  <2> QED
    BY <1>7, <1>h, <1>j, <2>1, FreedIs
<1>9. Chains(n, K, N) /\ Home(K[t], n) # t /\ N[t] # t /\ \E B, R : Falls(n, N, B, R)
  <2>1. N[t] # t
    <3>1. t # 0
      BY <1>a, <1>h
    <3> QED
      BY <1>c, <1>h, <3>1
  <2> QED
    BY <1>2, <1>i, <2>1 DEF s
<1>10. Chains(n, K2, N2)
  BY <1>3, <1>9, <1>h, LaterGoes
<1>11. /\ K2[t] = NoKey /\ \A i \in 1 .. n : i # t => K2[i] = K[i]
       /\ N2 \in [1 .. n -> 0 .. n] /\ N2[p] = N[t] /\ \A i \in 1 .. n : i # p => N2[i] = N[i]
  BY <1>3, <1>a, <1>h DEF With
<1> HIDE DEF K2, N2
<1>12. \E B, R : Falls(n, N2, B, R)
  <2>1. PICK B, R : Falls(n, N, B, R)
    BY <1>9
  <2>2. \A i \in 1 .. n : N2[i] \in {0, N[i]} \/ (N[i] # 0 /\ N2[i] = N[N[i]])
    <3>1. t # 0
      BY <1>a, <1>h
    <3> QED
      BY <1>3, <1>11, <3>1
  <2> QED
    BY <1>11, <1>a, <2>1, <2>2, FallsOut
<1>13. /\ Above(l, t) \in 0 .. n
       /\ \A i \in 1 .. n : i > Above(l, t) => i > l /\ i # t
  BY <1>a, <1>d, <1>h, AboveIs
<1>14. Sound(n, K2, V, N2, Above(l, t))
  BY <1>10, <1>11, <1>12, <1>13, <1>a, <1>d DEF Sound
<1>15. OneKeyLess(n, K, V, K2, V, k)
  BY <1>11, <1>a, <1>b, <1>h DEF OneKeyLess
<1>16. Removed(m, Block(n, K2, V, N2, Above(l, t), c - 1), k)
  BY <1>14, <1>15, <1>g, RemovedAs
<1> QED
  BY <1>6, <1>8, <1>16, Zenon

\* be_map_remove(): the others keep their values, and their chains.
LEMMA RemovedIs ==
    ASSUME MapConstants, NEW m, IsMap(m), NEW k \in Keys, Has(m, k), m.count # 0
    PROVE  Removed(m, RemovedFrom(m, k), k)
BY PartedIs, OnlyOneGoes, SecondComes, PassedBy

-----------------------------------------------------------------------------
(* Calls and loops.                                                        *)

\* A loop has seen the keys up to the slot it is at, all of them at its end.
Passes(m, i) == {k \in Keys : \E j \in 1 .. SizeOf(m) : j <= i /\ KeysOf(m)[j] = k}
WalkTypes == walk \in [at : Int, seen : SUBSET Keys, clean : BOOLEAN, dangles : BOOLEAN]
WalkSees ==
    walk.clean =>
        /\ walk.at >= 0 => walk.seen = Passes(map, walk.at)
        /\ walk.at = -2 => walk.seen = Stored(put)
MapInv ==
    /\ IsMap(map) /\ put \in Puts /\ Stores(map, put)
    /\ map.count = Cardinality(Stored(put))
    /\ mapCalls \in Nat /\ map.count <= mapCalls /\ mapCalls <= MaxMapCalls
    /\ WalkTypes /\ WalkSees

\* A call that leaves the map in order, and says so when a key comes or goes.
LEMMA CallKeeps ==
    ASSUME MapConstants, MapInv, NEW m, NEW q \in Puts, NEW moved \in BOOLEAN,
           IsMap(m), Stores(m, q), m.count = Cardinality(Stored(q)), m.count <= map.count + 1,
           ~moved => KeysOf(m) = KeysOf(map) /\ SizeOf(m) = SizeOf(map) /\ Stored(q) = Stored(put),
           CallMap(m, moved), put' = q
    PROVE  MapInv'
<1>1. /\ map' = m /\ mapCalls' = mapCalls + 1 /\ mapCalls < MaxMapCalls
      /\ walk' = [walk EXCEPT !.clean = @ /\ ~moved /\ walk.at >= -1,
                              !.dangles = @ \/ (walk.at >= 0 /\ SizeOf(m) # SizeOf(map))]
  BY DEF CallMap
<1>2. /\ walk'.at = walk.at /\ walk'.seen = walk.seen
      /\ walk'.clean = (walk.clean /\ ~moved /\ walk.at >= -1)
      /\ WalkTypes'
  <2>1. walk \in [at : Int, seen : SUBSET Keys, clean : BOOLEAN, dangles : BOOLEAN]
    BY DEF MapInv, WalkTypes
  <2>2. PICK c, d \in BOOLEAN :
          /\ c = (walk.clean /\ ~moved /\ walk.at >= -1)
          /\ d = (walk.dangles \/ (walk.at >= 0 /\ SizeOf(m) # SizeOf(map)))
    OBVIOUS
  <2>3. walk' = [walk EXCEPT !.clean = c, !.dangles = d]
    BY <1>1, <2>2, Zenon
  <2>4. /\ walk'.at = walk.at /\ walk'.seen = walk.seen /\ walk'.clean = c
        /\ walk' \in [at : Int, seen : SUBSET Keys, clean : BOOLEAN, dangles : BOOLEAN]
    BY <2>1, <2>3
  <2> QED
    BY <2>2, <2>4, Zenon DEF WalkTypes
<1>3. WalkSees'
  <2> SUFFICES ASSUME walk'.clean
               PROVE  /\ walk.at >= 0 => walk.seen = Passes(m, walk.at)
                      /\ walk.at = -2 => walk.seen = Stored(q)
    BY <1>1, <1>2, Zenon DEF WalkSees
  <2>1. walk.clean /\ ~moved /\ walk.at >= -1
    BY <1>2, Zenon
  <2>2. walk.at # -2
    <3>1. walk.at \in Int
      BY DEF MapInv, WalkTypes
    <3> QED
      BY <2>1, <3>1
  <2>3. Passes(m, walk.at) = Passes(map, walk.at)
    BY <2>1, Zenon DEF Passes
  <2> QED
    BY <2>1, <2>2, <2>3, Zenon DEF MapInv, WalkSees
<1>4. mapCalls' \in Nat /\ m.count <= mapCalls' /\ mapCalls' <= MaxMapCalls
  <2>1. /\ mapCalls \in Nat /\ map.count <= mapCalls /\ map.count \in Nat /\ m.count \in Nat
        /\ MaxMapCalls \in Int
    <3>1. MaxMapCalls \in Int
      <4>1. MaxMapCalls \in 0 .. LargestSize
        BY Zenon DEF MapConstants
      <4> QED
        BY <4>1, SMT
    <3> QED
      BY <3>1, MapSays DEF MapInv
  <2> QED
    BY <1>1, <2>1
<1> QED
  BY <1>1, <1>2, <1>3, <1>4 DEF MapInv

\* A value of a slot.
LEMMA ValueSet ==
    ASSUME MapConstants, NEW m, IsMap(m), NEW k \in Keys, NEW i \in 1 .. SizeOf(m),
           KeysOf(m)[i] = k, NEW x \in MapValues, NEW r, r = [m EXCEPT !.slots[i].value = x]
    PROVE  Inserted(m, r, k, x) /\ KeysOf(r) = KeysOf(m)
<1>1. PICK n, K, V, N, l, c :
        /\ n = SizeOf(m) /\ K = KeysOf(m) /\ V = ValuesOf(m) /\ N = NextOf(m)
        /\ l = m.lastfree /\ c = m.count
  OBVIOUS
<1>2. /\ n \in Nat \ {0} /\ m = Block(n, K, V, N, l, c) /\ c \in Nat
      /\ K \in [1 .. n -> Keys \cup {NoKey}] /\ V \in [1 .. n -> MapValues \cup {NoValue}]
      /\ N \in [1 .. n -> 0 .. n]
  BY <1>1, MapSays
<1>3. i \in 1 .. n /\ K[i] = k /\ Sound(n, K, V, N, l)
  BY <1>1 DEF IsMap
<1> DEFINE V2 == With(V, i, x)
<1>4. r = Block(n, K, V2, N, l, c)
  <2>1. PICK t : t = Cells(n, K, V, N)
    OBVIOUS
  <2>2. m = [slots |-> t, lastfree |-> l, count |-> c]
    BY <1>2, <2>1 DEF Block
  <2>3. r = [slots |-> [t EXCEPT ![i] = [t[i] EXCEPT !.value = x]], lastfree |-> l, count |-> c]
    BY <2>2
  <2>4. [t[i] EXCEPT !.value = x] = Entry(K[i], x, N[i])
    <3>1. t[i] = [key |-> K[i], value |-> V[i], next |-> N[i]]
      BY <1>3, <2>1 DEF Cells, Entry
    <3> QED
      BY <3>1 DEF Entry
  <2>5. [t EXCEPT ![i] = Entry(K[i], x, N[i])] = Cells(n, K, V2, N)
    <3>1. [t EXCEPT ![i] = Entry(K[i], x, N[i])] =
            [j \in 1 .. n |-> IF j = i THEN Entry(K[i], x, N[i]) ELSE Entry(K[j], V[j], N[j])]
      BY <1>3, <2>1 DEF Cells
    <3>2. \A j \in 1 .. n : V2[j] = IF j = i THEN x ELSE V[j]
      BY <1>2, <1>3 DEF With
    <3> HIDE DEF V2
    <3> QED
      BY <3>1, <3>2 DEF Cells
  <2> QED
    BY <2>3, <2>4, <2>5 DEF Block
<1>5. /\ V2[i] = x /\ V2 \in [1 .. n -> MapValues \cup {NoValue}]
      /\ \A j \in 1 .. n : j # i => V2[j] = V[j]
  BY <1>2, <1>3 DEF With
<1> HIDE DEF V2
<1>6. Sound(n, K, V2, N, l)
  BY <1>3, <1>5 DEF Sound
<1>7. \A j \in 1 .. n : K[j] = k => j = i
  <2>1. k # NoKey
    BY DEF MapConstants
  <2> QED
    BY <1>3, <2>1 DEF Sound, Chains
<1>8. OneKeyMore(n, K, V, K, V2, k, x)
  BY <1>3, <1>5, <1>7 DEF OneKeyMore
<1>9. Inserted(m, Block(n, K, V2, N, l, c), k, x)
  BY <1>1, <1>6, <1>8, InsertedIs
<1>10. KeysOf(Block(n, K, V2, N, l, c)) = K
  BY <1>2, <1>6, MapFrom DEF View
<1> QED
  BY <1>1, <1>4, <1>9, <1>10

\* What a map in order with the loop in order shows.
LEMMA MapShows ==
    ASSUME MapConstants, MapInv
    PROVE  FindsWhatWasPut /\ ChainsInOrder /\ WalksEnd /\ WalkSeesAll
<1> DEFINE n == SizeOf(map)
           K == KeysOf(map)
           N == NextOf(map)
<1>1. /\ IsMap(map) /\ put \in Puts /\ Stores(map, put) /\ map.count = Cardinality(Stored(put))
      /\ WalkSees
  BY DEF MapInv
<1>2. /\ n \in Nat \ {0} /\ K \in [1 .. n -> Keys \cup {NoKey}] /\ N \in [1 .. n -> 0 .. n]
      /\ \A i \in 1 .. n : /\ map.slots[i].key = K[i] /\ map.slots[i].next = N[i]
                           /\ map.slots[i].value = ValuesOf(map)[i]
      /\ map.count \in Nat
  BY <1>1, MapSays
<1>3. FindsWhatWasPut
  <2>1. ASSUME NEW k \in Keys
        PROVE  put[k] = IF FindSlot(map, k) = 0 THEN NoValue ELSE map.slots[FindSlot(map, k)].value
    <3>1. PICK i : i = FindSlot(map, k)
      OBVIOUS
    <3>2. CASE Has(map, k)
      <4>1. i \in 1 .. n /\ K[i] = k
        BY <1>1, <3>1, <3>2, FindSlotIs
      <4>2. k # NoKey /\ i # 0
        BY <1>2, <4>1 DEF MapConstants
      <4>3. put[k] = ValuesOf(map)[i]
        BY <1>1, <4>1, <4>2 DEF Stores, Holding
      <4> QED
        BY <1>2, <3>1, <4>1, <4>2, <4>3
    <3>3. CASE ~Has(map, k)
      <4>1. i = 0
        BY <1>1, <3>1, <3>3, FindSlotIs
      <4>2. k \notin Stored(put)
        BY <1>1, <3>3, HasIs
      <4> QED
        BY <3>1, <4>1, <4>2 DEF Stored
    <3> QED
      BY <3>2, <3>3
  <2> QED
    BY <1>1, <2>1, Zenon DEF FindsWhatWasPut, Stored
<1>4. ChainsInOrder
  <2>1. ASSUME map.count < SizeOf(map) PROVE NextFree(map) # 0
    <3>1. Cardinality(Stored(put)) # SizeOf(map)
      BY <1>1, <1>2, <2>1
    <3>2. \E i \in 1 .. SizeOf(map) : KeysOf(map)[i] = NoKey
      BY <1>1, <3>1, UsedCounted
    <3>3. PICK e : e = NextFree(map)
      OBVIOUS
    <3>4. e \in 1 .. SizeOf(map)
      BY <1>1, <3>2, <3>3, FreeIs
    <3> QED
      BY <1>2, <3>3, <3>4
  <2>2. ASSUME NEW i \in 1 .. SizeOf(map), map.slots[i].key # NoKey
        PROVE  /\ i \in Range(From(map, MainSlot(map, map.slots[i].key)))
               /\ map.slots[i].next # 0 => map.slots[map.slots[i].next].key # NoKey
    <3>1. map.slots[i].key = K[i] /\ K[i] \in Keys /\ map.slots[i].next = N[i]
      BY <1>2, <2>2
    <3>2. PICK h : h = MainSlot(map, K[i])
      OBVIOUS
    <3>3. h \in 1 .. n
      <4>1. h = Home(K[i], n)
        BY <3>2 DEF MainSlot, Home
      <4> QED
        BY <1>2, <3>1, <4>1, HomeIs
    <3>4. i \in Range(From(map, h))
      BY <1>1, <2>2, <3>1, <3>2, <3>3, ChainOf
    <3>5. Links(n, K, N)
      BY <1>1, ChainsSay DEF IsMap, Sound
    <3>6. N[i] # 0 => N[i] \in 1 .. n /\ K[N[i]] # NoKey
      BY <2>2, <3>1, <3>5 DEF Links
    <3> QED
      BY <1>2, <3>1, <3>2, <3>4, <3>6
  <2> QED
    BY <2>1, <2>2, Zenon DEF ChainsInOrder
<1>5. WalksEnd
  <2>1. ASSUME NEW i \in 1 .. SizeOf(map) PROVE Len(From(map, i)) <= SizeOf(map)
    <3>1. IsPath(From(map, i), i, SizeOf(map), NextOf(map))
      BY <1>1, ChainOf
    <3> QED
      BY <1>2, <3>1 DEF IsPath
  <2> QED
    BY <2>1, Zenon DEF WalksEnd
<1>6. WalkSeesAll
  BY <1>1, Zenon DEF WalkSeesAll, WalkSees, Stored
<1> QED
  BY <1>3, <1>4, <1>5, <1>6

\* The first map: two slots, nothing in them.
LEMMA MapStart == ASSUME MapConstants, MapInit PROVE MapInv
<1>1. /\ map = EmptyMap(2, 0) /\ put = NothingPut /\ mapCalls = 0
      /\ walk = [at |-> -1, seen |-> {}, clean |-> TRUE, dangles |-> FALSE]
  BY Zenon DEF MapInit, EmptyMap, NothingPut
<1>2. /\ IsMap(map) /\ map.count = 0 /\ Stores(map, put) /\ put \in Puts /\ Stored(put) = {}
  BY <1>1, EmptyIs
<1>3. map.count = Cardinality(Stored(put))
  BY <1>2, FS_EmptySet
<1>4. mapCalls \in Nat /\ map.count <= mapCalls /\ mapCalls <= MaxMapCalls
  <2>1. MaxMapCalls \in 0 .. LargestSize
    BY Zenon DEF MapConstants
  <2> QED
    BY <1>1, <1>2, <2>1, SMT
<1>5. WalkTypes /\ WalkSees
  BY <1>1 DEF WalkTypes, WalkSees
<1> QED
  BY <1>2, <1>3, <1>4, <1>5, Zenon DEF MapInv

\* A value set under a key that is there.
LEMMA SetKeeps ==
    ASSUME MapConstants, MapInv, NEW k \in Keys, NEW x \in MapValues,
           NEW i, i = FindSlot(map, k), i # 0,
           CallMap([map EXCEPT !.slots[i].value = x], FALSE), put' = [put EXCEPT ![k] = x]
    PROVE  MapInv'
<1>1. IsMap(map) /\ put \in Puts /\ Stores(map, put) /\ map.count = Cardinality(Stored(put))
  BY Zenon DEF MapInv
<1>2. Has(map, k) /\ i \in 1 .. SizeOf(map) /\ KeysOf(map)[i] = k
  BY <1>1, FindSlotIs
<1>3. PICK m : m = [map EXCEPT !.slots[i].value = x]
  OBVIOUS
<1>4. Inserted(map, m, k, x) /\ KeysOf(m) = KeysOf(map)
  BY <1>1, <1>2, <1>3, ValueSet
<1>5. PICK q : q = With(put, k, x)
  OBVIOUS
<1>6. q \in Puts /\ Stored(q) = Stored(put) /\ put' = q
  <2>1. k \in Stored(put)
    BY <1>1, <1>2, HasIs
  <2>2. With(put, k, x) \in Puts /\ Stored(With(put, k, x)) = Stored(put) \cup {k}
    BY <1>1, StoredWith
  <2>3. put' = q
    BY <1>5 DEF With
  <2> QED
    BY <1>5, <2>1, <2>2, <2>3
<1>7. /\ IsMap(m) /\ Stores(m, q) /\ SizeOf(m) = SizeOf(map)
      /\ m.count = Cardinality(Stored(q)) /\ m.count = map.count
  BY <1>1, <1>4, <1>5, <1>6, Zenon DEF Inserted
<1>8. m.count <= map.count + 1
  <2>1. map.count \in Nat
    BY <1>1, MapSays
  <2> QED
    BY <1>7, <2>1
<1>9. CallMap(m, FALSE)
  BY <1>3, Zenon
<1> QED
  BY <1>4, <1>6, <1>7, <1>8, <1>9, CallKeeps

\* A new key.
LEMMA AddKeeps ==
    ASSUME MapConstants, MapInv, NEW k \in Keys, NEW x \in MapValues, FindSlot(map, k) = 0,
           CallMap(Added(map, k, x), TRUE), put' = [put EXCEPT ![k] = x]
    PROVE  MapInv'
<1>1. IsMap(map) /\ put \in Puts /\ Stores(map, put) /\ map.count = Cardinality(Stored(put))
  BY Zenon DEF MapInv
<1>2. SizeOf(map) \in Nat /\ map.count \in Nat /\ IsFiniteSet(Stored(put))
  BY <1>1, MapSays, UsedCounted
<1>3. k \notin Stored(put)
  <2>1. PICK i : i = FindSlot(map, k)
    OBVIOUS
  <2>2. ~Has(map, k)
    BY <1>1, <1>2, <2>1, FindSlotIs
  <2> QED
    BY <1>1, <2>2, HasIs
<1>4. map.count <= LargestSize
  <2>1. mapCalls \in Nat /\ map.count <= mapCalls /\ mapCalls <= MaxMapCalls
    BY Zenon DEF MapInv
  <2>2. MaxMapCalls \in 0 .. LargestSize
    BY Zenon DEF MapConstants
  <2>3. LargestSize \in Nat
    BY SMT DEF LargestSize
  <2> QED
    BY <1>2, <2>1, <2>2, <2>3, SMT
<1>5. PICK m : m = Added(map, k, x)
  OBVIOUS
<1>6. PICK q : q = With(put, k, x)
  OBVIOUS
<1>7. IsMap(m) /\ Stores(m, q) /\ m.count = map.count + 1
  BY <1>1, <1>3, <1>4, <1>5, <1>6, AddedIs
<1>8. q \in Puts /\ Stored(q) = Stored(put) \cup {k} /\ put' = q
  <2>1. With(put, k, x) \in Puts /\ Stored(With(put, k, x)) = Stored(put) \cup {k}
    BY <1>1, StoredWith
  <2>2. put' = q
    BY <1>6 DEF With
  <2> QED
    BY <1>6, <2>1, <2>2
<1>9. m.count = Cardinality(Stored(q)) /\ m.count <= map.count + 1
  <2>1. Cardinality(Stored(put) \cup {k}) = Cardinality(Stored(put)) + 1
    BY <1>2, <1>3, FS_AddElement
  <2> QED
    BY <1>1, <1>2, <1>7, <1>8, <2>1
<1>10. CallMap(m, TRUE)
  BY <1>5, Zenon
<1> QED
  BY <1>7, <1>8, <1>9, <1>10, CallKeeps

\* A key removed, or none.
LEMMA RemoveKeeps ==
    ASSUME MapConstants, MapInv, NEW k \in Keys, RemoveEntry(k)
    PROVE  MapInv'
<1>1. IsMap(map) /\ put \in Puts /\ Stores(map, put) /\ map.count = Cardinality(Stored(put))
  BY Zenon DEF MapInv
<1>2. map.count \in Nat /\ IsFiniteSet(Stored(put)) /\ DOMAIN put = Keys
  BY <1>1, MapSays, UsedCounted DEF Puts
<1>3. PICK m : m = RemovedFrom(map, k)
  OBVIOUS
<1>4. PICK moved \in BOOLEAN : moved = (put[k] # NoValue)
  OBVIOUS
<1>5. PICK q : q = With(put, k, NoValue)
  OBVIOUS
<1>6. CallMap(m, moved) /\ put' = q
  BY <1>3, <1>4, <1>5, Zenon DEF RemoveEntry, With
<1>7. CASE Has(map, k)
  <2>1. k \in Stored(put)
    BY <1>1, <1>7, HasIs
  <2>2. moved /\ map.count # 0
    <3>1. Stored(put) # {}
      BY <2>1
    <3> QED
      BY <1>1, <1>2, <1>4, <2>1, <3>1, FS_EmptySet DEF Stored
  <2>3. Removed(map, m, k)
    BY <1>1, <1>3, <1>7, <2>2, RemovedIs
  <2>4. IsMap(m) /\ Stores(m, q) /\ m.count = map.count - 1
    BY <1>1, <1>5, <2>3, Zenon DEF Removed
  <2>5. q \in Puts /\ Stored(q) = Stored(put) \ {k}
    BY <1>1, <1>5, StoredWithout
  <2>6. m.count = Cardinality(Stored(q)) /\ m.count <= map.count + 1
    <3>1. Cardinality(Stored(put) \ {k}) = Cardinality(Stored(put)) - 1
      BY <1>2, <2>1, FS_RemoveElement
    <3> QED
      BY <1>1, <1>2, <2>4, <2>5, <3>1
  <2> QED
    BY <1>6, <2>2, <2>4, <2>5, <2>6, CallKeeps
<1>8. CASE ~Has(map, k)
  <2>1. m = map
    BY <1>1, <1>3, <1>8, NoneGoes
  <2>2. k \notin Stored(put)
    BY <1>1, <1>8, HasIs
  <2>3. q = put /\ ~moved
    <3>1. put[k] = NoValue
      BY <2>2 DEF Stored
    <3>2. q = put
      <4>1. put \in [Keys -> MapValues \cup {NoValue}]
        BY <1>1 DEF Puts
      <4> QED
        BY <1>5, <3>1, <4>1 DEF With
    <3>3. ~moved
      BY <1>4, <3>1, Zenon
    <3> QED
      BY <3>2, <3>3
  <2>4. m.count <= map.count + 1
    BY <1>2, <2>1
  <2> QED
    BY <1>1, <1>6, <2>1, <2>3, <2>4, CallKeeps
<1> QED
  BY <1>7, <1>8

\* A map made as small as its count.
LEMMA CompactKeeps == ASSUME MapConstants, MapInv, Compact PROVE MapInv'
<1>1. IsMap(map) /\ put \in Puts /\ Stores(map, put) /\ map.count = Cardinality(Stored(put))
  BY Zenon DEF MapInv
<1>2. map.count \in Nat
  BY <1>1, MapSays
<1>3. PICK n : n = IF map.count = 0 THEN 1 ELSE map.count
  OBVIOUS
<1>4. n \in Nat \ {0} /\ map.count <= n /\ Cardinality(Stored(put)) <= n
  BY <1>1, <1>2, <1>3
<1>5. PICK m : m = ResizedMap(map, n)
  OBVIOUS
<1>6. IsMap(m) /\ m.count = map.count /\ Stores(m, put)
  BY <1>1, <1>4, <1>5, ResizedIs
<1>7. CallMap(m, TRUE) /\ put' = put
  BY <1>3, <1>5, Zenon DEF Compact
<1>8. m.count <= map.count + 1
  BY <1>2, <1>6
<1> QED
  BY <1>1, <1>6, <1>7, <1>8, CallKeeps

\* A loop begins.
LEMMA StartKeeps == ASSUME MapConstants, MapInv, StartWalk PROVE MapInv'
<1>1. /\ walk' = [at |-> 0, seen |-> {}, clean |-> TRUE, dangles |-> FALSE]
      /\ UNCHANGED <<map, put, mapCalls>>
  BY Zenon DEF StartWalk
<1>2. Passes(map, 0) = {}
  <2>1. SizeOf(map) \in Nat
    BY MapSays DEF MapInv
  <2> QED
    BY <2>1 DEF Passes
<1>3. WalkTypes'
  BY <1>1 DEF WalkTypes
<1>4. WalkSees'
  BY <1>1, <1>2 DEF WalkSees
<1> QED
  BY <1>1, <1>3, <1>4, Zenon DEF MapInv

\* It goes on to the next slot in use, or ends.
LEMMA WalkKeeps == ASSUME MapConstants, MapInv, WalkOn PROVE MapInv'
<1> DEFINE n == SizeOf(map)
           K == KeysOf(map)
           left == {i \in walk.at + 1 .. n : map.slots[i].key # NoKey}
           next == CHOOSE i \in left : \A j \in left : i <= j
<1>1. /\ walk.at >= 0
      /\ walk' = IF left = {} THEN [walk EXCEPT !.at = -2]
                 ELSE [walk EXCEPT !.at = next, !.seen = @ \cup {map.slots[next].key}]
      /\ UNCHANGED <<map, put, mapCalls>>
  BY Zenon DEF WalkOn
<1>2. /\ IsMap(map) /\ put \in Puts /\ Stores(map, put) /\ WalkSees
      /\ walk \in [at : Int, seen : SUBSET Keys, clean : BOOLEAN, dangles : BOOLEAN]
  BY Zenon DEF MapInv, WalkTypes
<1>3. /\ n \in Nat /\ K \in [1 .. n -> Keys \cup {NoKey}] /\ walk.at \in Int
      /\ \A i \in 1 .. n : map.slots[i].key = K[i]
  BY <1>2, MapSays
<1>4. \A i \in 1 .. n : walk.at < i /\ K[i] # NoKey <=> i \in left
  BY <1>1, <1>3
<1>5. left \subseteq 1 .. n
  BY <1>1, <1>3
<1> HIDE DEF n, K, left, next
<1>6. CASE left = {}
  <2>1. walk' = [walk EXCEPT !.at = -2]
    BY <1>1, <1>6, Zenon
  <2>2. WalkTypes' /\ walk'.at = -2 /\ walk'.seen = walk.seen /\ walk'.clean = walk.clean
    BY <1>2, <2>1 DEF WalkTypes
  <2>3. Passes(map, walk.at) = Stored(put)
    <3>1. ASSUME NEW k \in Keys, NEW i \in 1 .. n, K[i] = k PROVE i <= walk.at
      <4>1. k # NoKey
        BY DEF MapConstants
      <4> QED
        BY <1>3, <1>4, <1>6, <3>1, <4>1
    <3>2. \A k \in Keys : k \in Passes(map, walk.at) <=> Has(map, k)
      BY <3>1 DEF Passes, Has, n, K
    <3>3. \A k \in Keys : Has(map, k) <=> k \in Stored(put)
      BY <1>2, HasIs
    <3> QED
      BY <3>2, <3>3, Zenon DEF Passes, Stored
  <2>4. WalkSees'
    <3> SUFFICES ASSUME walk.clean PROVE walk.seen = Stored(put)
      BY <1>1, <2>2 DEF WalkSees
    <3> QED
      BY <1>1, <1>2, <2>3, Zenon DEF WalkSees
  <2> QED
    BY <1>1, <2>2, <2>4, Zenon DEF MapInv
<1>7. CASE left # {}
  <2>1. next \in left /\ \A j \in left : next <= j
    <3>1. IsFiniteSet(left) /\ left \subseteq Int
      <4>1. IsFiniteSet(1 .. n)
        BY <1>3, FS_Interval
      <4>2. IsFiniteSet(left)
        BY <1>5, <4>1, FS_Subset, Zenon
      <4>3. left \subseteq Int
        BY <1>5
      <4> QED
        BY <4>2, <4>3
    <3>2. PICK e \in left : \A j \in left : e <= j
      BY <1>7, <3>1, Extremes
    <3> QED
      BY <3>2 DEF next
  <2>2. PICK e : e = next
    OBVIOUS
  <2>3. e \in 1 .. n /\ K[e] \in Keys /\ walk.at < e /\ map.slots[e].key = K[e]
    BY <1>3, <1>4, <1>5, <2>1, <2>2
  <2>4. walk' = [walk EXCEPT !.at = e, !.seen = @ \cup {K[e]}]
    BY <1>1, <1>7, <2>2, <2>3
  <2>5. /\ WalkTypes' /\ walk'.at = e /\ walk'.seen = walk.seen \cup {K[e]}
        /\ walk'.clean = walk.clean
    <3>1. PICK s : s = walk.seen \cup {K[e]}
      OBVIOUS
    <3>2. walk' = [walk EXCEPT !.at = e, !.seen = s]
      BY <2>4, <3>1, Zenon
    <3>3. s \in SUBSET Keys
      BY <1>2, <2>3, <3>1
    <3>4. e \in Int
      BY <2>3
    <3>5. /\ walk' \in [at : Int, seen : SUBSET Keys, clean : BOOLEAN, dangles : BOOLEAN]
          /\ walk'.at = e /\ walk'.seen = s /\ walk'.clean = walk.clean
      BY <1>2, <3>2, <3>3, <3>4
    <3> QED
      BY <3>1, <3>5, Zenon DEF WalkTypes
  <2>6. Passes(map, e) = Passes(map, walk.at) \cup {K[e]}
    <3>1. \A j \in 1 .. n : j <= e /\ K[j] # NoKey => j <= walk.at \/ j = e
      <4>1. ASSUME NEW j \in 1 .. n, j <= e, K[j] # NoKey, ~(j <= walk.at) PROVE j = e
        <5>1. j \in left
          BY <1>3, <1>4, <4>1
        <5>2. e <= j
          BY <2>1, <2>2, <5>1
        <5> QED
          BY <1>3, <2>3, <4>1, <5>2
      <4> QED
        BY <4>1
    <3>2. \A j \in 1 .. n : j <= walk.at => j <= e
      BY <1>3, <2>3
    <3>3. NoKey \notin Keys
      BY DEF MapConstants
    <3>4. e <= e
      BY <1>3, <2>3
    <3>5. /\ Passes(map, e) = {k \in Keys : \E j \in 1 .. n : j <= e /\ K[j] = k}
          /\ Passes(map, walk.at) = {k \in Keys : \E j \in 1 .. n : j <= walk.at /\ K[j] = k}
      BY DEF Passes, n, K
    <3>6. \A k \in Keys : (\E j \in 1 .. n : j <= e /\ K[j] = k)
                            <=> ((\E j \in 1 .. n : j <= walk.at /\ K[j] = k) \/ k = K[e])
      BY <2>3, <3>1, <3>2, <3>3, <3>4
    <3> QED
      BY <2>3, <3>5, <3>6
  <2>7. WalkSees'
    <3>1. walk'.at # -2 /\ walk'.at >= 0
      BY <1>1, <1>3, <2>3, <2>5
    <3> SUFFICES ASSUME walk.clean PROVE walk.seen \cup {K[e]} = Passes(map, e)
      BY <1>1, <2>5, <3>1, Zenon DEF WalkSees
    <3> QED
      BY <1>1, <1>2, <2>6, Zenon DEF WalkSees
  <2> QED
    BY <1>1, <2>5, <2>7, Zenon DEF MapInv
<1> QED
  BY <1>6, <1>7

\* Whatever keys collide, move, go or come, and however the map grows: each
\* key shows what was put under it last, walks along links end, and a loop
\* that no key comes or goes under sees all of them.
THEOREM MapsCorrect ==
    ASSUME MapConstants
    PROVE  MapSpec => [](FindsWhatWasPut /\ ChainsInOrder /\ WalksEnd /\ WalkSeesAll)
<1>1. MapInit => MapInv
  BY MapStart
<1>2. MapInv /\ [MapNext]_mapVars => MapInv'
  <2> SUFFICES ASSUME MapInv, [MapNext]_mapVars PROVE MapInv'
    OBVIOUS
  <2>1. ASSUME NEW k \in Keys, NEW x \in MapValues, SetEntry(k, x) PROVE MapInv'
    BY <2>1, SetKeeps, AddKeeps, Zenon DEF SetEntry
  <2>2. ASSUME NEW k \in Keys, NEW x \in MapValues, InsertEntry(k, x) PROVE MapInv'
    BY <2>2, AddKeeps, Zenon DEF InsertEntry
  <2>3. ASSUME NEW k \in Keys, RemoveEntry(k) PROVE MapInv'
    BY <2>3, RemoveKeeps
  <2>4. CASE Compact
    BY <2>4, CompactKeeps
  <2>5. CASE StartWalk
    BY <2>5, StartKeeps
  <2>6. CASE WalkOn
    BY <2>6, WalkKeeps
  <2>7. CASE UNCHANGED mapVars
    BY <2>7, Zenon DEF mapVars, MapInv, WalkTypes, WalkSees
  <2> QED
    BY <2>1, <2>2, <2>3, <2>4, <2>5, <2>6, <2>7, Zenon DEF MapNext
<1>3. MapInv => FindsWhatWasPut /\ ChainsInOrder /\ WalksEnd /\ WalkSeesAll
  BY MapShows
<1> QED
  BY <1>1, <1>2, <1>3, PTL DEF MapSpec

-----------------------------------------------------------------------------
(* Sequences by their positions.                                           *)

Row(s, n) == n \in Nat /\ s = [i \in 1 .. n |-> s[i]]

\* A row of n is a sequence of that length.
LEMMA RowIs ==
    ASSUME NEW s, NEW n, Row(s, n)
    PROVE  n \in Nat /\ Len(s) = n /\ DOMAIN s = 1 .. n /\ \E V : s \in Seq(V)
<1> DEFINE V == {s[i] : i \in 1 .. n}
<1>1. n \in Nat /\ s = [i \in 1 .. n |-> s[i]]
  BY DEF Row
<1>2. s \in [1 .. n -> V]
  <2>1. \A i \in 1 .. n : s[i] \in V
    OBVIOUS
  <2> HIDE DEF V
  <2> QED
    BY <1>1, <2>1
<1> HIDE DEF V
<1>3. s \in Seq(V)
  BY <1>1, <1>2
<1>4. Len(s) \in Nat /\ DOMAIN s = 1 .. Len(s) /\ DOMAIN s = 1 .. n
  BY <1>2, <1>3, LenProperties
<1>5. Len(s) = n
  BY <1>1, <1>4
<1> QED
  BY <1>1, <1>3, <1>4, <1>5

\* Sequences are rows.
LEMMA SeqIsRow ==
    ASSUME NEW V, NEW s \in Seq(V)
    PROVE  Row(s, Len(s))
<1>1. Len(s) \in Nat /\ s \in [1 .. Len(s) -> V]
  BY LenProperties
<1> QED
  BY <1>1 DEF Row

\* Rows with the same elements are the same.
LEMMA RowsEqual ==
    ASSUME NEW n, NEW s, Row(s, n), NEW t, Row(t, n), \A i \in 1 .. n : s[i] = t[i]
    PROVE  s = t
<1>1. s = [i \in 1 .. n |-> s[i]] /\ t = [i \in 1 .. n |-> t[i]]
  BY DEF Row
<1>2. [i \in 1 .. n |-> s[i]] = [i \in 1 .. n |-> t[i]]
  OBVIOUS
<1> QED
  BY <1>1, <1>2, Zenon

\* u is t behind s.
IsJoined(u, s, n, t, m) ==
    /\ Row(u, n + m)
    /\ \A i \in 1 .. n + m : u[i] = IF i <= n THEN s[i] ELSE t[i - n]

\* What \o does.
LEMMA RowsJoined ==
    ASSUME NEW n, NEW s, Row(s, n), NEW m, NEW t, Row(t, m)
    PROVE  IsJoined(s \o t, s, n, t, m)
<1>1. PICK U : s \in Seq(U)
  BY RowIs
<1>2. PICK V : t \in Seq(V)
  BY RowIs
<1> DEFINE W == U \cup V
<1>3. s \in Seq(W) /\ t \in Seq(W)
  <2>1. s \in [1 .. n -> U] /\ t \in [1 .. m -> V] /\ n \in Nat /\ m \in Nat
    BY <1>1, <1>2, RowIs, LenProperties
  <2>2. s \in [1 .. n -> W] /\ t \in [1 .. m -> W]
    BY <2>1
  <2> QED
    BY <2>1, <2>2
<1>4. n \in Nat /\ m \in Nat /\ Len(s) = n /\ Len(t) = m
  BY RowIs
<1> HIDE DEF W
<1>5. /\ s \o t \in Seq(W) /\ Len(s \o t) = n + m
      /\ \A i \in 1 .. n + m : (s \o t)[i] = IF i <= n THEN s[i] ELSE t[i - n]
  BY <1>3, <1>4, ConcatProperties
<1>6. Row(s \o t, n + m)
  BY <1>5, SeqIsRow
<1> QED
  BY <1>5, <1>6 DEF IsJoined

\* u is what SubSeq makes of s.
IsPart(u, s, a, b) ==
    /\ Row(u, IF a <= b THEN b - a + 1 ELSE 0)
    /\ \A i \in 1 .. b - a + 1 : u[i] = s[a + i - 1]

\* A part of a row.
LEMMA RowPart ==
    ASSUME NEW n, NEW s, Row(s, n), NEW a \in Nat \ {0}, NEW b \in Int, b <= n
    PROVE  IsPart(SubSeq(s, a, b), s, a, b)
<1>1. PICK U : s \in Seq(U)
  BY RowIs
<1>2. n \in Nat /\ \A i \in 1 .. n : s[i] \in U
  BY <1>1, RowIs, LenProperties
<1>3. \A i \in a .. b : s[i] \in U
  BY <1>2
<1>4. /\ SubSeq(s, a, b) \in Seq(U)
      /\ Len(SubSeq(s, a, b)) = IF a <= b THEN b - a + 1 ELSE 0
      /\ \A i \in 1 .. b - a + 1 : SubSeq(s, a, b)[i] = s[a + i - 1]
  BY <1>3, SubSeqProperties
<1>5. Row(SubSeq(s, a, b), IF a <= b THEN b - a + 1 ELSE 0)
  BY <1>4, SeqIsRow
<1> QED
  BY <1>4, <1>5 DEF IsPart

\* u is the first n of s.
IsFirst(u, s, n) == Row(u, n) /\ \A i \in 1 .. n : u[i] = s[i]

\* See IsFirst.
LEMMA RowFirst ==
    ASSUME NEW n, NEW s, Row(s, n), NEW b \in 0 .. n
    PROVE  IsFirst(SubSeq(s, 1, b), s, b)
<1>1. n \in Nat
  BY DEF Row
<1>2. /\ Row(SubSeq(s, 1, b), IF 1 <= b THEN b - 1 + 1 ELSE 0)
      /\ \A i \in 1 .. b - 1 + 1 : SubSeq(s, 1, b)[i] = s[1 + i - 1]
  BY <1>1, RowPart DEF IsPart
<1>3. (IF 1 <= b THEN b - 1 + 1 ELSE 0) = b
  BY <1>1
<1>4. Row(SubSeq(s, 1, b), b)
  BY <1>2, <1>3
<1>5. ASSUME NEW i \in 1 .. b PROVE SubSeq(s, 1, b)[i] = s[i]
  <2>1. i \in 1 .. b - 1 + 1 /\ 1 + i - 1 = i
    BY <1>1
  <2> QED
    BY <1>2, <2>1
<1> QED
  BY <1>4, <1>5 DEF IsFirst

\* u is s with t at an offset.
IsOver(u, s, n, offset, t, m) ==
    /\ Row(u, n)
    /\ \A i \in 1 .. n : u[i] = IF i > offset /\ i <= offset + m THEN t[i - offset] ELSE s[i]

\* A row with other bytes from some place on.
LEMMA RowOver ==
    ASSUME NEW n, NEW s, Row(s, n), NEW t, NEW m, Row(t, m), NEW offset \in Int
    PROVE  IsOver(Over(s, offset, t), s, n, offset, t, m)
<1>1. Len(s) = n /\ Len(t) = m /\ n \in Nat
  BY RowIs
<1>2. Over(s, offset, t) = [i \in 1 .. n |-> IF i > offset /\ i <= offset + m
                                            THEN t[i - offset] ELSE s[i]]
  BY <1>1, Zenon DEF Over
<1> QED
  BY <1>1, <1>2 DEF Row, IsOver

\* The empty one.
LEMMA RowEmpty == Row(<<>>, 0)
<1>1. <<>> \in Seq({}) /\ Len(<<>>) = 0
  OBVIOUS
<1> QED
  BY <1>1, SeqIsRow

-----------------------------------------------------------------------------
(* Buffers.                                                                *)

LEMMA LessIs ==
    ASSUME NEW a \in Nat, NEW b \in Nat
    PROVE  /\ Less(a, b) \in Nat /\ Less(a, b) <= a /\ Less(a, b) <= b
           /\ a <= b => Less(a, b) = a
           /\ b <= a => Less(a, b) = b
  BY DEF Less

IsBuffer(b) ==
    /\ b = [mem |-> b.mem, p |-> b.p, len |-> b.len, size |-> b.size,
            fixed |-> b.fixed, mapped |-> b.mapped]
    /\ b.mapped = FALSE /\ b.fixed \in BOOLEAN
    /\ b.len \in Nat /\ b.size \in Nat /\ b.size <= BytesMax

\* The bytes of s are in the buffer, as far as there is room.
InBuffer(b, s) ==
    /\ b.p \in DOMAIN b.mem /\ Row(b.mem[b.p], b.size)
    /\ \A i \in 1 .. b.size : i <= b.len => b.mem[b.p][i] = s[i]

Holds(b, s) ==
    /\ IsBuffer(b) /\ Row(s, b.len)
    /\ b.p # Null => InBuffer(b, s)
    /\ b.p = Null => b.size = 0

Tight(b, s) == Holds(b, s) /\ b.len <= b.size

\* The heap is as before, except for block q, which may be elsewhere.
Moved(b, q) ==
    /\ DOMAIN b.mem = (DOMAIN mem \ {q}) \cup ({b.p} \ {Null})
    /\ \A k \in DOMAIN mem \ {q} : b.mem[k] = mem[k]
    /\ b.p = q /\ q # Null => q \in DOMAIN mem /\ Len(b.mem[q]) = Len(mem[q])
    /\ b.p # q /\ b.p # Null =>
         /\ b.p \in Nat \ {0} /\ b.p \notin DOMAIN mem
         /\ \A x \in Objects : obj[x].p # b.p

\* The allocator finds a block.
LEMMA FreshIs ==
    ASSUME BytesConstants, NEW heap, IsFiniteSet(DOMAIN heap)
    PROVE  /\ Fresh(heap) \in Nat \ {0} /\ Fresh(heap) \notin DOMAIN heap
           /\ \A o \in Objects : obj[o].p # Fresh(heap)
<1> DEFINE f == [o \in Objects |-> obj[o].p]
           P == {f[o] : o \in Objects}
           D == DOMAIN heap
           n == Cardinality(D) + Cardinality(Objects) + 1
<1>0. IsFiniteSet(Objects) /\ IsFiniteSet(D)
  BY Zenon DEF BytesConstants
<1>1. IsFiniteSet(P) /\ Cardinality(P) <= Cardinality(Objects)
  <2>1. f \in Surjection(Objects, P)
    BY DEF Surjection
  <2> HIDE DEF f, P
  <2> QED
    BY <1>0, <2>1, FS_Surjection
<1>2. /\ Cardinality(D) \in Nat /\ Cardinality(Objects) \in Nat /\ Cardinality(P) \in Nat
      /\ n \in Nat
  BY <1>0, <1>1, FS_CardinalityType
<1>3. IsFiniteSet(D \cup P) /\ Cardinality(D \cup P) < n
  <2> HIDE DEF P, D
  <2>1. /\ IsFiniteSet(D \cup P) /\ IsFiniteSet(D \cap P)
        /\ Cardinality(D \cup P) = Cardinality(D) + Cardinality(P) - Cardinality(D \cap P)
    BY <1>0, <1>1, FS_Union, FS_Intersection
  <2>2. Cardinality(D \cap P) \in Nat
    BY <2>1, FS_CardinalityType
  <2> QED
    BY <1>1, <1>2, <2>1, <2>2
<1>4. \E k \in 1 .. n : k \notin D \cup P
  <2> HIDE DEF P, D, n
  <2> SUFFICES ASSUME 1 .. n \subseteq D \cup P PROVE FALSE
    OBVIOUS
  <2>1. Cardinality(1 .. n) = n
    <3>1. 1 \in Int /\ n \in Int
      BY <1>2
    <3>2. Cardinality(1 .. n) = IF 1 > n THEN 0 ELSE n - 1 + 1
      BY <3>1, FS_Interval
    <3> QED
      BY <1>2, <3>2
  <2>2. Cardinality(1 .. n) <= Cardinality(D \cup P)
    BY <1>3, FS_Subset
  <2>3. Cardinality(D \cup P) \in Nat
    BY <1>3, FS_CardinalityType
  <2> QED
    BY <1>2, <1>3, <2>1, <2>2, <2>3
<1>5. \E k \in 1 .. n : k \notin DOMAIN heap /\ \A o \in Objects : obj[o].p # k
  BY <1>4
<1>6. Fresh(heap) \in 1 .. n /\ Fresh(heap) \notin DOMAIN heap
      /\ \A o \in Objects : obj[o].p # Fresh(heap)
  BY <1>5, Zenon DEF Fresh
<1> QED
  BY <1>2, <1>6

\* How large the code makes a buffer.
AskedSize(b, n) == Less(IF ~b.fixed /\ n < MinSize THEN MinSize ELSE n, BytesMax)

\* bytes_realloc() keeps what is in the buffer, and all other blocks.
LEMMA ReallocDoes ==
    ASSUME BytesConstants, IsFiniteSet(DOMAIN mem), 0 \notin DOMAIN mem,
           NEW b, NEW s, Tight(b, s), b.mem = mem, NEW n \in Nat
    PROVE  /\ Holds(Realloc(b, n), s) /\ Realloc(b, n).p # Null
           /\ Moved(Realloc(b, n), b.p)
           /\ Realloc(b, n).len = b.len /\ Realloc(b, n).fixed = b.fixed
           /\ Realloc(b, n).size = AskedSize(b, n) /\ Less(n, BytesMax) <= AskedSize(b, n)
<1> DEFINE size == AskedSize(b, n)
           old  == IF b.p = Null THEN <<>> ELSE b.mem[b.p]
           to   == Fresh(mem)
           c    == Realloc(b, n)
<1>0. BytesMax \in Nat /\ MinSize \in Nat
  BY DEF BytesConstants
<1>1. size \in Nat /\ size <= BytesMax /\ Less(n, BytesMax) <= size
  BY <1>0 DEF AskedSize, Less
<1>b. /\ b = [mem |-> b.mem, p |-> b.p, len |-> b.len, size |-> b.size,
              fixed |-> b.fixed, mapped |-> b.mapped]
      /\ b.mapped = FALSE /\ b.fixed \in BOOLEAN
      /\ b.len \in Nat /\ b.size \in Nat /\ b.size <= BytesMax /\ Row(s, b.len)
      /\ b.p # Null => InBuffer(b, s)
      /\ b.p = Null => b.size = 0
      /\ b.len <= b.size
      /\ Holds(b, s)
  BY DEF Tight, Holds, IsBuffer
<1>2. to \in Nat \ {0} /\ to \notin DOMAIN mem /\ \A o \in Objects : obj[o].p # to
  BY FreshIs
<1>3. Row(old, b.size) /\ \A i \in 1 .. b.size : i <= b.len => old[i] = s[i]
  <2>1. CASE b.p = Null
    BY <1>b, <2>1, RowEmpty
  <2>2. CASE b.p # Null
    BY <1>b, <2>2 DEF InBuffer
  <2> QED
    BY <2>1, <2>2
<1>4. Len(old) = b.size
  BY <1>3, RowIs
<1> DEFINE new == [i \in 1 .. size |-> IF i <= Len(old) THEN old[i] ELSE Unwritten]
           heap == [k \in (DOMAIN mem \ {b.p}) \cup {to} |-> IF k # to THEN mem[k] ELSE new]
<1>5. c = IF b.p # Null /\ Len(old) = size THEN b
          ELSE [b EXCEPT !.p = to, !.size = size, !.mem = heap]
  BY Zenon DEF Realloc, AskedSize
<1> HIDE DEF size, old, to, c
<1>6. CASE b.p # Null /\ Len(old) = size
  <2>1. c = b /\ size = b.size
    BY <1>4, <1>5, <1>6
  <2>2. Moved(b, b.p)
    <3>1. b.p \in DOMAIN mem
      BY <1>b, <1>6 DEF InBuffer
    <3> QED
      BY <1>6, <3>1 DEF Moved
  <2>3. /\ Holds(c, s) /\ c.p # Null /\ Moved(c, b.p) /\ c.len = b.len /\ c.fixed = b.fixed
        /\ c.size = size /\ Less(n, BytesMax) <= size
    BY <1>1, <1>b, <1>6, <2>1, <2>2
  <2> QED
    BY <2>3 DEF size, c
<1>7. CASE ~(b.p # Null /\ Len(old) = size)
  <2>1. c = [mem |-> heap, p |-> to, len |-> b.len, size |-> size,
             fixed |-> b.fixed, mapped |-> b.mapped]
    <3> HIDE DEF heap
    <3> QED
      BY <1>b, <1>5, <1>7
  <2>2. heap[to] = new /\ DOMAIN heap = (DOMAIN mem \ {b.p}) \cup {to}
        /\ \A k \in DOMAIN mem \ {b.p} : heap[k] = mem[k]
    <3> HIDE DEF new
    <3> QED
      BY <1>2
  <2> HIDE DEF heap
  <2>3. Row(new, size) /\ \A i \in 1 .. size : i <= b.len => new[i] = s[i]
    BY <1>1, <1>3, <1>4, <1>b DEF Row
  <2> HIDE DEF new
  <2>4. c.mem = heap /\ c.p = to /\ c.len = b.len /\ c.size = size /\ c.fixed = b.fixed
        /\ c.mapped = FALSE
    BY <1>b, <2>1
  <2>5. Holds(c, s)
    <3>1. IsBuffer(c)
      BY <1>1, <1>b, <2>1, <2>4 DEF IsBuffer
    <3>2. InBuffer(c, s)
      BY <1>2, <2>2, <2>3, <2>4 DEF InBuffer
    <3> QED
      BY <1>2, <1>b, <2>4, <3>1, <3>2 DEF Holds, Null
  <2>6. to # b.p
    <3>1. CASE b.p = Null
      BY <1>2, <3>1 DEF Null
    <3>2. CASE b.p # Null
      BY <1>2, <1>b, <3>2 DEF InBuffer
    <3> QED
      BY <3>1, <3>2
  <2>7. Moved(c, b.p)
    BY <1>2, <2>2, <2>4, <2>6 DEF Moved, Null
  <2>8. c.p # Null
    BY <1>2, <2>4 DEF Null
  <2> QED
    BY <1>1, <2>4, <2>5, <2>7, <2>8, Zenon DEF c, size
<1> QED
  BY <1>6, <1>7

\* bytes_resize() does so too, and there is room if there can be.
LEMMA ResizeDoes ==
    ASSUME BytesConstants, IsFiniteSet(DOMAIN mem), 0 \notin DOMAIN mem,
           NEW b, NEW s, Tight(b, s), b.mem = mem, NEW n \in Nat
    PROVE  /\ Holds(BytesResize(b, n), s) /\ Moved(BytesResize(b, n), b.p)
           /\ BytesResize(b, n).len = b.len /\ BytesResize(b, n).fixed = b.fixed
           /\ Less(n, BytesMax) <= BytesResize(b, n).size
           /\ b.p # Null \/ n # 0 => BytesResize(b, n).p # Null
           /\ n = b.size => BytesResize(b, n) = b
<1>0. BytesMax \in Nat /\ MinSize \in Nat /\ KeepSize \in Nat
  BY DEF BytesConstants
<1>1. /\ b.mapped = FALSE /\ b.size \in Nat /\ b.len \in Nat /\ b.len <= b.size /\ Holds(b, s)
      /\ b.p # Null => InBuffer(b, s)
      /\ b.p = Null => b.size = 0
  BY DEF Tight, Holds, IsBuffer
<1>2. CASE b.size >= n /\ (b.size <= KeepSize \/ b.size < 2 * n)
  <2>1. BytesResize(b, n) = b
    BY <1>1, <1>2, Zenon DEF BytesResize
  <2>2. Moved(b, b.p)
    <3>1. b.p # Null => b.p \in DOMAIN mem
      BY <1>1 DEF InBuffer
    <3> QED
      BY <3>1 DEF Moved, Null
  <2>3. Less(n, BytesMax) <= b.size
    BY <1>0, <1>1, <1>2, LessIs
  <2> QED
    BY <1>1, <1>2, <2>1, <2>2, <2>3
<1>3. CASE ~(b.size >= n /\ (b.size <= KeepSize \/ b.size < 2 * n))
  <2>1. BytesResize(b, n) = Realloc(b, n)
    BY <1>1, <1>3, Zenon DEF BytesResize
  <2>2. n # b.size
    BY <1>0, <1>1, <1>3
  <2> QED
    BY <2>1, <2>2, ReallocDoes
<1> QED
  BY <1>2, <1>3

\* What buf_add_buf() and the like put behind the bytes of a buffer.
LEMMA AddDoes ==
    ASSUME NEW b, NEW s, Tight(b, s), b.p # Null, NEW t, NEW m, Row(t, m)
    PROVE  /\ Tight(BufAdd(b, t), IF b.len + m <= b.size THEN s \o t ELSE s)
           /\ BufAdd(b, t).p = b.p /\ BufAdd(b, t).size = b.size
           /\ BufAdd(b, t).fixed = b.fixed
           /\ BufAdd(b, t).len = IF b.len + m <= b.size THEN b.len + m ELSE b.len
           /\ \A q : Moved(b, q) => Moved(BufAdd(b, t), q)
<1> DEFINE c == BufAdd(b, t)
           u == s \o t
           row == Over(b.mem[b.p], b.len, t)
           heap == [b.mem EXCEPT ![b.p] = row]
<1>b. /\ b = [mem |-> b.mem, p |-> b.p, len |-> b.len, size |-> b.size,
              fixed |-> b.fixed, mapped |-> b.mapped]
      /\ b.mapped = FALSE /\ b.fixed \in BOOLEAN
      /\ b.len \in Nat /\ b.size \in Nat /\ b.size <= BytesMax /\ Row(s, b.len)
      /\ b.p \in DOMAIN b.mem /\ Row(b.mem[b.p], b.size)
      /\ \A i \in 1 .. b.size : i <= b.len => b.mem[b.p][i] = s[i]
      /\ b.len <= b.size
  BY DEF Tight, Holds, IsBuffer, InBuffer
<1>m. m \in Nat /\ Len(t) = m
  BY RowIs
<1>1. c = IF b.len + m > b.size THEN b
          ELSE [b EXCEPT !.len = b.len + m, !.mem = heap]
  <2>1. c = IF b.len + Len(t) > b.size THEN b
            ELSE [b EXCEPT !.len = @ + Len(t), !.mem[b.p] = Over(@, b.len, t)]
    BY Zenon DEF BufAdd
  <2>2. [b EXCEPT !.len = @ + Len(t), !.mem[b.p] = Over(@, b.len, t)]
           = [b EXCEPT !.len = b.len + m, !.mem = heap]
    BY <1>b, <1>m
  <2> QED
    BY <1>m, <2>1, <2>2
<1>2. CASE b.len + m > b.size
  <2>1. c = b /\ ~(b.len + m <= b.size)
    BY <1>1, <1>2, <1>b, <1>m
  <2> QED
    BY <2>1
<1>3. CASE ~(b.len + m > b.size)
  <2>1. c = [mem |-> heap, p |-> b.p, len |-> b.len + m, size |-> b.size,
             fixed |-> b.fixed, mapped |-> b.mapped]
    <3> HIDE DEF heap, c
    <3> QED
      BY <1>1, <1>3, <1>b
  <2>2. b.len + m <= b.size
    BY <1>3, <1>b, <1>m
  <2>3. Row(row, b.size) /\ \A i \in 1 .. b.size :
            row[i] = IF i > b.len /\ i <= b.len + m THEN t[i - b.len] ELSE b.mem[b.p][i]
    <3>1. IsOver(row, b.mem[b.p], b.size, b.len, t, m)
      <4>1. b.len \in Int /\ Row(b.mem[b.p], b.size)
        BY <1>b
      <4> QED
        BY <4>1, RowOver, Zenon
    <3> QED
      BY <3>1 DEF IsOver
  <2> HIDE DEF row
  <2>4. /\ DOMAIN heap = DOMAIN b.mem /\ heap[b.p] = row
        /\ \A k \in DOMAIN b.mem : k # b.p => heap[k] = b.mem[k]
    BY <1>b
  <2> HIDE DEF heap, c
  <2>5. /\ c.mem = heap /\ c.p = b.p /\ c.len = b.len + m /\ c.size = b.size
        /\ c.fixed = b.fixed /\ c.mapped = FALSE
    BY <1>b, <2>1
  <2>6. Row(u, b.len + m) /\ \A i \in 1 .. b.len + m : u[i] = IF i <= b.len THEN s[i] ELSE t[i - b.len]
    <3>1. IsJoined(u, s, b.len, t, m)
      BY <1>b, RowsJoined, Zenon
    <3> QED
      BY <3>1 DEF IsJoined
  <2> HIDE DEF u
  <2>7. IsBuffer(c)
    BY <1>b, <1>m, <2>1, <2>5 DEF IsBuffer
  <2>8. \A i \in 1 .. b.size : i <= b.len + m => row[i] = u[i]
    BY <1>b, <1>m, <2>3, <2>6
  <2>9. InBuffer(c, u)
    BY <1>b, <2>3, <2>4, <2>5, <2>8 DEF InBuffer
  <2>10. Tight(c, u)
    BY <1>b, <2>2, <2>5, <2>6, <2>7, <2>9 DEF Tight, Holds
  <2>11. ASSUME NEW q, Moved(b, q) PROVE Moved(c, q)
    <3>1. Len(row) = b.size /\ Len(b.mem[b.p]) = b.size
      BY <1>b, <2>3, RowIs
    <3> QED
      BY <1>b, <2>4, <2>5, <2>11, <3>1 DEF Moved
  <2> QED
    BY <2>2, <2>5, <2>10, <2>11 DEF c, u
<1> QED
  BY <1>2, <1>3

\* buf_set_len() leaves what is in the buffer, as far as it goes, and zeros.
LEMMA LenSet ==
    ASSUME BytesConstants,
           NEW b, NEW s, Holds(b, s), b.p # Null, NEW n \in Nat, NEW t, Row(t, Less(n, b.size)),
           \A i \in 1 .. Less(n, b.size) : t[i] = IF i <= b.len THEN s[i] ELSE 0
    PROVE  /\ Tight(SetLen(b, n), t)
           /\ SetLen(b, n).p = b.p /\ SetLen(b, n).size = b.size
           /\ SetLen(b, n).fixed = b.fixed /\ SetLen(b, n).len = Less(n, b.size)
           /\ \A q : Moved(b, q) => Moved(SetLen(b, n), q)
<1> DEFINE c == SetLen(b, n)
           l == Less(n, b.size)
           row == [i \in 1 .. b.size |-> IF i > b.len /\ i <= l THEN 0 ELSE b.mem[b.p][i]]
           heap == [b.mem EXCEPT ![b.p] = row]
<1>b. /\ b = [mem |-> b.mem, p |-> b.p, len |-> b.len, size |-> b.size,
              fixed |-> b.fixed, mapped |-> b.mapped]
      /\ b.mapped = FALSE /\ b.fixed \in BOOLEAN
      /\ b.len \in Nat /\ b.size \in Nat /\ b.size <= BytesMax
      /\ b.p \in DOMAIN b.mem /\ Row(b.mem[b.p], b.size)
      /\ \A i \in 1 .. b.size : i <= b.len => b.mem[b.p][i] = s[i]
  BY DEF Holds, IsBuffer, InBuffer
<1>l. l \in Nat /\ l <= b.size
  BY <1>b, LessIs
<1>1. c = [mem |-> heap, p |-> b.p, len |-> l, size |-> b.size,
           fixed |-> b.fixed, mapped |-> b.mapped]
  <2>1. DOMAIN b.mem[b.p] = 1 .. b.size
    BY <1>b, RowIs
  <2> DEFINE mid == [b.mem EXCEPT ![b.p] = [i \in DOMAIN b.mem[b.p] |->
                                  IF i > b.len /\ i <= l THEN 0 ELSE b.mem[b.p][i]]]
  <2>2. c = [b EXCEPT !.len = l, !.mem = mid]
    <3>1. c = [b EXCEPT !.len = l,
                        !.mem[b.p] = [i \in DOMAIN @ |-> IF i > b.len /\ i <= l
                                                         THEN 0 ELSE @[i]]]
      BY Zenon DEF SetLen
    <3> HIDE DEF l
    <3> QED
      BY <1>b, <3>1
  <2>3. mid = heap
    BY <2>1, Zenon
  <2> HIDE DEF mid, heap, l, c
  <2> QED
    BY <1>b, <2>2, <2>3
<1> HIDE DEF l
<1>2. Row(row, b.size)
  BY <1>b DEF Row
<1>3. \A i \in 1 .. b.size : i <= l => row[i] = t[i]
  BY <1>b, <1>l DEF l
<1> HIDE DEF row
<1>4. /\ DOMAIN heap = DOMAIN b.mem /\ heap[b.p] = row
      /\ \A k \in DOMAIN b.mem : k # b.p => heap[k] = b.mem[k]
  BY <1>b
<1> HIDE DEF heap, c
<1>5. /\ c.mem = heap /\ c.p = b.p /\ c.len = l /\ c.size = b.size
      /\ c.fixed = b.fixed /\ c.mapped = FALSE
  BY <1>b, <1>1
<1>6. Tight(c, t)
  <2>1. IsBuffer(c)
    BY <1>b, <1>l, <1>1, <1>5 DEF IsBuffer
  <2>2. InBuffer(c, t)
    BY <1>b, <1>2, <1>3, <1>4, <1>5 DEF InBuffer
  <2>3. Row(t, c.len)
    BY <1>5 DEF l
  <2> QED
    BY <1>l, <1>5, <2>1, <2>2, <2>3 DEF Tight, Holds
<1>7. ASSUME NEW q, Moved(b, q) PROVE Moved(c, q)
  <2>1. Len(row) = b.size /\ Len(b.mem[b.p]) = b.size
    BY <1>b, <1>2, RowIs
  <2> QED
    BY <1>b, <1>4, <1>5, <1>7, <2>1 DEF Moved
<1>8. /\ Tight(c, t) /\ c.p = b.p /\ c.size = b.size /\ c.fixed = b.fixed /\ c.len = l
      /\ \A q : Moved(b, q) => Moved(c, q)
  BY <1>5, <1>6, <1>7
<1> QED
  BY <1>8 DEF c, l

-----------------------------------------------------------------------------
(* The invariant.                                                          *)

\* An object with attributes a has a buffer of its own, with bytes s.
Own(heap, a, s) ==
    LET size == IF a.size < 0 THEN a.len ELSE a.size
    IN  /\ a.len <= size /\ size <= BytesMax /\ Row(s, a.len)
        /\ a.p # Null => /\ a.p \in DOMAIN heap /\ Row(heap[a.p], size)
                         /\ \A i \in 1 .. size : i <= a.len => heap[a.p][i] = s[i]
        /\ a.p = Null => size = 0

\* Another object's, as long as that is there.
IsView(heap, a) == a.p \in DOMAIN heap => a.len <= Len(heap[a.p])

IsBlock(heap, k) ==
    k \in Nat \ {0} /\ Row(heap[k], Len(heap[k])) /\ Len(heap[k]) <= BytesMax

Members == [p : Nat, len : Nat, size : Nat \cup {-1, -2}]

\* The blocks are buffers, each of one object that is not spoilt at most, and
\* while no object is spoilt, of one.
BytesInv ==
    /\ IsFiniteSet(DOMAIN mem) /\ spoilt \subseteq Objects
    /\ obj \in [Objects -> Members] /\ want = [o \in Objects |-> want[o]]
    /\ \A k \in DOMAIN mem : IsBlock(mem, k)
    /\ \A o \in Objects \ spoilt :
         /\ Mapped(o) => IsView(mem, obj[o])
         /\ ~Mapped(o) => Own(mem, obj[o], want[o])
    /\ \A o, x \in Objects \ spoilt :
         o # x /\ obj[o].p = obj[x].p /\ obj[o].p # Null => Mapped(o) \/ Mapped(x)
    /\ spoilt = {} => \A k \in DOMAIN mem : \E o \in Objects : obj[o].p = k /\ ~Mapped(o)

\* What an operation finds.
LEMMA AttrIs ==
    ASSUME BytesConstants, BytesInv, NEW o \in Objects \ spoilt, ~Mapped(o)
    PROVE  /\ Tight(Attr(o), want[o])
           /\ Attr(o).mem = mem /\ Attr(o).p = obj[o].p /\ Attr(o).len = obj[o].len
           /\ Attr(o).fixed = (obj[o].size < 0)
           /\ Attr(o).size = IF obj[o].size < 0 THEN obj[o].len ELSE obj[o].size
           /\ Attr(o).fixed => Attr(o).len = Attr(o).size
           /\ Moved(Attr(o), obj[o].p)
<1> DEFINE a == obj[o]
           size == IF a.size < 0 THEN a.len ELSE a.size
<1>1. a \in Members /\ a.size # -2 /\ Own(mem, a, want[o])
      /\ \A k \in DOMAIN mem : IsBlock(mem, k)
  BY DEF BytesInv, Mapped, BYTES_SIZE_MAPPED
<1>2. /\ a.p \in Nat /\ a.len \in Nat /\ a.size \in Nat \cup {-1} /\ size \in Nat
      /\ a.size < 0 => size = a.len
  BY <1>1 DEF Members
<1>3. Attr(o) = [mem |-> mem, p |-> a.p, len |-> a.len, size |-> size,
                 fixed |-> a.size < 0, mapped |-> FALSE]
  <2>1. (a.size = -2) = FALSE
    BY <1>1
  <2> QED
    BY <2>1, Zenon DEF Attr, BYTES_SIZE_MAPPED
<1>4. /\ a.len <= size /\ size <= BytesMax /\ Row(want[o], a.len)
      /\ a.p # Null => /\ a.p \in DOMAIN mem /\ Row(mem[a.p], size)
                       /\ \A i \in 1 .. size : i <= a.len => mem[a.p][i] = want[o][i]
      /\ a.p = Null => size = 0
  BY <1>1, Zenon DEF Own
<1>5. 0 \notin DOMAIN mem
  BY <1>1 DEF IsBlock
<1> HIDE DEF size
<1>6. PICK b : b = Attr(o)
  OBVIOUS
<1>7. /\ b = [mem |-> mem, p |-> a.p, len |-> a.len, size |-> size,
              fixed |-> a.size < 0, mapped |-> FALSE]
      /\ b.mem = mem /\ b.p = a.p /\ b.len = a.len /\ b.size = size
      /\ b.fixed = (a.size < 0) /\ b.mapped = FALSE
  BY <1>3, <1>6
<1>8. IsBuffer(b)
  BY <1>2, <1>4, <1>7 DEF IsBuffer
<1>9. Tight(b, want[o])
  BY <1>4, <1>7, <1>8 DEF Tight, Holds, InBuffer
<1>10. Moved(b, a.p)
  BY <1>4, <1>5, <1>7 DEF Moved, Null
<1> QED
  BY <1>2, <1>6, <1>7, <1>9, <1>10 DEF size

\* What it leaves.
LEMMA WrittenIs ==
    ASSUME BytesConstants, NEW b, NEW s, Tight(b, s), b.fixed => b.len = b.size,
           b.p \in Nat
    PROVE  /\ Own(b.mem, Written(b), s) /\ Written(b) \in Members
           /\ Written(b).size # -2 /\ Written(b).p = b.p /\ Written(b).len = b.len
<1>1. /\ b.mapped = FALSE /\ b.fixed \in BOOLEAN
      /\ b.len \in Nat /\ b.size \in Nat /\ b.size <= BytesMax /\ Row(s, b.len)
      /\ b.p # Null => /\ b.p \in DOMAIN b.mem /\ Row(b.mem[b.p], b.size)
                       /\ \A i \in 1 .. b.size : i <= b.len => b.mem[b.p][i] = s[i]
      /\ b.p = Null => b.size = 0
      /\ b.len <= b.size
  BY DEF Tight, Holds, IsBuffer, InBuffer
<1>2. PICK a : a = Written(b)
  OBVIOUS
<1>3. a = [p |-> b.p, len |-> b.len, size |-> IF b.fixed THEN -1 ELSE b.size]
  BY <1>1, <1>2 DEF Written, BYTES_SIZE_FIXED
<1>4. /\ a.p = b.p /\ a.len = b.len /\ a.size \in Nat \cup {-1} /\ a \in Members
      /\ (IF a.size < 0 THEN a.len ELSE a.size) = b.size
  BY <1>1, <1>3 DEF Members
<1>5. Own(b.mem, a, s)
  BY <1>1, <1>4 DEF Own
<1> QED
  BY <1>2, <1>4, <1>5

\* The blocks after a buffer has moved; the other objects still have theirs.
LEMMA HeapMoves ==
    ASSUME BytesConstants, BytesInv, NEW q, NEW b, NEW s, Holds(b, s), Moved(b, q)
    PROVE  /\ IsFiniteSet(DOMAIN b.mem) /\ \A k \in DOMAIN b.mem : IsBlock(b.mem, k)
           /\ \A x \in Objects : IsView(mem, obj[x]) => IsView(b.mem, obj[x])
           /\ \A x \in Objects : (obj[x].p # q \/ q = Null) /\ Own(mem, obj[x], want[x])
                                   => Own(b.mem, obj[x], want[x])
<1>1. /\ IsFiniteSet(DOMAIN mem) /\ \A k \in DOMAIN mem : IsBlock(mem, k)
      /\ 0 \notin DOMAIN mem
  BY DEF BytesInv, IsBlock
<1>2. /\ DOMAIN b.mem = (DOMAIN mem \ {q}) \cup ({b.p} \ {Null})
      /\ \A k \in DOMAIN mem \ {q} : b.mem[k] = mem[k]
      /\ b.p = q /\ q # Null => q \in DOMAIN mem /\ Len(b.mem[q]) = Len(mem[q])
      /\ b.p # q /\ b.p # Null =>
           /\ b.p \in Nat \ {0} /\ b.p \notin DOMAIN mem
           /\ \A x \in Objects : obj[x].p # b.p
  BY DEF Moved
<1>3. /\ b.p # Null => Row(b.mem[b.p], b.size)
      /\ b.size <= BytesMax
  BY DEF Holds, IsBuffer, InBuffer
<1>4. IsFiniteSet(DOMAIN b.mem)
  <2>1. IsFiniteSet(DOMAIN mem \ {q}) /\ IsFiniteSet({b.p} \ {Null})
    BY <1>1, FS_Subset, FS_Singleton
  <2>2. IsFiniteSet((DOMAIN mem \ {q}) \cup ({b.p} \ {Null}))
    BY <2>1, FS_Union
  <2> QED
    BY <1>2, <2>2
<1>5. ASSUME NEW k \in DOMAIN b.mem PROVE IsBlock(b.mem, k)
  <2>1. CASE k = b.p /\ b.p # Null
    <3>1. Row(b.mem[k], Len(b.mem[k])) /\ Len(b.mem[k]) <= BytesMax
      BY <1>3, <2>1, RowIs
    <3>2. k \in Nat \ {0}
      <4>1. CASE b.p = q
        BY <1>1, <1>2, <2>1, <4>1 DEF IsBlock
      <4>2. CASE b.p # q
        BY <1>2, <2>1, <4>2
      <4> QED
        BY <4>1, <4>2
    <3> QED
      BY <3>1, <3>2 DEF IsBlock
  <2>2. CASE ~(k = b.p /\ b.p # Null)
    <3>1. k \in DOMAIN mem \ {q} /\ b.mem[k] = mem[k]
      BY <1>2, <2>2
    <3> QED
      BY <1>1, <3>1 DEF IsBlock
  <2> QED
    BY <2>1, <2>2
<1>6. ASSUME NEW x \in Objects, IsView(mem, obj[x]) PROVE IsView(b.mem, obj[x])
  <2> SUFFICES ASSUME obj[x].p \in DOMAIN b.mem PROVE obj[x].len <= Len(b.mem[obj[x].p])
    BY DEF IsView
  <2>1. CASE obj[x].p = q
    <3>1. b.p = q /\ q # Null
      BY <1>2, <2>1
    <3> QED
      BY <1>2, <1>6, <2>1, <3>1 DEF IsView
  <2>2. CASE obj[x].p # q
    <3>1. obj[x].p \in DOMAIN mem \ {q}
      BY <1>2, <2>2
    <3> QED
      BY <1>2, <1>6, <3>1 DEF IsView
  <2> QED
    BY <2>1, <2>2
<1>7. ASSUME NEW x \in Objects, obj[x].p # q \/ q = Null, Own(mem, obj[x], want[x])
      PROVE  Own(b.mem, obj[x], want[x])
  <2>1. CASE obj[x].p = Null
    BY <1>7, <2>1 DEF Own
  <2>2. CASE obj[x].p # Null
    <3>1. obj[x].p \in DOMAIN mem \ {q}
      BY <1>7, <2>2 DEF Own
    <3>2. obj[x].p \in DOMAIN b.mem /\ b.mem[obj[x].p] = mem[obj[x].p]
      BY <1>2, <3>1
    <3> QED
      BY <1>7, <3>1, <3>2 DEF Own
  <2> QED
    BY <2>1, <2>2
<1> QED
  BY <1>4, <1>5, <1>6, <1>7

-----------------------------------------------------------------------------
(* Steps.                                                                  *)

\* A call on an object with its own buffer, or none, ends with buffer b.
LEMMA OwnerBecomes ==
    ASSUME BytesConstants, BytesInv, NEW o \in Objects \ spoilt, ~Mapped(o),
           NEW b, NEW s, Tight(b, s), b.fixed => b.len = b.size, Moved(b, obj[o].p),
           Becomes(o, b, s)
    PROVE  BytesInv'
<1> DEFINE q == obj[o].p
           a == Written(b)
<1>1. /\ mem' = b.mem /\ obj' = [obj EXCEPT ![o] = a]
      /\ want' = [want EXCEPT ![o] = s] /\ spoilt' = spoilt
  BY DEF Becomes
<1>2. /\ IsFiniteSet(DOMAIN mem) /\ spoilt \subseteq Objects
      /\ obj \in [Objects -> Members] /\ want = [x \in Objects |-> want[x]]
      /\ \A k \in DOMAIN mem : IsBlock(mem, k)
  BY DEF BytesInv
<1>3. \A x \in Objects \ spoilt : /\ Mapped(x) => IsView(mem, obj[x])
                                  /\ ~Mapped(x) => Own(mem, obj[x], want[x])
  BY DEF BytesInv
<1>4. \A x, y \in Objects \ spoilt :
         x # y /\ obj[x].p = obj[y].p /\ obj[x].p # Null => Mapped(x) \/ Mapped(y)
  BY DEF BytesInv
<1>5. spoilt = {} => \A k \in DOMAIN mem : \E x \in Objects : obj[x].p = k /\ ~Mapped(x)
  BY DEF BytesInv
<1>6. /\ DOMAIN b.mem = (DOMAIN mem \ {q}) \cup ({b.p} \ {Null})
      /\ b.p # q /\ b.p # Null =>
           /\ b.p \in Nat \ {0} /\ \A x \in Objects : obj[x].p # b.p
  BY DEF Moved
<1>7. b.p \in Nat
  <2>1. q \in Nat
    BY <1>2 DEF Members
  <2> QED
    BY <1>6, <2>1 DEF Null
<1>8. /\ Own(b.mem, a, s) /\ a \in Members /\ a.size # -2 /\ a.p = b.p
  BY <1>7, WrittenIs
<1>9. Holds(b, s)
  BY DEF Tight
<1> HIDE DEF a
<1>10. /\ IsFiniteSet(DOMAIN b.mem) /\ \A k \in DOMAIN b.mem : IsBlock(b.mem, k)
       /\ \A x \in Objects : IsView(mem, obj[x]) => IsView(b.mem, obj[x])
       /\ \A x \in Objects : (obj[x].p # q \/ q = Null) /\ Own(mem, obj[x], want[x])
                               => Own(b.mem, obj[x], want[x])
  BY <1>9, HeapMoves
<1> HIDE DEF q
<1>11. /\ obj'[o] = a /\ want'[o] = s
       /\ \A x \in Objects : x # o => obj'[x] = obj[x] /\ want'[x] = want[x]
  BY <1>1, <1>2
<1>12. \A x \in Objects : Mapped(x)' <=> obj'[x].size = -2
  BY DEF Mapped, BYTES_SIZE_MAPPED
<1>13. \A x \in Objects : Mapped(x) <=> obj[x].size = -2
  BY DEF Mapped, BYTES_SIZE_MAPPED
<1>14. IsFiniteSet(DOMAIN mem)' /\ (spoilt \subseteq Objects)'
       /\ \A k \in DOMAIN mem' : IsBlock(mem', k)
  BY <1>1, <1>2, <1>10
<1>15. obj' \in [Objects -> Members] /\ want' = [x \in Objects |-> want'[x]]
  BY <1>1, <1>2, <1>8
<1>16. ASSUME NEW x \in Objects \ spoilt
       PROVE  /\ obj'[x].size = -2 => IsView(mem', obj'[x])
              /\ obj'[x].size # -2 => Own(mem', obj'[x], want'[x])
  <2>1. CASE x = o
    BY <1>1, <1>8, <1>11, <2>1
  <2>2. CASE x # o /\ obj[x].size = -2
    BY <1>1, <1>3, <1>10, <1>11, <1>13, <2>2
  <2>3. CASE x # o /\ obj[x].size # -2
    <3>1. obj[x].p # q \/ q = Null
      BY <1>4, <1>13, <2>3 DEF q
    <3> QED
      BY <1>1, <1>3, <1>10, <1>11, <1>13, <2>3, <3>1
  <2> QED
    BY <2>1, <2>2, <2>3
<1>17. ASSUME NEW x \in Objects \ spoilt, NEW y \in Objects \ spoilt,
              x # y, obj'[x].p = obj'[y].p, obj'[x].p # Null
       PROVE  obj'[x].size = -2 \/ obj'[y].size = -2
  <2>1. \A z \in Objects \ spoilt : z # o /\ obj[z].p = b.p /\ b.p # Null => obj[z].size = -2
    BY <1>4, <1>6, <1>13 DEF q
  <2>2. CASE x = o
    BY <1>8, <1>11, <1>17, <2>1, <2>2
  <2>3. CASE y = o
    BY <1>8, <1>11, <1>17, <2>1, <2>3
  <2>4. CASE x # o /\ y # o
    BY <1>4, <1>11, <1>13, <1>17, <2>4
  <2> QED
    BY <2>2, <2>3, <2>4
<1>18. ASSUME spoilt = {}, NEW k \in DOMAIN b.mem
       PROVE  \E x \in Objects : obj'[x].p = k /\ obj'[x].size # -2
  <2>1. CASE k = b.p
    BY <1>8, <1>11, <2>1
  <2>2. CASE k # b.p
    <3>1. k \in DOMAIN mem /\ k # q
      BY <1>6, <2>2
    <3>2. PICK x \in Objects : obj[x].p = k /\ obj[x].size # -2
      BY <1>5, <1>13, <1>18, <3>1
    <3> QED
      BY <1>11, <3>1, <3>2 DEF q
  <2> QED
    BY <2>1, <2>2
<1>19. BytesInv'
  BY <1>1, <1>12, <1>14, <1>15, <1>16, <1>17, <1>18 DEF BytesInv
<1> QED
  BY <1>19

\* A heap that cannot be told from the one there is.
SameHeap(heap) == DOMAIN heap = DOMAIN mem /\ \A k \in DOMAIN mem : heap[k] = mem[k]

\* A call on an object that has another's buffer when it ends.
LEMMA ViewerBecomes ==
    ASSUME BytesConstants, BytesInv, NEW o \in Objects \ spoilt,
           Mapped(o) \/ obj[o].p = Null,
           NEW b, NEW s, b.mapped = TRUE, SameHeap(b.mem), b.p \in Nat, b.len \in Nat,
           b.p \in DOMAIN mem => b.len <= Len(mem[b.p]),
           Becomes(o, b, s)
    PROVE  BytesInv'
<1> DEFINE a == Written(b)
<1>1. /\ SameHeap(mem') /\ obj' = [obj EXCEPT ![o] = a]
      /\ want' = [want EXCEPT ![o] = s] /\ spoilt' = spoilt
  BY DEF Becomes
<1>h. DOMAIN mem' = DOMAIN mem /\ \A k \in DOMAIN mem : mem'[k] = mem[k]
  BY <1>1 DEF SameHeap
<1>2. /\ IsFiniteSet(DOMAIN mem) /\ spoilt \subseteq Objects
      /\ obj \in [Objects -> Members] /\ want = [x \in Objects |-> want[x]]
      /\ \A k \in DOMAIN mem : IsBlock(mem, k)
  BY DEF BytesInv
<1>3. \A x \in Objects \ spoilt : /\ Mapped(x) => IsView(mem, obj[x])
                                  /\ ~Mapped(x) => Own(mem, obj[x], want[x])
  BY DEF BytesInv
<1>4. \A x, y \in Objects \ spoilt :
         x # y /\ obj[x].p = obj[y].p /\ obj[x].p # Null => Mapped(x) \/ Mapped(y)
  BY DEF BytesInv
<1>5. spoilt = {} => \A k \in DOMAIN mem : \E x \in Objects : obj[x].p = k /\ ~Mapped(x)
  BY DEF BytesInv
<1>6. a = [p |-> b.p, len |-> b.len, size |-> -2]
  BY DEF Written, BYTES_SIZE_MAPPED
<1> HIDE DEF a
<1>7. a \in Members /\ a.p = b.p /\ a.size = -2 /\ IsView(mem, a)
  BY <1>6 DEF Members, IsView
<1>8. /\ obj'[o] = a /\ obj'[o].size = -2
      /\ \A x \in Objects : x # o => obj'[x] = obj[x] /\ want'[x] = want[x]
  BY <1>1, <1>2, <1>7
<1>9. \A x \in Objects : Mapped(x)' <=> obj'[x].size = -2
  BY DEF Mapped, BYTES_SIZE_MAPPED
<1>10. \A x \in Objects : Mapped(x) <=> obj[x].size = -2
  BY DEF Mapped, BYTES_SIZE_MAPPED
<1>11. IsFiniteSet(DOMAIN mem)' /\ (spoilt \subseteq Objects)'
       /\ \A k \in DOMAIN mem' : IsBlock(mem', k)
  BY <1>1, <1>2, <1>h DEF IsBlock
<1>12. obj' \in [Objects -> Members] /\ want' = [x \in Objects |-> want'[x]]
  BY <1>1, <1>2, <1>7
<1>13. ASSUME NEW x \in Objects \ spoilt
       PROVE  /\ obj'[x].size = -2 => IsView(mem', obj'[x])
              /\ obj'[x].size # -2 => Own(mem', obj'[x], want'[x])
  <2>1. \A y \in Objects : IsView(mem, obj[y]) => IsView(mem', obj[y])
    BY <1>h DEF IsView
  <2>2. \A y \in Objects : Own(mem, obj[y], want[y]) => Own(mem', obj[y], want[y])
    BY <1>h DEF Own
  <2>3. IsView(mem, a) => IsView(mem', a)
    BY <1>h DEF IsView
  <2> QED
    BY <1>1, <1>3, <1>7, <1>8, <1>10, <2>1, <2>2, <2>3
<1>14. ASSUME NEW x \in Objects \ spoilt, NEW y \in Objects \ spoilt,
              x # y, obj'[x].p = obj'[y].p, obj'[x].p # Null
       PROVE  obj'[x].size = -2 \/ obj'[y].size = -2
  BY <1>4, <1>8, <1>10, <1>14
<1>15. ASSUME spoilt = {}, NEW k \in DOMAIN mem
       PROVE  \E x \in Objects : obj'[x].p = k /\ obj'[x].size # -2
  <2>1. PICK x \in Objects : obj[x].p = k /\ obj[x].size # -2
    BY <1>5, <1>10, <1>15
  <2>2. x # o
    <3>1. k # Null
      BY <1>2 DEF IsBlock, Null
    <3> QED
      BY <1>10, <2>1, <3>1
  <2> QED
    BY <1>8, <2>1, <2>2
<1>16. BytesInv'
  BY <1>1, <1>h, <1>9, <1>11, <1>12, <1>13, <1>14, <1>15 DEF BytesInv
<1> QED
  BY <1>16

\* A call after which nobody may use the object.
LEMMA SpoiltBecomes ==
    ASSUME BytesConstants, BytesInv, NEW o \in Objects \ spoilt, ~Mapped(o),
           NEW b, NEW s, Holds(b, s), Moved(b, obj[o].p),
           mem' = b.mem, want' = want, spoilt' = spoilt \cup {o},
           obj' \in [Objects -> Members],
           \A x \in Objects : x # o => obj'[x] = obj[x]
    PROVE  BytesInv'
<1> DEFINE q == obj[o].p
<1>2. /\ IsFiniteSet(DOMAIN mem) /\ spoilt \subseteq Objects
      /\ obj \in [Objects -> Members] /\ want = [x \in Objects |-> want[x]]
  BY DEF BytesInv
<1>3. \A x \in Objects \ spoilt : /\ Mapped(x) => IsView(mem, obj[x])
                                  /\ ~Mapped(x) => Own(mem, obj[x], want[x])
  BY DEF BytesInv
<1>4. \A x, y \in Objects \ spoilt :
         x # y /\ obj[x].p = obj[y].p /\ obj[x].p # Null => Mapped(x) \/ Mapped(y)
  BY DEF BytesInv
<1>5. /\ IsFiniteSet(DOMAIN b.mem) /\ \A k \in DOMAIN b.mem : IsBlock(b.mem, k)
      /\ \A x \in Objects : IsView(mem, obj[x]) => IsView(b.mem, obj[x])
      /\ \A x \in Objects : (obj[x].p # q \/ q = Null) /\ Own(mem, obj[x], want[x])
                              => Own(b.mem, obj[x], want[x])
  BY HeapMoves
<1> HIDE DEF q
<1>6. \A x \in Objects : (Mapped(x)' <=> obj'[x].size = -2) /\ (Mapped(x) <=> obj[x].size = -2)
  BY DEF Mapped, BYTES_SIZE_MAPPED
<1>7. /\ IsFiniteSet(DOMAIN mem)' /\ (spoilt \subseteq Objects)'
      /\ \A k \in DOMAIN mem' : IsBlock(mem', k)
      /\ want' = [x \in Objects |-> want'[x]]
      /\ spoilt' # {}
  BY <1>2, <1>5
<1>8. ASSUME NEW x \in Objects \ spoilt'
      PROVE  /\ obj'[x].size = -2 => IsView(mem', obj'[x])
             /\ obj'[x].size # -2 => Own(mem', obj'[x], want'[x])
  <2>1. x \in Objects \ spoilt /\ x # o /\ obj'[x] = obj[x]
    OBVIOUS
  <2>2. CASE obj[x].size = -2
    BY <1>3, <1>5, <1>6, <2>1, <2>2
  <2>3. CASE obj[x].size # -2
    <3>1. obj[x].p # q \/ q = Null
      BY <1>4, <1>6, <2>1, <2>3 DEF q
    <3> QED
      BY <1>3, <1>5, <1>6, <2>1, <2>3, <3>1
  <2> QED
    BY <2>2, <2>3
<1>9. ASSUME NEW x \in Objects \ spoilt', NEW y \in Objects \ spoilt',
             x # y, obj'[x].p = obj'[y].p, obj'[x].p # Null
      PROVE  obj'[x].size = -2 \/ obj'[y].size = -2
  <2>1. /\ x \in Objects \ spoilt /\ x # o /\ obj'[x] = obj[x]
        /\ y \in Objects \ spoilt /\ y # o /\ obj'[y] = obj[y]
    OBVIOUS
  <2> QED
    BY <1>4, <1>6, <1>9, <2>1
<1>10. BytesInv'
  BY <1>6, <1>7, <1>8, <1>9 DEF BytesInv
<1> QED
  BY <1>10

\* Bytes written in place are those of every object they belong to.
LEMMA RewriteKeeps ==
    ASSUME BytesConstants, BytesInv, NEW o \in Objects, HasBuffer(o),
           NEW s, NEW m, Row(s, m), Rewrites(o, s)
    PROVE  BytesInv'
<1> DEFINE p == obj[o].p
           row == Over(mem[p], 0, s)
           fit(x) == Over(want[x], 0, SubSeq(s, 1, Less(Len(s), Len(want[x]))))
<1>1. /\ IsFiniteSet(DOMAIN mem) /\ spoilt \subseteq Objects
      /\ obj \in [Objects -> Members] /\ want = [x \in Objects |-> want[x]]
      /\ \A k \in DOMAIN mem : IsBlock(mem, k)
  BY DEF BytesInv
<1>2. \A x \in Objects \ spoilt : /\ Mapped(x) => IsView(mem, obj[x])
                                  /\ ~Mapped(x) => Own(mem, obj[x], want[x])
  BY DEF BytesInv
<1>3. p # Null /\ p \in DOMAIN mem /\ IsBlock(mem, p)
  BY <1>1 DEF HasBuffer, Usable
<1>4. Attr(o).mem = mem /\ Attr(o).p = p
  BY DEF Attr
<1>5. /\ mem' = [mem EXCEPT ![p] = row] /\ obj' = obj /\ spoilt' = spoilt
      /\ want' = [x \in Objects |-> IF obj[x].p # p THEN want[x] ELSE fit(x)]
  <2>1. /\ mem' = Overwritten(Attr(o), s).mem /\ obj' = obj /\ spoilt' = spoilt
        /\ want' = [x \in Objects |->
                      IF obj[x].p # Overwritten(Attr(o), s).p THEN want[x] ELSE fit(x)]
    BY Zenon DEF Rewrites
  <2>2. PICK b : b = Attr(o)
    OBVIOUS
  <2>3. b = [mem |-> mem, p |-> p, len |-> b.len, size |-> b.size, fixed |-> b.fixed,
             mapped |-> b.mapped]
    BY <2>2 DEF Attr
  <2>4. Overwritten(b, s).mem = [mem EXCEPT ![p] = row] /\ Overwritten(b, s).p = p
    <3>1. Overwritten(b, s) = [b EXCEPT !.mem[b.p] = Over(@, 0, s)]
      BY Zenon DEF Overwritten
    <3> HIDE DEF p
    <3> QED
      BY <2>3, <3>1
  <2> HIDE DEF fit, row, p
  <2> QED
    BY <2>1, <2>2, <2>4
<1> HIDE DEF row, fit
<1>6. m \in Nat /\ Len(s) = m
  BY RowIs
<1>7. /\ Row(row, Len(mem[p])) /\ Len(mem[p]) \in Nat
      /\ \A i \in 1 .. Len(mem[p]) : row[i] = IF i <= m THEN s[i] ELSE mem[p][i]
  <2>1. Row(mem[p], Len(mem[p])) /\ 0 \in Int /\ Len(mem[p]) \in Nat
    BY <1>3, RowIs DEF IsBlock
  <2>2. IsOver(row, mem[p], Len(mem[p]), 0, s, m)
    BY <2>1, RowOver, Zenon DEF row
  <2> HIDE DEF p
  <2>3. \A i \in 1 .. Len(mem[p]) : i - 0 = i /\ i > 0 /\ 0 + m = m
    BY <1>6, <2>1
  <2>4. Row(row, Len(mem[p])) /\ \A i \in 1 .. Len(mem[p]) :
            row[i] = IF i > 0 /\ i <= 0 + m THEN s[i - 0] ELSE mem[p][i]
    BY <2>2, Zenon DEF IsOver
  <2> QED
    BY <2>1, <2>3, <2>4
<1>8. Len(row) = Len(mem[p])
  BY <1>7, RowIs
<1>9. ASSUME NEW x \in Objects, NEW n, Row(want[x], n)
      PROVE  Row(fit(x), n) /\ \A i \in 1 .. n : fit(x)[i] = IF i <= m THEN s[i] ELSE want[x][i]
  <2>1. n \in Nat /\ Len(want[x]) = n
    BY <1>9, RowIs
  <2> DEFINE k == Less(m, n)
             t == SubSeq(s, 1, k)
  <2>2. k \in 0 .. m /\ k <= n /\ (m <= n => k = m) /\ (n <= m => k = n)
    BY <1>6, <2>1, LessIs
  <2> HIDE DEF k
  <2>3. IsFirst(t, s, k)
    BY <2>2, RowFirst, Zenon
  <2> HIDE DEF t
  <2>4. Row(t, k) /\ \A i \in 1 .. k : t[i] = s[i]
    BY <2>3 DEF IsFirst
  <2>5. fit(x) = Over(want[x], 0, t)
    BY <1>6, <2>1 DEF fit, k, t
  <2>6. IsOver(fit(x), want[x], n, 0, t, k)
    <3>1. 0 \in Int
      OBVIOUS
    <3> QED
      BY <1>9, <2>4, <2>5, <3>1, RowOver, Zenon
  <2>7. Row(fit(x), n) /\ \A i \in 1 .. n :
            fit(x)[i] = IF i > 0 /\ i <= 0 + k THEN t[i - 0] ELSE want[x][i]
    BY <2>6, Zenon DEF IsOver
  <2>8. ASSUME NEW i \in 1 .. n PROVE fit(x)[i] = IF i <= m THEN s[i] ELSE want[x][i]
    <3>1. i > 0 /\ 0 + k = k /\ i - 0 = i /\ (i <= k <=> i <= m)
      BY <1>6, <2>1, <2>2
    <3>2. i <= k => t[i] = s[i]
      BY <2>2, <2>4
    <3> QED
      BY <2>7, <3>1, <3>2
  <2> QED
    BY <2>7, <2>8
<1> HIDE DEF p
<1>10. /\ DOMAIN mem' = DOMAIN mem /\ mem'[p] = row
       /\ \A k \in DOMAIN mem : k # p => mem'[k] = mem[k]
  BY <1>3, <1>5
<1>11. \A k \in DOMAIN mem' : IsBlock(mem', k)
  BY <1>1, <1>3, <1>7, <1>8, <1>10 DEF IsBlock
<1>12. \A x \in Objects : IsView(mem, obj[x]) => IsView(mem', obj[x])
  BY <1>8, <1>10 DEF IsView
<1>13. ASSUME NEW x \in Objects \ spoilt, ~Mapped(x)
       PROVE  Own(mem', obj[x], want'[x])
  <2>1. Own(mem, obj[x], want[x])
    BY <1>2, <1>13
  <2>2. CASE obj[x].p # p
    <3>1. want'[x] = want[x]
      BY <1>5, <2>2
    <3> QED
      BY <1>10, <2>1, <2>2, <3>1 DEF Own
  <2>3. CASE obj[x].p = p
    <3> DEFINE size == IF obj[x].size < 0 THEN obj[x].len ELSE obj[x].size
    <3>1. /\ obj[x].len <= size /\ size <= BytesMax /\ Row(want[x], obj[x].len)
          /\ Row(mem[p], size)
          /\ \A i \in 1 .. size : i <= obj[x].len => mem[p][i] = want[x][i]
      BY <1>3, <2>1, <2>3 DEF Own
    <3>2. obj[x].len \in Nat /\ size \in Nat
      BY <1>1 DEF Members
    <3> HIDE DEF size
    <3>3. Len(mem[p]) = size
      BY <3>1, RowIs
    <3>4. want'[x] = fit(x)
      BY <1>5, <2>3
    <3>5. Row(fit(x), obj[x].len) /\ \A i \in 1 .. obj[x].len :
              fit(x)[i] = IF i <= m THEN s[i] ELSE want[x][i]
      BY <1>9, <3>1
    <3>6. Row(row, size)
      BY <1>7, <3>3
    <3>7. \A i \in 1 .. size : i <= obj[x].len => row[i] = fit(x)[i]
      BY <1>7, <3>1, <3>2, <3>3, <3>5
    <3> QED
      BY <1>3, <1>10, <2>3, <3>1, <3>4, <3>5, <3>6, <3>7 DEF Own, size
  <2> QED
    BY <2>2, <2>3
<1>14. \A x \in Objects : Mapped(x)' <=> Mapped(x)
  BY <1>5 DEF Mapped
<1>15. BytesInv'
  <2>1. IsFiniteSet(DOMAIN mem)' /\ (spoilt \subseteq Objects)'
        /\ (obj \in [Objects -> Members])' /\ want' = [x \in Objects |-> want'[x]]
    BY <1>1, <1>5, <1>10
  <2>2. \A x \in Objects \ spoilt : /\ Mapped(x)' => IsView(mem', obj'[x])
                                    /\ ~Mapped(x)' => Own(mem', obj'[x], want'[x])
    BY <1>2, <1>5, <1>12, <1>13, <1>14
  <2>3. \A x, y \in Objects \ spoilt :
           x # y /\ obj'[x].p = obj'[y].p /\ obj'[x].p # Null => Mapped(x)' \/ Mapped(y)'
    BY <1>5, <1>14 DEF BytesInv
  <2>4. spoilt = {} => \A k \in DOMAIN mem' : \E x \in Objects : obj'[x].p = k /\ ~Mapped(x)'
    BY <1>5, <1>10, <1>14 DEF BytesInv
  <2> QED
    BY <1>5, <1>11, <2>1, <2>2, <2>3, <2>4 DEF BytesInv
<1> QED
  BY <1>15

-----------------------------------------------------------------------------
(* What is put into buffers.                                               *)

\* What may be used is not spoilt.
LEMMA UsableIs ==
    ASSUME BytesConstants, BytesInv, NEW o \in Objects, HasBuffer(o)
    PROVE  /\ o \notin spoilt /\ obj[o].p # Null /\ obj[o].p \in DOMAIN mem
           /\ Row(Content(o), obj[o].len) /\ Len(Content(o)) = obj[o].len
           /\ obj[o].len \in Nat /\ obj[o].len <= BytesMax
           /\ Content(o) = Wanted(o) /\ (~Mapped(o) => Content(o) = want[o])
<1> DEFINE p == obj[o].p
           l == obj[o].len
<1>1. p # Null /\ p \in DOMAIN mem /\ o \notin spoilt
  BY DEF HasBuffer, Usable
<1>2. /\ obj[o] \in Members /\ IsBlock(mem, p) /\ (Mapped(o) => IsView(mem, obj[o]))
      /\ ~Mapped(o) => Own(mem, obj[o], want[o])
  BY <1>1 DEF BytesInv
<1>3. l \in Nat /\ obj[o].size \in Int
  BY <1>2 DEF Members
<1>4. Row(mem[p], Len(mem[p])) /\ Len(mem[p]) <= BytesMax /\ Len(mem[p]) \in Nat
  BY <1>2, RowIs DEF IsBlock
<1>5. l <= Len(mem[p])
  <2>1. CASE Mapped(o)
    BY <1>1, <1>2, <2>1 DEF IsView
  <2>2. CASE ~Mapped(o)
    <3>1. PICK n : Row(mem[p], n) /\ l <= n
      BY <1>1, <1>2, <2>2 DEF Own
    <3> QED
      BY <3>1, RowIs
  <2> QED
    BY <2>1, <2>2
<1>6. Content(o) = SubSeq(mem[p], 1, l)
  BY <1>1, Zenon DEF Content, Bytes, Attr
<1>7. IsFirst(Content(o), mem[p], l)
  <2>1. l \in 0 .. Len(mem[p])
    BY <1>3, <1>4, <1>5
  <2> QED
    BY <1>4, <1>6, <2>1, RowFirst, Zenon
<1>8. Row(Content(o), l) /\ \A i \in 1 .. l : Content(o)[i] = mem[p][i]
  BY <1>7, Zenon DEF IsFirst
<1>9. ASSUME ~Mapped(o) PROVE Content(o) = want[o]
  <2> DEFINE size == IF obj[o].size < 0 THEN obj[o].len ELSE obj[o].size
  <2>1. /\ Row(want[o], l) /\ l <= size
        /\ \A i \in 1 .. size : i <= l => mem[p][i] = want[o][i]
    BY <1>1, <1>2, <1>9 DEF Own
  <2>2. size \in Nat
    BY <1>2 DEF Members
  <2> HIDE DEF size
  <2>3. \A i \in 1 .. l : Content(o)[i] = want[o][i]
    BY <1>3, <1>8, <2>1, <2>2
  <2> QED
    BY <1>8, <2>1, <2>3, RowsEqual, Zenon
<1>10. Content(o) = Wanted(o)
  BY <1>9 DEF Wanted
<1>11. Len(Content(o)) = l
  BY <1>8, RowIs
<1>12. l <= BytesMax
  BY <1>3, <1>4, <1>5 DEF BytesConstants
<1> QED
  BY <1>1, <1>3, <1>8, <1>9, <1>10, <1>11, <1>12

\* And reaches no further than its block.
LEMMA RoomIs ==
    ASSUME BytesConstants, BytesInv, NEW o \in Objects, HasBuffer(o)
    PROVE  obj[o].len <= Len(mem[obj[o].p]) /\ Len(mem[obj[o].p]) \in Nat
<1>1. o \notin spoilt /\ obj[o].p # Null /\ obj[o].p \in DOMAIN mem
  BY UsableIs
<1>2. /\ (Mapped(o) => IsView(mem, obj[o])) /\ (~Mapped(o) => Own(mem, obj[o], want[o]))
      /\ IsBlock(mem, obj[o].p)
  BY <1>1 DEF BytesInv
<1>3. Len(mem[obj[o].p]) \in Nat
  BY <1>2, RowIs DEF IsBlock
<1>4. CASE Mapped(o)
  BY <1>1, <1>2, <1>3, <1>4 DEF IsView
<1>5. CASE ~Mapped(o)
  <2>1. PICK n : Row(mem[obj[o].p], n) /\ obj[o].len <= n
    BY <1>1, <1>2, <1>5 DEF Own
  <2> QED
    BY <1>3, <2>1, RowIs
<1> QED
  BY <1>3, <1>4, <1>5

\* One that may grow has a buffer of its own.
LEMMA GrowsIs ==
    ASSUME BytesConstants, BytesInv, NEW o \in Objects, MayGrow(o)
    PROVE  /\ HasBuffer(o) /\ o \in Objects \ spoilt /\ ~Mapped(o)
           /\ obj[o].p # Null /\ ~(obj[o].size < 0)
<1>1. HasBuffer(o) /\ obj[o].size >= 0
  BY DEF MayGrow
<1>2. obj[o].size \in Int
  BY DEF BytesInv, Members
<1> QED
  BY <1>1, <1>2, UsableIs DEF Mapped, BYTES_SIZE_MAPPED

\* The first of a row, as many as a buffer may have.
LEMMA CutIs ==
    ASSUME BytesConstants, NEW n, NEW s, Row(s, n)
    PROVE  IsFirst(Cut(s), s, Less(n, BytesMax))
<1>1. n \in Nat /\ Len(s) = n /\ BytesMax \in Nat
  BY RowIs DEF BytesConstants
<1>2. Less(n, BytesMax) \in 0 .. n
  BY <1>1, LessIs
<1>3. IsFirst(SubSeq(s, 1, Less(n, BytesMax)), s, Less(n, BytesMax))
  BY <1>2, RowFirst, Zenon
<1> QED
  BY <1>1, <1>3, Zenon DEF Cut

\* Texts, and what is made of them.
LEMMA TextIs ==
    ASSUME BytesConstants, NEW text \in Texts
    PROVE  Row(text, Len(text)) /\ Len(text) \in Nat
<1>1. text \in Seq(0 .. 255)
  BY DEF BytesConstants
<1> QED
  BY <1>1, SeqIsRow, RowIs

LEMMA HexIs ==
    ASSUME NEW n, NEW s, Row(s, n)
    PROVE  Row(ToHex(s), 2 * n) /\ Row(FromHex(s), n \div 2) /\ n \div 2 \in Nat
<1>1. n \in Nat /\ Len(s) = n /\ n \div 2 \in Nat
  BY RowIs
<1>2. Row(FromHex(s), n \div 2)
  BY <1>1 DEF FromHex, Row
<1>3. Row(ToHex(s), 2 * n)
  BY <1>1 DEF ToHex, Row
<1> QED
  BY <1>1, <1>2, <1>3

LEMMA PackedIs ==
    ASSUME NEW v, NEW n \in Int
    PROVE  Row(Packed(v, n), Width(n)) /\ Width(n) \in Nat
<1> DEFINE little == [i \in 1 .. Width(n) |-> (v \div 256 ^ (i - 1)) % 256]
<1>1. Width(n) \in Nat
  BY DEF Width
<1>2. Row(little, Width(n))
  BY <1>1, Zenon DEF Row
<1>3. Packed(v, n) = IF n < -1 THEN Reverse(little) ELSE little
  BY Zenon DEF Packed
<1> HIDE DEF little
<1>4. Row(Reverse(little), Width(n))
  <2>1. Len(little) = Width(n)
    BY <1>2, RowIs
  <2>2. Reverse(little) = [i \in 1 .. Width(n) |-> little[(Width(n) - i) + 1]]
    BY <2>1, Zenon DEF Reverse
  <2> QED
    BY <1>1, <2>2 DEF Row
<1> QED
  BY <1>1, <1>2, <1>3, <1>4

LEMMA Text64Is ==
    ASSUME NEW n, NEW s, Row(s, n)
    PROVE  \E m \in Nat : Len(Text64(s)) = m
<1> DEFINE ends == {i \in 1 .. Len(s) : Value64(s[i]) >= 64}
           end  == CHOOSE i \in ends : \A j \in ends : i <= j
<1>1. n \in Nat /\ Len(s) = n
  BY RowIs
<1>2. Text64(s) = IF ends = {} THEN s ELSE SubSeq(s, 1, end - 1)
  BY Zenon DEF Text64
<1>3. CASE ends = {}
  BY <1>1, <1>2, <1>3
<1>4. CASE ends # {}
  <2>1. ends \subseteq Int /\ IsFiniteSet(ends) /\ ends \subseteq 1 .. n
    <3>1. IsFiniteSet(1 .. n)
      BY <1>1, FS_Interval
    <3>2. ends \subseteq 1 .. n
      BY <1>1
    <3> HIDE DEF ends
    <3>3. IsFiniteSet(ends)
      BY <3>1, <3>2, FS_Subset
    <3>4. ends \subseteq Int
      BY <3>2
    <3> QED
      BY <3>2, <3>3, <3>4
  <2> HIDE DEF ends
  <2>2. \E i \in ends : \A j \in ends : i <= j
    BY <1>4, <2>1, Extremes
  <2>3. end \in ends
    BY <2>2, Zenon
  <2> HIDE DEF end
  <2>4. end - 1 \in 0 .. n
    <3>1. end \in 1 .. n
      BY <2>1, <2>3
    <3> QED
      BY <1>1, <3>1
  <2>5. IsFirst(SubSeq(s, 1, end - 1), s, end - 1)
    BY <2>4, RowFirst, Zenon
  <2>6. Row(SubSeq(s, 1, end - 1), end - 1) /\ end - 1 \in Nat
    BY <1>1, <2>4, <2>5 DEF IsFirst
  <2> QED
    BY <1>2, <1>4, <2>6, RowIs
<1> QED
  BY <1>3, <1>4

LEMMA Decode64Is ==
    ASSUME NEW n, NEW s, Row(s, n)
    PROVE  Row(Decode64(s), Decode64Length(s)) /\ Decode64Length(s) \in Nat
<1>1. PICK m \in Nat : Len(Text64(s)) = m
  BY Text64Is
<1>2. Decode64Length(s) \in Nat
  <2>1. Decode64Length(s) = (m \div 4) * 3
                              + (CASE m % 4 = 2 -> 1 [] m % 4 = 3 -> 2 [] OTHER -> 0)
    BY <1>1, Zenon DEF Decode64Length
  <2>2. (m \div 4) * 3 \in Nat /\ (CASE m % 4 = 2 -> 1 [] m % 4 = 3 -> 2 [] OTHER -> 0) \in Nat
    OBVIOUS
  <2> QED
    BY <2>1, <2>2
<1>3. Row(Decode64(s), Decode64Length(s))
  BY <1>2 DEF Decode64, Row
<1> QED
  BY <1>2, <1>3

LEMMA Encode64Is ==
    ASSUME NEW n, NEW s, Row(s, n)
    PROVE  Row(Encode64(s), ((n + 2) \div 3) * 4) /\ ((n + 2) \div 3) * 4 \in Nat
<1>1. n \in Nat /\ Len(s) = n /\ ((n + 2) \div 3) * 4 \in Nat
  BY RowIs
<1>2. Row(Encode64(s), ((n + 2) \div 3) * 4)
  BY <1>1 DEF Encode64, Row
<1> QED
  BY <1>1, <1>2

\* Integers and bit fields are set in place.
LEMMA SetIs ==
    ASSUME NEW n, NEW s, Row(s, n), NEW at \in Int, NEW v, NEW w \in Int
    PROVE  Row(SetInt(s, at, v, w), n) /\ Row(SetBits(s, at, w, v), n)
<1>1. n \in Nat /\ Len(s) = n
  BY RowIs
<1>2. Row(SetInt(s, at, v, w), n)
  <2>1. PICK k : k = FromEnd(s, at)
    OBVIOUS
  <2>2. k \in Int
    BY <1>1, <2>1 DEF FromEnd
  <2>3. SetInt(s, at, v, w) = IF w # 0 /\ Room(s, k, w) THEN Over(s, k, Packed(v, w)) ELSE s
    BY <2>1, Zenon DEF SetInt
  <2>4. IsOver(Over(s, k, Packed(v, w)), s, n, k, Packed(v, w), Width(w))
    BY <2>2, PackedIs, RowOver, Zenon
  <2> QED
    BY <2>3, <2>4 DEF IsOver
<1>3. Row(SetBits(s, at, w, v), n)
  BY <1>1 DEF SetBits, Row
<1> QED
  BY <1>2, <1>3

-----------------------------------------------------------------------------
(* Buffers that are filled.                                                *)

\* The empty sequence before or behind another.
LEMMA JoinedEmpty ==
    ASSUME NEW n, NEW s, Row(s, n)
    PROVE  <<>> \o s = s /\ s \o <<>> = s
<1>1. PICK V : s \in Seq(V)
  BY RowIs
<1> QED
  BY <1>1, ConcatEmptySeq

\* Behind s, k of t are as many as of both.
JoinFirst(s, n, t, k) == s \o SubSeq(t, 1, k) = SubSeq(s \o t, 1, n + k)

\* The first of two sequences, one behind the other.
LEMMA JoinedFirst ==
    ASSUME NEW n, NEW s, Row(s, n), NEW m, NEW t, Row(t, m), NEW k \in 0 .. m
    PROVE  JoinFirst(s, n, t, k)
<1> DEFINE u == SubSeq(t, 1, k)
           w == s \o t
<1>1. n \in Nat /\ m \in Nat
  BY RowIs
<1>2. IsFirst(u, t, k)
  BY RowFirst, Zenon
<1> HIDE DEF u
<1>3. Row(u, k) /\ \A i \in 1 .. k : u[i] = t[i]
  BY <1>2, Zenon DEF IsFirst
<1>4. IsJoined(s \o u, s, n, u, k) /\ IsJoined(w, s, n, t, m)
  BY <1>3, RowsJoined, Zenon
<1> HIDE DEF w
<1>5. Row(s \o u, n + k) /\ \A i \in 1 .. n + k : (s \o u)[i] = IF i <= n THEN s[i] ELSE u[i - n]
  BY <1>4, Zenon DEF IsJoined
<1>6. Row(w, n + m) /\ \A i \in 1 .. n + m : w[i] = IF i <= n THEN s[i] ELSE t[i - n]
  BY <1>4, Zenon DEF IsJoined
<1>7. n + k \in 0 .. n + m
  BY <1>1
<1>8. IsFirst(SubSeq(w, 1, n + k), w, n + k)
  BY <1>6, <1>7, RowFirst, Zenon
<1>9. /\ Row(SubSeq(w, 1, n + k), n + k)
      /\ \A i \in 1 .. n + k : SubSeq(w, 1, n + k)[i] = w[i]
  BY <1>8, Zenon DEF IsFirst
<1>10. ASSUME NEW i \in 1 .. n + k PROVE (s \o u)[i] = SubSeq(w, 1, n + k)[i]
  <2>1. i \in 1 .. n + m
    BY <1>1
  <2>2. w[i] = IF i <= n THEN s[i] ELSE t[i - n]
    BY <1>6, <2>1
  <2>3. (s \o u)[i] = IF i <= n THEN s[i] ELSE u[i - n]
    BY <1>5
  <2>4. ~(i <= n) => i - n \in 1 .. k
    BY <1>1
  <2> QED
    BY <1>3, <1>9, <2>2, <2>3, <2>4
<1>11. s \o u = SubSeq(w, 1, n + k)
  BY <1>5, <1>9, <1>10, RowsEqual, Zenon
<1> QED
  BY <1>11 DEF u, w, JoinFirst

\* Buffer c is b with bytes s.
IsFilled(c, b, s) ==
    /\ Tight(c, s) /\ c.p = b.p /\ c.size = b.size /\ c.fixed = b.fixed
    /\ \A q : Moved(b, q) => Moved(c, q)

\* Where a buffer has as much room as there can be, all or nothing is added.
LEMMA AddAll ==
    ASSUME BytesConstants, NEW b, NEW s, Holds(b, s), b.p # Null,
           NEW t, NEW m, Row(t, m), b.len <= BytesMax, Less(b.len + m, BytesMax) <= b.size
    PROVE  IsFilled(BufAdd(b, t), b, Joined(s, t))
<1>1. /\ b.len \in Nat /\ b.size \in Nat /\ b.size <= BytesMax /\ Row(s, b.len)
      /\ m \in Nat /\ BytesMax \in Nat
  BY RowIs DEF Holds, IsBuffer, BytesConstants
<1>2. Len(s) = b.len /\ Len(t) = m
  BY <1>1, RowIs
<1>3. b.len <= b.size /\ (b.len + m <= b.size <=> b.len + m <= BytesMax)
  BY <1>1 DEF Less
<1>4. Tight(b, s)
  BY <1>3 DEF Tight
<1>5. /\ Tight(BufAdd(b, t), IF b.len + m <= b.size THEN s \o t ELSE s)
      /\ BufAdd(b, t).p = b.p /\ BufAdd(b, t).size = b.size
      /\ BufAdd(b, t).fixed = b.fixed
      /\ \A q : Moved(b, q) => Moved(BufAdd(b, t), q)
  BY <1>4, AddDoes, Zenon
<1>6. Joined(s, t) = IF b.len + m <= b.size THEN s \o t ELSE s
  BY <1>2, <1>3 DEF Joined
<1> QED
  BY <1>5, <1>6, Zenon DEF IsFilled

\* What is added byte by byte.
LEMMA AddEach ==
    ASSUME NEW b, NEW s, Tight(b, s), b.p # Null, NEW t, NEW m, Row(t, m)
    PROVE  IsFilled(BufAddEach(b, t), b, s \o SubSeq(t, 1, Less(m, b.size - b.len)))
<1> DEFINE k == Less(m, b.size - b.len)
           u == SubSeq(t, 1, k)
<1>1. /\ b.len \in Nat /\ b.size \in Nat /\ b.len <= b.size
      /\ m \in Nat /\ Len(t) = m
  BY RowIs DEF Tight, Holds, IsBuffer
<1>2. k \in 0 .. m /\ b.len + k <= b.size
  BY <1>1 DEF Less
<1>3. BufAddEach(b, t) = BufAdd(b, u)
  BY <1>1, Zenon DEF BufAddEach
<1> HIDE DEF k
<1>4. IsFirst(u, t, k)
  BY <1>2, RowFirst, Zenon
<1> HIDE DEF u
<1>5. Row(u, k)
  BY <1>4 DEF IsFirst
<1>6. /\ Tight(BufAdd(b, u), IF b.len + k <= b.size THEN s \o u ELSE s)
      /\ BufAdd(b, u).p = b.p /\ BufAdd(b, u).size = b.size
      /\ BufAdd(b, u).fixed = b.fixed
      /\ \A q : Moved(b, q) => Moved(BufAdd(b, u), q)
  BY <1>5, AddDoes, Zenon
<1>7. IsFilled(BufAdd(b, u), b, s \o u)
  BY <1>2, <1>6, Zenon DEF IsFilled
<1> QED
  BY <1>3, <1>7, Zenon DEF u, k

\* Buffer c is b with nothing in it.
IsEmptied(c, b) ==
    /\ Tight(c, <<>>) /\ c.p = b.p /\ c.len = 0 /\ c.size = b.size /\ c.fixed = b.fixed
    /\ \A q : Moved(b, q) => Moved(c, q)

\* See IsEmptied.
LEMMA EmptiedIs ==
    ASSUME NEW b, NEW s, Holds(b, s)
    PROVE  IsEmptied([b EXCEPT !.len = 0], b)
<1>1. /\ b = [mem |-> b.mem, p |-> b.p, len |-> b.len, size |-> b.size,
              fixed |-> b.fixed, mapped |-> b.mapped]
      /\ b.mapped = FALSE /\ b.fixed \in BOOLEAN /\ b.size \in Nat /\ b.size <= BytesMax
      /\ b.p # Null => b.p \in DOMAIN b.mem /\ Row(b.mem[b.p], b.size)
      /\ b.p = Null => b.size = 0
  BY DEF Holds, IsBuffer, InBuffer
<1>2. PICK c : c = [b EXCEPT !.len = 0]
  OBVIOUS
<1>3. c = [mem |-> b.mem, p |-> b.p, len |-> 0, size |-> b.size,
           fixed |-> b.fixed, mapped |-> b.mapped]
  BY <1>1, <1>2
<1>4. /\ c.mem = b.mem /\ c.p = b.p /\ c.len = 0 /\ c.size = b.size
      /\ c.fixed = b.fixed /\ c.mapped = FALSE
  BY <1>1, <1>3
<1>5. IsBuffer(c)
  BY <1>1, <1>3, <1>4 DEF IsBuffer
<1>6. c.p # Null => InBuffer(c, <<>>)
  BY <1>1, <1>4 DEF InBuffer
<1>7. Tight(c, <<>>)
  BY <1>1, <1>4, <1>5, <1>6, RowEmpty DEF Tight, Holds
<1>8. ASSUME NEW q, Moved(b, q) PROVE Moved(c, q)
  BY <1>4, <1>8 DEF Moved
<1> QED
  BY <1>2, <1>4, <1>7, <1>8 DEF IsEmptied

\* The heap does not have block 0, and is finite.
LEMMA HeapIs ==
    ASSUME BytesInv
    PROVE  IsFiniteSet(DOMAIN mem) /\ 0 \notin DOMAIN mem
  BY DEF BytesInv, IsBlock

\* A buffer for an object that has none: it is ready to be filled.
IsNew(b, s, n) ==
    /\ Tight(b, s) /\ b.p # Null /\ Moved(b, Null)
    /\ Less(n, BytesMax) <= b.size /\ (b.fixed => b.len = b.size)

\* m_init() of a buffer that can grow.
LEMMA NewBufferIs ==
    ASSUME BytesConstants, BytesInv, NEW k, NEW text, Row(text, k), NEW n \in Int, n >= 0
    PROVE  /\ IsNew(NewBuffer(mem, text, n), Cut(FromHex(text)), n + 1)
           /\ NewBuffer(mem, text, n).fixed = FALSE
<1> DEFINE asked == IF n = 0 THEN BYTES_DEFAULT_SIZE ELSE n
           size == IF asked >= 0 THEN asked + BYTES_HEADROOM ELSE -asked
           hex == Len(text) \div 2
           most == IF hex > size THEN hex ELSE size
           none == [mem |-> mem, p |-> Null, len |-> 0, size |-> 0,
                    fixed |-> asked < 0, mapped |-> FALSE]
           b == Realloc(none, most)
           u == FromHex(text)
           full == BufAddEach(b, u)
<1>1. /\ BytesMax \in Nat /\ BYTES_DEFAULT_SIZE \in Nat /\ BYTES_HEADROOM \in Nat \ {0}
  BY DEF BytesConstants
<1>2. NewBuffer(mem, text, n) = IF b.fixed THEN SetLen(full, full.size) ELSE full
  BY Zenon DEF NewBuffer
<1>3. Len(text) = k /\ k \in Nat
  BY RowIs
<1>4. Row(u, hex) /\ hex \in Nat
  BY <1>3, HexIs
<1>5. asked \in Nat /\ size \in Nat /\ most \in Nat /\ hex <= most /\ n + 1 <= most
      /\ ~(asked < 0) /\ (asked < 0) = FALSE
  BY <1>1, <1>4
<1> HIDE DEF size, asked, most
<1>6. none.mem = mem /\ none.p = Null /\ none.len = 0 /\ none.fixed = FALSE
  BY <1>5
<1>7. Tight(none, <<>>)
  <2>1. IsBuffer(none)
    BY <1>1, <1>5 DEF IsBuffer
  <2> QED
    BY <2>1, RowEmpty DEF Tight, Holds, Null
<1> HIDE DEF none
<1>8. IsFiniteSet(DOMAIN mem) /\ 0 \notin DOMAIN mem
  BY HeapIs
<1>9. /\ Holds(b, <<>>) /\ b.p # Null /\ Moved(b, Null)
      /\ b.len = 0 /\ b.fixed = FALSE
      /\ b.size = AskedSize(none, most) /\ Less(most, BytesMax) <= AskedSize(none, most)
  BY <1>5, <1>6, <1>7, <1>8, ReallocDoes
<1> HIDE DEF b, u, hex
<1>10. b.size \in Nat /\ b.size <= BytesMax /\ Tight(b, <<>>)
  BY <1>9 DEF Holds, IsBuffer, Tight
<1>11. Less(n + 1, BytesMax) <= b.size /\ Less(hex, b.size - b.len) = Less(hex, BytesMax)
  BY <1>1, <1>4, <1>5, <1>9, <1>10 DEF Less
<1>12. IsFilled(full, b, <<>> \o SubSeq(u, 1, Less(hex, b.size - b.len)))
  BY <1>4, <1>9, <1>10, AddEach, Zenon
<1>13. <<>> \o SubSeq(u, 1, Less(hex, b.size - b.len)) = Cut(u)
  <2>1. Len(u) = hex
    BY <1>4, RowIs
  <2>2. Cut(u) = SubSeq(u, 1, Less(hex, BytesMax))
    BY <2>1, Zenon DEF Cut
  <2>3. Row(Cut(u), Less(hex, BytesMax))
    <3>1. IsFirst(Cut(u), u, Less(hex, BytesMax))
      BY <1>4, CutIs, Zenon
    <3> QED
      BY <3>1 DEF IsFirst
  <2>4. <<>> \o Cut(u) = Cut(u)
    BY <2>3, JoinedEmpty
  <2> QED
    BY <1>11, <2>2, <2>4
<1>14. /\ Tight(full, Cut(u)) /\ full.p = b.p /\ full.size = b.size /\ full.fixed = b.fixed
       /\ Moved(full, Null)
  BY <1>9, <1>12, <1>13 DEF IsFilled
<1>15. IsNew(full, Cut(u), n + 1) /\ full.fixed = FALSE
  BY <1>9, <1>11, <1>14 DEF IsNew
<1> HIDE DEF full
<1>16. NewBuffer(mem, text, n) = full
  BY <1>2, <1>9
<1> QED
  BY <1>15, <1>16 DEF u

\* And of one that cannot.
LEMMA FixedBufferIs ==
    ASSUME BytesConstants, BytesInv, NEW k, NEW text, Row(text, k), NEW n \in Int, n < 0,
           k \div 2 <= -n
    PROVE  IsNew(NewBuffer(mem, text, n),
                 Cut(FromHex(text)) \o Zeros(Less(-n, BytesMax) - Len(Cut(FromHex(text)))), 0)
<1> DEFINE asked == IF n = 0 THEN BYTES_DEFAULT_SIZE ELSE n
           size == IF asked >= 0 THEN asked + BYTES_HEADROOM ELSE -asked
           hex == Len(text) \div 2
           most == IF hex > size THEN hex ELSE size
           none == [mem |-> mem, p |-> Null, len |-> 0, size |-> 0,
                    fixed |-> asked < 0, mapped |-> FALSE]
           b == Realloc(none, most)
           u == FromHex(text)
           s == Cut(u)
           full == BufAddEach(b, u)
           l == Less(-n, BytesMax)
           t == s \o Zeros(l - Len(s))
<1>1. BytesMax \in Nat
  BY DEF BytesConstants
<1>2. NewBuffer(mem, text, n) = IF b.fixed THEN SetLen(full, full.size) ELSE full
  BY Zenon DEF NewBuffer
<1>3. Len(text) = k /\ k \in Nat
  BY RowIs
<1>4. Row(u, hex) /\ hex \in Nat
  BY <1>3, HexIs
<1>5. asked < 0 /\ most = -n /\ most \in Nat /\ hex <= -n
  BY <1>3, <1>4
<1> HIDE DEF size, asked, most
<1>6. none.mem = mem /\ none.p = Null /\ none.len = 0 /\ none.fixed = TRUE
  BY <1>5
<1>7. Tight(none, <<>>)
  <2>1. IsBuffer(none)
    BY <1>1, <1>5 DEF IsBuffer
  <2> QED
    BY <2>1, RowEmpty DEF Tight, Holds, Null
<1> HIDE DEF none
<1>8. IsFiniteSet(DOMAIN mem) /\ 0 \notin DOMAIN mem
  BY HeapIs
<1>9. /\ Holds(b, <<>>) /\ b.p # Null /\ Moved(b, Null)
      /\ b.len = 0 /\ b.fixed = TRUE /\ b.size = AskedSize(none, most)
  BY <1>5, <1>6, <1>7, <1>8, ReallocDoes
<1> HIDE DEF b, hex
<1>10. b.size = l /\ l \in Nat /\ b.size <= BytesMax
  BY <1>1, <1>5, <1>6, <1>9 DEF AskedSize, Less
<1> HIDE DEF l
<1>11. Less(hex, b.size - b.len) = Less(hex, BytesMax) /\ Less(hex, BytesMax) \in 0 .. l
  BY <1>1, <1>4, <1>5, <1>9, <1>10 DEF Less, l
<1>12. Tight(b, <<>>)
  BY <1>9, <1>10 DEF Tight
<1> HIDE DEF u
<1>13. IsFilled(full, b, <<>> \o SubSeq(u, 1, Less(hex, b.size - b.len)))
  BY <1>4, <1>9, <1>12, AddEach, Zenon
<1>14. s = SubSeq(u, 1, Less(hex, BytesMax)) /\ Row(s, Less(hex, BytesMax))
  <2>1. Len(u) = hex
    BY <1>4, RowIs
  <2>2. s = SubSeq(u, 1, Less(hex, BytesMax))
    BY <2>1, Zenon DEF Cut
  <2>3. IsFirst(s, u, Less(hex, BytesMax))
    BY <1>4, CutIs, Zenon
  <2> QED
    BY <2>2, <2>3 DEF IsFirst
<1> HIDE DEF s
<1>15. <<>> \o SubSeq(u, 1, Less(hex, b.size - b.len)) = s /\ Len(s) \in 0 .. l
       /\ Row(s, Len(s))
  <2>1. <<>> \o s = s
    BY <1>14, JoinedEmpty
  <2>2. Len(s) = Less(hex, BytesMax)
    BY <1>14, RowIs
  <2> QED
    BY <1>11, <1>14, <2>1, <2>2
<1>16. /\ Tight(full, s) /\ full.p = b.p /\ full.size = l /\ full.fixed = TRUE
       /\ Moved(full, Null)
  BY <1>9, <1>10, <1>13, <1>15 DEF IsFilled
<1> HIDE DEF full
<1>17. Row(t, l) /\ \A i \in 1 .. l : t[i] = IF i <= Len(s) THEN s[i] ELSE 0
  <2> DEFINE z == Zeros(l - Len(s))
  <2>1. Row(z, l - Len(s)) /\ \A i \in 1 .. l - Len(s) : z[i] = 0
    BY <1>10, <1>15 DEF Zeros, Row
  <2> HIDE DEF z
  <2>2. IsJoined(s \o z, s, Len(s), z, l - Len(s))
    BY <1>15, <2>1, RowsJoined, Zenon
  <2>3. Len(s) + (l - Len(s)) = l /\ Len(s) \in Nat
    BY <1>10, <1>15
  <2>4. /\ Row(s \o z, l)
        /\ \A i \in 1 .. l : (s \o z)[i] = IF i <= Len(s) THEN s[i] ELSE z[i - Len(s)]
    BY <2>2, <2>3 DEF IsJoined
  <2>5. \A i \in 1 .. l : ~(i <= Len(s)) => i - Len(s) \in 1 .. l - Len(s)
    BY <1>10, <2>3
  <2>6. Row(s \o z, l) /\ \A i \in 1 .. l : (s \o z)[i] = IF i <= Len(s) THEN s[i] ELSE 0
    BY <2>1, <2>4, <2>5
  <2> QED
    BY <2>6 DEF z
<1> HIDE DEF t
<1>18. Holds(full, s) /\ full.len = Len(s) /\ Less(full.size, full.size) = l
  <2>1. Row(s, full.len)
    BY <1>16 DEF Tight, Holds
  <2> QED
    BY <1>16, <2>1, RowIs DEF Tight, Less
<1>19. /\ Tight(SetLen(full, full.size), t)
       /\ SetLen(full, full.size).p = full.p /\ SetLen(full, full.size).size = full.size
       /\ SetLen(full, full.size).fixed = full.fixed
       /\ SetLen(full, full.size).len = Less(full.size, full.size)
       /\ \A q : Moved(full, q) => Moved(SetLen(full, full.size), q)
  <2>1. /\ full.p # Null /\ full.size \in Nat /\ Row(t, Less(full.size, full.size))
        /\ \A i \in 1 .. Less(full.size, full.size) : t[i] = IF i <= full.len THEN s[i] ELSE 0
    BY <1>9, <1>10, <1>16, <1>17, <1>18
  <2> QED
    BY <1>18, <2>1, LenSet
<1>20. Less(0, BytesMax) = 0
  BY <1>1 DEF Less
<1>21. IsNew(SetLen(full, full.size), t, 0)
  BY <1>9, <1>10, <1>16, <1>18, <1>19, <1>20 DEF IsNew
<1> QED
  BY <1>2, <1>9, <1>21, Zenon DEF full, t, s, l, u

\* The next object has none.
LEMMA UnbornIs ==
    ASSUME NEW o \in Objects, Unborn(o)
    PROVE  o \in Objects \ spoilt /\ ~Mapped(o) /\ obj[o].p = Null /\ obj[o] = NoObject
<1> DEFINE free == {x \in Objects : obj[x] = NoObject /\ x \notin spoilt}
<1>1. free # {} /\ o = CHOOSE x \in free : TRUE
  BY Zenon DEF Unborn
<1>2. o \in free
  BY <1>1
<1>3. obj[o] = NoObject /\ o \notin spoilt
  BY <1>2
<1> QED
  BY <1>3 DEF NoObject, Mapped, BYTES_SIZE_MAPPED

\* m_init() with a text.
LEMMA NewBytesKeeps ==
    ASSUME BytesConstants, BytesInv, NEW o \in Objects, NEW text \in Texts,
           NEW n \in Counts, NewBytes(o, text, n)
    PROVE  BytesInv'
<1> DEFINE s == Cut(FromHex(text))
           t == IF n < 0 THEN s \o Zeros(Less(-n, BytesMax) - Len(s)) ELSE s
           b == NewBuffer(mem, text, n)
<1>1. /\ Unborn(o) /\ (n < 0 => Len(text) \div 2 <= -n) /\ Becomes(o, b, t)
  BY Zenon DEF NewBytes
<1>2. o \in Objects \ spoilt /\ ~Mapped(o) /\ obj[o].p = Null
  BY <1>1, UnbornIs
<1>3. n \in Int /\ Row(text, Len(text))
  BY TextIs DEF BytesConstants
<1>4. \E k \in Int : IsNew(b, t, k)
  <2>1. CASE n < 0
    <3>1. IsNew(b, s \o Zeros(Less(-n, BytesMax) - Len(s)), 0)
      BY <1>1, <1>3, <2>1, FixedBufferIs, Zenon
    <3> HIDE DEF b, s
    <3> QED
      BY <2>1, <3>1
  <2>2. CASE ~(n < 0)
    <3>1. n >= 0
      BY <1>3, <2>2
    <3>2. IsNew(b, s, n + 1)
      BY <1>3, <3>1, NewBufferIs, Zenon
    <3> HIDE DEF b, s
    <3> QED
      BY <1>3, <2>2, <3>2
  <2> QED
    BY <2>1, <2>2
<1> HIDE DEF b, t
<1>5. Tight(b, t) /\ (b.fixed => b.len = b.size) /\ Moved(b, obj[o].p)
  BY <1>2, <1>4 DEF IsNew
<1> QED
  BY <1>1, <1>2, <1>5, OwnerBecomes, Zenon

\* m_init() with a pointer.
LEMMA NewMappedKeeps ==
    ASSUME BytesConstants, BytesInv, NEW o \in Objects, NEW other \in Objects, NEW n,
           NewMapped(o, other, n)
    PROVE  BytesInv'
<1> DEFINE b == [mem |-> mem, p |-> obj[other].p, len |-> n, size |-> n,
                 fixed |-> TRUE, mapped |-> TRUE]
<1>1. Unborn(o) /\ HasBuffer(other) /\ n \in 1 .. obj[other].len /\ Becomes(o, b, <<>>)
  BY Zenon DEF NewMapped
<1>2. o \in Objects \ spoilt /\ obj[o].p = Null
  BY <1>1, UnbornIs
<1>3. /\ obj[other].len \in Nat /\ obj[other].p \in DOMAIN mem
      /\ obj[other].len <= Len(mem[obj[other].p]) /\ Len(mem[obj[other].p]) \in Nat
  BY <1>1, UsableIs, RoomIs
<1>4. /\ b.mapped = TRUE /\ SameHeap(b.mem) /\ b.p = obj[other].p /\ b.len = n
  BY DEF SameHeap
<1> HIDE DEF b
<1>5. obj[other].p \in Nat
  BY DEF BytesInv, Members
<1>6. b.p \in Nat /\ b.len \in Nat /\ (b.p \in DOMAIN mem => b.len <= Len(mem[b.p]))
  BY <1>1, <1>3, <1>4, <1>5
<1> QED
  BY <1>1, <1>2, <1>4, <1>6, ViewerBecomes, Zenon

\* change_buffer().
LEMMA ChangeBufferKeeps ==
    ASSUME BytesConstants, BytesInv, NEW o \in Objects, NEW other \in Objects,
           ChangeBuffer(o, other)
    PROVE  BytesInv'
<1>1. /\ Mapped(o) /\ o \notin spoilt /\ HasBuffer(other) /\ obj[o].len <= obj[other].len
      /\ Becomes(o, [Attr(o) EXCEPT !.p = obj[other].p], <<>>)
  BY DEF ChangeBuffer
<1>2. PICK b : b = [Attr(o) EXCEPT !.p = obj[other].p]
  OBVIOUS
<1>3. /\ b.mapped = TRUE /\ SameHeap(b.mem) /\ b.p = obj[other].p /\ b.len = obj[o].len
  BY <1>1, <1>2 DEF Attr, Mapped, SameHeap
<1>4. /\ obj[other].len \in Nat /\ obj[other].p \in DOMAIN mem
      /\ obj[other].len <= Len(mem[obj[other].p]) /\ Len(mem[obj[other].p]) \in Nat
  BY <1>1, UsableIs, RoomIs
<1>5. obj[other].p \in Nat /\ obj[o].len \in Nat
  BY DEF BytesInv, Members
<1>6. b.p \in Nat /\ b.len \in Nat /\ (b.p \in DOMAIN mem => b.len <= Len(mem[b.p]))
  BY <1>1, <1>3, <1>4, <1>5
<1>7. o \in Objects \ spoilt /\ Becomes(o, b, <<>>)
  BY <1>1, <1>2
<1> QED
  BY <1>1, <1>3, <1>6, <1>7, ViewerBecomes, Zenon

\* m_deinit().
LEMMA DeinitKeeps ==
    ASSUME BytesConstants, BytesInv, NEW o \in Objects, Deinit(o)
    PROVE  BytesInv'
<1> DEFINE heap == IF Mapped(o) THEN mem ELSE Without(mem, obj[o].p)
<1>1. /\ Usable(o) /\ o \in Objects \ spoilt
      /\ Becomes(o, [Attr(o) EXCEPT !.mem = IF Mapped(o) THEN @ ELSE Without(@, obj[o].p),
                                    !.p = Null, !.len = 0, !.size = 0], <<>>)
  BY Zenon DEF Deinit, Usable
<1>2. PICK b : b = [Attr(o) EXCEPT !.mem = IF Mapped(o) THEN @ ELSE Without(@, obj[o].p),
                                   !.p = Null, !.len = 0, !.size = 0]
  OBVIOUS
<1>3. PICK c : c = Attr(o)
  OBVIOUS
<1>4. /\ c = [mem |-> mem, p |-> c.p, len |-> c.len, size |-> c.size, fixed |-> c.fixed,
              mapped |-> c.mapped]
      /\ c.mapped = Mapped(o) /\ c.fixed = (obj[o].size < 0) /\ Mapped(o) \in BOOLEAN
  BY <1>3 DEF Attr, Mapped
<1>5. b = [mem |-> heap, p |-> Null, len |-> 0, size |-> 0, fixed |-> c.fixed,
           mapped |-> c.mapped]
  <2>1. b = [c EXCEPT !.mem = heap, !.p = Null, !.len = 0, !.size = 0]
    <3>1. c.mem = mem
      BY <1>4
    <3>2. b = [c EXCEPT !.mem = IF Mapped(o) THEN c.mem ELSE Without(c.mem, obj[o].p),
                        !.p = Null, !.len = 0, !.size = 0]
      BY <1>2, <1>3, Zenon
    <3>3. (IF Mapped(o) THEN c.mem ELSE Without(c.mem, obj[o].p)) = heap
      BY <3>1
    <3> HIDE DEF heap
    <3> QED
      BY <3>2, <3>3
  <2> HIDE DEF heap
  <2> QED
    BY <1>4, <2>1
<1> HIDE DEF heap
<1>6. b.mem = heap /\ b.p = Null /\ b.len = 0 /\ b.size = 0 /\ b.fixed = c.fixed
      /\ b.mapped = c.mapped
  BY <1>5
<1>7. Becomes(o, b, <<>>)
  BY <1>1, <1>2
<1>8. CASE Mapped(o)
  <2>1. b.mapped = TRUE /\ SameHeap(b.mem) /\ b.p \in Nat /\ b.len \in Nat /\ 0 \notin DOMAIN mem
    BY <1>4, <1>6, <1>8, HeapIs DEF heap, Null, SameHeap
  <2>2. b.p \in DOMAIN mem => b.len <= Len(mem[b.p])
    BY <1>6, <2>1 DEF Null
  <2> QED
    BY <1>1, <1>7, <1>8, <2>1, <2>2, ViewerBecomes, Zenon
<1>9. CASE ~Mapped(o)
  <2>1. heap = [k \in DOMAIN mem \ {obj[o].p} |-> mem[k]]
    BY <1>9 DEF heap, Without
  <2>2. Moved(b, obj[o].p)
    <3>1. obj[o].p # Null => obj[o].p \in DOMAIN mem
      BY <1>1 DEF Usable
    <3>2. 0 \notin DOMAIN mem
      BY HeapIs
    <3> QED
      BY <1>6, <2>1, <3>1, <3>2 DEF Moved, Null
  <2>3. Tight(b, <<>>)
    <3>1. BytesMax \in Nat /\ b.mapped = FALSE /\ b.fixed \in BOOLEAN
      BY <1>4, <1>6, <1>9 DEF BytesConstants
    <3>2. IsBuffer(b)
      BY <1>5, <1>6, <3>1 DEF IsBuffer
    <3> QED
      BY <1>6, <3>2, RowEmpty DEF Tight, Holds
  <2>4. b.fixed => b.len = b.size
    BY <1>6
  <2> QED
    BY <1>1, <1>7, <1>9, <2>2, <2>3, <2>4, OwnerBecomes, Zenon
<1> QED
  BY <1>8, <1>9

\* m_clear().
LEMMA ClearKeeps ==
    ASSUME BytesConstants, BytesInv, NEW o \in Objects, Clear(o)
    PROVE  BytesInv'
<1>1. MayGrow(o) /\ Becomes(o, [Attr(o) EXCEPT !.len = 0], <<>>)
  BY DEF Clear
<1>2. HasBuffer(o) /\ o \in Objects \ spoilt /\ ~Mapped(o) /\ ~(obj[o].size < 0)
  BY <1>1, GrowsIs
<1>3. /\ Tight(Attr(o), want[o]) /\ Attr(o).fixed = (obj[o].size < 0)
      /\ Moved(Attr(o), obj[o].p)
  BY <1>2, AttrIs
<1>4. PICK b : b = [Attr(o) EXCEPT !.len = 0]
  OBVIOUS
<1>5. IsEmptied(b, Attr(o))
  BY <1>3, <1>4, EmptiedIs DEF Tight
<1>6. Tight(b, <<>>) /\ Moved(b, obj[o].p) /\ (b.fixed => b.len = b.size)
  BY <1>2, <1>3, <1>5 DEF IsEmptied
<1>7. Becomes(o, b, <<>>)
  BY <1>1, <1>4
<1> QED
  BY <1>2, <1>6, <1>7, OwnerBecomes, Zenon

-----------------------------------------------------------------------------
(* Calls that put bytes behind those of an object.                         *)

\* Buffer b is that of o, with as much room for n more as there can be.
IsGrown(b, o, n) ==
    /\ Holds(b, want[o]) /\ Moved(b, obj[o].p) /\ b.len = obj[o].len
    /\ b.fixed = (obj[o].size < 0) /\ b.len <= BytesMax
    /\ Less(b.len + n, BytesMax) <= b.size
    /\ obj[o].p # Null \/ n # 0 => b.p # Null

\* bytes_resize() of an object with its own buffer.
LEMMA WithRoomIs ==
    ASSUME BytesConstants, BytesInv, NEW o \in Objects \ spoilt, ~Mapped(o), NEW n \in Nat
    PROVE  IsGrown(WithRoom(o, n), o, n)
<1>1. /\ Tight(Attr(o), want[o])
      /\ Attr(o).mem = mem /\ Attr(o).p = obj[o].p /\ Attr(o).len = obj[o].len
      /\ Attr(o).fixed = (obj[o].size < 0)
  BY AttrIs
<1>2. /\ obj[o].len \in Nat /\ obj[o].len <= BytesMax /\ BytesMax \in Nat
  BY <1>1 DEF Tight, Holds, IsBuffer, BytesConstants
<1>3. PICK a : a = Attr(o)
  OBVIOUS
<1>4. WithRoom(o, n) = BytesResize(a, obj[o].len + n) /\ obj[o].len + n \in Nat
  BY <1>2, <1>3 DEF WithRoom
<1>5. PICK k \in Nat : k = obj[o].len + n
  BY <1>4
<1>6. /\ Holds(BytesResize(a, k), want[o]) /\ Moved(BytesResize(a, k), a.p)
      /\ BytesResize(a, k).len = a.len /\ BytesResize(a, k).fixed = a.fixed
      /\ Less(k, BytesMax) <= BytesResize(a, k).size
      /\ a.p # Null \/ k # 0 => BytesResize(a, k).p # Null
  BY <1>1, <1>3, HeapIs, ResizeDoes
<1>7. n # 0 => k # 0
  BY <1>2, <1>5
<1> QED
  BY <1>1, <1>2, <1>3, <1>4, <1>5, <1>6, <1>7 DEF IsGrown

\* bytes_check_data().
LEMMA ReservedIs ==
    ASSUME BytesConstants, BytesInv, NEW o \in Objects \ spoilt, ~Mapped(o), NEW n \in Nat \ {0}
    PROVE  IsGrown(Reserved(o, n), o, n)
<1>1. /\ Tight(Attr(o), want[o])
      /\ Attr(o).mem = mem /\ Attr(o).p = obj[o].p /\ Attr(o).len = obj[o].len
      /\ Attr(o).fixed = (obj[o].size < 0) /\ Moved(Attr(o), obj[o].p)
  BY AttrIs
<1>2. /\ Attr(o).len \in Nat /\ Attr(o).len <= BytesMax /\ BytesMax \in Nat
      /\ Attr(o).size \in Nat /\ Holds(Attr(o), want[o])
      /\ Attr(o).p = Null => Attr(o).size = 0
  BY <1>1 DEF Tight, Holds, IsBuffer, BytesConstants
<1>3. Reserved(o, n) = IF Attr(o).len + n > Attr(o).size
                       THEN BytesResize(Attr(o), Attr(o).len + n) ELSE Attr(o)
  BY Zenon DEF Reserved
<1>4. CASE Attr(o).len + n > Attr(o).size
  <2>1. Reserved(o, n) = WithRoom(o, n)
    BY <1>1, <1>3, <1>4, Zenon DEF WithRoom
  <2>2. n \in Nat
    OBVIOUS
  <2>3. IsGrown(WithRoom(o, n), o, n)
    BY <2>2, WithRoomIs, Zenon
  <2> QED
    BY <2>1, <2>3
<1>5. CASE ~(Attr(o).len + n > Attr(o).size)
  <2>1. Reserved(o, n) = Attr(o)
    BY <1>3, <1>5
  <2>2. /\ Less(Attr(o).len + n, BytesMax) <= Attr(o).size /\ Attr(o).p # Null
    BY <1>2, <1>5 DEF Less
  <2> QED
    BY <1>1, <1>2, <2>1, <2>2 DEF IsGrown
<1> QED
  BY <1>4, <1>5

\* All or nothing is added, and the object is told.
LEMMA GrownBecomes ==
    ASSUME BytesConstants, BytesInv, NEW o \in Objects \ spoilt, ~Mapped(o),
           NEW b, NEW n \in Nat, IsGrown(b, o, n), NEW m, NEW t, Row(t, m), m <= n,
           ~(obj[o].size < 0), obj[o].p # Null \/ n # 0,
           Becomes(o, BufAdd(b, t), Joined(want[o], t))
    PROVE  BytesInv'
<1>1. /\ Holds(b, want[o]) /\ Moved(b, obj[o].p) /\ b.fixed = (obj[o].size < 0)
      /\ b.len <= BytesMax /\ Less(b.len + n, BytesMax) <= b.size /\ b.p # Null
  BY DEF IsGrown
<1>2. m \in Nat /\ BytesMax \in Nat /\ b.len \in Nat /\ b.size \in Nat
  BY <1>1, RowIs DEF Holds, IsBuffer, BytesConstants
<1>3. Less(b.len + m, BytesMax) <= b.size
  BY <1>1, <1>2 DEF Less
<1>4. IsFilled(BufAdd(b, t), b, Joined(want[o], t))
  BY <1>1, <1>3, AddAll, Zenon
<1>5. PICK c : c = BufAdd(b, t)
  OBVIOUS
<1>6. /\ Tight(c, Joined(want[o], t)) /\ (c.fixed => c.len = c.size)
      /\ Moved(c, obj[o].p) /\ Becomes(o, c, Joined(want[o], t))
  BY <1>1, <1>4, <1>5 DEF IsFilled
<1> QED
  BY <1>6, OwnerBecomes, Zenon

\* m_add().
LEMMA AddBytesKeeps ==
    ASSUME BytesConstants, BytesInv, NEW o \in Objects, NEW v, NEW n \in Int, Add(o, v, n)
    PROVE  BytesInv'
<1> DEFINE s == IF n = 0 THEN <<>> ELSE Packed(v, n)
<1>1. /\ CanReserve(o, 4) /\ obj[o].size >= 0 /\ n \in -4 .. 4
      /\ Becomes(o, BufAdd(Reserved(o, 4), s), Joined(want[o], s))
  BY Zenon DEF Add
<1>2. obj[o].size \in Int /\ o \in Objects \ spoilt
  BY <1>1 DEF BytesInv, Members, CanReserve, Usable
<1>3. ~Mapped(o) /\ ~(obj[o].size < 0)
  BY <1>1, <1>2 DEF Mapped, BYTES_SIZE_MAPPED
<1>4. \E m \in Nat : Row(s, m) /\ m <= 4
  <2>1. CASE n = 0
    BY <2>1, RowEmpty
  <2>2. CASE n # 0
    <3>1. Row(Packed(v, n), Width(n)) /\ Width(n) \in Nat
      BY PackedIs, Zenon
    <3>2. Width(n) <= 4
      BY <1>1 DEF Width
    <3> QED
      BY <2>2, <3>1, <3>2
  <2> QED
    BY <2>1, <2>2
<1> HIDE DEF s
<1>5. PICK m \in Nat : Row(s, m) /\ m <= 4
  BY <1>4
<1>6. 4 \in Nat \ {0} /\ 4 \in Nat /\ 4 # 0
  OBVIOUS
<1>7. IsGrown(Reserved(o, 4), o, 4)
  BY <1>2, <1>3, <1>6, ReservedIs, Zenon
<1> QED
  BY <1>1, <1>2, <1>3, <1>5, <1>6, <1>7, GrownBecomes, Zenon

\* m_connect() with an integer or a string.
LEMMA ConnectKeeps ==
    ASSUME BytesConstants, BytesInv, NEW o \in Objects, NEW m, NEW s, Row(s, m), Connect(o, s)
    PROVE  BytesInv'
<1>1. /\ MayGrow(o)
      /\ Becomes(o, BufAdd(BytesResize(Attr(o), obj[o].len + Len(s)), s), Joined(want[o], s))
  BY DEF Connect
<1>2. o \in Objects \ spoilt /\ ~Mapped(o) /\ obj[o].p # Null /\ ~(obj[o].size < 0)
  BY <1>1, GrowsIs
<1>3. Len(s) = m /\ m \in Nat /\ m <= m
  BY RowIs
<1>4. BytesResize(Attr(o), obj[o].len + Len(s)) = WithRoom(o, m)
  BY <1>3, Zenon DEF WithRoom
<1>5. IsGrown(WithRoom(o, m), o, m)
  BY <1>2, <1>3, WithRoomIs, Zenon
<1>6. Becomes(o, BufAdd(WithRoom(o, m), s), Joined(want[o], s))
  BY <1>1, <1>4
<1> QED
  BY <1>2, <1>3, <1>5, <1>6, GrownBecomes, Zenon

\* What the object is told of a buffer that has been lost.
LEMMA SpoilsKeeps ==
    ASSUME BytesConstants, BytesInv, NEW o \in Objects, MayGrow(o),
           NEW b, NEW n, IsGrown(b, o, n), Spoils(o, b)
    PROVE  BytesInv'
<1>1. o \in Objects \ spoilt /\ ~Mapped(o) /\ ~(obj[o].size < 0)
  BY GrowsIs
<1>2. /\ Holds(b, want[o]) /\ Moved(b, obj[o].p) /\ b.fixed = (obj[o].size < 0)
  BY DEF IsGrown
<1>3. /\ mem' = b.mem /\ obj' = [obj EXCEPT ![o] = Written(b)]
      /\ spoilt' = spoilt \cup {o} /\ want' = want
  BY DEF Spoils
<1>4. obj \in [Objects -> Members] /\ obj[o].p \in Nat
  BY DEF BytesInv, Members
<1>5. b.p \in Nat
  BY <1>2, <1>4 DEF Moved, Null
<1>6. Written(b) \in Members
  BY <1>1, <1>2, <1>5 DEF Written, Members, Holds, IsBuffer
<1>7. /\ obj' \in [Objects -> Members] /\ \A x \in Objects : x # o => obj'[x] = obj[x]
  BY <1>3, <1>4, <1>6
<1> QED
  BY <1>1, <1>2, <1>3, <1>7, SpoiltBecomes, Zenon

\* m_connect() with another object.
LEMMA ConnectBytesKeeps ==
    ASSUME BytesConstants, BytesInv, NEW o \in Objects, NEW other \in Objects,
           ConnectBytes(o, other)
    PROVE  BytesInv'
<1> DEFINE n == obj[other].len
           b == WithRoom(o, n)
           s == Content(other)
<1>1. /\ MayGrow(o) /\ HasBuffer(other)
      /\ IF Reads(b, o, other) THEN Becomes(o, BufAdd(b, s), Joined(want[o], Wanted(other)))
         ELSE Spoils(o, b)
  BY Zenon DEF ConnectBytes
<1>2. o \in Objects \ spoilt /\ ~Mapped(o) /\ obj[o].p # Null /\ ~(obj[o].size < 0)
  BY <1>1, GrowsIs
<1>3. Row(s, n) /\ n \in Nat /\ s = Wanted(other)
  BY <1>1, UsableIs
<1> HIDE DEF n, s
<1>4. IsGrown(b, o, n)
  BY <1>2, <1>3, WithRoomIs, Zenon
<1> HIDE DEF b
<1>5. CASE Reads(b, o, other)
  <2>1. Becomes(o, BufAdd(b, s), Joined(want[o], s)) /\ n <= n
    BY <1>1, <1>3, <1>5
  <2> QED
    BY <1>2, <1>3, <1>4, <2>1, GrownBecomes, Zenon
<1>6. CASE ~Reads(b, o, other)
  BY <1>1, <1>4, <1>6, SpoilsKeeps, Zenon
<1> QED
  BY <1>5, <1>6

\* m_appendhex().
LEMMA AppendHexKeeps ==
    ASSUME BytesConstants, BytesInv, NEW o \in Objects, NEW other \in Objects,
           AppendHex(o, other)
    PROVE  BytesInv'
<1> DEFINE n == obj[other].len
           b == WithRoom(o, 2 * n)
           t == ToHex(Content(other))
           l == obj[o].len
           u == want[o] \o t
<1>1. /\ MayGrow(o) /\ HasBuffer(other)
      /\ IF Reads(b, o, other)
         THEN Becomes(o, BufAddEach(b, t), Cut(want[o] \o ToHex(Wanted(other))))
         ELSE Spoils(o, b)
  BY Zenon DEF AppendHex
<1>2. o \in Objects \ spoilt /\ ~Mapped(o) /\ obj[o].p # Null /\ ~(obj[o].size < 0)
  BY <1>1, GrowsIs
<1>3. Row(Content(other), n) /\ n \in Nat /\ Content(other) = Wanted(other)
  BY <1>1, UsableIs
<1>4. Row(t, 2 * n) /\ 2 * n \in Nat /\ t = ToHex(Wanted(other))
  BY <1>3, HexIs
<1> HIDE DEF n, t
<1>5. PICK m \in Nat : m = 2 * n
  BY <1>4
<1>6. IsGrown(b, o, m)
  <2>1. IsGrown(WithRoom(o, m), o, m)
    BY <1>2, WithRoomIs, Zenon
  <2> QED
    BY <1>5, <2>1
<1> HIDE DEF b
<1>7. CASE ~Reads(b, o, other)
  BY <1>1, <1>6, <1>7, SpoilsKeeps, Zenon
<1>8. CASE Reads(b, o, other)
  <2>1. /\ Holds(b, want[o]) /\ Moved(b, obj[o].p) /\ b.fixed = (obj[o].size < 0)
        /\ b.len = l /\ l <= BytesMax /\ Less(l + m, BytesMax) <= b.size /\ b.p # Null
    BY <1>2, <1>6 DEF IsGrown
  <2>2. BytesMax \in Nat /\ l \in Nat /\ b.size \in Nat /\ b.size <= BytesMax /\ Row(want[o], l)
    BY <2>1 DEF Holds, IsBuffer, BytesConstants
  <2> DEFINE k == Less(m, b.size - b.len)
  <2>3. k \in 0 .. m /\ l + k = Less(l + m, BytesMax) /\ l <= b.size
    BY <2>1, <2>2 DEF Less
  <2>4. IsFilled(BufAddEach(b, t), b, want[o] \o SubSeq(t, 1, k))
    <3>1. Tight(b, want[o]) /\ Row(t, m)
      BY <1>4, <1>5, <2>1, <2>3 DEF Tight
    <3> QED
      BY <2>1, <3>1, AddEach, Zenon
  <2> HIDE DEF k, l
  <2>5. want[o] \o SubSeq(t, 1, k) = Cut(u)
    <3>1. Row(t, m)
      BY <1>4, <1>5
    <3>2. IsJoined(u, want[o], l, t, m)
      BY <2>2, <3>1, RowsJoined, Zenon
    <3>3. Len(u) = l + m
      BY <3>2, RowIs DEF IsJoined
    <3>4. Cut(u) = SubSeq(u, 1, l + k)
      BY <2>3, <3>3, Zenon DEF Cut
    <3>5. want[o] \o SubSeq(t, 1, k) = SubSeq(u, 1, l + k)
      <4>1. Row(want[o], l) /\ k \in 0 .. m
        BY <2>2, <2>3
      <4>2. JoinFirst(want[o], l, t, k)
        BY <3>1, <4>1, JoinedFirst, Zenon
      <4> QED
        BY <4>2, Zenon DEF JoinFirst, u
    <3> QED
      BY <3>4, <3>5
  <2> HIDE DEF u
  <2>6. PICK c : c = BufAddEach(b, t)
    OBVIOUS
  <2>7. /\ Tight(c, Cut(u)) /\ (c.fixed => c.len = c.size) /\ Moved(c, obj[o].p)
    BY <1>2, <2>1, <2>4, <2>5, <2>6 DEF IsFilled
  <2>8. Becomes(o, c, Cut(u))
    BY <1>1, <1>4, <1>8, <2>6 DEF u
  <2> QED
    BY <1>2, <2>7, <2>8, OwnerBecomes, Zenon
<1> QED
  BY <1>7, <1>8

\* A part of a row is a row.
LEMMA PartIs ==
    ASSUME NEW n, NEW s, Row(s, n), NEW a \in Nat \ {0}, NEW b \in Int, b <= n, a <= b + 1
    PROVE  Row(SubSeq(s, a, b), b - a + 1) /\ b - a + 1 \in Nat
<1>1. IsPart(SubSeq(s, a, b), s, a, b)
  BY RowPart, Zenon
<1>2. (IF a <= b THEN b - a + 1 ELSE 0) = b - a + 1 /\ b - a + 1 \in Nat
  OBVIOUS
<1> QED
  BY <1>1, <1>2 DEF IsPart

\* m_appendb64().
LEMMA AppendB64Keeps ==
    ASSUME BytesConstants, BytesInv, NEW o \in Objects, NEW other \in Objects,
           NEW index \in Int, NEW n \in Int, AppendB64(o, other, index, n)
    PROVE  BytesInv'
<1> DEFINE src == Content(other)
           idx == FromEnd(src, index)
           at  == IF idx < 0 THEN 0 ELSE Less(idx, Len(src))
           len == Less(IF n < 0 THEN 0 ELSE n, Len(src) - at)
           room == ((len + 2) \div 3) * 4 + 1
           b   == WithRoom(o, room)
           part == SubSeq(src, at + 1, at + len)
           s   == Encode64(part)
<1>1. /\ MayGrow(o) /\ HasBuffer(other) /\ len > 0
      /\ IF Reads(b, o, other) /\ b.len + Len(s) + 1 <= b.size
         THEN Becomes(o, BufAdd(b, s),
                      want[o] \o Encode64(SubSeq(Wanted(other), at + 1, at + len)))
         ELSE Spoils(o, b)
  BY Zenon DEF AppendB64
<1>2. o \in Objects \ spoilt /\ ~Mapped(o) /\ obj[o].p # Null /\ ~(obj[o].size < 0)
  BY <1>1, GrowsIs
<1>3. Row(src, Len(src)) /\ Len(src) \in Nat /\ src = Wanted(other)
  BY <1>1, UsableIs
<1> HIDE DEF src
<1>4. at \in 0 .. Len(src) /\ len \in 0 .. Len(src) - at
  BY <1>1, <1>3 DEF FromEnd, Less
<1> HIDE DEF at, len
<1>5. Row(part, len)
  <2>1. /\ at + 1 \in Nat \ {0} /\ at + len \in Int /\ at + len <= Len(src)
        /\ at + 1 <= (at + len) + 1 /\ (at + len) - (at + 1) + 1 = len
    BY <1>3, <1>4
  <2>2. Row(SubSeq(src, at + 1, at + len), (at + len) - (at + 1) + 1)
    BY <1>3, <2>1, PartIs, Zenon
  <2> QED
    BY <2>1, <2>2
<1>6. part = SubSeq(Wanted(other), at + 1, at + len)
  BY <1>3
<1> HIDE DEF part
<1>7. Row(s, ((len + 2) \div 3) * 4) /\ ((len + 2) \div 3) * 4 \in Nat
  BY <1>5, Encode64Is, Zenon
<1>8. room \in Nat
  BY <1>7
<1> HIDE DEF room
<1>9. IsGrown(b, o, room)
  BY <1>2, <1>8, WithRoomIs, Zenon
<1> HIDE DEF b
<1>10. CASE ~(Reads(b, o, other) /\ b.len + Len(s) + 1 <= b.size)
  BY <1>1, <1>9, <1>10, SpoilsKeeps, Zenon
<1>11. CASE Reads(b, o, other) /\ b.len + Len(s) + 1 <= b.size
  <2>1. Row(s, Len(s)) /\ Len(s) \in Nat
    BY <1>7, RowIs
  <2>2. /\ Holds(b, want[o]) /\ Moved(b, obj[o].p) /\ b.fixed = (obj[o].size < 0) /\ b.p # Null
    BY <1>2, <1>9 DEF IsGrown
  <2>3. b.len \in Nat /\ b.size \in Nat
    BY <2>2 DEF Holds, IsBuffer
  <2>4. b.len + Len(s) <= b.size /\ b.len <= b.size
    BY <1>11, <2>1, <2>3
  <2>5. Tight(b, want[o])
    BY <2>2, <2>4 DEF Tight
  <2> HIDE DEF s
  <2>6. /\ Tight(BufAdd(b, s), IF b.len + Len(s) <= b.size THEN want[o] \o s ELSE want[o])
        /\ BufAdd(b, s).fixed = b.fixed /\ \A q : Moved(b, q) => Moved(BufAdd(b, s), q)
    BY <2>1, <2>2, <2>5, AddDoes, Zenon
  <2>7. PICK c : c = BufAdd(b, s)
    OBVIOUS
  <2>8. Tight(c, want[o] \o s) /\ (c.fixed => c.len = c.size) /\ Moved(c, obj[o].p)
    BY <1>2, <2>2, <2>4, <2>6, <2>7
  <2>9. Becomes(o, c, want[o] \o s)
    BY <1>1, <1>6, <1>11, <2>7 DEF s
  <2> QED
    BY <1>2, <2>8, <2>9, OwnerBecomes, Zenon
<1> QED
  BY <1>10, <1>11

\* A bad argument of m_add() is found when the buffer may have moved.
LEMMA AddRaisesKeeps ==
    ASSUME BytesConstants, BytesInv, NEW o \in Objects, AddRaises(o)
    PROVE  BytesInv'
<1> DEFINE b == Reserved(o, 4)
<1>1. /\ CanReserve(o, 4) /\ obj[o].size >= 0 /\ calls < MaxCalls /\ calls' = calls + 1
      /\ mem' = b.mem /\ spoilt' = (IF b.p = obj[o].p THEN spoilt ELSE spoilt \cup {o})
      /\ obj' = obj /\ want' = want
  BY Zenon DEF AddRaises
<1>2. /\ obj[o].size \in Int /\ o \in Objects \ spoilt /\ obj[o] \in Members
      /\ obj \in [Objects -> Members] /\ want = [x \in Objects |-> want[x]]
  BY <1>1 DEF BytesInv, Members, CanReserve, Usable
<1>3. ~Mapped(o) /\ ~(obj[o].size < 0)
  BY <1>1, <1>2 DEF Mapped, BYTES_SIZE_MAPPED
<1>4. 4 \in Nat \ {0} /\ 4 # 0
  OBVIOUS
<1>5. IsGrown(b, o, 4)
  BY <1>2, <1>3, <1>4, ReservedIs, Zenon
<1>6. /\ Holds(b, want[o]) /\ Moved(b, obj[o].p) /\ b.fixed = (obj[o].size < 0)
      /\ b.len = obj[o].len /\ b.p # Null
  BY <1>4, <1>5 DEF IsGrown
<1> HIDE DEF b
<1>7. CASE b.p # obj[o].p
  <2>1. /\ mem' = b.mem /\ want' = want /\ spoilt' = spoilt \cup {o}
        /\ obj' \in [Objects -> Members] /\ \A x \in Objects : x # o => obj'[x] = obj[x]
    BY <1>1, <1>2, <1>7
  <2> QED
    BY <1>2, <1>3, <1>6, <2>1, SpoiltBecomes, Zenon
<1>8. CASE b.p = obj[o].p
  <2>1. Own(mem, obj[o], want[o])
    BY <1>2, <1>3 DEF BytesInv
  <2>2. /\ obj[o].p \in DOMAIN mem /\ Row(mem[obj[o].p], obj[o].size)
        /\ obj[o].len <= obj[o].size
    BY <1>3, <1>6, <1>8, <2>1 DEF Own
  <2>3. Len(b.mem[b.p]) = Len(mem[b.p])
    BY <1>6, <1>8 DEF Moved
  <2>4. b.size = obj[o].size
    <3>1. Row(b.mem[b.p], b.size)
      BY <1>6 DEF Holds, InBuffer
    <3> QED
      BY <1>8, <2>2, <2>3, <3>1, RowIs
  <2>5. Tight(b, want[o]) /\ (b.fixed => b.len = b.size)
    BY <1>3, <1>6, <2>2, <2>4 DEF Tight
  <2>6. Written(b) = obj[o]
    <3>1. Written(b) = [p |-> b.p, len |-> b.len, size |-> b.size]
      BY <1>3, <1>6 DEF Written, Holds, IsBuffer
    <3> QED
      BY <1>2, <1>6, <1>8, <2>4, <3>1 DEF Members
  <2>7. obj' = [obj EXCEPT ![o] = Written(b)] /\ want' = [want EXCEPT ![o] = want[o]]
    <3>1. obj' = [obj EXCEPT ![o] = obj[o]]
      BY <1>1, <1>2
    <3>2. want' = [want EXCEPT ![o] = want[o]]
      BY <1>1, <1>2
    <3> QED
      BY <2>6, <3>1, <3>2
  <2>8. Becomes(o, b, want[o])
    BY <1>1, <1>8, <2>7 DEF Becomes
  <2> QED
    BY <1>2, <1>3, <1>6, <2>5, <2>8, OwnerBecomes, Zenon
<1> QED
  BY <1>7, <1>8

-----------------------------------------------------------------------------
(* Calls that put bytes in place of those of an object.                    *)

\* m_fromstring(), m_fromhex(), m_fromb64().
LEMMA ReplaceKeeps ==
    ASSUME BytesConstants, BytesInv, NEW o \in Objects, NEW n, NEW s, Row(s, n),
           Replace(o, s, Cut(s))
    PROVE  BytesInv'
<1>1. HasBuffer(o) /\ o \in Objects \ spoilt /\ obj[o].p # Null
  BY UsableIs DEF Replace
<1>2. Len(s) = n /\ n \in Nat /\ BytesMax \in Nat
  BY RowIs DEF BytesConstants
<1>3. CASE obj[o].size < 0
  <2>1. Rewrites(o, s)
    BY <1>3, Zenon DEF Replace
  <2> QED
    BY <1>1, <2>1, RewriteKeeps, Zenon
<1>4. CASE ~(obj[o].size < 0)
  <2> DEFINE b == BytesResize(Attr(o), n)
             e == [b EXCEPT !.len = 0]
             t == SubSeq(s, 1, Less(n, b.size))
  <2>1. Becomes(o, BufAdd(e, t), Cut(s))
    BY <1>2, <1>4, Zenon DEF Replace
  <2>2. obj[o].size \in Int
    BY DEF BytesInv, Members
  <2>3. ~Mapped(o)
    BY <1>4, <2>2 DEF Mapped, BYTES_SIZE_MAPPED
  <2>4. /\ Tight(Attr(o), want[o]) /\ Attr(o).mem = mem /\ Attr(o).p = obj[o].p
        /\ Attr(o).fixed = (obj[o].size < 0)
    BY <1>1, <2>3, AttrIs
  <2>5. /\ Holds(b, want[o]) /\ Moved(b, obj[o].p) /\ b.fixed = (obj[o].size < 0)
        /\ Less(n, BytesMax) <= b.size /\ b.p # Null
    <3>1. PICK a : a = Attr(o)
      OBVIOUS
    <3>2. /\ Holds(BytesResize(a, n), want[o]) /\ Moved(BytesResize(a, n), a.p)
          /\ BytesResize(a, n).fixed = a.fixed
          /\ Less(n, BytesMax) <= BytesResize(a, n).size
          /\ a.p # Null \/ n # 0 => BytesResize(a, n).p # Null
      BY <1>2, <2>4, <3>1, HeapIs, ResizeDoes
    <3> QED
      BY <1>1, <2>4, <3>1, <3>2
  <2> HIDE DEF b
  <2>6. b.size \in Nat /\ b.size <= BytesMax
    BY <2>5 DEF Holds, IsBuffer
  <2>7. IsEmptied(e, b)
    BY <2>5, EmptiedIs
  <2> HIDE DEF e
  <2>8. /\ Tight(e, <<>>) /\ e.p # Null /\ e.len = 0 /\ e.size = b.size /\ e.fixed = b.fixed
        /\ Moved(e, obj[o].p)
    BY <2>5, <2>7 DEF IsEmptied
  <2>9. Less(n, b.size) = Less(n, BytesMax) /\ Less(n, BytesMax) <= b.size
    BY <1>2, <2>5, <2>6 DEF Less
  <2>10. t = Cut(s)
    BY <1>2, <2>9, Zenon DEF Cut
  <2>11. Row(t, Less(n, BytesMax)) /\ Less(n, BytesMax) \in Nat
    <3>1. IsFirst(t, s, Less(n, BytesMax))
      BY <2>10, CutIs
    <3> QED
      BY <3>1 DEF IsFirst, Row
  <2> HIDE DEF t
  <2>12. /\ Tight(BufAdd(e, t), IF e.len + Less(n, BytesMax) <= e.size THEN <<>> \o t ELSE <<>>)
         /\ BufAdd(e, t).fixed = e.fixed
         /\ \A q : Moved(e, q) => Moved(BufAdd(e, t), q)
    BY <2>8, <2>11, AddDoes, Zenon
  <2>13. e.len + Less(n, BytesMax) <= e.size /\ <<>> \o t = t
    BY <2>8, <2>9, <2>11, JoinedEmpty
  <2>14. PICK c : c = BufAdd(e, t)
    OBVIOUS
  <2>15. Tight(c, Cut(s)) /\ (c.fixed => c.len = c.size) /\ Moved(c, obj[o].p)
    BY <1>4, <2>5, <2>8, <2>10, <2>12, <2>13, <2>14
  <2>16. Becomes(o, c, Cut(s))
    BY <2>1, <2>14
  <2> QED
    BY <1>1, <2>3, <2>15, <2>16, OwnerBecomes, Zenon
<1> QED
  BY <1>3, <1>4

\* What is short enough is not cut.
LEMMA CutShort ==
    ASSUME BytesConstants, NEW n, NEW s, Row(s, n), n <= BytesMax
    PROVE  Cut(s) = s
<1>1. n \in Nat /\ BytesMax \in Nat
  BY RowIs DEF BytesConstants
<1>2. Less(n, BytesMax) = n
  BY <1>1 DEF Less
<1>3. IsFirst(Cut(s), s, n)
  BY <1>2, CutIs
<1>4. Row(Cut(s), n) /\ \A i \in 1 .. n : Cut(s)[i] = s[i]
  BY <1>3, Zenon DEF IsFirst
<1> QED
  BY <1>4, RowsEqual, Zenon

\* The three.
LEMMA TextsKeep ==
    ASSUME BytesConstants, BytesInv, NEW o \in Objects, NEW text \in Texts,
           \/ FromString(o, text)
           \/ \E skip \in {0, 1} : FromHexText(o, text, skip)
           \/ FromB64Text(o, text)
    PROVE  BytesInv'
<1>1. Row(text, Len(text)) /\ Len(text) \in Nat
  BY TextIs
<1>2. CASE FromString(o, text)
  <2>1. Replace(o, text, Cut(text))
    BY <1>2 DEF FromString
  <2> QED
    BY <1>1, <2>1, ReplaceKeeps, Zenon
<1>3. ASSUME NEW skip \in {0, 1}, FromHexText(o, text, skip) PROVE BytesInv'
  <2> DEFINE from == Less(IF skip < 0 THEN 0 ELSE skip, Len(text))
             part == SubSeq(text, from + 1, Len(text))
             s == FromHex(part)
  <2>1. Len(s) <= BytesMax /\ Replace(o, s, s)
    BY <1>3, Zenon DEF FromHexText
  <2>2. from \in 0 .. Len(text)
    BY <1>1 DEF Less
  <2> HIDE DEF from
  <2>3. \E k : Row(part, k)
    <3>1. from + 1 \in Nat \ {0} /\ Len(text) \in Int /\ Len(text) <= Len(text)
      BY <1>1, <2>2
    <3>2. IsPart(part, text, from + 1, Len(text))
      BY <1>1, <3>1, RowPart, Zenon
    <3> QED
      BY <3>2, Zenon DEF IsPart
  <2> HIDE DEF part
  <2>4. PICK k : Row(part, k)
    BY <2>3
  <2>5. Row(s, k \div 2)
    BY <2>4, HexIs, Zenon
  <2> HIDE DEF s
  <2>6. Len(s) = k \div 2
    BY <2>5, RowIs
  <2>7. Cut(s) = s
    BY <2>1, <2>5, <2>6, CutShort
  <2>8. Replace(o, s, Cut(s))
    BY <2>1, <2>7
  <2> QED
    BY <2>5, <2>8, ReplaceKeeps, Zenon
<1>4. CASE FromB64Text(o, text)
  <2> DEFINE s == Decode64(text)
  <2>1. Len(s) <= BytesMax /\ Replace(o, s, s)
    BY <1>4 DEF FromB64Text
  <2>2. Row(s, Decode64Length(text))
    BY <1>1, Decode64Is, Zenon
  <2> HIDE DEF s
  <2>3. Len(s) = Decode64Length(text)
    BY <2>2, RowIs
  <2>4. Cut(s) = s
    BY <2>1, <2>2, <2>3, CutShort
  <2>5. Replace(o, s, Cut(s))
    BY <2>1, <2>4
  <2> QED
    BY <2>2, <2>5, ReplaceKeeps, Zenon
<1> QED
  BY <1>2, <1>3, <1>4

\* m_set(), m_setbits().
LEMMA SetBitsKeep ==
    ASSUME BytesConstants, BytesInv, NEW o \in Objects, NEW at \in Int, NEW v, NEW n \in Int,
           Set(o, at, v, n) \/ SetField(o, at, n, v)
    PROVE  BytesInv'
<1>1. HasBuffer(o)
  BY DEF Set, SetField
<1>2. Row(Content(o), obj[o].len)
  BY <1>1, UsableIs
<1>3. Row(SetInt(Content(o), at, v, n), obj[o].len) /\ Row(SetBits(Content(o), at, n, v), obj[o].len)
  BY <1>2, SetIs, Zenon
<1>4. Rewrites(o, SetInt(Content(o), at, v, n)) \/ Rewrites(o, SetBits(Content(o), at, n, v))
  BY DEF Set, SetField
<1> QED
  BY <1>1, <1>3, <1>4, RewriteKeeps, Zenon

\* m_setbytes(): whatever is asked for, the bytes lie within both buffers.
LEMMA SetBytesKeeps ==
    ASSUME BytesConstants, BytesInv, NEW o \in Objects, NEW other \in Objects,
           NEW index \in Int, NEW first \in Int, NEW n \in Int,
           SetBytes(o, index, other, first, n)
    PROVE  BytesInv'
<1> DEFINE buf == Content(o)
           src == Content(other)
           idx == FromEnd(buf, index)
           at  == IF idx < 0 THEN 0 ELSE Less(idx, Len(buf))
           off == IF first < 0 THEN 0 ELSE Less(first, Len(src))
           len == Less(Less(IF n < 0 THEN 0 ELSE n, Len(src) - off), Len(buf) - at)
           part == SubSeq(src, off + 1, off + len)
<1>1. HasBuffer(o) /\ HasBuffer(other) /\ Rewrites(o, Over(buf, at, part))
  BY Zenon DEF SetBytes
<1>2. Row(buf, Len(buf)) /\ Len(buf) \in Nat /\ Row(src, Len(src)) /\ Len(src) \in Nat
  BY <1>1, UsableIs
<1> HIDE DEF buf, src
<1>3. at \in 0 .. Len(buf) /\ off \in 0 .. Len(src)
  BY <1>2 DEF FromEnd, Less
<1> HIDE DEF at, off
<1>4. len \in 0 .. Len(src) - off
  BY <1>2, <1>3 DEF Less
<1> HIDE DEF len
<1>5. \E k : Row(part, k)
  <2>1. off + 1 \in Nat \ {0} /\ off + len \in Int /\ off + len <= Len(src)
    BY <1>2, <1>3, <1>4
  <2>2. IsPart(part, src, off + 1, off + len)
    BY <1>2, <2>1, RowPart, Zenon
  <2> QED
    BY <2>2, Zenon DEF IsPart
<1> HIDE DEF part
<1>6. PICK k : Row(part, k)
  BY <1>5
<1>7. Row(Over(buf, at, part), Len(buf))
  <2>1. at \in Int
    BY <1>3
  <2>2. IsOver(Over(buf, at, part), buf, Len(buf), at, part, k)
    BY <1>2, <1>6, <2>1, RowOver, Zenon
  <2> QED
    BY <2>2, Zenon DEF IsOver
<1> QED
  BY <1>1, <1>7, RewriteKeeps, Zenon

\* m_reverse().
LEMMA ReverseKeeps ==
    ASSUME BytesConstants, BytesInv, NEW o \in Objects, NEW index, NEW n, NEW g,
           ReverseGroups(o, index, n, g)
    PROVE  BytesInv'
<1>1. Row(Content(o), Len(Content(o))) /\ HasBuffer(o)
  BY UsableIs DEF ReverseGroups
<1>2. \E new : Row(new, Len(Content(o))) /\ Rewrites(o, new)
  <2> DEFINE buf == Content(o)
             idx == FromEnd(buf, index)
             at  == IF idx < 0 THEN 0 ELSE Less(idx, Len(buf))
             len == Less(IF n < 0 THEN Len(buf) - at ELSE n, Len(buf) - at)
             groups == len \div g
             from(i) == LET k == i - 1 - at
                        IN  at + (groups - 1 - k \div g) * g + (k % g) + 1
             new == [i \in DOMAIN buf |-> IF i > at /\ i <= at + groups * g
                                          THEN buf[from(i)] ELSE buf[i]]
  <2>1. Rewrites(o, new)
    BY Zenon DEF ReverseGroups
  <2>2. DOMAIN buf = 1 .. Len(buf) /\ Len(buf) \in Nat
    BY <1>1, RowIs
  <2> HIDE DEF from, groups, at, buf
  <2>3. Row(new, Len(buf))
    BY <2>2 DEF Row
  <2> HIDE DEF new
  <2> QED
    BY <2>1, <2>3 DEF buf
<1> QED
  BY <1>1, <1>2, RewriteKeeps, Zenon

\* resize(): what is lost is lost, what is new is zero.
LEMMA SetSizeKeeps ==
    ASSUME BytesConstants, BytesInv, NEW o \in Objects, NEW n \in Int, SetSize(o, n)
    PROVE  BytesInv'
<1> DEFINE len == IF n < 0 THEN 0 ELSE n
           t == SubSeq(want[o], 1, Less(len, Len(want[o])))
                  \o Zeros(Less(len, BytesMax) - Len(want[o]))
           a == Attr(o)
           b == BytesResize(a, len)
           c == SetLen(b, len)
<1>1. /\ HasBuffer(o) /\ (obj[o].size < 0 => obj[o].len = len)
      /\ Becomes(o, c, IF Mapped(o) THEN <<>> ELSE t)
  BY Zenon DEF SetSize
<1>2. len \in Nat /\ BytesMax \in Nat
  BY DEF BytesConstants
<1> HIDE DEF len
<1>3. o \in Objects \ spoilt /\ obj[o].p # Null /\ obj[o].p \in DOMAIN mem
  BY <1>1, UsableIs
<1>4. CASE Mapped(o)
  <2>1. /\ a = [mem |-> mem, p |-> obj[o].p, len |-> len, size |-> len,
                fixed |-> TRUE, mapped |-> TRUE]
    <3>1. obj[o].size = -2
      BY <1>4 DEF Mapped, BYTES_SIZE_MAPPED
    <3>2. obj[o].size < 0 /\ (obj[o].size < 0) = TRUE /\ (obj[o].size = -2) = TRUE
      BY <3>1
    <3>3. obj[o].len = len
      BY <1>1, <3>2
    <3> QED
      BY <3>2, <3>3, Zenon DEF Attr, BYTES_SIZE_MAPPED
  <2>2. b = a
    BY <2>1 DEF BytesResize
  <2> HIDE DEF a, b
  <2> DEFINE heap == [mem EXCEPT ![obj[o].p] = [i \in DOMAIN @ |-> IF i > len /\ i <= len
                                                                   THEN 0 ELSE @[i]]]
  <2>3. c = [mem |-> heap, p |-> obj[o].p, len |-> len, size |-> len,
             fixed |-> TRUE, mapped |-> TRUE]
    <3>1. Less(len, len) = len
      BY DEF Less
    <3>2. c = [b EXCEPT !.len = Less(len, b.size),
                        !.mem[b.p] = [i \in DOMAIN @ |-> IF i > b.len /\ i <= Less(len, b.size)
                                                         THEN 0 ELSE @[i]]]
      BY Zenon DEF SetLen
    <3> HIDE DEF c
    <3> QED
      BY <2>1, <2>2, <3>1, <3>2
  <2>4. /\ IsBlock(mem, obj[o].p) /\ obj[o].p \in Nat /\ obj[o].len = len
    BY <1>1, <1>3, <1>4 DEF BytesInv, Members, Mapped, BYTES_SIZE_MAPPED
  <2>5. Row(mem[obj[o].p], Len(mem[obj[o].p]))
    BY <2>4 DEF IsBlock
  <2>6. SameHeap(heap)
    <3>1. mem[obj[o].p] = [i \in DOMAIN mem[obj[o].p] |-> mem[obj[o].p][i]]
      BY <2>5 DEF Row
    <3>2. [i \in DOMAIN mem[obj[o].p] |-> IF i > len /\ i <= len THEN 0 ELSE mem[obj[o].p][i]]
            = mem[obj[o].p]
      <4>1. \A i \in DOMAIN mem[obj[o].p] : ~(i > len /\ i <= len)
        BY <1>2, <2>5, RowIs
      <4> QED
        BY <3>1, <4>1
    <3>3. /\ DOMAIN heap = DOMAIN mem
          /\ heap[obj[o].p] = [i \in DOMAIN mem[obj[o].p] |->
                                 IF i > len /\ i <= len THEN 0 ELSE mem[obj[o].p][i]]
          /\ \A k \in DOMAIN mem : k # obj[o].p => heap[k] = mem[k]
      BY <1>3
    <3> QED
      BY <3>2, <3>3 DEF SameHeap
  <2> HIDE DEF heap
  <2>7. c.mapped = TRUE /\ SameHeap(c.mem) /\ c.p = obj[o].p /\ c.len = len
    BY <2>3, <2>6
  <2>8. len <= Len(mem[obj[o].p])
    BY <1>1, <2>4, RoomIs
  <2>9. c.p \in Nat /\ c.len \in Nat /\ (c.p \in DOMAIN mem => c.len <= Len(mem[c.p]))
    BY <1>2, <2>4, <2>7, <2>8
  <2> HIDE DEF c
  <2>10. Becomes(o, c, <<>>)
    BY <1>1, <1>4
  <2> QED
    BY <1>3, <1>4, <2>7, <2>9, <2>10, ViewerBecomes, Zenon
<1>5. CASE ~Mapped(o)
  <2>1. /\ Tight(a, want[o]) /\ a.mem = mem /\ a.p = obj[o].p /\ a.len = obj[o].len
        /\ a.fixed = (obj[o].size < 0)
        /\ a.fixed => a.len = a.size
        /\ Moved(a, obj[o].p)
    BY <1>3, <1>5, AttrIs
  <2>2. a.len \in Nat /\ a.size \in Nat /\ a.len <= a.size /\ a.size <= BytesMax
        /\ Row(want[o], a.len)
    BY <2>1 DEF Tight, Holds, IsBuffer
  <2> HIDE DEF a
  <2>3. /\ Holds(b, want[o]) /\ Moved(b, a.p) /\ b.len = a.len /\ b.fixed = a.fixed
        /\ Less(len, BytesMax) <= b.size
        /\ a.p # Null \/ len # 0 => b.p # Null
        /\ len = a.size => b = a
    BY <1>2, <2>1, HeapIs, ResizeDoes
  <2> HIDE DEF b
  <2>4. b.size \in Nat /\ b.size <= BytesMax /\ b.p # Null
    BY <1>3, <2>1, <2>3 DEF Holds, IsBuffer
  <2>5. Less(len, b.size) = Less(len, BytesMax) /\ Less(len, b.size) \in Nat
    BY <1>2, <2>3, <2>4 DEF Less
  <2> DEFINE l == Less(len, BytesMax)
  <2>6. Row(t, l) /\ \A i \in 1 .. l : t[i] = IF i <= a.len THEN want[o][i] ELSE 0
    <3> DEFINE k == Less(len, a.len)
               u == SubSeq(want[o], 1, k)
               m == IF l <= a.len THEN 0 ELSE l - a.len
               z == Zeros(l - a.len)
    <3>1. Len(want[o]) = a.len
      BY <2>2, RowIs
    <3>2. /\ k \in 0 .. a.len /\ k + m = l /\ m \in Nat /\ l \in Nat
          /\ l > a.len => k = a.len
      BY <1>2, <2>2 DEF Less
    <3>3. IsFirst(u, want[o], k)
      BY <2>2, <3>2, RowFirst, Zenon
    <3>4. Row(z, m) /\ \A i \in 1 .. m : z[i] = 0
      BY <1>2, <2>2, <3>2 DEF Zeros, Row
    <3>5. t = u \o z
      BY <3>1
    <3> HIDE DEF u, z, k, m, l
    <3>6. Row(u, k) /\ \A i \in 1 .. k : u[i] = want[o][i]
      BY <3>3, Zenon DEF IsFirst
    <3>7. IsJoined(t, u, k, z, m)
      BY <3>4, <3>5, <3>6, RowsJoined, Zenon
    <3>8. Row(t, l) /\ \A i \in 1 .. l : t[i] = IF i <= k THEN u[i] ELSE z[i - k]
      BY <3>2, <3>7 DEF IsJoined
    <3> HIDE DEF t
    <3>9. ASSUME NEW i \in 1 .. l PROVE t[i] = IF i <= a.len THEN want[o][i] ELSE 0
      <4>1. t[i] = IF i <= k THEN u[i] ELSE z[i - k]
        BY <3>8
      <4>2. CASE i <= k
        <5>1. i \in 1 .. k /\ i <= a.len
          BY <2>2, <3>2, <4>2
        <5> QED
          BY <3>6, <4>1, <4>2, <5>1
      <4>3. CASE ~(i <= k)
        <5>1. i - k \in 1 .. m
          BY <3>2, <4>3
        <5>2. ~(i <= a.len)
          BY <2>2, <3>2, <4>3 DEF m
        <5> QED
          BY <3>4, <4>1, <4>3, <5>1, <5>2
      <4> QED
        BY <4>2, <4>3
    <3> QED
      BY <3>8, <3>9 DEF l
  <2> HIDE DEF t, l
  <2>7. /\ Tight(c, t) /\ c.p = b.p /\ c.size = b.size /\ c.fixed = b.fixed
        /\ c.len = Less(len, b.size)
        /\ \A q : Moved(b, q) => Moved(c, q)
    <3>1. Row(t, Less(len, b.size)) /\ \A i \in 1 .. Less(len, b.size) :
              t[i] = IF i <= b.len THEN want[o][i] ELSE 0
      BY <2>3, <2>5, <2>6 DEF l
    <3> QED
      BY <1>2, <2>3, <2>4, <3>1, LenSet
  <2> HIDE DEF c
  <2>8. c.fixed => c.len = c.size
    <3> SUFFICES ASSUME c.fixed PROVE c.len = c.size
      OBVIOUS
    <3>f. a.fixed
      BY <2>3, <2>7
    <3>e. a.fixed = (obj[o].size < 0)
      BY <2>1
    <3>s. obj[o].size < 0
      BY <3>e, <3>f
    <3>1. a.fixed /\ a.len = len /\ a.len = a.size
      BY <1>1, <2>1, <3>f, <3>s, Zenon
    <3>2. b = a /\ Less(len, len) = len
      BY <2>3, <3>1 DEF Less
    <3> QED
      BY <2>7, <3>1, <3>2
  <2>9. Tight(c, t) /\ Moved(c, obj[o].p) /\ Becomes(o, c, t)
    BY <1>1, <1>5, <2>1, <2>3, <2>7
  <2> QED
    BY <1>3, <1>5, <2>8, <2>9, OwnerBecomes, Zenon
<1> QED
  BY <1>4, <1>5

-----------------------------------------------------------------------------
(* Calls that make objects out of others.                                  *)

\* bytes_new_object(), and what is put into it.
LEMMA CopiedKeeps ==
    ASSUME BytesConstants, BytesInv, NEW to \in Objects, NEW n \in Nat,
           NEW k, NEW s, Row(s, k), NEW m, NEW t, Row(t, m),
           k + m <= n + 1, k + m <= BytesMax, Copied(to, n, s, t, s \o t)
    PROVE  BytesInv'
<1> DEFINE b == NewBuffer(mem, <<>>, n)
           c == BufAdd(b, s)
           d == BufAdd(c, t)
<1>1. Unborn(to) /\ Becomes(to, d, s \o t)
  BY Zenon DEF Copied
<1>2. to \in Objects \ spoilt /\ ~Mapped(to) /\ obj[to].p = Null
  BY <1>1, UnbornIs
<1>3. k \in Nat /\ m \in Nat /\ BytesMax \in Nat
  BY RowIs DEF BytesConstants
<1>4. IsNew(b, Cut(FromHex(<<>>)), n + 1) /\ b.fixed = FALSE
  <2>1. n \in Int /\ n >= 0
    OBVIOUS
  <2> QED
    BY <2>1, RowEmpty, NewBufferIs, Zenon
<1>5. Cut(FromHex(<<>>)) = <<>>
  <2>1. Row(FromHex(<<>>), 0)
    <3>1. Row(FromHex(<<>>), 0 \div 2)
      BY RowEmpty, HexIs, Zenon
    <3>2. 0 \div 2 = 0
      OBVIOUS
    <3> QED
      BY <3>1, <3>2
  <2>2. FromHex(<<>>) = <<>>
    <3>1. \A i \in 1 .. 0 : FromHex(<<>>)[i] = <<>>[i]
      OBVIOUS
    <3> QED
      BY <2>1, <3>1, RowEmpty, RowsEqual, Zenon
  <2>3. Cut(<<>>) = <<>>
    BY <1>3, RowEmpty, CutShort
  <2> QED
    BY <2>2, <2>3
<1> HIDE DEF b
<1>6. /\ Tight(b, <<>>) /\ b.p # Null /\ Moved(b, Null) /\ Less(n + 1, BytesMax) <= b.size
      /\ b.fixed = FALSE
  BY <1>4, <1>5 DEF IsNew
<1>7. b.len = 0 /\ b.size \in Nat
  <2>1. Row(<<>>, b.len) /\ b.size \in Nat
    BY <1>6 DEF Tight, Holds, IsBuffer
  <2>2. Len(<<>>) = b.len
    BY <2>1, RowIs
  <2> QED
    BY <2>1, <2>2
<1>8. b.len + k <= b.size /\ (b.len + k) + m <= b.size
  BY <1>3, <1>6, <1>7 DEF Less
<1>9. /\ Tight(c, IF b.len + k <= b.size THEN <<>> \o s ELSE <<>>)
      /\ c.p = b.p /\ c.size = b.size /\ c.fixed = b.fixed
      /\ c.len = (IF b.len + k <= b.size THEN b.len + k ELSE b.len)
      /\ \A q : Moved(b, q) => Moved(c, q)
  BY <1>6, AddDoes, Zenon
<1> HIDE DEF c
<1>10. <<>> \o s = s
  BY JoinedEmpty
<1>11. /\ Tight(c, s) /\ c.p # Null /\ c.size = b.size /\ c.fixed = FALSE
       /\ c.len = b.len + k /\ Moved(c, Null)
  BY <1>6, <1>8, <1>9, <1>10
<1>12. /\ Tight(d, IF c.len + m <= c.size THEN s \o t ELSE s)
       /\ d.fixed = c.fixed /\ \A q : Moved(c, q) => Moved(d, q)
  BY <1>11, AddDoes, Zenon
<1> HIDE DEF d
<1>13. Tight(d, s \o t) /\ (d.fixed => d.len = d.size) /\ Moved(d, obj[to].p)
  BY <1>2, <1>8, <1>11, <1>12
<1> QED
  BY <1>1, <1>2, <1>13, OwnerBecomes, Zenon

\* m_copy().
LEMMA CopyKeeps ==
    ASSUME BytesConstants, BytesInv, NEW o \in Objects, NEW to \in Objects, CopyBytes(o, to)
    PROVE  BytesInv'
<1> DEFINE s == Content(o)
           n == obj[o].len
<1>1. HasBuffer(o) /\ Copied(to, n, s, <<>>, Wanted(o))
  BY Zenon DEF CopyBytes
<1>2. Row(s, n) /\ n \in Nat /\ n <= BytesMax /\ s = Wanted(o)
  BY <1>1, UsableIs
<1> HIDE DEF s, n
<1>3. s \o <<>> = s /\ n + 0 <= n + 1 /\ n + 0 <= BytesMax
  BY <1>2, JoinedEmpty DEF BytesConstants
<1>4. Copied(to, n, s, <<>>, s \o <<>>)
  BY <1>1, <1>2, <1>3
<1> QED
  BY <1>2, <1>3, <1>4, RowEmpty, CopiedKeeps, Zenon

\* m_merge().
LEMMA MergeKeeps ==
    ASSUME BytesConstants, BytesInv, NEW o \in Objects, NEW to \in Objects,
           NEW m, NEW t, Row(t, m), MergeWith(o, t, t, to)
    PROVE  BytesInv'
<1> DEFINE s == Content(o)
           n == obj[o].len
<1>1. /\ HasBuffer(o) /\ n + Len(t) <= BytesMax
      /\ Copied(to, n + Len(t), s, t, Wanted(o) \o t)
  BY Zenon DEF MergeWith
<1>2. Row(s, n) /\ n \in Nat /\ s = Wanted(o) /\ Len(t) = m /\ m \in Nat
  BY <1>1, UsableIs, RowIs
<1> HIDE DEF s, n
<1>3. n + m \in Nat /\ n + m <= (n + m) + 1 /\ n + m <= BytesMax /\ Copied(to, n + m, s, t, s \o t)
  BY <1>1, <1>2
<1> QED
  BY <1>2, <1>3, CopiedKeeps, Zenon

\* m_merge() of two objects.
LEMMA MergeBytesKeeps ==
    ASSUME BytesConstants, BytesInv, NEW o \in Objects, NEW other \in Objects,
           NEW to \in Objects, MergeBytes(o, other, to)
    PROVE  BytesInv'
<1>1. HasBuffer(other) /\ MergeWith(o, Content(other), Wanted(other), to)
  BY DEF MergeBytes
<1>2. Row(Content(other), obj[other].len) /\ Content(other) = Wanted(other)
  BY <1>1, UsableIs
<1>3. MergeWith(o, Content(other), Content(other), to)
  BY <1>1, <1>2
<1> QED
  BY <1>2, <1>3, MergeKeeps, Zenon

\* m_item() of a range: the buffer of the copy may be one byte short of it,
\* for which there is the headroom.
LEMMA SliceKeeps ==
    ASSUME BytesConstants, BytesInv, NEW o \in Objects, NEW to \in Objects,
           NEW lower \in Int, NEW upper \in Int, Slice(o, lower, upper, to)
    PROVE  BytesInv'
<1> DEFINE buf == Content(o)
           low == FromEnd(buf, lower)
           up  == Less(FromEnd(buf, upper), obj[o].len - 1)
           from == IF low < 0 THEN 0 ELSE low
           n == IF up > from THEN up - from ELSE 0
           s == SubSeq(buf, from + 1, up + 1)
           k == IF from + 1 <= up + 1 THEN (up + 1) - (from + 1) + 1 ELSE 0
<1>1. HasBuffer(o) /\ Copied(to, n, s, <<>>, SubSeq(Wanted(o), from + 1, up + 1))
  BY Zenon DEF Slice
<1>2. /\ Row(buf, obj[o].len) /\ Len(buf) = obj[o].len /\ obj[o].len \in Nat
      /\ obj[o].len <= BytesMax /\ buf = Wanted(o) /\ BytesMax \in Nat
  BY <1>1, UsableIs DEF BytesConstants
<1> HIDE DEF buf
<1>3. from \in Nat /\ up \in Int /\ up + 1 <= obj[o].len
  BY <1>2 DEF FromEnd, Less
<1>4. Copied(to, n, s, <<>>, s)
  BY <1>1, <1>2
<1> HIDE DEF from, up
<1>5. n \in Nat /\ k \in Nat /\ k + 0 <= n + 1 /\ k + 0 <= BytesMax
  BY <1>2, <1>3
<1>6. Row(s, k)
  <2>1. from + 1 \in Nat \ {0} /\ up + 1 \in Int
    BY <1>3
  <2>2. IsPart(s, buf, from + 1, up + 1)
    BY <1>2, <1>3, <2>1, RowPart, Zenon
  <2> QED
    BY <2>2, Zenon DEF IsPart
<1> HIDE DEF n, s, k
<1>7. s \o <<>> = s
  BY <1>6, JoinedEmpty
<1>8. Copied(to, n, s, <<>>, s \o <<>>)
  BY <1>4, <1>7
<1> QED
  BY <1>5, <1>6, <1>8, RowEmpty, CopiedKeeps, Zenon

-----------------------------------------------------------------------------
(* The specification.                                                      *)

\* There are no objects at first.
LEMMA NoBytes ==
    ASSUME BytesConstants, BytesInit
    PROVE  BytesInv
<1>1. /\ mem = <<>> /\ obj = [o \in Objects |-> NoObject]
      /\ want = [o \in Objects |-> <<>>] /\ spoilt = {}
  BY DEF BytesInit
<1>2. DOMAIN mem = {} /\ IsFiniteSet(DOMAIN mem)
  BY <1>1, FS_EmptySet
<1>3. obj \in [Objects -> Members] /\ want = [o \in Objects |-> want[o]]
  BY <1>1 DEF NoObject, Members, Null
<1>4. \A o \in Objects : obj[o].p = Null /\ obj[o].size = 0 /\ obj[o].len = 0 /\ want[o] = <<>>
  BY <1>1 DEF NoObject
<1>5. \A o \in Objects : ~Mapped(o)
  BY <1>4 DEF Mapped, BYTES_SIZE_MAPPED
<1>6. ASSUME NEW o \in Objects PROVE Own(mem, obj[o], want[o])
  BY <1>4, RowEmpty DEF Own, BytesConstants
<1> QED
  BY <1>1, <1>2, <1>3, <1>4, <1>5, <1>6 DEF BytesInv

\* One step of an object.
LEMMA OneKeeps ==
    ASSUME BytesConstants, BytesInv, NEW o \in Objects,
           \/ Deinit(o) \/ Clear(o) \/ AddRaises(o)
           \/ \E text \in Texts :
                 \/ \E n \in Counts : NewBytes(o, text, n)
                 \/ Connect(o, text) \/ FromString(o, text) \/ FromB64Text(o, text)
                 \/ \E skip \in {0, 1} : FromHexText(o, text, skip)
                 \/ \E to \in Objects : MergeWith(o, text, text, to)
           \/ \E v \in Numbers, n \in Widths : Add(o, v, n)
           \/ \E v \in Numbers : Connect(o, Packed(v, 1))
           \/ \E v \in Numbers, i \in Offsets, n \in Widths :
                 Set(o, i, v, n) \/ SetField(o, i, n * 3, v)
           \/ \E n \in Counts : SetSize(o, n)
           \/ \E i \in Offsets, n \in Counts :
                 \/ \E g \in Widths : ReverseGroups(o, i, n, g)
                 \/ \E to \in Objects : Slice(o, i, n, to)
    PROVE  BytesInv'
<1>0. /\ Numbers \subseteq Int /\ Widths \subseteq Int /\ Offsets \subseteq Int
      /\ Counts \subseteq Int
  BY DEF BytesConstants
<1>1. CASE Deinit(o)
  BY <1>1, DeinitKeeps, Zenon
<1>2. CASE Clear(o)
  BY <1>2, ClearKeeps, Zenon
<1>3. CASE AddRaises(o)
  BY <1>3, AddRaisesKeeps, Zenon
<1>4. ASSUME NEW text \in Texts, NEW n \in Counts, NewBytes(o, text, n) PROVE BytesInv'
  BY <1>4, NewBytesKeeps, Zenon
<1>5. ASSUME NEW text \in Texts, Connect(o, text) PROVE BytesInv'
  <2>1. Row(text, Len(text))
    BY TextIs
  <2> QED
    BY <1>5, <2>1, ConnectKeeps, Zenon
<1>6. ASSUME NEW text \in Texts,
             \/ FromString(o, text)
             \/ \E skip \in {0, 1} : FromHexText(o, text, skip)
             \/ FromB64Text(o, text)
      PROVE  BytesInv'
  BY <1>6, TextsKeep, Zenon
<1>7. ASSUME NEW text \in Texts, NEW to \in Objects, MergeWith(o, text, text, to)
      PROVE  BytesInv'
  <2>1. Row(text, Len(text))
    BY TextIs
  <2> QED
    BY <1>7, <2>1, MergeKeeps, Zenon
<1>8. ASSUME NEW v \in Numbers, NEW n \in Widths, Add(o, v, n) PROVE BytesInv'
  <2>1. n \in Int
    BY <1>0
  <2> QED
    BY <1>8, <2>1, AddBytesKeeps, Zenon
<1>9. ASSUME NEW v \in Numbers, Connect(o, Packed(v, 1)) PROVE BytesInv'
  <2>1. 1 \in Int
    OBVIOUS
  <2>2. Row(Packed(v, 1), Width(1))
    BY <2>1, PackedIs, Zenon
  <2> QED
    BY <1>9, <2>2, ConnectKeeps, Zenon
<1>10. ASSUME NEW v \in Numbers, NEW i \in Offsets, NEW n \in Widths,
              Set(o, i, v, n) \/ SetField(o, i, n * 3, v)
       PROVE  BytesInv'
  <2>1. i \in Int /\ n \in Int /\ n * 3 \in Int
    BY <1>0
  <2>2. CASE Set(o, i, v, n)
    BY <2>1, <2>2, SetBitsKeep, Zenon
  <2>3. CASE SetField(o, i, n * 3, v)
    <3>1. PICK w \in Int : w = n * 3
      BY <2>1
    <3>2. SetField(o, i, w, v)
      BY <2>3, <3>1
    <3> QED
      BY <2>1, <3>2, SetBitsKeep, Zenon
  <2> QED
    BY <1>10, <2>2, <2>3
<1>11. ASSUME NEW n \in Counts, SetSize(o, n) PROVE BytesInv'
  <2>1. n \in Int
    BY <1>0
  <2> QED
    BY <1>11, <2>1, SetSizeKeeps, Zenon
<1>12. ASSUME NEW i \in Offsets, NEW n \in Counts, NEW g \in Widths, ReverseGroups(o, i, n, g)
       PROVE  BytesInv'
  BY <1>12, ReverseKeeps, Zenon
<1>13. ASSUME NEW i \in Offsets, NEW n \in Counts, NEW to \in Objects, Slice(o, i, n, to)
       PROVE  BytesInv'
  <2>1. i \in Int /\ n \in Int
    BY <1>0
  <2> QED
    BY <1>13, <2>1, SliceKeeps, Zenon
<1> QED
  BY <1>1, <1>2, <1>3, <1>4, <1>5, <1>6, <1>7, <1>8, <1>9, <1>10, <1>11, <1>12, <1>13, Zenon

\* One step of two.
LEMMA TwoKeep ==
    ASSUME BytesConstants, BytesInv, NEW o \in Objects, NEW other \in Objects,
           \/ \E n \in Counts : NewMapped(o, other, n)
           \/ ChangeBuffer(o, other) \/ CopyBytes(o, other)
           \/ \E to \in Objects : MergeBytes(o, other, to)
           \/ ConnectBytes(o, other) \/ AppendHex(o, other)
           \/ \E i \in Offsets, n \in Counts :
                 \/ AppendB64(o, other, i, n)
                 \/ \E at \in Offsets : SetBytes(o, at, other, i, n)
    PROVE  BytesInv'
<1>0. Offsets \subseteq Int /\ Counts \subseteq Int
  BY DEF BytesConstants
<1>1. ASSUME NEW n \in Counts, NewMapped(o, other, n) PROVE BytesInv'
  BY <1>1, NewMappedKeeps, Zenon
<1>2. CASE ChangeBuffer(o, other)
  BY <1>2, ChangeBufferKeeps, Zenon
<1>3. CASE CopyBytes(o, other)
  BY <1>3, CopyKeeps, Zenon
<1>4. ASSUME NEW to \in Objects, MergeBytes(o, other, to) PROVE BytesInv'
  BY <1>4, MergeBytesKeeps, Zenon
<1>5. CASE ConnectBytes(o, other)
  BY <1>5, ConnectBytesKeeps, Zenon
<1>6. CASE AppendHex(o, other)
  BY <1>6, AppendHexKeeps, Zenon
<1>7. ASSUME NEW i \in Offsets, NEW n \in Counts, AppendB64(o, other, i, n) PROVE BytesInv'
  <2>1. i \in Int /\ n \in Int
    BY <1>0
  <2> QED
    BY <1>7, <2>1, AppendB64Keeps, Zenon
<1>8. ASSUME NEW i \in Offsets, NEW n \in Counts, NEW at \in Offsets,
             SetBytes(o, at, other, i, n)
      PROVE  BytesInv'
  <2>1. i \in Int /\ n \in Int /\ at \in Int
    BY <1>0
  <2> QED
    BY <1>8, <2>1, SetBytesKeeps, Zenon
<1> QED
  BY <1>1, <1>2, <1>3, <1>4, <1>5, <1>6, <1>7, <1>8, Zenon

\* All steps keep the invariant.
LEMMA BytesStep ==
    ASSUME BytesConstants, BytesInv, [BytesNext]_bytesVars
    PROVE  BytesInv'
<1>1. CASE UNCHANGED bytesVars
  BY <1>1 DEF bytesVars, BytesInv, Mapped
<1>2. CASE BytesNext
  BY <1>2, OneKeeps, TwoKeep, Zenon DEF BytesNext
<1> QED
  BY <1>1, <1>2

\* What the invariant says of blocks and of bytes.
LEMMA BytesInvSays ==
    ASSUME BytesConstants, BytesInv
    PROVE  BuffersOwned /\ BytesAsWanted
<1>1. /\ obj \in [Objects -> Members]
      /\ \A o \in Objects \ spoilt : ~Mapped(o) => Own(mem, obj[o], want[o])
      /\ \A o, x \in Objects \ spoilt :
           o # x /\ obj[o].p = obj[x].p /\ obj[o].p # Null => Mapped(o) \/ Mapped(x)
      /\ spoilt = {} => \A k \in DOMAIN mem : \E o \in Objects : obj[o].p = k /\ ~Mapped(o)
  BY DEF BytesInv
<1>2. ASSUME NEW o \in Objects \ spoilt, ~Mapped(o)
      PROVE  /\ Attr(o).p = obj[o].p /\ Attr(o).len = obj[o].len /\ Attr(o).mem = mem
             /\ Row(want[o], obj[o].len) /\ obj[o].len \in Nat
             /\ Attr(o).len <= Attr(o).size /\ Attr(o).size <= BytesMax
             /\ obj[o].p = Null => obj[o].len = 0
             /\ obj[o].p # Null =>
                  /\ obj[o].p \in DOMAIN mem /\ Row(mem[obj[o].p], Attr(o).size)
                  /\ \A i \in 1 .. obj[o].len : mem[obj[o].p][i] = want[o][i]
  <2>1. /\ Tight(Attr(o), want[o])
        /\ Attr(o).mem = mem /\ Attr(o).p = obj[o].p /\ Attr(o).len = obj[o].len
    BY <1>2, AttrIs
  <2> QED
    BY <2>1 DEF Tight, Holds, IsBuffer, InBuffer
<1>3. BuffersOwned
  <2>1. ASSUME NEW o \in Objects \ spoilt, obj[o].p # Null, ~Mapped(o)
        PROVE  /\ obj[o].p \in DOMAIN mem
               /\ Len(mem[obj[o].p]) = Attr(o).size
               /\ obj[o].len <= Attr(o).size /\ Attr(o).size <= BytesMax
               /\ \A x \in Objects \ (spoilt \cup {o}) : obj[x].p = obj[o].p => Mapped(x)
    BY <1>1, <1>2, <2>1, RowIs
  <2> QED
    BY <1>1, <2>1 DEF BuffersOwned
<1>4. ASSUME NEW o \in Objects \ spoilt, ~Mapped(o) PROVE Content(o) = want[o]
  <2>1. Content(o) = IF obj[o].p = Null THEN <<>> ELSE SubSeq(mem[obj[o].p], 1, obj[o].len)
    BY <1>2, <1>4, Zenon DEF Content, Bytes
  <2>2. CASE obj[o].p = Null
    <3>1. Row(want[o], 0)
      BY <1>2, <1>4, <2>2
    <3>2. \A i \in 1 .. 0 : <<>>[i] = want[o][i]
      OBVIOUS
    <3>3. <<>> = want[o]
      BY <3>1, <3>2, RowEmpty, RowsEqual, Zenon
    <3> QED
      BY <2>1, <2>2, <3>3
  <2>3. CASE obj[o].p # Null
    <3>1. HasBuffer(o)
      BY <1>2, <1>4, <2>3 DEF HasBuffer, Usable
    <3> QED
      BY <1>4, <3>1, UsableIs
  <2> QED
    BY <2>2, <2>3
<1> QED
  BY <1>3, <1>4 DEF BytesAsWanted

\* Whatever is done with bytes objects: each has a buffer of its own, or is
\* the view of another's, and the bytes in it are those a caller expects.
THEOREM BytesCorrect ==
    ASSUME BytesConstants
    PROVE  BytesSpec => [](BuffersOwned /\ BytesAsWanted)
<1>1. BytesInit => BytesInv
  BY NoBytes
<1>2. BytesInv /\ [BytesNext]_bytesVars => BytesInv'
  BY BytesStep
<1>3. BytesInv => BuffersOwned /\ BytesAsWanted
  BY BytesInvSays
<1> QED
  BY <1>1, <1>2, <1>3, PTL DEF BytesSpec
=============================================================================
