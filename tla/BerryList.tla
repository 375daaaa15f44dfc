------------------------------ MODULE BerryList ------------------------------
(***************************************************************************)
(* Lists (be_list.c, be_listlib.c, the list side of be_api.c): blocks of   *)
(* memory with a capacity, whose cells beyond the count hold what was      *)
(* there before.                                                           *)
(***************************************************************************)
EXTENDS BerrySizes, FiniteSets, SequencesExt

CONSTANTS Lists,            \* places for list objects
          Elements, NilItem,
          Junk, Unsaid,     \* what lies in new memory; a value nothing is said of
          IndexError,
          Indexes,          \* arguments of calls
          Contents,         \* what the first list is made with
          MaxListCalls      \* bound on calls

\* What is taken for granted of the constants.
ListConstants ==
    /\ 1 \in Lists /\ Indexes \subseteq Int /\ MaxListCalls \in Nat
    /\ \A s \in Contents : s \in Seq(Elements) /\ Len(s) <= LargestSize

VARIABLES
    vec,                \* per list: cells (as many as the capacity), count
    meant,              \* history: the sequence the program made of it
    loop,               \* a for loop over list 1: its iterator's index, what it saw
    listCalls

listVars == <<vec, meant, loop, listCalls>>

Absent == [cells |-> <<>>, count |-> -2]
JunkCells(n) == [i \in 1 .. n |-> Junk]

Grown(v, capacity) ==
    IF capacity > Len(v.cells)
    THEN [v EXCEPT !.cells = @ \o JunkCells(capacity - Len(@))] ELSE v

\* be_list_push(): room is made before the count changes.
PushedOn(v, x) ==
    LET g == IF v.count >= Len(v.cells) THEN Grown(v, NextSize(Len(v.cells))) ELSE v
    IN  [cells |-> [g.cells EXCEPT ![v.count + 1] = x], count |-> v.count + 1]

Filled(v, s) ==
    LET fill[n \in 0 .. Len(s)] == IF n = 0 THEN v ELSE PushedOn(fill[n - 1], s[n])
    IN  fill[Len(s)]

\* m_init(): be_list_new(), and a push for each argument.
NewList(s) == Filled([cells |-> JunkCells(2), count |-> 0], s)

NoLoop == [index |-> -2, seen |-> <<>>, clean |-> TRUE]
ListInit ==
    /\ \E s \in Contents :
         /\ vec = [o \in Lists |-> IF o = 1 THEN NewList(s) ELSE Absent]
         /\ meant = [o \in Lists |-> IF o = 1 THEN s ELSE <<>>]
    /\ loop = NoLoop /\ listCalls = 0

\* The elements a list shows.
Shown(v) == SubSeq(v.cells, 1, v.count)
Exists(o) == vec[o].count >= 0
Position(v, i) == IF i < 0 THEN v.count + i ELSE i

-----------------------------------------------------------------------------
(* Calls that change a list.                                               *)

\* (A list beyond LargestSize finds no memory.)
Change(o, v, s, moves) ==
    /\ listCalls < MaxListCalls /\ listCalls' = listCalls + 1
    /\ v.count <= LargestSize
    /\ vec' = [vec EXCEPT ![o] = v] /\ meant' = [meant EXCEPT ![o] = s]
    /\ loop' = [loop EXCEPT !.clean = @ /\ (o = 1 => ~moves /\ loop.index # -3)]

Push(o, x) == Exists(o) /\ Change(o, PushedOn(vec[o], x), Append(meant[o], x), FALSE)

\* Mutant: cells are moved from the front, over the ones that follow.
InsertedAt_Forward(v, p, x) ==
    LET g == IF v.count >= Len(v.cells) THEN Grown(v, NextSize(Len(v.cells))) ELSE v
    IN  [cells |-> [i \in DOMAIN g.cells |->
                      IF i <= p THEN g.cells[i] ELSE IF i = p + 1 THEN x
                      ELSE IF i <= v.count + 1 THEN g.cells[p + 1] ELSE g.cells[i]],
         count |-> v.count + 1]

InsertedAt(v, p, x) ==
    LET g == IF v.count >= Len(v.cells) THEN Grown(v, NextSize(Len(v.cells))) ELSE v
    IN  [cells |-> [i \in DOMAIN g.cells |->
                      IF i <= p THEN g.cells[i] ELSE IF i = p + 1 THEN x
                      ELSE IF i <= v.count + 1 THEN g.cells[i - 1] ELSE g.cells[i]],
         count |-> v.count + 1]

\* m_insert(): a position that does not exist is ignored.
Insert(o, i, x) ==
    LET p == Position(vec[o], i)
    IN  /\ Exists(o) /\ p \in 0 .. vec[o].count
        /\ Change(o, InsertedAt(vec[o], p, x), InsertAt(meant[o], p + 1, x), TRUE)

RemovedAt(v, p) ==
    [cells |-> [i \in DOMAIN v.cells |->
                  IF i > p /\ i < v.count THEN v.cells[i + 1] ELSE v.cells[i]],
     count |-> v.count - 1]

\* m_remove(), and m_pop(), which answers the element first (the last one
\* without an argument).
RemoveItem(o, i) ==
    LET p == Position(vec[o], i)
    IN  /\ Exists(o) /\ p \in 0 .. vec[o].count - 1
        /\ Change(o, RemovedAt(vec[o], p), RemoveAt(meant[o], p + 1), TRUE)

\* be_list_resize(): new cells are nil only where the block grows.
ResizedTo(v, n) ==
    IF NextSize(n) > Len(v.cells)
    THEN LET g == Grown(v, NextSize(n))
         IN  [cells |-> [i \in DOMAIN g.cells |->
                           IF i > v.count /\ i <= n THEN NilItem ELSE g.cells[i]],
              count |-> n]
    ELSE [v EXCEPT !.count = n]

\* m_resize(), m_clear().
Resize(o, n) ==
    /\ Exists(o) /\ n >= 0 /\ n # vec[o].count
    /\ LET more == IF NextSize(n) > Len(vec[o].cells) THEN NilItem ELSE Unsaid
       IN  Change(o, ResizedTo(vec[o], n),
                  [i \in 1 .. n |-> IF i <= Len(meant[o]) THEN meant[o][i] ELSE more], TRUE)

\* be_list_merge() into a new list: m_merge().
MergedWith(v, w) ==
    LET n == v.count + w.count
        g == Grown(v, NextSize(n))
    IN  IF n = 0 THEN v
        ELSE [cells |-> [i \in DOMAIN g.cells |->
                           IF i > v.count /\ i <= n THEN w.cells[i - v.count] ELSE g.cells[i]],
              count |-> n]

Merge(o, a, b) ==
    /\ ~Exists(o) /\ Exists(a) /\ Exists(b)
    /\ Change(o, MergedWith(MergedWith(NewList(<<>>), vec[a]), vec[b]),
              meant[a] \o meant[b], FALSE)

\* m_copy(): be_list_copy() takes the whole block.
Copy(o, a) == ~Exists(o) /\ Exists(a) /\ Change(o, vec[a], meant[a], FALSE)

\* m_reverse(): pairs of cells from both ends.
ReversedIn(v) ==
    [v EXCEPT !.cells = [i \in DOMAIN @ |->
        IF i <= v.count THEN v.cells[(v.count + 1) - i] ELSE v.cells[i]]]
ReverseList(o) == Exists(o) /\ Change(o, ReversedIn(vec[o]), Reverse(meant[o]), TRUE)

\* m_setitem(): list_setindex()
SetItem(o, i, x) ==
    LET p == Position(vec[o], i)
    IN  /\ Exists(o) /\ p \in 0 .. vec[o].count - 1
        /\ Change(o, [vec[o] EXCEPT !.cells[p + 1] = x],
                  [meant[o] EXCEPT ![p + 1] = x], TRUE)

\* m_iter() and iter_closure(): the index is all the iterator keeps.
StartLoop ==
    /\ loop.index = -2
    /\ loop' = [index |-> -1, seen |-> <<>>, clean |-> TRUE]
    /\ UNCHANGED <<vec, meant, listCalls>>

Iterate ==
    LET v == vec[1]
        next == loop.index + 1
    IN  /\ loop.index > -2
        /\ loop' = IF next >= v.count THEN [loop EXCEPT !.index = -3]
                   ELSE [loop EXCEPT !.index = next, !.seen = Append(@, v.cells[next + 1])]
        /\ UNCHANGED <<vec, meant, listCalls>>

-----------------------------------------------------------------------------
(* Calls that read.                                                        *)

\* be_list_index(), list_getindex()
Item(v, i) ==
    LET p == Position(v, i) IN IF p \in 0 .. v.count - 1 THEN v.cells[p + 1] ELSE IndexError

\* item_range(): bounds from the end if negative, then kept within the list.
RangeOf(v, lower, upper) ==
    [lower |-> IF Position(v, lower) < 0 THEN 0 ELSE Position(v, lower),
     upper |-> IF Position(v, upper) < v.count THEN Position(v, upper) ELSE v.count - 1]
ItemRange(v, lower, upper) ==
    LET r == RangeOf(v, lower, upper)
    IN  [k \in 1 .. (IF r.upper < r.lower THEN 0 ELSE (r.upper - r.lower) + 1) |->
           Item(v, (r.lower + k) - 1)]

\* item_list(): positions from the front only, nil for the others.
ItemList(v, indexes) ==
    [k \in DOMAIN indexes |->
       IF indexes[k] \in 0 .. v.count - 1 THEN v.cells[indexes[k] + 1] ELSE NilItem]

\* m_find()
Find(v, x) ==
    LET at == {p \in 0 .. v.count - 1 : v.cells[p + 1] = x}
    IN  IF at = {} THEN NilItem ELSE CHOOSE p \in at : \A q \in at : p <= q

\* list_equal(): sizes, then one element after the other.
EqualLists(v, w) ==
    v.count = w.count /\ \A i \in 1 .. v.count : v.cells[i] = w.cells[i]

ListNext ==
    \/ \E o \in Lists :
         \/ \E x \in Elements : Push(o, x)
         \/ \E x \in Elements, i \in Indexes : Insert(o, i, x) \/ SetItem(o, i, x)
         \/ \E i \in Indexes : RemoveItem(o, i) \/ Resize(o, i)
         \/ \E a, b \in Lists : Merge(o, a, b)
         \/ \E a \in Lists : Copy(o, a)
         \/ ReverseList(o)
    \/ StartLoop \/ Iterate

ListSpec == ListInit /\ [][ListNext]_listVars

-----------------------------------------------------------------------------
(* Properties.                                                             *)

\* A list shows what the program made of it, whatever its capacity went
\* through: no element is lost, moved or shown twice.  (A list that grows by
\* resize() within its capacity shows what lies there: nothing is said of it.)
ListAsMeant ==
    \A o \in Lists : Exists(o) =>
        /\ vec[o].count <= Len(vec[o].cells)
        /\ vec[o].count = Len(meant[o])
        /\ \A i \in 1 .. vec[o].count : meant[o][i] \in {vec[o].cells[i], Unsaid}

\* Ranges, negative positions and searches answer what the sequence answers,
\* inside and outside its bounds.
ReadsAsMeant ==
    \A o \in Lists : Exists(o) =>
        LET s == Shown(vec[o])
            n == Len(s)
        IN  /\ \A i, j \in Indexes :
                 ItemRange(vec[o], i, j) =
                   LET low == IF i < 0 THEN n + i ELSE i
                       high == IF j < 0 THEN n + j ELSE j
                       from == IF low < 0 THEN 1 ELSE low + 1
                   IN  SubSeq(s, from, IF high < n THEN high + 1 ELSE n)
            /\ \A i \in Indexes : Item(vec[o], i) =
                 (IF i \in -n .. n - 1 THEN s[(IF i < 0 THEN n + i ELSE i) + 1]
                  ELSE IndexError)
            /\ \A i \in Indexes : ItemList(vec[o], <<i>>) =
                 (IF i \in 0 .. n - 1 THEN <<s[i + 1]>> ELSE <<NilItem>>)
            /\ \A x \in Elements : LET p == Find(vec[o], x) IN
                 IF x \in Range(s) THEN s[p + 1] = x /\ x \notin Range(SubSeq(s, 1, p))
                 ELSE p = NilItem
            /\ \A a \in Lists : Exists(a) =>
                 (EqualLists(vec[o], vec[a]) <=> s = Shown(vec[a]))

\* A loop whose list only grows at its end hands out every element once, in
\* order, the ones that came during the loop included.
LoopSeesAll == loop.index = -3 /\ loop.clean => loop.seen = Shown(vec[1])
=============================================================================
