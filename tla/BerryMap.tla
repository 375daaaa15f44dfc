------------------------------ MODULE BerryMap ------------------------------
(***************************************************************************)
(* Maps (be_map.c, be_maplib.c, the map side of be_api.c): one block of    *)
(* slots; colliding keys are chained through free slots of the same block, *)
(* taken from its end.  Every class, module and global table is one too.   *)
(***************************************************************************)
EXTENDS BerrySizes, FiniteSets, SequencesExt

CONSTANTS Keys, NoKey,      \* NoKey: a nil key, an empty slot
          HashOf,           \* hashcode() of each key
          MapValues, NoValue,
          MaxMapCalls       \* bound on calls

\* What is taken for granted of the constants: capacities are ints.
MapConstants ==
    /\ NoKey \notin Keys /\ NoValue \notin MapValues
    /\ HashOf \in [Keys -> Nat] /\ MaxMapCalls \in 0 .. LargestSize

VARIABLES
    map,        \* bmap: slots ([key, value, next], next 0 for LASTNODE),
                \* lastfree (0: before the first slot), count
    put,        \* history: the value last stored under each key
    walk,       \* a loop over keys() or the values: the slot it is at
    mapCalls

mapVars == <<map, put, walk, mapCalls>>

EmptySlots(n) == [i \in 1 .. n |-> [key |-> NoKey, value |-> NoValue, next |-> 0]]
SizeOf(m) == Len(m.slots)
MainSlot(m, k) == (HashOf[k] % SizeOf(m)) + 1

\* What a walk from a slot passes, as far as the block has slots.
From(m, i) ==
    LET path[n \in 0 .. SizeOf(m)] ==
          IF n = 0 THEN <<i>>
          ELSE LET p == path[n - 1]
                   next == m.slots[Last(p)].next
               IN  IF next = 0 THEN p ELSE Append(p, next)
    IN  IF i = 0 THEN <<>> ELSE path[SizeOf(m)]

FirstAt(s, slots) ==
    LET at == {n \in DOMAIN s : s[n] \in slots}
    IN  IF at = {} THEN 0 ELSE s[CHOOSE n \in at : \A l \in at : n <= l]

\* find(): from the main slot, unless that is empty.
FindSlot(m, k) ==
    LET i == MainSlot(m, k)
    IN  IF m.slots[i].key = NoKey THEN 0
        ELSE FirstAt(From(m, i), {j \in DOMAIN m.slots : m.slots[j].key = k})

\* nextfree(): lastfree goes down to the next empty slot.
NextFree(m) ==
    LET free == {i \in 1 .. m.lastfree : m.slots[i].key = NoKey}
    IN  IF free = {} THEN 0 ELSE CHOOSE i \in free : \A j \in free : j <= i

\* insert(): an empty main slot; or behind a key that is at home there; or a
\* key that is not moves to a free slot.
InsertInto(m, k, x) ==
    LET slot == MainSlot(m, k)
        home == MainSlot(m, m.slots[slot].key)
        free == NextFree(m)
        prev == FirstAt(From(m, home), {j \in DOMAIN m.slots : m.slots[j].next = slot})
        entry(next) == [key |-> k, value |-> x, next |-> next]
    IN  IF m.slots[slot].key = NoKey THEN [m EXCEPT !.slots[slot] = entry(0)]
        ELSE IF home = slot
        THEN [m EXCEPT !.slots[free] = entry(m.slots[slot].next),
                       !.slots[slot].next = free, !.lastfree = free]
        ELSE [m EXCEPT !.slots[prev].next = free,
                       !.slots[free] = m.slots[slot],
                       !.slots[slot] = entry(0), !.lastfree = free]

\* resize(): a new block, and every key inserted again in the old order.
ResizedMap(m, n) ==
    LET again[i \in 0 .. SizeOf(m)] ==
          IF i = 0 THEN [slots |-> EmptySlots(n), lastfree |-> n, count |-> m.count]
          ELSE IF m.slots[i].key = NoKey THEN again[i - 1]
          ELSE InsertInto(again[i - 1], m.slots[i].key, m.slots[i].value)
    IN  IF n < m.count THEN m ELSE again[SizeOf(m)]

MapInit ==
    /\ map = [slots |-> EmptySlots(2), lastfree |-> 2, count |-> 0]
    /\ put = [k \in Keys |-> NoValue]
    /\ walk = [at |-> -1, seen |-> {}, clean |-> TRUE, dangles |-> FALSE]
    /\ mapCalls = 0

\* be_map_insert() of a new key.
Added(m, k, x) ==
    LET room == IF m.count >= SizeOf(m) THEN ResizedMap(m, NextSize(SizeOf(m))) ELSE m
    IN  [InsertInto(room, k, x) EXCEPT !.count = @ + 1]

\* Mutant: the second of a chain is copied, its slot stays.
RemovedFrom_KeepsSecond(m, k) ==
    LET main == MainSlot(m, k)
        second == m.slots[main].next
    IN  IF m.slots[main].key = k /\ second # 0
        THEN [m EXCEPT !.slots[main] = m.slots[second], !.count = @ - 1]
        ELSE IF m.slots[main].key = k
        THEN [m EXCEPT !.slots[main].key = NoKey, !.count = @ - 1,
                       !.lastfree = IF @ < main THEN main ELSE @]
        ELSE m

\* setnil() leaves the slot's next; the slot may be the next free one.
Freed(m, i) ==
    [m EXCEPT !.slots[i].key = NoKey, !.count = @ - 1,
              !.lastfree = IF @ < i THEN i ELSE @]

\* be_map_remove(): the first of a chain takes the second's place, others are
\* unlinked.  The walk starts at the main slot even if that is empty.
RemovedFrom(m, k) ==
    LET main == MainSlot(m, k)
        second == m.slots[main].next
        prev == FirstAt(From(m, main), {j \in DOMAIN m.slots :
                    m.slots[j].next # 0 /\ m.slots[m.slots[j].next].key = k})
    IN  IF m.slots[main].key = k
        THEN IF second = 0 THEN Freed(m, main)
             ELSE Freed([m EXCEPT !.slots[main] = m.slots[second]], second)
        ELSE IF prev = 0 THEN m
        ELSE LET slot == m.slots[prev].next
             IN  Freed([m EXCEPT !.slots[prev].next = m.slots[slot].next], slot)

\* A call; a loop goes on over the block it began with.
CallMap(m, moved) ==
    /\ mapCalls < MaxMapCalls /\ mapCalls' = mapCalls + 1
    /\ map' = m
    /\ walk' = [walk EXCEPT !.clean = @ /\ ~moved /\ walk.at >= -1,
                            !.dangles = @ \/ (walk.at >= 0 /\ SizeOf(m) # SizeOf(map))]

\* m_setitem(): be_setindex().  m_insert(): be_data_insert(), of a new key only.
SetEntry(k, x) ==
    LET i == FindSlot(map, k)
    IN  /\ IF i # 0 THEN CallMap([map EXCEPT !.slots[i].value = x], FALSE)
           ELSE CallMap(Added(map, k, x), TRUE)
        /\ put' = [put EXCEPT ![k] = x]
InsertEntry(k, x) ==
    /\ FindSlot(map, k) = 0 /\ CallMap(Added(map, k, x), TRUE)
    /\ put' = [put EXCEPT ![k] = x]

\* m_remove()
RemoveEntry(k) ==
    /\ CallMap(RemovedFrom(map, k), put[k] # NoValue)
    /\ put' = [put EXCEPT ![k] = NoValue]

\* be_map_compact(), when a class or module is complete.
Compact ==
    /\ CallMap(ResizedMap(map, IF map.count = 0 THEN 1 ELSE map.count), TRUE)
    /\ put' = put

\* m_iter(), m_keys(), be_map_next(): on to the next slot that is not empty.
StartWalk ==
    /\ walk.at = -1
    /\ walk' = [at |-> 0, seen |-> {}, clean |-> TRUE, dangles |-> FALSE]
    /\ UNCHANGED <<map, put, mapCalls>>

WalkOn ==
    LET left == {i \in walk.at + 1 .. SizeOf(map) : map.slots[i].key # NoKey}
        next == CHOOSE i \in left : \A j \in left : i <= j
    IN  /\ walk.at >= 0 /\ ~walk.dangles
        /\ walk' = IF left = {} THEN [walk EXCEPT !.at = -2]
                   ELSE [walk EXCEPT !.at = next, !.seen = @ \cup {map.slots[next].key}]
        /\ UNCHANGED <<map, put, mapCalls>>

MapNext ==
    \/ \E k \in Keys, x \in MapValues : SetEntry(k, x) \/ InsertEntry(k, x)
    \/ \E k \in Keys : RemoveEntry(k)
    \/ Compact \/ StartWalk \/ WalkOn

MapSpec == MapInit /\ [][MapNext]_mapVars

-----------------------------------------------------------------------------
(* Properties.                                                             *)

\* m_find(), m_item(), m_contains(): under each key there is what was last
\* stored, and nothing after it was removed, through collisions, moves to
\* free slots, removals from the middle of a chain and growth.
FindsWhatWasPut ==
    /\ \A k \in Keys : LET i == FindSlot(map, k)
                       IN  put[k] = IF i = 0 THEN NoValue ELSE map.slots[i].value
    /\ map.count = Cardinality({k \in Keys : put[k] # NoValue})

\* A key that collides always finds a free slot; each key is on the chain of
\* its main slot; a chain has no empty slot in it.
ChainsInOrder ==
    /\ map.count < SizeOf(map) => NextFree(map) # 0
    /\ \A i \in 1 .. SizeOf(map) : map.slots[i].key # NoKey =>
         /\ i \in Range(From(map, MainSlot(map, map.slots[i].key)))
         /\ map.slots[i].next # 0 => map.slots[map.slots[i].next].key # NoKey

\* Every walk ends, even one from an empty slot along the links it still has.
WalksEnd == \A i \in 1 .. SizeOf(map) : Len(From(map, i)) <= SizeOf(map)

\* A loop during which no key comes or goes sees every key.
WalkSeesAll ==
    walk.at = -2 /\ walk.clean => walk.seen = {k \in Keys : put[k] # NoValue}
=============================================================================
