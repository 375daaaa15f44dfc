----------------------------- MODULE BerryPools -----------------------------
(***************************************************************************)
(* The allocator of the interpreter (be_mem.c): blocks of up to 16 and of  *)
(* up to 32 bytes live in slots of pools, larger ones on the heap of the   *)
(* host, which has an end.  An allocation that fails collects garbage and  *)
(* tries once more.                                                        *)
(***************************************************************************)
EXTENDS Integers, Sequences, FiniteSets, SequencesExt

CONSTANTS Blocks,               \* users of memory, one block each
          Sizes,                \* block sizes
          POOL16_SLOTS, POOL32_SLOTS, PoolHead,
          HeapBytes             \* what the host has

\* A finite memory, and pools that have a slot.
PoolsConstants ==
    /\ IsFiniteSet(Blocks) /\ \A n \in Sizes : n \in Nat
    /\ POOL16_SLOTS \in Nat \ {0} /\ POOL32_SLOTS \in Nat \ {0}

POOL16_SIZE == 16
POOL32_SIZE == 32

VARIABLES
    pool16, pool32,     \* vm->gc.pool16, pool32: [id, bitmap (the free slots)]
    hostSize,           \* sizes of the blocks malloc() gave out directly
    usage,              \* vm->gc.usage
    held,               \* of each user: the place and size of its block, or NoBlock
    garbage             \* users that no root reaches any more

poolVars == <<pool16, pool32, hostSize, usage, held, garbage>>

NoBlock == [at |-> <<>>, size |-> 0]
PoolsInit ==
    /\ pool16 = <<>> /\ pool32 = <<>> /\ hostSize = [b \in Blocks |-> 0] /\ usage = 0
    /\ held = [b \in Blocks |-> NoBlock] /\ garbage = {}

\* The memory an operation works on, before it is stored back.
Memory == [pool16 |-> pool16, pool32 |-> pool32, host |-> hostSize]

Total(f, S) == SumFunctionOnSet(f, S)
HostUsed(m) ==
    Total(m.host, Blocks) + Len(m.pool16) * (PoolHead + POOL16_SLOTS * POOL16_SIZE)
                          + Len(m.pool32) * (PoolHead + POOL32_SLOTS * POOL32_SIZE)

Failed(m) == [memory |-> m, at |-> <<>>]

\* A slot of the first pool that has one, or the first of a new pool, which
\* goes to the head.
FromPool(m, pool, slots) ==
    LET pools == m[pool]
        free == {i \in DOMAIN pools : pools[i].bitmap # {}}
        i == Min(free)
        slot == Min(pools[i].bitmap)
        id == Min((0 .. Len(pools)) \ {pools[k].id : k \in DOMAIN pools})
        new == [m EXCEPT ![pool] = <<[id |-> id, bitmap |-> 1 .. slots - 1]>> \o @]
    IN  IF free # {}
        THEN [memory |-> [m EXCEPT ![pool][i].bitmap = @ \ {slot}],
              at |-> <<pool, pools[i].id, slot>>]
        ELSE IF HostUsed(new) > HeapBytes THEN Failed(m)
        ELSE [memory |-> new, at |-> <<pool, id, 0>>]

\* malloc_from_pool()
MallocFromPool(m, b, size) ==
    IF size = 0 THEN Failed(m)
    ELSE IF size <= POOL16_SIZE THEN FromPool(m, "pool16", POOL16_SLOTS)
    ELSE IF size <= POOL32_SIZE THEN FromPool(m, "pool32", POOL32_SLOTS)
    ELSE LET new == [m EXCEPT !.host[b] = @ + size]
         IN  IF HostUsed(new) > HeapBytes THEN Failed(m)
             ELSE [memory |-> new, at |-> <<"host", b, 0>>]

Class(size) == IF size <= POOL16_SIZE THEN 16 ELSE IF size <= POOL32_SIZE THEN 32 ELSE 64

\* free_from_pool(), of the blocks of some users: the size says where to look,
\* the address which pool.
InClass(users, class) == {b \in users : Class(held[b].size) = class}
GivenBack(pools, users) ==
    [i \in DOMAIN pools |->
       [pools[i] EXCEPT !.bitmap =
          @ \cup {held[b].at[3] : b \in {c \in users : held[c].at[2] = pools[i].id}}]]
FreeFromPool(m, users) ==
    [pool16 |-> GivenBack(m.pool16, InClass(users, 16)),
     pool32 |-> GivenBack(m.pool32, InClass(users, 32)),
     host   |-> [b \in Blocks |-> IF b \in InClass(users, 64) THEN 0 ELSE m.host[b]]]

\* realloc() of a block of the host, which stays the user's.
HostRealloc(m, b, size) ==
    LET new == [m EXCEPT !.host[b] = size]
    IN  IF HostUsed(new) > HeapBytes THEN Failed(m)
        ELSE [memory |-> new, at |-> <<"host", b, 0>>]

\* be_realloc(), one attempt for a size that is not 0: a new block; the slot
\* the block has; or a block elsewhere, and the old one is given back.
Attempt(m, b, old, size) ==
    IF old.size = 0 THEN MallocFromPool(m, b, size)
    ELSE IF Class(size) = Class(old.size)
         THEN IF Class(size) = 64 THEN HostRealloc(m, b, size)
              ELSE [memory |-> m, at |-> old.at]
    ELSE LET new == MallocFromPool(m, b, size)
         IN  IF new.at = <<>> THEN new
             ELSE [new EXCEPT !.memory = FreeFromPool(@, {b})]

\* Mutant: a pool goes although its first slot is taken.
Empty_ButFirst(pool, slots) == pool.bitmap \cup {0} = 0 .. slots - 1

Empty(pool, slots) == pool.bitmap = 0 .. slots - 1

\* Empty pools go, the others stay in their order.
NotEmpty(pools, slots) ==
    LET kept[i \in 0 .. Len(pools)] ==
          IF i = 0 THEN <<>>
          ELSE IF Empty(pools[i], slots) THEN kept[i - 1] ELSE Append(kept[i - 1], pools[i])
    IN  kept[Len(pools)]

\* be_gc_memory_pools()
WithoutEmptyPools(m) ==
    [m EXCEPT !.pool16 = NotEmpty(@, POOL16_SLOTS), !.pool32 = NotEmpty(@, POOL32_SLOTS)]

\* A collection gives the blocks of garbage back, then the empty pools.
Swept(m) == WithoutEmptyPools(FreeFromPool(m, garbage))

SetMemory(m) ==
    /\ pool16' = m.pool16 /\ pool32' = m.pool32 /\ hostSize' = m.host

Counted(freed, change) == (usage - freed) + change

\* be_realloc() to a new size, 0 to free: with a collection if need be, and
\* be_throw(BE_MALLOC_FAIL) if that is not enough.
Realloc(b, size) ==
    LET old == held[b]
        first == Attempt(Memory, b, old, size)
        collects == size > 0 /\ first.at = <<>>
        result == IF collects THEN Attempt(Swept(Memory), b, old, size) ELSE first
        gone == IF collects THEN garbage ELSE {}
        rest == [c \in Blocks |-> IF c \in gone THEN NoBlock ELSE held[c]]
        freed == Total([c \in Blocks |-> held[c].size], gone)
    IN  /\ size # old.size /\ b \notin garbage
        /\ garbage' = garbage \ gone
        /\ IF size = 0
           THEN /\ SetMemory(FreeFromPool(Memory, {b}))
                /\ held' = [rest EXCEPT ![b] = NoBlock]
                /\ usage' = Counted(0, -old.size)
           ELSE /\ SetMemory(result.memory)
                /\ held' = IF result.at = <<>> THEN rest
                           ELSE [rest EXCEPT ![b] = [at |-> result.at, size |-> size]]
                /\ usage' = Counted(freed, IF result.at = <<>> THEN 0 ELSE size - old.size)

\* Nothing refers to a user's block any more.
Drop(b) ==
    /\ b \notin garbage /\ held[b].size > 0
    /\ garbage' = garbage \cup {b}
    /\ UNCHANGED <<pool16, pool32, hostSize, usage, held>>

\* be_gc_collect(), called by be_gc_auto().
CollectGarbage ==
    /\ SetMemory(Swept(Memory))
    /\ usage' = usage - Total([c \in Blocks |-> held[c].size], garbage)
    /\ held' = [c \in Blocks |-> IF c \in garbage THEN NoBlock ELSE held[c]]
    /\ garbage' = {}

PoolsNext ==
    \/ \E b \in Blocks, size \in Sizes : Realloc(b, size)
    \/ \E b \in Blocks : Drop(b)
    \/ CollectGarbage

PoolsSpec == PoolsInit /\ [][PoolsNext]_poolVars

-----------------------------------------------------------------------------
(* Properties.                                                             *)

Users == {b \in Blocks : held[b].size > 0}
UsedSlots(pools, slots) ==
    UNION {{<<pools[i].id, s>> : s \in (0 .. slots - 1) \ pools[i].bitmap} : i \in DOMAIN pools}
HeldIn(name) == {<<held[b].at[2], held[b].at[3]>> : b \in {c \in Users : held[c].at[1] = name}}

\* No two blocks overlap, each lies in a pool that exists and fits, and a slot
\* or a piece of the host's heap is taken exactly while a block is in it:
\* whatever sizes a block goes through and whichever allocation fails.
BlocksApart ==
    /\ \A a, b \in Users : a # b => held[a].at # held[b].at
    /\ UsedSlots(pool16, POOL16_SLOTS) = HeldIn("pool16")
    /\ UsedSlots(pool32, POOL32_SLOTS) = HeldIn("pool32")
    /\ \A b \in Users : held[b].at[1] =
         (CASE Class(held[b].size) = 16 -> "pool16" [] Class(held[b].size) = 32 -> "pool32"
            [] OTHER -> "host")
    /\ \A b \in Blocks : hostSize[b] = IF held[b].at # <<>> /\ held[b].at[1] = "host"
                                       THEN held[b].size ELSE 0

\* The count the collector's threshold is compared with is what is in use,
\* failed allocations and forced collections included.
UsageIsInUse == usage = Total([b \in Blocks |-> held[b].size], Blocks)

=============================================================================
