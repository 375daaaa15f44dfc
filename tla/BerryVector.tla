----------------------------- MODULE BerryVector -----------------------------
(***************************************************************************)
(* The stacks of the interpreter (be_vector.c): callstack, refstack,       *)
(* upvalues and frames grow as they are pushed on, and a protected block   *)
(* brings them back to what they were when an exception ends it.           *)
(***************************************************************************)
EXTENDS BerrySizes, SequencesExt

CONSTANTS Items, MaxStk, MaxBlocks, Zero, Lies       \* Lies: what is in new memory

\* The bounds of the model, within what be_nextsize() can answer.
VectorConstants == MaxStk \in 0 .. LargestSize /\ MaxBlocks \in Nat

VARIABLES
    stk,        \* bvector: its cells, count and the index of end
    saved,      \* what be_except_block_setup() kept
    pushed      \* history: what was pushed and not popped

vectorVars == <<stk, saved, pushed>>

\* be_vector_init()
FreshStack == [cells |-> [i \in 1 .. 2 |-> Zero], count |-> 0, end |-> -1]
VectorInit == stk = FreshStack /\ saved = <<>> /\ pushed = <<>>

Enlarged(v, capacity) ==
    IF capacity > Len(v.cells)
    THEN [v EXCEPT !.cells = @ \o [i \in 1 .. capacity - Len(@) |-> Lies]] ELSE v

\* A push that fits, or that finds memory: be_realloc() leaves the new cells
\* as they are.
StackPush(x) ==
    LET g == IF stk.count >= Len(stk.cells) THEN Enlarged(stk, NextSize(Len(stk.cells))) ELSE stk
    IN  /\ Len(pushed) < MaxStk
        /\ stk' = [cells |-> [g.cells EXCEPT ![stk.count + 1] = x],
                   count |-> stk.count + 1, end |-> stk.count]
        /\ pushed' = Append(pushed, x) /\ UNCHANGED saved

\* be_vector_remove_end(); with be_refpop() the last one out gives the memory
\* back (be_vector_release()).
StackPop(releases) ==
    /\ stk.count > (IF saved = <<>> THEN 0 ELSE Last(saved).count)
    /\ stk' = IF releases /\ stk.count = 1 THEN [cells |-> <<>>, count |-> 0, end |-> -1]
              ELSE [stk EXCEPT !.count = @ - 1, !.end = @ - 1]
    /\ pushed' = Front(pushed) /\ UNCHANGED saved

\* be_except_block_setup() keeps the count; be_except_block_close().
StackTry ==
    /\ Len(saved) < MaxBlocks
    /\ saved' = Append(saved, [count |-> stk.count, was |-> pushed])
    /\ UNCHANGED <<stk, pushed>>

StackClose ==
    /\ saved # <<>> /\ saved' = Front(saved)
    /\ UNCHANGED <<stk, pushed>>

\* Mutant: the end is not moved where the block does not grow.
StackResized_KeepsEnd(v, n) ==
    IF n = v.count THEN v
    ELSE IF NextSize(n) > Len(v.cells) THEN [Enlarged(v, NextSize(n)) EXCEPT !.count = n, !.end = n - 1]
    ELSE [v EXCEPT !.count = n]

\* be_vector_resize()
StackResized(v, n) ==
    IF n = v.count THEN v
    ELSE [Enlarged(v, NextSize(n)) EXCEPT !.count = n, !.end = n - 1]

\* An exception, perhaps from a push that found no memory: be_vector_push()
\* had counted the element already.  be_except_block_resume() resizes.
StackThrow(full) ==
    /\ saved # <<>> /\ (full => stk.count >= Len(stk.cells))
    /\ stk' = StackResized(IF full THEN [stk EXCEPT !.count = @ + 1] ELSE stk,
                           Last(saved).count)
    /\ pushed' = Last(saved).was /\ saved' = Front(saved)

VectorNext ==
    \/ \E x \in Items : StackPush(x)
    \/ StackTry \/ StackClose
    \/ \E b \in BOOLEAN : StackPop(b) \/ StackThrow(b)

VectorSpec == VectorInit /\ [][VectorNext]_vectorVars

-----------------------------------------------------------------------------
\* After any exception, a failed push included, a stack that the block kept
\* holds what it held when the block began, and pushes go after it.
StackAsPushed ==
    /\ stk.count = Len(pushed) /\ stk.count <= Len(stk.cells) /\ stk.end = stk.count - 1
    /\ SubSeq(stk.cells, 1, stk.count) = pushed
=============================================================================
