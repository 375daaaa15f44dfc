------------------------------ MODULE BerryHeap ------------------------------
(***************************************************************************)
(* The garbage collector (be_gc.c): mark from the roots, run the           *)
(* destructors of what was not marked, delete it.  Destructors run script  *)
(* code between marking and deleting.  What an object refers to (members,  *)
(* elements, constants, upvalues, class) is one set.                       *)
(***************************************************************************)
EXTENDS Integers, Sequences, FiniteSets, SequencesExt

CONSTANTS Nodes,        \* places for objects: 1 .. n
          MaxStack, MaxSteps, MaxInDestructor      \* bounds on the script

NodesAreNumbered == IsFiniteSet(Nodes) /\ Nodes = 1 .. Cardinality(Nodes)
None == 0

VARIABLES
    type,               \* "free", "plain", or "instance" (with a deinit method)
    refs,
    gcList,             \* vm->gc.list: newest first
    marked,             \* "white", "gray", "dark"
    fixed,              \* be_gc_fix
    gray,               \* vm->gc.gray
    stack, globals,     \* the roots
    halted,             \* GC_HALT
    forced,             \* GC_ALLOC: an allocation failed and collects
    phase,              \* run, marking, destructing, deleting (be_gc_deleteall), gone
    newborn,            \* allocated, not yet in the list
    cursor,             \* the object destruct_white() looks at
    steps, inner,       \* bounded: steps of the script, of this destructor
    destructed,         \* history: deinit was called
    lost,               \* history: what a destructor took hold of
    live                \* history: what could be reached when the collection began

heapVars == <<type, refs, gcList, marked, fixed, gray, stack, globals, halted,
              forced, phase, newborn, cursor, steps, inner, destructed, lost, live>>

Init ==
    /\ type = [n \in Nodes |-> "free"] /\ refs = [n \in Nodes |-> {}]
    /\ gcList = <<>> /\ marked = [n \in Nodes |-> "white"]
    /\ fixed = {} /\ gray = <<>> /\ stack = <<>> /\ globals = {}
    /\ halted = FALSE /\ forced = FALSE /\ phase = "run" /\ newborn = None
    /\ cursor = None /\ steps = 0 /\ inner = 0 /\ destructed = {} /\ lost = {}
    /\ live = {}

Roots == globals \cup fixed \cup Range(stack)

\* Everything that can be reached from a set: the least set that contains it
\* and what its members refer to.
ReachFrom(S) ==
    {o \in Nodes : \A C \in SUBSET Nodes :
        S \subseteq C /\ (\A x \in C : refs[x] \subseteq C) => o \in C}

Reachable == ReachFrom(Roots)
FirstFree(o) == type[o] = "free" /\ \A x \in 1 .. o - 1 : type[x] # "free"
InDestructor == phase \in {"destructing", "deleting"} /\ inner > 0

\* The script goes on: the program itself, or the destructor at the cursor.
\* Once something reachable is gone, or its place is given to an object on its
\* way, what happens is anybody's guess.
Intact == \A o \in Reachable : type[o] # "free" /\ o # newborn
Runs ==
    /\ \/ phase = "run" /\ steps < MaxSteps /\ steps' = steps + 1 /\ inner' = inner
       \/ InDestructor /\ inner <= MaxInDestructor /\ inner' = inner + 1 /\ steps' = steps
    /\ phase = "run" => newborn = None
    /\ Intact
collector == <<gcList, marked, gray, halted, forced, phase, cursor, destructed, live>>

\* A destructor takes hold of something that was found to be garbage.
Holds(S) ==
    lost' = IF InDestructor THEN lost \cup {o \in ReachFrom(S) : marked[o] = "white"}
            ELSE lost

Push(o) ==
    /\ Runs /\ o \in Reachable /\ Len(stack) < MaxStack
    /\ stack' = <<o>> \o stack /\ Holds({})
    /\ UNCHANGED <<collector, type, refs, fixed, globals, newborn>>

\* A destructor leaves its own argument on the stack.
Pop ==
    /\ Runs /\ stack # <<>>
    /\ InDestructor => cursor \in Range(Tail(stack))
    /\ stack' = Tail(stack) /\ Holds({})
    /\ UNCHANGED <<collector, type, refs, fixed, globals, newborn>>

Store(o, x) ==
    /\ Runs /\ {o, x} \subseteq Reachable /\ x \notin refs[o]
    /\ refs' = [refs EXCEPT ![o] = @ \cup {x}] /\ Holds({x})
    /\ UNCHANGED <<collector, type, fixed, stack, globals, newborn>>

Clear(o) ==
    /\ Runs /\ o \in Reachable /\ refs[o] # {}
    /\ refs' = [refs EXCEPT ![o] = {}] /\ Holds({})
    /\ UNCHANGED <<collector, type, fixed, stack, globals, newborn>>

SetGlobal(S) ==
    /\ Runs /\ S \subseteq Reachable /\ S # globals /\ Cardinality(S) <= 1
    /\ globals' = S /\ Holds(S)
    /\ UNCHANGED <<collector, type, refs, fixed, stack, newborn>>

\* be_gc_fix(), be_gc_unfix(), be_gc_fix_set(): the compiler and the loader
\* keep what is on no stack yet.
Fix(o) ==
    /\ Runs /\ phase = "run" /\ o \in Reachable
    /\ fixed' \in {{}, {o}} \ {fixed} /\ lost' = lost
    /\ UNCHANGED <<collector, type, refs, stack, globals, newborn>>

-----------------------------------------------------------------------------
(* Allocation.                                                             *)

\* The end of be_newgcobj(): the object enters the list, white.
Link(o) ==
    /\ gcList' = <<o>> \o gcList /\ stack' = <<o>> \o stack
    /\ marked' = [marked EXCEPT ![o] = "white"]
    /\ lost' = IF InDestructor THEN lost \cup {o} ELSE lost

\* be_newgcobj() of the program: it may collect before the object is linked.
Allocate(o, kind) ==
    /\ Runs /\ phase = "run" /\ FirstFree(o) /\ Len(stack) < MaxStack
    /\ type' = [type EXCEPT ![o] = kind] /\ refs' = [refs EXCEPT ![o] = {}]
    /\ newborn' = o
    /\ UNCHANGED <<gcList, marked, gray, halted, forced, phase, cursor, destructed,
                   live, fixed, stack, globals, lost>>

Born ==
    /\ phase = "run" /\ newborn # None
    /\ Link(newborn) /\ newborn' = None
    /\ UNCHANGED <<type, refs, gray, fixed, globals, halted, forced, phase, cursor,
                   steps, inner, destructed, live>>

\* be_newgcobj() in a destructor: the collector is halted.
NewInDestructor(o, kind) ==
    /\ Runs /\ InDestructor /\ FirstFree(o) /\ Len(stack) < MaxStack
    /\ type' = [type EXCEPT ![o] = kind] /\ refs' = [refs EXCEPT ![o] = {}]
    /\ Link(o)
    /\ UNCHANGED <<gray, halted, forced, phase, cursor, destructed, live, fixed,
                   globals, newborn>>

-----------------------------------------------------------------------------
(* A collection.                                                           *)

\* Mutant: fixed objects are no roots.
Premarked_NotFixed == globals \cup Range(stack)

\* premark_internal() .. premark_fixed().
Premarked == globals \cup Range(stack) \cup (fixed \cap Range(gcList))

\* be_gc_collect() starts, from be_gc_auto() (usage over the threshold, which
\* is any time) or, with GC_ALLOC, from be_realloc(); not while it is halted.
\* Marking an object makes it gray and puts it on the gray list.
Collect(alloc) ==
    /\ phase = "run" /\ ~halted /\ gcList # <<>>
    /\ alloc = (newborn = None)
    /\ Intact
    /\ phase' = "marking" /\ forced' = alloc /\ live' = Reachable
    /\ marked' = [o \in Nodes |-> IF o \in Premarked THEN "gray" ELSE marked[o]]
    /\ gray' = SetToSeq(Premarked)
    /\ UNCHANGED <<type, refs, gcList, fixed, stack, globals, halted, newborn,
                   cursor, steps, inner, destructed, lost>>

\* mark_unscanned(): the head of the gray list turns dark, what it refers to
\* and is white goes onto the list (mark_map .. mark_module).
MarkNext ==
    /\ phase = "marking" /\ gray # <<>>
    /\ LET o == Head(gray)
           new == {x \in refs[o] : marked[x] = "white"} \ {o}
       IN  /\ marked' = [x \in Nodes |-> IF x = o THEN "dark"
                                         ELSE IF x \in new THEN "gray" ELSE marked[x]]
           /\ gray' = SetToSeq(new) \o Tail(gray)
    /\ UNCHANGED <<type, refs, gcList, fixed, stack, globals, halted, forced, phase,
                   newborn, cursor, steps, inner, destructed, lost, live>>

After(o) ==
    LET i == CHOOSE i \in DOMAIN gcList : gcList[i] = o
    IN  IF i = Len(gcList) THEN None ELSE gcList[i + 1]

\* Mutant: the walk leaves out the head of the list.
StartDestructing_SkipsHead ==
    /\ phase = "marking" /\ gray = <<>>
    /\ phase' = "destructing" /\ halted' = TRUE /\ cursor' = After(gcList[1]) /\ inner' = 0
    /\ UNCHANGED <<type, refs, gcList, marked, fixed, gray, stack, globals, forced,
                   newborn, steps, destructed, lost, live>>

\* destruct_white(): with the collector halted, from the head of the list.
StartDestructing ==
    /\ phase = "marking" /\ gray = <<>>
    /\ phase' = "destructing" /\ halted' = TRUE /\ cursor' = gcList[1] /\ inner' = 0
    /\ UNCHANGED <<type, refs, gcList, marked, fixed, gray, stack, globals, forced,
                   newborn, steps, destructed, lost, live>>

\* destruct_object(): none at all during a forced collection.
HasDestructor(o) == type[o] = "instance" /\ ~forced

\* deinit() is called with the object as its argument.
CallDestructor ==
    /\ phase \in {"destructing", "deleting"} /\ cursor # None /\ inner = 0
    /\ phase = "destructing" => marked[cursor] = "white"
    /\ HasDestructor(cursor)
    /\ stack' = <<cursor>> \o stack /\ inner' = 1
    /\ destructed' = destructed \cup {cursor}
    /\ UNCHANGED <<type, refs, gcList, marked, fixed, gray, globals, halted, forced,
                   phase, newborn, cursor, steps, lost, live>>

\* The destructor returns: the stack is as it was.
DestructorReturns ==
    /\ InDestructor
    /\ \E k \in 1 .. Len(stack) :
         /\ stack[k] = cursor /\ \A j \in k + 1 .. Len(stack) : stack[j] # cursor
         /\ stack' = SubSeq(stack, k + 1, Len(stack))
    /\ cursor' = After(cursor) /\ inner' = 0
    /\ UNCHANGED <<type, refs, gcList, marked, fixed, gray, globals, halted, forced,
                   phase, newborn, steps, destructed, lost, live>>

\* Objects that live, or have no destructor.
PassOver ==
    /\ phase \in {"destructing", "deleting"} /\ cursor # None /\ inner = 0
    /\ \/ phase = "destructing" /\ marked[cursor] # "white"
       \/ ~HasDestructor(cursor)
    /\ cursor' = After(cursor)
    /\ UNCHANGED <<type, refs, gcList, marked, fixed, gray, stack, globals, halted,
                   forced, phase, newborn, steps, inner, destructed, lost, live>>

\* An exception leaves the destructor, and with it the collection: the rest
\* is not destructed, nothing is deleted, GC_HALT stays.  An object on its way
\* in be_newgcobj() is never linked.
DestructorThrows ==
    /\ phase = "destructing" /\ inner > 0
    /\ phase' = "run" /\ inner' = 0 /\ cursor' = None /\ stack' = <<>>
    /\ newborn' = None
    /\ type' = IF newborn = None THEN type ELSE [type EXCEPT ![newborn] = "free"]
    /\ UNCHANGED <<refs, gcList, marked, fixed, gray, globals, halted, forced,
                   steps, destructed, lost, live>>

\* The list without some of its objects, in the order it had.
Without(s, S) ==
    LET kept[i \in 0 .. Len(s)] ==
          IF i = 0 THEN <<>>
          ELSE IF s[i] \in S THEN kept[i - 1] ELSE Append(kept[i - 1], s[i])
    IN  kept[Len(s)]

Deleted(S) ==
    /\ type' = [o \in Nodes |-> IF o \in S THEN "free" ELSE type[o]]
    /\ gcList' = Without(gcList, S)
    /\ destructed' = destructed \ S

\* delete_white(): what is white goes, the rest is white for the next time.
DeleteWhite ==
    /\ phase = "destructing" /\ cursor = None
    /\ phase' = "run" /\ halted' = FALSE /\ forced' = FALSE
    /\ Deleted({o \in Range(gcList) : marked[o] = "white"})
    /\ marked' = [o \in Nodes |-> "white"]
    /\ UNCHANGED <<refs, fixed, gray, stack, globals, newborn, cursor, steps, inner,
                   lost, live>>

\* be_gc_deleteall(), when the VM goes: every destructor, then every object.
StartDeleting ==
    /\ phase = "run" /\ newborn = None /\ gcList # <<>>
    /\ Intact
    /\ phase' = "deleting" /\ halted' = TRUE /\ cursor' = gcList[1]
    /\ stack' = <<>>
    /\ UNCHANGED <<type, refs, gcList, marked, fixed, gray, globals, forced, newborn,
                   steps, inner, destructed, lost, live>>

DeleteAll ==
    /\ phase = "deleting" /\ cursor = None
    /\ phase' = "gone" /\ Deleted(Range(gcList))
    /\ UNCHANGED <<refs, marked, fixed, gray, stack, globals, halted, forced, newborn,
                   cursor, steps, inner, lost, live>>

Next ==
    \/ \E o \in Nodes :
         \/ Push(o) \/ Clear(o) \/ Fix(o)
         \/ \E x \in Nodes : Store(o, x)
         \/ \E kind \in {"plain", "instance"} : Allocate(o, kind) \/ NewInDestructor(o, kind)
    \/ Pop \/ \E S \in {{}} \cup {{o} : o \in Nodes} : SetGlobal(S)
    \/ Born \/ \E alloc \in BOOLEAN : Collect(alloc)
    \/ MarkNext \/ StartDestructing \/ CallDestructor \/ DestructorReturns
    \/ PassOver \/ DestructorThrows \/ DeleteWhite \/ StartDeleting \/ DeleteAll

Spec == Init /\ [][Next]_heapVars

-----------------------------------------------------------------------------
(* Properties.                                                             *)

\* Nothing the program can still reach is deleted, cycles and fixed objects
\* included, whatever destructors and failing allocations come between.  (The
\* exception is what a destructor takes hold of: it was found to be garbage
\* before, or made after the marking, and goes with the rest.)
ReachableIsKept ==
    phase # "gone" => \A o \in Reachable : type[o] = "free" => o \in lost

\* The list holds each object that exists once, and between two collections
\* all are white and none waits to be marked, so that the next collection
\* starts from nothing.
HeapInOrder ==
    /\ \A i, j \in DOMAIN gcList : gcList[i] = gcList[j] => i = j
    /\ Range(gcList) = {o \in Nodes : type[o] # "free" /\ o # newborn}
    /\ phase = "run" /\ ~halted =>
         gray = <<>> /\ \A o \in Range(gcList) : marked[o] = "white"

\* While destructors run nothing is deleted: what a destructor sees through
\* its object is there, cycles of garbage included.
DestructorsSeeAll ==
    InDestructor /\ lost = {} => \A o \in ReachFrom({cursor}) : type[o] # "free"

\* A collection deletes what could not be reached when it began, and no
\* instance goes without its destructor unless the collection was forced.
Deletes == phase \in {"destructing", "deleting"} /\ phase' \in {"run", "gone"} /\ cursor = None
CollectsAllGarbage ==
    [][Deletes =>
         /\ \A o \in Nodes : type'[o] # "free" => o \in live \cup {newborn}
         /\ ~forced => \A o \in Nodes \ lost :
              type[o] = "instance" /\ type'[o] = "free" => o \in destructed]_heapVars
=============================================================================
