------------------------------- MODULE BerryVm -------------------------------
(* The Berry interpreter (be_vm.c): one action per group of instructions.     *)
(* The registers of all frames are one stack; a closure reaches a variable of *)
(* an outer function through an upvalue, which points into that stack until   *)
(* CLOSE moves the value out of it.  An exception cuts the call stack   *)
(* back to the frame that set the handler.                                    *)
(*                                                                            *)
(* Values are tuples with their type first: <<"int", 3>>, <<"fun", number of  *)
(* the closure>>, <<"list", place in the heap>>.  Lists, maps and their       *)
(* iterators, and the functions of the host, are modelled by what they return.*)
(* Left out: reals, ranges, strings in operators, operator methods of         *)
(* objects, constructors that are no functions, and the limit on the stack's  *)
(* size; no program of the runs uses them.                                    *)
EXTENDS BerryImage

CONSTANTS StackSize,  \* BE_STACK_START
          FreeMin,    \* BE_STACK_FREE_MIN: what a call finds above its registers
          MaxAnswers  \* after so many answers, the host says "no" to every any()
ASSUME StackAssumption == StackSize \in Nat \ {0} /\ FreeMin \in Nat /\ FreeMin >= 4

VARIABLES image, stack, regs, frames, excs, upvals, closures, globals, heap, classes,
          trace, answers, result,
          unclosed    \* history: a captured variable left its scope without CLOSE

registers == <<stack, regs>>
memory == <<upvals, closures, globals, heap, classes>>
control == <<frames, excs, result, unclosed>>
outside == <<trace, answers>>
vmVars == <<image, registers, control, memory, outside>>

Nil == <<"nil">>
Bool(b) == <<"bool", IF b THEN 1 ELSE 0>>
Natives == <<"list", "map", "__iterator__", "probe", "any">>
NotMethod == <<"not a method">>

-----------------------------------------------------------------------------
(* The frame that runs, its function and operands. *)

\* A function is <<"fun", <<g, i>> >>: the i-th closure made by CLOSURE (g = 1),
\* or the closure of method i of class g - 1.
ClosureOf(v) == closures[v[2][1]][v[2][2]]
Proto == image.protos[ClosureOf(stack[regs.func + 1]).proto]
I == Proto.code[regs.ip + 1]
Running(ops) == result = <<"running">> /\ I.op \in ops

Slot(x) == regs.reg + x + 1              \* register x, in stack
Const(k) == <<k.t, k.v>>
RK(x) == IF IsK(x) THEN Const(Proto.ktab[x - 256 + 1]) ELSE stack[Slot(x)]

Skip(n) == [regs EXCEPT !.ip = @ + 1 + n]

ToRegister(x, v) == stack' = [stack EXCEPT ![Slot(x)] = v] /\ regs' = Skip(0)

\* The upvalues, grouped by the CLOSURE or CLASS instruction that made them:
\* <<g, x>> was made by the g-th of them for register x of its function.  An
\* open one is a place in the stack, a closed one (slot -1) has the value.
Upvalues == UNION {{<<g, x>> : x \in DOMAIN upvals[g]} : g \in DOMAIN upvals}
Upvalue(u) == upvals[u[1]][u[2]]
OpenFrom(slot) == {u \in Upvalues : Upvalue(u).slot >= slot}
Deref(u) == IF Upvalue(u).slot >= 0 THEN stack[Upvalue(u).slot + 1] ELSE Upvalue(u).v

-----------------------------------------------------------------------------
(* Exceptions. *)

\* Mutant: the handler stays set after it has caught.
Handlers_Kept(es) == es

\* The handlers left when the last one has been used.
Handlers(es) == Front(es)

\* be_throw(), then be_except_block_resume() if there is a handler.  The
\* exception and its argument are the two values above the frame's registers.
Throw(e, arg) ==
    LET h == Last(excs)
        base == IF Len(frames) > h.depth THEN frames[h.depth + 1] ELSE regs
        code == image.protos[ClosureOf(stack[base.func + 1]).proto].code
        set == code[h.ip]
    IN IF excs = << >>
       THEN /\ result' = <<"raise", e>>
            /\ UNCHANGED <<registers, frames, excs, unclosed>>
       ELSE /\ stack' = [stack EXCEPT ![base.top + 1] = e, ![base.top + 2] = arg]
            /\ regs' = [base EXCEPT !.ip = h.ip + set.b]
            /\ frames' = SubSeq(frames, 1, h.depth)
            /\ excs' = Handlers(excs)
            /\ unclosed' = (unclosed \/ OpenFrom(base.reg + set.outlive) # {})
            /\ UNCHANGED result

\* An operator a value does not have: an object, a list or a map misses the method.
BadType(v) == IF v[1] \in {"list", "map", "obj"} THEN "attribute_error" ELSE "type_error"

VmError(name) ==
    /\ Throw(<<"str", name>>, <<"str", "message">>)
    /\ UNCHANGED <<image, memory, outside>>

-----------------------------------------------------------------------------
(* Loads and stores. *)

Loads == {"LDNIL", "LDBOOL", "LDINT", "LDCONST", "MOVE", "GETGBL", "GETUPV"}

Loaded ==
    CASE I.op = "LDNIL" -> Nil
      [] I.op = "LDBOOL" -> <<"bool", I.b>>
      [] I.op = "LDINT" -> <<"int", I.b>>
      [] I.op = "LDCONST" -> RK(K(I.b))
      [] I.op = "MOVE" -> RK(I.b)
      [] I.op = "GETGBL" -> globals[I.b + 1]
      [] I.op = "GETUPV" -> Deref(ClosureOf(stack[regs.func + 1]).upvals[I.b + 1])

Load ==
    /\ Running(Loads)
    /\ stack' = [stack EXCEPT ![Slot(I.a)] = Loaded]
    /\ regs' = Skip(IF I.op = "LDBOOL" THEN I.c ELSE 0)
    /\ UNCHANGED <<image, control, memory, outside>>

SetGlobal ==
    /\ Running({"SETGBL"})
    /\ globals' = [globals EXCEPT ![I.b + 1] = stack[Slot(I.a)]]
    /\ regs' = Skip(0)
    /\ UNCHANGED <<image, stack, control, upvals, closures, heap, classes, outside>>

SetUpvalue ==
    LET u == ClosureOf(stack[regs.func + 1]).upvals[I.b + 1]
        v == stack[Slot(I.a)]
        slot == Upvalue(u).slot
    IN /\ Running({"SETUPV"})
       /\ stack' = IF slot >= 0 THEN [stack EXCEPT ![slot + 1] = v] ELSE stack
       /\ upvals' = IF slot >= 0 THEN upvals ELSE [upvals EXCEPT ![u[1]][u[2]].v = v]
       /\ regs' = Skip(0)
       /\ UNCHANGED <<image, control, closures, globals, heap, classes, outside>>

-----------------------------------------------------------------------------
(* Operators and jumps. *)

IsInt(v) == v[1] = "int"

\* Of two integers; division rounds towards zero.
Divide(x, y) ==
    LET q == (IF x < 0 THEN -x ELSE x) \div (IF y < 0 THEN -y ELSE y)
    IN IF (x < 0) = (y < 0) THEN q ELSE -q

Computed(op, x, y) ==
    CASE op = "ADD" -> <<"int", x + y>> [] op = "SUB" -> <<"int", x - y>>
      [] op = "MUL" -> <<"int", x * y>> [] op = "DIV" -> <<"int", Divide(x, y)>>
      [] op = "MOD" -> <<"int", x - y * Divide(x, y)>>
      [] op = "LT" -> Bool(x < y) [] op = "LE" -> Bool(x <= y) [] op = "GT" -> Bool(x > y)
      [] op = "GE" -> Bool(x >= y) [] op = "EQ" -> Bool(x = y) [] op = "NE" -> Bool(x # y)

Operate ==
    LET x == RK(I.b)
        y == RK(I.c)
        ints == IsInt(x) /\ IsInt(y)
        zero == I.op \in {"DIV", "MOD"} /\ ints /\ y[2] = 0
        same == I.op \in {"EQ", "NE"} /\ ~ints
        done(v) == ToRegister(I.a, v) /\ UNCHANGED <<image, control, memory, outside>>
    IN /\ Running(Arithmetic \cup Relations)
       /\ \/ same /\ done(Bool((x = y) = (I.op = "EQ")))
          \/ ints /\ ~zero /\ done(Computed(I.op, x[2], y[2]))
          \/ zero /\ VmError("divzero_error")
          \/ ~ints /\ ~same /\ VmError(IF x[1] = "list" /\ I.op = "ADD" THEN "type_error" ELSE BadType(x))

Negate ==
    LET x == RK(I.b)
        v == IF I.op = "NEG" THEN -x[2] ELSE -x[2] - 1
    IN /\ Running({"NEG", "FLIP"})
       /\ \/ /\ IsInt(x)
             /\ ToRegister(I.a, <<"int", v>>)
             /\ UNCHANGED <<image, control, memory, outside>>
          \/ ~IsInt(x) /\ VmError(BadType(x))

\* An empty list or map is false, any other object true.
Truth(v) ==
    CASE v[1] \in {"int", "bool"} -> v[2] # 0
      [] v[1] = "nil" -> FALSE
      [] v[1] = "str" -> v[2] # ""
      [] v[1] \in {"list", "map"} -> heap[v[2]].items # << >>
      [] OTHER -> TRUE

Jumping ==
    LET taken == \/ I.op = "JMP"
                 \/ I.op = "JMPT" /\ Truth(stack[Slot(I.a)])
                 \/ I.op = "JMPF" /\ ~Truth(stack[Slot(I.a)])
    IN /\ Running({"JMP", "JMPT", "JMPF"})
       /\ regs' = Skip(IF taken THEN I.b ELSE 0)
       /\ unclosed' = (unclosed \/ OpenFrom(regs.reg + I.outlive) # {})
       /\ UNCHANGED <<image, stack, frames, excs, result, memory, outside>>

-----------------------------------------------------------------------------
(* Closures and upvalues. *)

\* The open upvalues for a register of the running frame.
OpenAt(x) == {u \in Upvalues : Upvalue(u).slot = regs.reg + x}

\* The upvalue of a new function for a captured variable: an open one, shared
\* with other functions, or one that is made for it.
Ref(x) == IF OpenAt(x) = {} THEN <<Len(upvals) + 1, x>> ELSE CHOOSE u \in OpenAt(x) : TRUE

Fresh(xs) == [x \in {y \in xs : OpenAt(y) = {}} |-> [slot |-> regs.reg + x, v |-> Nil]]

\* Its upvalues: of registers of the running frame, or of the running function.
Refs(descs) ==
    LET own == ClosureOf(stack[regs.func + 1]).upvals
    IN [d \in DOMAIN descs |-> IF descs[d].instack THEN Ref(descs[d].idx) ELSE own[descs[d].idx + 1]]

MakeClosure ==
    LET proto == Proto.ptab[I.b + 1]
        descs == image.protos[proto].upvals
    IN /\ Running({"CLOSURE"})
       /\ closures' = [closures EXCEPT ![1] = Append(@, [proto |-> proto, upvals |-> Refs(descs)])]
       /\ upvals' = Append(upvals, Fresh(CapturedBy(descs)))
       /\ ToRegister(I.a, <<"fun", <<1, Len(closures[1]) + 1>> >>)
       /\ UNCHANGED <<image, control, globals, heap, classes, outside>>

\* Mutant: the upvalue of the first register of the scope stays open.
Closed_Above(slot) ==
    [g \in DOMAIN upvals |-> [x \in DOMAIN upvals[g] |->
        IF upvals[g][x].slot > slot THEN [slot |-> -1, v |-> Deref(<<g, x>>)] ELSE upvals[g][x]]]

\* The upvalues from a slot on keep their value when the stack goes on.
Closed(slot) ==
    [g \in DOMAIN upvals |-> [x \in DOMAIN upvals[g] |->
        IF upvals[g][x].slot >= slot THEN [slot |-> -1, v |-> Deref(<<g, x>>)] ELSE upvals[g][x]]]

CloseUpvalues ==
    /\ Running({"CLOSE"})
    /\ upvals' = Closed(regs.reg + I.a)
    /\ regs' = Skip(0)
    /\ UNCHANGED <<image, stack, control, closures, globals, heap, classes, outside>>

-----------------------------------------------------------------------------
(* Calls. *)

\* A method found in a class or an object that needs no object of its own: the
\* function is in the next register.
CallAt == IF stack[Slot(I.a)] = NotMethod THEN Slot(I.a) + 1 ELSE Slot(I.a)
CallArgs == IF stack[Slot(I.a)] = NotMethod THEN I.b - 1 ELSE I.b

\* precall(): how much the stack grows, so that FreeMin places are left above the
\* registers of the function at func.
Growth(st, func, nstack) ==
    LET needed == nstack + FreeMin IN IF Len(st) >= func + needed THEN 0 ELSE needed

\* The stack of a call (new places hold garbage, nil here).  Missing arguments are
\* nil, those past the last parameter stay unless the last parameter takes them
\* all as a list.
Entered(st, at, argc, p, list) ==
    [s \in 1..(Len(st) + Growth(st, at - 1, p.nstack)) |->
        IF p.vararg /\ s = at + p.argc THEN list
        ELSE IF s \in (at + argc + 1)..(at + p.argc + 1) \/ s > Len(st) THEN Nil ELSE st[s]]

\* Mutant: the frame ends one register early.
Frame_Short(func, at, p) == [func |-> func - 1, reg |-> at, top |-> at + p.nstack - 1, ip |-> 0]

\* What the function at "at" puts its result into, and its registers.
Frame(func, at, p) == [func |-> func - 1, reg |-> at, top |-> at + p.nstack, ip |-> 0]

\* prep_closure(): a call of the function at "at", given the stack and the heap.
Enter(st, hp, at, func, argc) ==
    LET p == image.protos[ClosureOf(st[at]).proto]
        rest == [k \in 1..(argc - p.argc + 1) |-> st[at + p.argc + k - 1]]
    IN /\ stack' = Entered(st, at, argc, p, <<"list", Len(hp) + 1>>)
       /\ heap' = IF p.vararg THEN Append(hp, [type |-> "list", items |-> rest]) ELSE hp
       /\ frames' = Append(frames, Skip(0))
       /\ regs' = Frame(func, at, p)
       /\ UNCHANGED <<image, excs, result, unclosed, upvals, closures, globals, classes, outside>>

CallClosure ==
    /\ Running({"CALL"})
    /\ stack[CallAt][1] = "fun"
    /\ \E st \in {[stack EXCEPT ![Slot(I.a)] = stack[CallAt]]} : Enter(st, heap, CallAt, Slot(I.a), CallArgs)

HostProbe ==
    /\ Running({"CALL"}) /\ stack[CallAt] = <<"nat", "probe">>
    /\ trace' = Append(trace, stack[CallAt + 1])
    /\ ToRegister(I.a, Nil)
    /\ UNCHANGED <<image, control, memory, answers>>

HostAnswer ==
    /\ Running({"CALL"}) /\ stack[CallAt] = <<"nat", "any">>
    /\ \E b \in BOOLEAN :
          /\ b => Len(answers) < MaxAnswers
          /\ answers' = Append(answers, b)
          /\ ToRegister(I.a, Bool(b))
    /\ UNCHANGED <<image, control, memory, trace>>

NewObject ==
    /\ Running({"CALL"}) /\ stack[CallAt] \in {<<"nat", "list">>, <<"nat", "map">>}
    /\ heap' = Append(heap, [type |-> stack[CallAt][2], items |-> << >>])
    /\ ToRegister(I.a, <<stack[CallAt][2], Len(heap) + 1>>)
    /\ UNCHANGED <<image, control, upvals, closures, globals, classes, outside>>

NewIterator ==
    LET v == stack[CallAt + 1] IN
    /\ Running({"CALL"}) /\ stack[CallAt] = <<"nat", "__iterator__">>
    /\ \/ /\ v[1] = "list"
          /\ heap' = Append(heap, [type |-> "iter", of |-> v, next |-> 0])
          /\ ToRegister(I.a, <<"iter", Len(heap) + 1>>)
          /\ UNCHANGED <<image, control, upvals, closures, globals, classes, outside>>
       \/ v[1] # "list" /\ VmError("type_error")

\* Mutant: an iterator does not move on.
Following_Same(n) == n

Following(n) == n + 1

Iterate ==
    LET i == stack[CallAt][2]
        items == heap[heap[i].of[2]].items
        n == heap[i].next
    IN /\ Running({"CALL"}) /\ stack[CallAt][1] = "iter"
       /\ \/ /\ n < Len(items)
             /\ heap' = [heap EXCEPT ![i].next = Following(n)]
             /\ ToRegister(I.a, items[n + 1])
             /\ UNCHANGED <<image, control, upvals, closures, globals, classes, outside>>
          \/ n = Len(items) /\ VmError("stop_iteration")

CallError ==
    /\ Running({"CALL"}) /\ stack[CallAt][1] \notin {"fun", "nat", "iter", "class"}
    /\ VmError(BadType(stack[CallAt]))

ReturnFromCall ==
    LET v == IF I.a = 0 THEN Nil ELSE RK(I.b)
        caller == Last(frames)
    IN /\ Running({"RET"})
       /\ stack' = [stack EXCEPT ![regs.func + 1] = v]
       /\ IF Len(frames) = 0
          THEN result' = <<"done">> /\ UNCHANGED <<regs, frames>>
          ELSE regs' = caller /\ frames' = Front(frames) /\ UNCHANGED result
       /\ UNCHANGED <<image, excs, unclosed, memory, outside>>

-----------------------------------------------------------------------------
(* Handlers. *)

TryBlock ==
    /\ Running({"EXBLK"})
    /\ excs' = IF I.a = 0 THEN Append(excs, [depth |-> Len(frames), ip |-> regs.ip + 1])
               ELSE SubSeq(excs, 1, Len(excs) - I.b)
    /\ regs' = Skip(0)
    /\ UNCHANGED <<image, stack, frames, result, unclosed, memory, outside>>

\* When it is for this exception, the jump to the next handler is skipped.
CatchException ==
    LET caught == I.b = 0 \/ \E i \in 0..(I.b - 1) : stack[Slot(I.a + i)] = stack[regs.top + 1]
    IN /\ Running({"CATCH"})
       /\ stack' = [s \in DOMAIN stack |-> IF caught /\ s \in Slot(I.a)..(Slot(I.a) + I.c - 1)
                                           THEN stack[regs.top + 1 + s - Slot(I.a)] ELSE stack[s]]
       /\ regs' = Skip(IF caught THEN 1 ELSE 0)
       /\ UNCHANGED <<image, control, memory, outside>>

RaiseException ==
    /\ Running({"RAISE"})
    /\ Throw(IF I.a < 2 THEN RK(I.b) ELSE stack[regs.top + 1],
             CASE I.a = 0 -> Nil [] I.a = 1 -> RK(I.c) [] I.a = 2 -> stack[regs.top + 2])
    /\ UNCHANGED <<image, memory, outside>>

-----------------------------------------------------------------------------
(* Lists and maps. *)

\* The position of an index (a key) in the items of a list (a map); 0: none.
Position(v, k) ==
    LET items == heap[v[2]].items
        n == IF k[2] < 0 THEN k[2] + Len(items) ELSE k[2]
    IN CASE v[1] = "list" -> IF IsInt(k) /\ n \in 0..(Len(items) - 1) THEN n + 1 ELSE 0
         [] v[1] = "map" -> Max({0} \cup {i \in DOMAIN items : items[i][1] = k})
         [] OTHER -> 0

IndexError(v) == VmError(CASE v[1] = "list" -> "index_error" [] v[1] = "map" -> "key_error"
                           [] OTHER -> BadType(v))

GetIndex ==
    LET v == RK(I.b)
        sized == v[1] \in {"list", "map"}
        at == Position(v, RK(I.c))
        item == heap[v[2]].items[at]
    IN /\ Running({"GETIDX"})
       /\ \/ /\ sized /\ at > 0
             /\ ToRegister(I.a, IF v[1] = "map" THEN item[2] ELSE item)
             /\ UNCHANGED <<image, control, memory, outside>>
          \/ (~sized \/ at = 0) /\ IndexError(v)

SetIndex ==
    LET v == stack[Slot(I.a)]
        k == RK(I.b)
        at == Position(v, k)
        item == IF v[1] = "map" THEN <<k, RK(I.c)>> ELSE RK(I.c)
        ok == v[1] = "map" \/ (v[1] = "list" /\ at > 0)
    IN /\ Running({"SETIDX"})
       /\ \/ /\ ok
             /\ heap' = [heap EXCEPT ![v[2]].items = IF at = 0 THEN Append(@, item)
                                                     ELSE [@ EXCEPT ![at] = item]]
             /\ regs' = Skip(0)
             /\ UNCHANGED <<image, stack, control, upvals, closures, globals, classes, outside>>
          \/ ~ok /\ IndexError(v)

\* "list .. value" adds to the list itself.
Connect ==
    LET v == RK(I.b) IN
    /\ Running({"CONNECT"})
    /\ \/ /\ v[1] = "list"
          /\ heap' = [heap EXCEPT ![v[2]].items = Append(@, RK(I.c))]
          /\ ToRegister(I.a, v)
          /\ UNCHANGED <<image, control, upvals, closures, globals, classes, outside>>
       \/ v[1] # "list" /\ VmError(BadType(v))

-----------------------------------------------------------------------------
(* Classes.  A class and the closures of its methods are made by the         *)
(* compiler; the class statement gives the closures their upvalues.  An      *)
(* object is a chain of instances, one for each class it inherits from.      *)

\* kind: "var" (v: its number), "method", or "static".
Attr(im, c, name) ==
    LET class == im.classes[c]
        ms == {m \in DOMAIN class.methods : class.methods[m].name = name}
        m == CHOOSE k \in ms : TRUE
        var == {i \in DOMAIN class.vars : class.vars[i] = name}
    IN CASE var # {} -> [kind |-> "var", v |-> CHOOSE i \in var : TRUE]
         [] var = {} /\ ms # {} -> [kind |-> IF class.methods[m].static THEN "static" ELSE "method",
                                    v |-> <<"fun", <<c + 1, m>> >>]
         [] OTHER -> [kind |-> "static", v |-> Nil]

HasAttr(c, name) == name \in DOMAIN classes[c].attrs

\* A class and the classes it inherits from, from 0 on; 0: no class any more.
Above(c) ==
    LET w[n \in 0..Len(classes)] ==
            IF n = 0 THEN c ELSE IF w[n - 1] = 0 THEN 0 ELSE classes[w[n - 1]].super
    IN w

Levels(c) == {n \in 0..Len(classes) : Above(c)[n] # 0}

\* The class that has the attribute, the nearest above; 0: none.
ClassWith(c, name) ==
    LET found == {n \in Levels(c) : HasAttr(Above(c)[n], name)}
    IN IF found = {} THEN 0 ELSE Above(c)[Min(found)]

\* The levels of an object whose class has the attribute.
LevelsWith(o, name) == {n \in DOMAIN heap[o].parts : HasAttr(heap[o].parts[n].class, name)}

\* [kind, v] of a member of an object or a class; kind "none" if there is none.
Member(v, k) ==
    LET found == LevelsWith(v[2], k[2])
        part == heap[v[2]].parts[Min(found)]
        a == classes[part.class].attrs[k[2]]
        c == ClassWith(v[2], k[2])
        none == [kind |-> "none", v |-> Nil]
    IN CASE v[1] = "obj" ->
              IF found = {} THEN none
              ELSE IF a.kind = "var" THEN [kind |-> "var", v |-> part.vals[a.v]] ELSE a
         [] v[1] = "class" ->
              IF c = 0 \/ classes[c].attrs[k[2]].kind = "var" THEN none
              ELSE classes[c].attrs[k[2]]
         [] OTHER -> none

\* be_class_upvalue_init()
InitClass ==
    LET c == ClassMade(Proto, I)
        descs(m) == image.protos[image.classes[c].methods[m].proto].upvals
    IN /\ Running({"CLASS"})
       /\ upvals' = Append(upvals, Fresh(CapturedByMethods(image, c)))
       /\ closures' = [closures EXCEPT ![c + 1] =
                          [m \in DOMAIN @ |-> [@[m] EXCEPT !.upvals = Refs(descs(m))]]]
       /\ regs' = Skip(0)
       /\ UNCHANGED <<image, stack, control, globals, heap, classes, outside>>

SetSuperClass ==
    LET class == stack[Slot(I.a)]
        super == RK(I.b)
        ok == class[1] = "class" /\ super[1] = "class"
    IN
    /\ Running({"SETSUPER"})
    /\ \/ /\ ok
          /\ classes' = [classes EXCEPT ![class[2]].super = super[2]]
          /\ regs' = Skip(0)
          /\ UNCHANGED <<image, stack, control, upvals, closures, globals, heap, outside>>
       \/ ~ok /\ VmError("type_error")

GetMember ==
    LET m == Member(RK(I.b), RK(I.c)) IN
    /\ Running({"GETMBR"})
    /\ \/ /\ m.kind # "none"
          /\ ToRegister(I.a, m.v)
          /\ UNCHANGED <<image, control, memory, outside>>
       \/ m.kind = "none" /\ VmError("attribute_error")

\* A method of an object comes with the object.
GetMethodOf ==
    LET v == RK(I.b)
        m == Member(v, RK(I.c))
        bad == m.kind = "none" \/ (v[1] = "obj" /\ m.v[1] \notin {"fun", "nat", "iter", "class"})
        pair == IF v[1] = "obj" /\ m.kind = "method" THEN <<m.v, v>>
                ELSE <<NotMethod, m.v>>
    IN /\ Running({"GETMET"})
       /\ \/ /\ ~bad
             /\ stack' = [stack EXCEPT ![Slot(I.a)] = pair[1], ![Slot(I.a) + 1] = pair[2]]
             /\ regs' = Skip(0)
             /\ UNCHANGED <<image, control, memory, outside>>
          \/ bad /\ VmError("attribute_error")

SetMember ==
    LET v == stack[Slot(I.a)]
        name == RK(I.b)[2]
        found == IF v[1] = "obj" THEN LevelsWith(v[2], name) ELSE {}
        n == Min(found)
        attr == classes[heap[v[2]].parts[n].class].attrs[name]
        c == IF v[1] = "class" THEN ClassWith(v[2], name) ELSE 0
        var == found # {} /\ attr.kind = "var"
        static == c > 0 /\ classes[c].attrs[name].kind # "var"
    IN /\ Running({"SETMBR"})
       /\ \/ /\ var
             /\ heap' = [heap EXCEPT ![v[2]].parts[n].vals[attr.v] = RK(I.c)]
             /\ regs' = Skip(0)
             /\ UNCHANGED <<image, stack, control, upvals, closures, globals, classes, outside>>
          \/ /\ static
             /\ classes' = [classes EXCEPT ![c].attrs[name] = [kind |-> "static", v |-> RK(I.c)]]
             /\ regs' = Skip(0)
             /\ UNCHANGED <<image, stack, control, upvals, closures, globals, heap, outside>>
          \/ ~var /\ ~static /\ VmError("attribute_error")

\* An object: the chain of its instances, from its own class up, as one record,
\* all variables nil.
Object(c) ==
    [type |-> "obj",
     parts |-> [n \in Levels(c) |->
                   [class |-> Above(c)[n],
                    vals |-> [k \in DOMAIN image.classes[Above(c)[n]].vars |-> Nil]]]]

\* The object replaces the class; its constructor, if it has one, is called
\* from the next register, and what it returns is dropped.
CallClass ==
    LET at == CallAt
        argc == CallArgs
        c == stack[at][2]
        hp == Append(heap, Object(c))
        object == <<"obj", Len(heap) + 1>>
        owner == ClassWith(c, "init")
        init == classes[owner].attrs["init"]
        made == [stack EXCEPT ![Slot(I.a)] = object, ![at] = object]
        called == [s \in DOMAIN stack |-> IF s \in (at + 2)..(at + 2 + argc) THEN made[s - 2]
                                          ELSE IF s = at + 1 THEN init.v ELSE made[s]]
        has == owner # 0 /\ init.kind # "var"
    IN /\ Running({"CALL"}) /\ stack[at][1] = "class"
       /\ \/ has /\ init.v[1] = "fun" /\ \E st \in {called} : Enter(st, hp, at + 1, at + 1, argc + 1)
          \/ /\ ~has
             /\ heap' = hp
             /\ stack' = made
             /\ regs' = Skip(0)
             /\ UNCHANGED <<image, control, upvals, closures, globals, classes, outside>>

-----------------------------------------------------------------------------
(* A machine with nothing to run yet, and be_pcall() of a compiled program.  *)

VmInit ==
    /\ result = <<"idle">> /\ unclosed = FALSE
    /\ image = << >> /\ stack = << >> /\ regs = << >>
    /\ frames = << >> /\ excs = << >> /\ upvals = << >> /\ closures = << >> /\ globals = << >>
    /\ heap = << >> /\ classes = << >> /\ trace = << >> /\ answers = << >>

LoadProgram(im) ==
    /\ result = <<"idle">>
    /\ result' = <<"running">>
    /\ image' = im
    /\ LET main == Last(im.protos)
           fun == [s \in 1..StackSize |-> IF s = 1 THEN <<"fun", <<1, 1>> >> ELSE Nil]
       IN /\ stack' = Entered(fun, 1, 0, main, Nil)
          /\ regs' = Frame(1, 1, main)
    /\ closures' = [g \in 1..(Len(im.classes) + 1) |->
                       IF g = 1 THEN << [proto |-> Len(im.protos), upvals |-> << >>] >>
                       ELSE [m \in DOMAIN im.classes[g - 1].methods |->
                                [proto |-> im.classes[g - 1].methods[m].proto, upvals |-> << >>]]]
    /\ globals' = [g \in 1..im.globals |-> IF g <= Len(Natives) THEN <<"nat", Natives[g]>> ELSE Nil]
    /\ classes' = [c \in DOMAIN im.classes |->
                      [super |-> 0, attrs |-> [name \in Attributes(im.classes[c]) |-> Attr(im, c, name)]]]
    /\ UNCHANGED <<frames, excs, upvals, heap, unclosed, outside>>

VmNext ==
    \/ Load \/ SetGlobal \/ SetUpvalue \/ Operate \/ Negate \/ Jumping
    \/ MakeClosure \/ CloseUpvalues
    \/ CallClosure \/ CallClass \/ HostProbe \/ HostAnswer \/ NewObject \/ NewIterator \/ Iterate \/ CallError
    \/ ReturnFromCall \/ TryBlock \/ CatchException \/ RaiseException
    \/ GetIndex \/ SetIndex \/ Connect
    \/ InitClass \/ SetSuperClass \/ GetMember \/ GetMethodOf \/ SetMember

=============================================================================
