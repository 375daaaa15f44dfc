------------------------------ MODULE BerryCode ------------------------------
(* The code generator of the Berry compiler (be_code.c).  The parser calls  *)
(* it while it reads the program: there is no syntax tree, only the         *)
(* description e of the expression just read (bexpdesc), the instructions   *)
(* already emitted and the first free register.                             *)
(*                                                                          *)
(* A parser state p is a record; the fields used here are                   *)
(*   f       the function being compiled (bfuncinfo)                        *)
(*   e, r    the expression and the integer the last operator returned      *)
(*   harmed  history, which no decision of the compiler reads: "fused", an  *)
(*           instruction that assigned to a local variable was redirected   *)
(*           by CodeMove; "dropped", the truth value of an and/or was put   *)
(*           into a register that the operator behind it does not read      *)
(* Registers and instruction addresses count from 0, as in the code.        *)
EXTENDS BerryImage

NoJump == -1
MaxSearch == 50                          \* BE_CONST_SEARCH_SIZE
SmallInts == 0..3                        \* integers kept in the constant table

Opcode == [op \in {"+", "-", "*", "/", "%", "<", "<=", "==", "!=", ">", ">=", "&", "|", "^",
                   "<<", ">>", ".."} |->
    CASE op = "+" -> "ADD" [] op = "-" -> "SUB" [] op = "*" -> "MUL" [] op = "/" -> "DIV"
      [] op = "%" -> "MOD" [] op = "<" -> "LT" [] op = "<=" -> "LE" [] op = "==" -> "EQ"
      [] op = "!=" -> "NE" [] op = ">" -> "GT" [] op = ">=" -> "GE" [] op = "&" -> "AND"
      [] op = "|" -> "OR" [] op = "^" -> "XOR" [] op = "<<" -> "SHL" [] op = ">>" -> "SHR"
      [] op = ".." -> "CONNECT"]

BinaryOps == {Opcode[op] : op \in DOMAIN Opcode}
Computing == BinaryOps \cup {"NEG", "FLIP", "LDNIL"}

Ins(op, a, b, c) == [op |-> op, a |-> a, b |-> b, c |-> c, outlive |-> NoScope]

\* t and f are the chains of jumps that leave the expression when it is true
\* and when it is false; cond says that there may be some, neg that the value
\* in the register is the negation.
Exp(type, v) == [type |-> type, v |-> v, obj |-> 0, key |-> 0, tt |-> "void",
                 t |-> NoJump, f |-> NoJump, neg |-> FALSE, cond |-> FALSE]

HasJump(e) == e.t # e.f \/ e.cond

PC(p) == Len(p.f.code)
NLocal(p) == Len(p.f.local)
Block(p) == Last(p.f.blocks)

-----------------------------------------------------------------------------
(* Instructions and registers. *)

Emit(p, op, a, b, c) ==
    [p EXCEPT !.f.code = Append(@, Ins(op, a, b, c)), !.r = PC(p)]

Alloc(p, n) ==
    [p EXCEPT !.f.freereg = @ + n, !.f.nstack = Max({@, p.f.freereg + n}), !.r = p.f.freereg]

Free(p, n) == [p EXCEPT !.f.freereg = @ - n]

FreeExp(p, e) ==
    IF e.type = "reg" /\ e.v = p.f.freereg - 1 THEN Free(p, 1) ELSE p

\* No jump lands behind the last instruction.
Fusible(p) == PC(p) > Block(p).lastjmp

\* r = 1: no instruction was needed, the last one now writes a (or did).
CodeMove(p, a, b) ==
    LET last == Last(p.f.code)
        fused == /\ Fusible(p) /\ last.op \in Computing /\ b = last.a
                 /\ a = last.b \/ (last.op \in BinaryOps /\ a = last.c)
    IN CASE fused ->
              [p EXCEPT !.f.code[PC(p)].a = a, !.r = 1,
                        !.harmed = @ \cup IF b < NLocal(p) THEN {"fused"} ELSE {}]
         [] ~fused /\ Fusible(p) /\ ~IsK(b) /\ last = Ins("MOVE", a, b, 0) -> [p EXCEPT !.r = 1]
         [] OTHER -> [Emit(p, IF IsK(b) THEN "LDCONST" ELSE "MOVE", a,
                           IF IsK(b) THEN b - 256 ELSE b, 0) EXCEPT !.r = 0]

-----------------------------------------------------------------------------
(* Jumps whose destination is not known yet form a chain through their own  *)
(* offsets.                                                                 *)

GetJump(code, pc) ==
    IF code[pc + 1].b = NoJump THEN NoJump ELSE pc + 1 + code[pc + 1].b

SetJump(code, pc, dst) == [code EXCEPT ![pc + 1].b = dst - (pc + 1)]

RECURSIVE PatchChain(_, _, _, _), ChainEnd(_, _)

PatchChain(code, list, v, d) ==
    IF list = NoJump THEN code
    ELSE PatchChain(SetJump(code, list,
                            IF code[list + 1].op \in {"JMPT", "JMPF"} THEN d ELSE v),
                    GetJump(code, list), v, d)

ChainEnd(code, l) ==
    IF GetJump(code, l) = NoJump THEN l ELSE ChainEnd(code, GetJump(code, l))

Patch(p, list, v, d) ==
    [p EXCEPT !.f.code = PatchChain(@, list, v, d),
              !.f.blocks[Len(p.f.blocks)].lastjmp = Max({@, v, d})]

PatchHere(p, list) == Patch(p, list, PC(p), PC(p))

\* r = the head of the chain.
ConJump(p, list, jmp) ==
    CASE jmp = NoJump -> [p EXCEPT !.r = list]
      [] jmp # NoJump /\ list = NoJump -> [p EXCEPT !.r = jmp]
      [] OTHER -> [p EXCEPT !.f.code = SetJump(@, ChainEnd(@, list), jmp), !.r = list]

Jump(p) == Emit(p, "JMP", 0, NoJump, 0)

JumpTo(p, dst) == LET j == Jump(p) IN Patch(j, j.r, dst, dst)

-----------------------------------------------------------------------------
(* Expressions to registers.  Each operator returns the state with e and    *)
(* the register (or constant) r that holds the value.                       *)

NewConst(p, k) == [p EXCEPT !.f.kvec = Append(@, k), !.r = Len(p.f.kvec)]

FindConst(p, e) ==
    {i \in 1..Min({Len(p.f.kvec), MaxSearch}) : p.f.kvec[i].t = e.type /\ p.f.kvec[i].v = e.v}

Exp2Const(p, e) ==
    LET found == FindConst(p, e)
        q == IF found # {} THEN [p EXCEPT !.r = Min(found) - 1]
             ELSE NewConst(p, [t |-> e.type, v |-> e.v])
        a == Alloc(q, 1)
    IN IF q.r < 256
       THEN [q EXCEPT !.e = [e EXCEPT !.type = "const", !.v = K(q.r)], !.r = K(q.r)]
       ELSE [Emit(a, "LDCONST", a.r, q.r, 0) EXCEPT !.e = [e EXCEPT !.type = "reg", !.v = a.r],
                                                    !.r = a.r]

FreeSuffix(p, e) ==
    LET q == IF ~IsK(e.key) /\ e.key >= NLocal(p) THEN Free(p, 1) ELSE p
    IN IF e.tt = "reg" /\ e.obj >= NLocal(p) /\ e.obj + 1 >= q.f.freereg THEN Free(q, 1) ELSE q

\* The destination of obj[key]: a temporary of its own operands, if any.
SuffixDest(p, e, dst, keep) ==
    LET temps == {x \in {e.obj} : e.tt = "reg"} \cup
                 {x \in {e.key} : ~IsK(x) /\ x >= NLocal(p)}
        cand  == IF keep \/ temps = {} THEN dst ELSE Min(temps)
        q     == IF ~keep /\ Cardinality(temps) = 2 THEN Free(p, p.f.freereg - cand) ELSE p
    IN [q EXCEPT !.r = IF dst >= q.f.freereg THEN cand ELSE dst]

CodeSuffix(p, op, e, dst, keep) ==
    LET q == SuffixDest(p, e, dst, keep)
        d == Min({q.r, q.f.freereg})
    IN [Emit(q, op, d, e.obj, e.key) EXCEPT !.r = d]

ConstInt(p, i) == i > 131071 \/ (i \in SmallInts /\ Len(p.f.kvec) < 256)

\* dst < 0: any register; a jump of e is not resolved.
Var2Reg(p, e, dst) ==
    LET d == IF dst < 0 THEN p.f.freereg ELSE dst
        In(q, x) == [IF x = q.f.freereg THEN Alloc(q, 1) ELSE q
                     EXCEPT !.e = [e EXCEPT !.type = "reg", !.v = x], !.r = x]
        Suffix(op) == LET q == CodeSuffix(p, op, e, d, dst >= 0) IN In(q, q.r)
    IN CASE e.type = "int" -> IF ConstInt(p, e.v) THEN Exp2Const(p, e)
                              ELSE In(Emit(p, "LDINT", d, e.v, 0), d)
         [] e.type = "str"    -> Exp2Const(p, e)
         [] e.type = "bool"   -> In(Emit(p, "LDBOOL", d, e.v, 0), d)
         [] e.type = "nil"    -> In(Emit(p, "LDNIL", d, 0, 0), d)
         [] e.type = "proto"  -> In(Emit(p, "CLOSURE", d, e.v, 0), d)
         [] e.type = "global" -> In(Emit(p, "GETGBL", d, e.v, 0), d)
         [] e.type = "upval"  -> In(Emit(p, "GETUPV", d, e.v, 0), d)
         [] e.type = "member" -> Suffix("GETMBR")
         [] e.type = "index"  -> Suffix("GETIDX")
         [] e.type \in {"local", "reg", "const"} -> [p EXCEPT !.e = e, !.r = e.v]
         [] OTHER -> [p EXCEPT !.e = e, !.r = d]

JumpBoolOp(e, b) == IF b # e.neg THEN "JMPT" ELSE "JMPF"

\* A conditional jump on e; r = its address.
AppendJump(p, op, e) ==
    LET q == Var2Reg(p, e, -1)
        a == Alloc(q, 1)
        m == [CodeMove(a, a.r, q.e.v) EXCEPT !.e = [q.e EXCEPT !.type = "reg", !.v = a.r],
                                             !.r = a.r]
        n == IF IsK(q.r) THEN m ELSE q
    IN Emit(n, op, n.r, NoJump, 0)

JumpBool(p, e, sense) ==
    LET j == AppendJump(p, JumpBoolOp(e, sense), e)
        c == ConJump(j, IF sense THEN j.e.t ELSE j.e.f, j.r)
        q == FreeExp(PatchHere(c, IF sense THEN j.e.f ELSE j.e.t), j.e)
    IN [q EXCEPT !.e = [j.e EXCEPT !.t = IF sense THEN c.r ELSE NoJump,
                                   !.f = IF sense THEN NoJump ELSE c.r,
                                   !.neg = FALSE, !.cond = FALSE]]

\* e as a value in a register: its jumps now load false or true.
Exp2Reg(p, e, dst) ==
    LET v == Var2Reg(p, e, dst)
        j == AppendJump(v, JumpBoolOp(v.e, TRUE), v.e)
        w == CASE j.e.type = "reg" -> [j EXCEPT !.r = j.e.v]
               [] j.e.type # "reg" /\ dst < 0 -> Alloc(j, 1)
               [] OTHER -> [j EXCEPT !.r = dst]
        c == ConJump(w, w.e.t, j.r)
        no  == Emit(c, "LDBOOL", w.r, 0, 1)
        yes == Emit(no, "LDBOOL", w.r, 1, 0)
        x == Patch(Patch(yes, w.e.f, PC(yes), no.r), c.r, PC(yes), yes.r)
    IN IF ~HasJump(v.e) THEN v
       ELSE [x EXCEPT !.e = [w.e EXCEPT !.t = NoJump, !.f = NoJump, !.neg = FALSE, !.cond = FALSE],
                      !.r = w.r]

AnyReg(p, e) == Exp2Reg(p, e, -1)

\* e in the register at the top of the stack.
NextReg(p, e) ==
    LET q == AnyReg(p, e)
        dst == q.f.freereg
        m == Alloc(CodeMove(q, dst, q.r), 1)
    IN IF q.e.type # "reg" \/ q.r < dst - 1 THEN [m EXCEPT !.r = dst] ELSE q

-----------------------------------------------------------------------------
(* Operators. *)

\* The register of a binary operator's result.
DestReg(p, e1, e2, dst0) ==
    LET dst == IF dst0 < 0 THEN p.f.freereg ELSE dst0
        own == {x.v : x \in {y \in {e1, e2} : y.type = "reg"}}
        both == e1.type = "reg" /\ e2.type = "reg"
        q == IF both THEN Free(p, 1) ELSE p
    IN CASE own # {} -> [q EXCEPT !.r = IF dst >= q.f.freereg THEN Min(own) ELSE dst]
         [] own = {} /\ dst >= p.f.freereg -> Alloc(p, 1)
         [] OTHER -> [p EXCEPT !.r = dst]

BinaryExp(p, op, e1, e2, dst) ==
    LET x == Exp2Reg(p, e1, dst)
        y == AnyReg(x, e2)
        d == DestReg(y, x.e, y.e, dst)
    IN [Emit(d, op, d.r, x.r, y.r) EXCEPT !.e = [x.e EXCEPT !.type = "reg", !.v = d.r], !.r = d.r]

\* The first operand is read, and put into a register, before the second.
PreBinop(p, op, e) ==
    LET q == AnyReg(p, e)
        dropped == q.e.type # "reg" /\ q.r # q.e.v /\ HasJump(e)
    IN CASE op = "&&" -> JumpBool(p, e, FALSE)
         [] op = "||" -> JumpBool(p, e, TRUE)
         [] OTHER -> [q EXCEPT !.harmed = @ \cup IF dropped THEN {"dropped"} ELSE {}]

\* The second operand of && inherits the jumps the first one takes when false.
Binop(p, op, e1, e2, dst) ==
    LET q == Var2Reg(p, e2, -1)
        c == ConJump(q, IF op = "&&" THEN q.e.f ELSE q.e.t, IF op = "&&" THEN e1.f ELSE e1.t)
    IN CASE op = "&&" -> [c EXCEPT !.e = [q.e EXCEPT !.f = c.r]]
         [] op = "||" -> [c EXCEPT !.e = [q.e EXCEPT !.t = c.r]]
         [] OTHER -> BinaryExp(p, Opcode[op], e1, e2, dst)

UnaryExp(p, op, e) ==
    LET q == AnyReg(p, e)
        d == IF q.e.type = "reg" THEN [q EXCEPT !.r = q.e.v] ELSE Alloc(q, 1)
        x == IF op = "MOVE" /\ q.r = d.r THEN d ELSE Emit(d, op, d.r, q.r, 0)
    IN [x EXCEPT !.e = [q.e EXCEPT !.type = "reg", !.v = d.r]]

CodeNot(p, e) ==
    LET b(x) == [p EXCEPT !.e = [e EXCEPT !.type = "bool", !.v = x]]
        q == UnaryExp(p, "MOVE", e)
    IN CASE e.type \in {"int", "bool"} -> b(IF e.v = 0 THEN 1 ELSE 0)
         [] e.type = "nil" -> b(1)
         [] e.type = "str" -> b(0)
         [] OTHER -> [q EXCEPT !.e.t = q.e.f, !.e.f = q.e.t,
                               !.e.neg = ~q.e.neg, !.e.cond = TRUE]

\* r = 1: a literal of a type without a negative.
CodeNeg(p, e) ==
    CASE e.type = "int" -> [p EXCEPT !.e = [e EXCEPT !.v = -@], !.r = 0]
      [] e.type \in {"nil", "bool", "str"} -> [p EXCEPT !.e = e, !.r = 1]
      [] OTHER -> [UnaryExp(p, "NEG", e) EXCEPT !.r = 0]

CodeFlip(p, e) ==
    CASE e.type = "int" -> [p EXCEPT !.e = [e EXCEPT !.v = -@ - 1], !.r = 0]
      [] e.type \in {"nil", "bool", "str"} -> [p EXCEPT !.e = e, !.r = 2]
      [] OTHER -> [UnaryExp(p, "FLIP", e) EXCEPT !.r = 0]

Unop(p, op, e) ==
    CASE op = "!" -> [CodeNot(p, e) EXCEPT !.r = 0]
      [] op = "-" -> CodeNeg(p, e)
      [] op = "~" -> CodeFlip(p, e)

-----------------------------------------------------------------------------
(* Assignments. *)

\* A constant goes through the first free register, which stays free.
InRegister(p, x) ==
    IF IsK(x) THEN [CodeMove(p, p.f.freereg, x) EXCEPT !.r = p.f.freereg]
    ELSE [p EXCEPT !.r = x]

SetGlobalOrUpval(p, op, e, src) ==
    LET q == InRegister(p, src) IN Emit(q, op, q.r, e.v, 0)

SetSuffix(p, op, e, src) ==
    LET q == InRegister(FreeSuffix(p, e), e.obj) IN Emit(q, op, q.r, e.key, src)

SetLocal(p, e1, e2, src) ==
    LET q == CodeMove(p, e1.v, src)
    IN IF e1.v = src THEN [p EXCEPT !.e = e1, !.r = 0]
       ELSE IF q.r = 1 THEN [FreeExp(q, e2) EXCEPT !.e = e1, !.r = 0]
       ELSE [q EXCEPT !.e = e2, !.r = 0]

\* After "x.m := value" the value moves to the register of the object.
KeepValue(p, e1, e2, src, keep) ==
    LET m == FreeExp(CodeMove(p, e1.obj, src), e2)
    IN IF keep /\ e2.type = "reg" /\ e1.obj >= NLocal(p)
       THEN [m EXCEPT !.e = [e2 EXCEPT !.v = e1.obj], !.r = 0] ELSE [p EXCEPT !.e = e2, !.r = 0]

\* e1 = e2; r = 1: e1 cannot be assigned.  keep: e2 stays in its register.
SetVar(p, e1, e2, keep) ==
    LET top == p.f.freereg - 1
        freeSuffix == /\ e2.type \in {"index", "member"}
                      /\ (e2.key # e1.v /\ e2.key = top) \/ (e2.obj # e1.v /\ e2.obj = top)
        q == Exp2Reg(p, e2, IF e1.type = "local" THEN e1.v ELSE -1)
        w == IF ~keep /\ (e1.type # "local" \/ e1.v # q.r) THEN FreeExp(q, q.e)
             ELSE IF ~keep /\ freeSuffix /\ q.f.freereg > NLocal(q) THEN Free(q, 1)
             ELSE q
        done(x) == [x EXCEPT !.e = q.e, !.r = 0]
    IN CASE e1.type = "local"  -> SetLocal(w, e1, q.e, q.r)
         [] e1.type = "global" -> done(SetGlobalOrUpval(w, "SETGBL", e1, q.r))
         [] e1.type = "upval"  -> done(SetGlobalOrUpval(w, "SETUPV", e1, q.r))
         [] e1.type = "member" -> KeepValue(SetSuffix(w, "SETMBR", e1, q.r), e1, q.e, q.r, keep)
         [] e1.type = "index"  -> KeepValue(SetSuffix(w, "SETIDX", e1, q.r), e1, q.e, q.r, keep)
         [] OTHER -> [w EXCEPT !.e = q.e, !.r = 1]

\* obj.key or obj[key], not yet read or written.
Suffix(p, type, c, k) ==
    LET x == AnyReg(p, c)
        y == AnyReg(x, k)
    IN [y EXCEPT !.e = [x.e EXCEPT !.type = type, !.obj = x.r, !.key = y.r, !.tt = x.e.type,
                                   !.v = -1]]

-----------------------------------------------------------------------------
(* Calls, closures, blocks, exceptions. *)

GetMethod(p, e) ==
    LET q == CodeSuffix(p, "GETMET", e, p.f.freereg, FALSE)
    IN [Alloc(q, IF q.r = q.f.freereg THEN 2 ELSE 1) EXCEPT !.r = q.r]

Call(p, base, argc) == Free(Emit(p, "CALL", base, argc, 0), argc)

AddProto(p, id) == [p EXCEPT !.f.pvec = Append(@, id), !.r = Len(p.f.pvec)]

Closure(p, e, idx) ==
    LET reg == IF e.type = "global" THEN p.f.freereg ELSE e.v
        q == Emit(p, "CLOSURE", reg, idx, 0)
    IN IF e.type = "global" THEN Emit(q, "SETGBL", reg, e.v, 0) ELSE q

\* The captured variables of the block (of the whole function, on return)
\* leave the stack.
Close(p, isret) ==
    CASE isret /\ \E i \in DOMAIN p.f.blocks : p.f.blocks[i].hasupval -> Emit(p, "CLOSE", 0, 0, 0)
      [] ~isret /\ Len(p.f.blocks) > 1 /\ Block(p).hasupval ->
             Emit(p, "CLOSE", Block(p).nactlocals, 0, 0)
      [] OTHER -> p

LeaveTries(p, n) == IF n = 0 THEN p ELSE Emit(p, "EXBLK", 1, n, 0)

TryDepth(blocks) == Cardinality({i \in DOMAIN blocks : "except" \in blocks[i].type})

\* Mutant: a return in an inner block counts as the end of the function.
Return_Anywhere(p, e) ==
    LET q == AnyReg([p EXCEPT !.f.ret = TRUE], e)
        x == LeaveTries(Close(q, TRUE), TryDepth(q.f.blocks))
    IN FreeExp(Emit(x, "RET", IF q.e.type = "void" THEN 0 ELSE 1, q.r, 0), q.e)

\* "return" leaves the try blocks it is in.  The second return of the
\* outermost block of a function is not coded.
Return(p, e) ==
    LET outermost == Len(p.f.blocks) = 1
        m == IF outermost THEN [p EXCEPT !.f.ret = TRUE] ELSE p
        q == AnyReg(m, e)
        x == LeaveTries(Close(q, TRUE), TryDepth(q.f.blocks))
    IN IF outermost /\ p.f.ret THEN p
       ELSE FreeExp(Emit(x, "RET", IF q.e.type = "void" THEN 0 ELSE 1, q.r, 0), q.e)

ReturnNil(p) ==
    LET outermost == Len(p.f.blocks) = 1
        m == IF outermost THEN [p EXCEPT !.f.ret = TRUE] ELSE p
    IN IF outermost /\ p.f.ret THEN p ELSE Emit(Close(m, TRUE), "RET", 0, 0, 0)

TryBegin(p) ==
    LET q == Emit(p, "EXBLK", 0, NoJump, 0) IN [q EXCEPT !.f.code[PC(q)].outlive = NLocal(p)]

\* r = the jump to the next handler.
Catch(p, base, ecnt, vcnt) == Emit(p, "CATCH", base, ecnt, vcnt)

Raise1(p, e) ==
    LET q == AnyReg(p, e) IN FreeExp(Emit(q, "RAISE", 0, q.r, 0), q.e)

Raise2(p, e1, e2) ==
    LET x == AnyReg(p, e1)
        y == AnyReg(x, e2)
    IN FreeExp(FreeExp(Emit(y, "RAISE", 1, x.r, y.r), x.e), y.e)

\* The class of the statement is one of the compiler's objects, c its number:
\* names of instance variables, of static members, and the methods.
NewClass(name) == [name |-> name, vars |-> << >>, statics |-> << >>, methods |-> << >>]

CodeClass(p, dst, class) ==
    LET k == NewConst(p, [t |-> "class", v |-> class])
        reg == IF dst.type = "local" THEN dst.v ELSE k.f.freereg
        l == Emit(k, "LDCONST", reg, k.r, 0)
        g == IF dst.type = "local" THEN l ELSE Emit(l, "SETGBL", reg, dst.v, 0)
    IN Emit(g, "CLASS", 0, k.r, 0)

SetSuper(p, c, s) ==
    LET x == AnyReg(p, c)
        y == AnyReg(x, s)
    IN FreeExp(FreeExp(Emit(y, "SETSUPER", x.r, y.r, 0), x.e), y.e)

Import(p, m, v) ==
    LET x == AnyReg(p, m)
        a == Alloc(x, 1)
    IN IF v.type = "local" THEN Emit(x, "IMPORT", v.v, x.r, 0)
       ELSE SetVar(Emit(a, "IMPORT", a.r, x.r, 0), v, Exp("reg", a.r), FALSE)

Rethrow(p) == Emit(p, "RAISE", 2, 0, 0)

=============================================================================
