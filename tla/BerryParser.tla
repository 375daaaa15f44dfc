----------------------------- MODULE BerryParser -----------------------------
(* The Berry compiler's parser (be_parser.c): one pass over the tokens, one  *)
(* operator per nonterminal.  Each takes the parser state and returns it,    *)
(* with the expression just read in e.  After an error the parser is at the  *)
(* end of the text: what else it emits is thrown away (be_lexerror() jumps   *)
(* out of the compiler).                                                     *)
(*                                                                           *)
(* Left out: strict mode and named globals, which the host does not set, and *)
(* the tables for debug messages.                                            *)
EXTENDS BerryCode

MaxDepth == 25                           \* BE_MAX_PARSER_DEPTH
UnaryPrio == 3
AssignPrio == 16

\* Predefined globals of the scripts modelled, in the order of their numbers.
Builtins == <<"list", "map", "__iterator__", "probe", "any">>

\* The smaller, the tighter.
BinaryPrio(op) ==
    CASE op \in {"*", "/", "%"} -> 4
      [] op \in {"+", "-"} -> 5
      [] op \in {"<<", ">>"} -> 6
      [] op = "&" -> 7
      [] op = "^" -> 8
      [] op = "|" -> 9
      [] op = ".." -> 10
      [] op \in {"<", "<=", ">", ">="} -> 11
      [] op \in {"==", "!="} -> 12
      [] op = "&&" -> 13
      [] op = "||" -> 14

LogicOps == {"&&", "||"}
BinaryTokens == DOMAIN Opcode \cup LogicOps
UnaryTokens == {"-", "!", "~"}
CompoundOf == [a \in {"+=", "-=", "*=", "/=", "%=", "&=", "|=", "^=", "<<=", ">>="} |->
    CHOOSE op \in DOMAIN Opcode : a = op \o "="]
AssignTokens == DOMAIN CompoundOf \cup {"="}

-----------------------------------------------------------------------------
(* The tokens. *)

Token(p) == p.toks[p.at]
Next1(p) == Token(p).t
Scan(p) == [p EXCEPT !.at = Min({@ + 1, Len(p.toks)})]
Fail(p) == [p EXCEPT !.err = TRUE, !.at = Len(p.toks)]
Match(p, t) == IF Next1(p) = t THEN Scan(p) ELSE Fail(p)
Void == Exp("void", "")

\* An expression that is empty, or a name that nothing declares.
CheckSymbol(p) == IF p.e.type = "void" /\ p.e.v = "" THEN Fail(p) ELSE p
CheckVar(p) == IF p.e.type = "void" THEN Fail(p) ELSE p

-----------------------------------------------------------------------------
(* Blocks, functions and the names they declare. *)

NewBlock(p, type) ==
    [type |-> type, hasupval |-> FALSE, lastjmp |-> 0, beginpc |-> PC(p),
     nactlocals |-> NLocal(p), breaks |-> NoJump, continues |-> NoJump]

BeginBlock(p, type) == [p EXCEPT !.f.blocks = Append(@, NewBlock(p, type))]

\* The loop's own jump back, then where its break and continue jumps go.
EndBlock(p) ==
    LET c == Close(p, FALSE)
        j == JumpTo(c, Block(c).beginpc)
        b == PatchHere(j, Block(c).breaks)
        l == IF "loop" \in Block(c).type
             THEN Patch(b, Block(c).continues, Block(c).beginpc, Block(c).beginpc) ELSE c
    IN [l EXCEPT !.f.local = SubSeq(@, 1, Block(p).nactlocals),
                 !.f.freereg = Block(p).nactlocals, !.f.blocks = Front(@)]

NewFunction == [code |-> << >>, kvec |-> << >>, pvec |-> << >>, local |-> << >>,
                upval |-> << >>, blocks |-> << >>, freereg |-> 0, nstack |-> 0,
                argc |-> 0, ret |-> FALSE, vararg |-> FALSE]

BeginFunc(p) ==
    BeginBlock([p EXCEPT !.outer = Append(@, p.f), !.f = NewFunction], {})

\* r = the number of the finished prototype.
EndFunc(p) ==
    LET q == EndBlock(ReturnNil(p))
    IN [q EXCEPT !.protos = Append(@, [code |-> q.f.code, ktab |-> q.f.kvec, ptab |-> q.f.pvec,
                                       upvals |-> q.f.upval, nstack |-> q.f.nstack,
                                       argc |-> q.f.argc, vararg |-> q.f.vararg]),
                 !.f = Last(q.outer), !.outer = Front(q.outer), !.r = Len(q.protos) + 1]

\* The last position of a name, from 0; -1: none.
IndexIn(names, name) == Max({-1} \cup {i - 1 : i \in {k \in DOMAIN names : names[k] = name}})

FindLocal(f, name, from) ==
    LET i == IndexIn(f.local, name) IN IF i < from THEN -1 ELSE i

NewLocal(p, name) ==
    LET q == [p EXCEPT !.f.local = Append(@, name)]
    IN IF FindLocal(p.f, name, Block(p).nactlocals) >= 0 THEN Fail([p EXCEPT !.r = 0])
       ELSE [IF NLocal(p) >= p.f.freereg THEN Alloc(q, 1) ELSE q EXCEPT !.r = NLocal(p)]

FindUpval(f, name) == IndexIn([i \in DOMAIN f.upval |-> f.upval[i].name], name)

\* The innermost block that had declared the variable keeps its value alive
\* when it ends.
MarkUpval(f, level) ==
    [f EXCEPT !.blocks[Max({i \in DOMAIN f.blocks : f.blocks[i].nactlocals <= level})].hasupval = TRUE]

RECURSIVE Resolve(_, _, _)

\* The name in the k-th of the nested functions fs: a local variable, an
\* upvalue (a new one in every function between), or neither.
Resolve(fs, k, name) ==
    LET none == [fs |-> fs, type |-> "void", v |-> 0]
        local == FindLocal(fs[k], name, 0)
        known == FindUpval(fs[k], name)
        up == Resolve(fs, k - 1, name)
        new == [name |-> name, idx |-> up.v, instack |-> up.type = "local"]
        marked == IF new.instack THEN [up.fs EXCEPT ![k - 1] = MarkUpval(@, up.v)] ELSE up.fs
    IN CASE k = 0 -> none
         [] k > 0 /\ local >= 0 -> [none EXCEPT !.type = "local", !.v = local]
         [] k > 0 /\ local < 0 /\ known >= 0 -> [none EXCEPT !.type = "upval", !.v = known]
         [] k > 0 /\ local < 0 /\ known < 0 /\ up.type = "void" -> none
         [] OTHER -> [fs |-> [marked EXCEPT ![k].upval = Append(@, new)], type |-> "upval",
                      v |-> Len(marked[k].upval)]

SingleVar(p, name) ==
    LET found == Resolve(Append(p.outer, p.f), Len(p.outer) + 1, name)
        g == IndexIn(p.globals, name)
    IN IF found.type # "void"
       THEN [p EXCEPT !.outer = Front(found.fs), !.f = Last(found.fs),
                      !.e = Exp(found.type, found.v)]
       ELSE [p EXCEPT !.e = IF g >= 0 THEN Exp("global", g) ELSE Exp("void", name)]

\* A local variable inside a block or a function, otherwise a global one.
NewVar(p, name) ==
    LET l == NewLocal(p, name)
        g == IndexIn(p.globals, name)
    IN IF p.outer # << >> \/ Len(p.f.blocks) > 1 THEN [l EXCEPT !.e = Exp("local", l.r)]
       ELSE IF g >= 0 THEN [p EXCEPT !.e = Exp("global", g)]
       ELSE [p EXCEPT !.globals = Append(@, name), !.e = Exp("global", Len(p.globals))]

\* Does the assignment declare its variable?  Builtins can be shadowed.
IsNewVar(e) == e.type = "void" \/ (e.type = "global" /\ e.v < Len(Builtins))

NameOf(e) == IF e.type = "void" THEN e.v ELSE Builtins[e.v + 1]

-----------------------------------------------------------------------------
(* Expressions. *)

RECURSIVE Expr(_), SubExpr(_, _), BinopLoop(_, _), SuffixLoop(_), ExprList(_, _),
          ListMembers(_, _), MapMembers(_, _), Params(_), LambdaParams(_, _), Statements(_), ClassVars(_, _),
          ClassStatics(_, _, _), ClassBlock(_, _, _), ClassStaticClass(_, _, _)

IntMax == 2147483647

SimpleExpr(p) ==
    LET t == Token(p)
        is(e) == Scan([p EXCEPT !.e = e])
    IN CASE t.t \in {"int", "str"} -> is(Exp(t.t, t.v))
         [] t.t = "true"  -> is(Exp("bool", 1))
         [] t.t = "false" -> is(Exp("bool", 0))
         [] t.t = "nil"   -> is(Exp("nil", 0))
         [] t.t = "id"    -> Scan(SingleVar(p, t.v))
         [] OTHER -> p

\* A call of a builtin class, the object in a register.
NewPrimType(p, class) ==
    LET q == NextReg(Scan(p), Exp("global", IndexIn(p.globals, class)))
    IN [Call(q, q.r, 0) EXCEPT !.e = Exp("local", q.r)]

ListMembers(p, l) ==
    LET x == CheckVar(Expr(p))
        q == Free(Binop(x, "..", l, x.e, -1), 1)
    IN IF Next1(p) = "]" THEN p
       ELSE IF Next1(q) = "," THEN ListMembers(Scan(q), l) ELSE q

ListExpr(p) ==
    LET n == NewPrimType(p, "list")
    IN Match([ListMembers(n, n.e) EXCEPT !.e = Exp("reg", n.e.v)], "]")

MapMembers(p, m) ==
    LET k == CheckVar(Expr(p))
        i == Suffix(k, "index", m, k.e)
        v == CheckVar(Expr(Match(i, ":")))
        q == SetVar(v, i.e, v.e, FALSE)
    IN IF Next1(p) = "}" THEN p
       ELSE IF Next1(q) = "," THEN MapMembers(Scan(q), m) ELSE q

MapExpr(p) ==
    LET n == NewPrimType(p, "map")
    IN Match([MapMembers(n, n.e) EXCEPT !.e = Exp("reg", n.e.v)], "}")

\* Parameters are the first local variables.
Params(p) ==
    LET star == Next1(p) = "*"
        q == IF star THEN [Scan(p) EXCEPT !.f.vararg = TRUE] ELSE p
        v == NewVar(Match(q, "id"), Token(q).v)
    IN IF Next1(p) = ")" THEN p ELSE IF Next1(v) = "," /\ ~star THEN Params(Scan(v)) ELSE v

\* Those of a lambda may all be written without commas.
LambdaParams(p, comma) ==
    LET q == IF comma THEN Match(p, ",") ELSE p
    IN IF Next1(p) \in {"->", "EOS"} THEN p
       ELSE LambdaParams(NewVar(Match(q, "id"), Token(q).v), comma)

LambdaVarList(p) ==
    LET v == NewVar(Scan(p), Token(p).v)
    IN IF Next1(p) = "id" THEN LambdaParams(v, Next1(v) = ",") ELSE p

CountArgs(p) == [p EXCEPT !.f.argc = p.f.freereg]

\* A method has the implicit parameter self, a static one the implicit
\* variable _class.
FuncBody(p, kind, class) ==
    LET b == BeginFunc(p)
        l == IF kind = "method" THEN NewLocal(b, "self") ELSE b
        v == CountArgs(Match(Params(Match(l, IF Next1(p) = "(" THEN "(" ELSE "call(")), ")"))
        n == NewVar(v, "_class")
        k == NewConst(n, [t |-> "class", v |-> class])
        q == IF kind = "static" THEN SetVar(k, n.e, Exp("const", K(k.r)), FALSE) ELSE v
    IN Match(EndFunc(Statements(q)), "end")

AnonFunc(p) ==
    LET q == FuncBody(Scan(p), "function", 0)
        a == AddProto(q, q.r)
    IN [a EXCEPT !.e = Exp("proto", a.r)]

LambdaExpr(p) ==
    LET x == CheckVar(Expr(CountArgs(Match(LambdaVarList(BeginFunc(Scan(p))), "->"))))
        q == EndFunc(Return(x, x.e))
        a == AddProto(q, q.r)
    IN [a EXCEPT !.e = Exp("proto", a.r)]

PrimaryExpr(p) ==
    CASE Next1(p) \in {"(", "call("} -> Match(CheckVar(Expr(Scan(p))), ")")
      [] Next1(p) = "[" -> ListExpr(p)
      [] Next1(p) = "{" -> MapExpr(p)
      [] Next1(p) = "def" -> AnonFunc(p)
      [] Next1(p) = "/" -> LambdaExpr(p)
      [] OTHER -> SimpleExpr(p)

\* Each argument in the next register; r = how many.
ExprList(p, n) ==
    LET x == CheckVar(Expr(p))
        q == NextReg(x, x.e)
    IN IF Next1(q) = "," THEN ExprList(Scan(q), n + 1) ELSE [q EXCEPT !.r = n]

CallExpr(p) ==
    LET method == p.e.type = "member"
        b == IF method THEN GetMethod(p, p.e) ELSE NextReg(CheckVar(p), p.e)
        s == Scan(b)
        a == IF Next1(s) = ")" THEN [s EXCEPT !.r = 0] ELSE ExprList(s, 1)
        c == Call(Match(a, ")"), b.r, a.r + (IF method THEN 1 ELSE 0))
    IN [c EXCEPT !.e = IF b.e.type = "reg" THEN b.e ELSE [b.e EXCEPT !.type = "reg", !.v = b.r]]

MemberExpr(p) ==
    LET q == Scan(CheckVar(p))
        k == CheckVar(Expr(Scan(q)))
    IN CASE Next1(q) = "id" -> Suffix(Scan(q), "member", p.e, Exp("str", Token(q).v))
         [] Next1(q) = "call(" -> Suffix(Match(k, ")"), "member", p.e, k.e)
         [] OTHER -> Fail(q)

IndexExpr(p) ==
    LET k == CheckVar(Expr(Scan(CheckVar(p))))
    IN Match(Suffix(k, "index", p.e, k.e), "]")

SuffixLoop(p) ==
    CASE Next1(p) = "call(" -> SuffixLoop(CallExpr(p))
      [] Next1(p) = "." -> SuffixLoop(MemberExpr(p))
      [] Next1(p) = "[" -> SuffixLoop(IndexExpr(p))
      [] OTHER -> p

CondExpr(p) ==
    LET j == JumpBool(Scan(CheckVar(p)), p.e, FALSE)
        x == CheckVar(Expr(j))
        l == Jump(Free(NextReg(x, x.e), 1))
        y == CheckVar(Expr(Match(PatchHere(l, j.e.f), ":")))
        n == NextReg(y, y.e)
    IN IF Next1(p) # "?" THEN p
       ELSE [PatchHere(n, l.r) EXCEPT !.e = [n.e EXCEPT !.type = "reg", !.v = n.r]]

\* Mutant: operators of the same priority associate to the right.
BindsTighter_Right(prio, op) == prio >= BinaryPrio(op)

BindsTighter(prio, op) == prio > BinaryPrio(op)

BinopLoop(p, prio) ==
    LET op == Next1(p)
        l == PreBinop(Scan(CheckVar(p)), op, p.e)
        r == SubExpr(l, BinaryPrio(op))
        open == op = ".." /\ r.e.type = "void" /\ r.e.v = ""
        q == IF open THEN [r EXCEPT !.e = Exp("int", IntMax)] ELSE CheckVar(r)
    IN IF op \in BinaryTokens /\ BindsTighter(prio, op)
       THEN BinopLoop(Binop(q, op, l.e, q.e, -1), prio) ELSE p

SubExpr(p, prio) ==
    LET op == Next1(p)
        d == [p EXCEPT !.depth = @ + 1, !.e = Void]
        s == CheckVar(SubExpr(Scan(d), UnaryPrio))
        u == Unop(s, op, s.e)
        left == IF op \notin UnaryTokens THEN SuffixLoop(PrimaryExpr(d))
                ELSE IF u.r = 0 THEN u ELSE Fail(u)
        q == BinopLoop(left, prio)
        c == IF prio = AssignPrio THEN CondExpr(q) ELSE q
    IN IF d.depth > MaxDepth THEN Fail(d) ELSE [c EXCEPT !.depth = @ - 1]

\* The expression, or "left := value".
Expr(p) ==
    LET l == SubExpr(p, AssignPrio)
        v == CheckVar(Expr(Scan(CheckSymbol(l))))
        n == IF IsNewVar(l.e) THEN NewVar(v, NameOf(l.e)) ELSE [v EXCEPT !.e = l.e]
        s == SetVar(n, n.e, v.e, TRUE)
    IN IF Next1(l) # ":=" THEN l ELSE IF s.r # 0 THEN Fail(s) ELSE s

-----------------------------------------------------------------------------
(* Statements. *)

AssignStatement(p) ==
    LET l == CheckSymbol(Expr(p))
        op == Next1(l)
        compound == op \in DOMAIN CompoundOf
        c == CheckVar(l)
        held == \/ l.e.type \in {"global", "upval"}
                \/ l.e.type \in {"index", "member"} /\ l.e.tt \in {"reg", "local", "global"}
        s == IF compound THEN (IF held THEN Alloc(c, 1) ELSE c) ELSE l
        r == CheckVar(Expr(Scan(s)))
        b == IF compound THEN Binop(r, CompoundOf[op], l.e, r.e, l.f.freereg) ELSE r
        n == IF IsNewVar(l.e) THEN NewVar(b, NameOf(l.e)) ELSE [b EXCEPT !.e = l.e]
        v == SetVar(n, n.e, b.e, FALSE)
        x == AnyReg(l, l.e)
    IN IF op \in AssignTokens THEN (IF v.r # 0 THEN Fail(v) ELSE v)
       ELSE IF x.e.type \in {"member", "index", "reg"} THEN [x EXCEPT !.f.freereg = NLocal(x)]
       ELSE CheckVar(x)

\* "block": its statements, its own variables.
InBlock(p, type) ==
    LET q == EndBlock(Statements(BeginBlock([p EXCEPT !.depth = @ + 1], type)))
    IN IF p.depth + 1 > MaxDepth THEN Fail(p) ELSE [q EXCEPT !.depth = @ - 1]

\* The jump taken when the condition is false is in e.f.
Condition(p) ==
    LET x == CheckVar(Expr(p)) IN IF Next1(p) = ")" THEN Fail(p) ELSE JumpBool(x, x.e, FALSE)

RECURSIVE Branches(_, _), Vars(_), Excepts(_, _, _), ExceptCases(_, _)

\* "if" and each "elif"; out: the jumps to the end.
Branches(p, out) ==
    LET c == Condition(p)
        b == InBlock(c, {})
        j == Jump(b)
        o == IF Next1(b) \in {"elif", "else"} THEN ConJump(j, out, j.r) ELSE [b EXCEPT !.r = out]
        n == PatchHere(o, c.e.f)
    IN CASE Next1(n) = "elif" -> Branches(Scan(n), o.r)
         [] Next1(n) = "else" -> [InBlock(Scan(n), {}) EXCEPT !.r = o.r]
         [] OTHER -> [n EXCEPT !.r = o.r]

IfStatement(p) ==
    LET b == Branches(Scan(p), NoJump) IN PatchHere(Match(b, "end"), b.r)

DoStatement(p) == Match(InBlock(Scan(p), {}), "end")

WhileStatement(p) ==
    LET c == Condition(BeginBlock(Scan(p), {"loop"}))
    IN Match(PatchHere(EndBlock(Statements(c)), c.e.f), "end")

\* .it = __iterator__(expr)
ForInit(p) ==
    LET g == NextReg(p, Exp("global", IndexIn(p.globals, "__iterator__")))
        x == CheckVar(Expr(g))
        a == NextReg(x, x.e)
        l == NewLocal(Free(Call(a, g.r, 1), 1), ".it")
    IN [l EXCEPT !.e = Exp("local", l.r)]

\* var = .it() and the body
ForIter(p, var) ==
    LET b == [p EXCEPT !.f.blocks[Len(p.f.blocks)].beginpc = PC(p)]
        l == NewLocal(b, var)
        v == SetVar(l, Exp("local", l.r), p.e, FALSE)
    IN Statements(Call(v, l.r, 0))

\* The end of the loop, by the iterator's exception or by break.
ForLeave(p, catch) ==
    LET broken == Block(p).breaks # NoJump
        e == EndBlock(p)
        j == Jump(LeaveTries(e, 1))
        b == IF broken THEN j ELSE e
        h == ConJump(b, catch, PC(b))
        s == NextReg(h, Exp("str", "stop_iteration"))
        r == Rethrow(Catch(s, s.r, 1, 0))
    IN Free(IF broken THEN ConJump(r, j.r, PC(r)) ELSE r, 1)

ForStatement(p) ==
    LET b == BeginBlock(Scan(p), {"except", "loop"})
        i == ForInit(Match(Match(b, "id"), ":"))
        t == TryBegin(i)
    IN Match(ForLeave(ForIter([t EXCEPT !.e = i.e], Token(b).v), t.r), "end")

\* break and continue leave the try blocks between them and the loop.
LoopOf(blocks) == {i \in DOMAIN blocks : "loop" \in blocks[i].type}

LeaveLoop(p) ==
    LET s == Scan(p)
        at == Max(LoopOf(s.f.blocks))
        j == Jump(LeaveTries(s, TryDepth(SubSeq(s.f.blocks, at + 1, Len(s.f.blocks)))))
    IN IF LoopOf(s.f.blocks) = {} THEN [Fail(s) EXCEPT !.r = NoJump]
       ELSE [j EXCEPT !.f.code[j.r + 1].outlive = s.f.blocks[at].nactlocals]

BreakStatement(p) ==
    LET j == LeaveLoop(p)
        at == Max(LoopOf(j.f.blocks))
        c == ConJump(j, j.f.blocks[at].breaks, j.r)
    IN IF j.r = NoJump THEN j ELSE [c EXCEPT !.f.blocks[at].breaks = c.r]

ContinueStatement(p) ==
    LET j == LeaveLoop(p)
        at == Max(LoopOf(j.f.blocks))
        c == ConJump(j, j.f.blocks[at].continues, j.r)
    IN IF j.r = NoJump THEN j ELSE [c EXCEPT !.f.blocks[at].continues = c.r]

DefStatement(p) ==
    LET s == Scan(p)
        v == NewVar(Match(s, "id"), Token(s).v)
        q == FuncBody(v, "function", 0)
        a == AddProto(q, q.r)
    IN Closure(a, v.e, a.r)

ReturnStatement(p) ==
    LET x == Expr(Scan(p))
        c == IF x.e.type = "void" /\ x.e.v # "" THEN CheckVar(x) ELSE x
    IN Return(c, c.e)

Vars(p) ==
    LET m == Match(p, "id")
        x == IF Next1(m) = "=" THEN CheckVar(Expr(Scan(m))) ELSE [m EXCEPT !.e = Exp("nil", 0)]
        n == NewVar(x, Token(p).v)
        v == SetVar(n, n.e, x.e, FALSE)
    IN IF Next1(v) = "," THEN Vars(Scan(v)) ELSE v

\* The exceptions a handler is for, in consecutive registers; r = how many.
ExceptCases(p, n) ==
    LET x == CheckVar(Expr(p))
        q == NextReg(x, x.e)
    IN IF Next1(q) = "," THEN ExceptCases(Scan(q), n + 1) ELSE [Free(q, n) EXCEPT !.r = n]

RECURSIVE ExceptVars(_, _)

ExceptVars(p, n) ==
    LET v == NewVar(Match(p, "id"), Token(p).v)
    IN IF n < 2 /\ Next1(v) = "," THEN ExceptVars(Scan(v), n + 1) ELSE [v EXCEPT !.r = n]

\* Each handler's test is where the previous one jumps to when it does not
\* apply; out: the jumps to the end.
Excepts(p, catch, out) ==
    LET b == BeginBlock(Match(p, "except"), {})
        h == ConJump(b, catch, PC(b))
        c == IF Next1(h) = ".." THEN [Scan(h) EXCEPT !.r = 0] ELSE ExceptCases(h, 1)
        v == IF Next1(c) = "as" THEN ExceptVars(Scan(c), 1) ELSE [c EXCEPT !.r = 0]
        n == Jump(Catch(v, h.f.freereg, c.r, v.r))
        j == Jump(Statements(n))
        o == ConJump(j, out, j.r)
        q == EndBlock(o)
    IN IF Next1(q) = "except" THEN Excepts(q, n.r, o.r)
       ELSE PatchHere(Rethrow(PatchHere(q, n.r)), o.r)

TryStatement(p) ==
    LET t == TryBegin(Scan(p))
        j == Jump(LeaveTries(InBlock(t, {"except"}), 1))
    IN Match(Excepts(j, t.r, j.r), "end")

ThrowStatement(p) ==
    LET x == CheckVar(Expr(Scan(p)))
        y == CheckVar(Expr(Scan(x)))
    IN IF Next1(x) = "," THEN Raise2(y, x.e, y.e) ELSE Raise1(x, x.e)

NewAttr(p, c, name, q) == IF name \in Attributes(p.classes[c]) THEN Fail(p) ELSE q

ClassVars(p, c) ==
    LET name == Token(p).v
        n == NewAttr(p, c, name, Match([p EXCEPT !.classes[c].vars = Append(@, name)], "id"))
    IN IF Next1(n) = "," THEN ClassVars(Scan(n), c) ELSE n

ClassDef(p, c, static) ==
    LET name == Token(p).v
        q == FuncBody(Match(p, "id"), IF static THEN "static" ELSE "method", c)
    IN NewAttr(p, c, name, [q EXCEPT !.classes[c].methods =
                                Append(@, [name |-> name, proto |-> q.r, static |-> static])])

\* "static name = value": the value is assigned when the statement runs.
ClassStatics(p, c, e) ==
    LET name == Token(p).v
        n == NewAttr(p, c, name, Match([p EXCEPT !.classes[c].statics = Append(@, name)], "id"))
        x == Expr(Scan(n))
        m == Suffix(x, "member", e, Exp("str", name))
        s == IF Next1(n) = "=" THEN SetVar(m, m.e, x.e, FALSE) ELSE n
    IN IF Next1(s) = "," THEN ClassStatics(Scan(s), c, e) ELSE s

ClassBlock(p, c, e) ==
    LET s == Scan(p)
        next(q) == ClassBlock(q, c, e)
    IN CASE Next1(p) = "var" -> next(ClassVars(s, c))
         [] Next1(p) = "def" -> next(ClassDef(s, c, FALSE))
         [] Next1(p) = "static" /\ Next1(s) = "def" -> next(ClassDef(Scan(s), c, TRUE))
         [] Next1(p) = "static" /\ Next1(s) = "class" -> next(ClassStaticClass(Scan(s), c, e))
         [] Next1(p) = "static" /\ Next1(s) \notin {"def", "class"} ->
                next(ClassStatics(IF Next1(s) = "var" THEN Scan(s) ELSE s, c, e))
         [] Next1(p) = ";" -> next(s)
         [] Next1(p) \in {"end", "EOS"} -> p
         [] OTHER -> Fail(p)

ClassInherit(p, e) ==
    LET x == CheckVar(Expr(Scan(p))) IN IF Next1(p) = ":" THEN SetSuper(x, e, x.e) ELSE p

ClassStatement(p) ==
    LET name == Token(Scan(p)).v
        v == NewVar([Match(Scan(p), "id") EXCEPT !.classes = Append(@, NewClass(name))], name)
        c == Len(v.classes)
        k == CodeClass(v, v.e, c)
        b == BeginBlock(ClassInherit(k, v.e), {})
        l == NewLocal(b, "_class")
        s == SetVar(l, Exp("local", l.r), v.e, TRUE)
        e == IF v.e.type = "local" THEN v.e ELSE Exp("reg", l.r)
    IN Match(EndBlock(ClassBlock(s, c, e)), "end")

\* "static class": a class that is a static member of another one.
ClassStaticClass(p, outer, e) ==
    LET name == Token(p).v
        n == NewAttr(p, outer, name,
                     Match([p EXCEPT !.classes[outer].statics = Append(@, name)], "id"))
        v == NewVar([n EXCEPT !.classes = Append(@, NewClass(name))], name)
        c == Len(v.classes)
        b == Match(ClassBlock(ClassInherit(CodeClass(v, v.e, c), v.e), c, v.e), "end")
        m == Suffix(b, "member", e, Exp("str", name))
    IN SetVar(m, m.e, v.e, FALSE)

\* "import name", the variable named after the module.
ImportStatement(p) ==
    LET q == Scan(p)
        v == NewVar(Match(q, "id"), Token(q).v)
    IN Import(v, Exp("str", Token(q).v), v.e)

Statement(p) ==
    CASE Next1(p) = "if" -> IfStatement(p)
      [] Next1(p) = "while" -> WhileStatement(p)
      [] Next1(p) = "for" -> ForStatement(p)
      [] Next1(p) = "do" -> DoStatement(p)
      [] Next1(p) = "break" -> BreakStatement(p)
      [] Next1(p) = "continue" -> ContinueStatement(p)
      [] Next1(p) = "def" -> DefStatement(p)
      [] Next1(p) = "class" -> ClassStatement(p)
      [] Next1(p) = "import" -> ImportStatement(p)
      [] Next1(p) = "return" -> ReturnStatement(p)
      [] Next1(p) = "var" -> Vars(Scan(p))
      [] Next1(p) = "try" -> TryStatement(p)
      [] Next1(p) = "raise" -> ThrowStatement(p)
      [] Next1(p) = ";" -> Scan(p)
      [] OTHER -> AssignStatement(p)

Statements(p) ==
    IF Next1(p) \in {"else", "elif", "end", "except", "EOS"} THEN p
    ELSE Statements(Statement(p))

\* The prototypes of a program, the last of them the main function, and what
\* went wrong.
Compile(toks) ==
    LET start == [toks |-> toks, at |-> 1, f |-> NewFunction, outer |-> << >>, protos |-> << >>,
                  globals |-> Builtins, depth |-> 0, err |-> FALSE, e |-> Void, r |-> 0,
                  harmed |-> {}, classes |-> << >>]
        first == [start EXCEPT !.f.blocks = <<NewBlock(start, {})>>]
        q == Match(Statements(first), "EOS")
        z == EndFunc([q EXCEPT !.outer = <<NewFunction>>])
    IN [protos |-> z.protos, globals |-> Len(z.globals), classes |-> z.classes,
        err |-> z.err, harmed |-> z.harmed]

=============================================================================
