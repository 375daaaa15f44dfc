----------------------------- MODULE BerrySource -----------------------------
(* Berry programs as trees, the text a program is written as, and what it is *)
(* meant to do: the reference the compiler and the interpreter are held to.  *)
(*                                                                           *)
(* An expression is one of                                                   *)
(*   <<"int", n>>  <<"str", s>>  <<"bool", 0 or 1>>  <<"nil">>  <<"id", x>>  *)
(*   <<"bin", op, e, e>>  <<"un", op, e>>  <<"cond", e, e, e>>               *)
(*   <<"call", e, es>>  <<"lambda", xs, e>>  <<"fun", xs, ss>>               *)
(*   <<"list", es>>  <<"map", keys, es>>  <<"index", e, e>>                  *)
(*   <<"member", e, x>>  <<"method", e, x, es>>  <<"walrus", e, e>>          *)
(* and a statement one of                                                    *)
(*   <<"var", x, e>>  <<"set", op, e, e>>  <<"do", ss>>  <<"expr", e>>       *)
(*   <<"if", e, ss, ss>>  <<"while", e, ss>>  <<"for", x, e, ss>>            *)
(*   <<"break">>  <<"continue">>  <<"def", f, xs, ss>>  <<"return", e>>      *)
(*   <<"rest", f, xs, ss>>: a def whose last parameter takes the rest, a list *)
(*   <<"try", ss, name of the exception or "", x, ss>>  <<"raise", e>>       *)
(*   <<"class", c, super or "", members, <<static, e>>s, defs of methods>>   *)
EXTENDS BerryParser

-----------------------------------------------------------------------------
(* The text: as few parentheses as the priorities of the operators allow.   *)

T(t) == [t |-> t, v |-> ""]
W(t, v) == [t |-> t, v |-> v]
Words(ts) == [i \in DOMAIN ts |-> T(ts[i])]

RECURSIVE ExpText(_, _), BlockText(_), StatText(_)

\* Pieces with commas between them.
Commas(pieces) ==
    IF pieces = << >> THEN << >>
    ELSE FoldLeft(LAMBDA done, x : done \o <<T(",")>> \o x, Head(pieces), Tail(pieces))

Names(xs) == Commas([i \in DOMAIN xs |-> <<W("id", xs[i])>>])
Exps(es) == Commas([i \in DOMAIN es |-> ExpText(es[i], AssignPrio)])

PrioOf(e) ==
    CASE e[1] = "bin" -> BinaryPrio(e[2])
      [] e[1] = "un" -> UnaryPrio
      [] e[1] = "cond" -> AssignPrio - 1
      [] e[1] \in {"lambda", "walrus"} -> AssignPrio
      [] OTHER -> 0

Bare(e) ==
    CASE e[1] \in {"int", "str", "id"} -> <<W(e[1], e[2])>>
      [] e[1] = "nil" -> <<T("nil")>>
      [] e[1] = "bool" -> <<T(IF e[2] = 1 THEN "true" ELSE "false")>>
      [] e[1] = "bin" -> ExpText(e[3], BinaryPrio(e[2])) \o <<T(e[2])>>
                             \o ExpText(e[4], BinaryPrio(e[2]) - 1)
      [] e[1] = "un" -> <<T(e[2])>> \o ExpText(e[3], UnaryPrio)
      [] e[1] = "cond" -> ExpText(e[2], BinaryPrio("||")) \o <<T("?")>> \o ExpText(e[3], AssignPrio)
                             \o <<T(":")>> \o ExpText(e[4], AssignPrio)
      [] e[1] = "call" -> ExpText(e[2], 0) \o <<T("call(")>> \o Exps(e[3]) \o <<T(")")>>
      [] e[1] = "lambda" -> <<T("/")>> \o Names(e[2]) \o <<T("->")>> \o ExpText(e[3], AssignPrio)
      [] e[1] = "fun" -> Words(<<"def", "call(">>) \o Names(e[2]) \o <<T(")")>> \o BlockText(e[3])
      [] e[1] = "list" -> <<T("[")>> \o Exps(e[2]) \o <<T("]")>>
      [] e[1] = "map" -> <<T("{")>> \o Commas([i \in DOMAIN e[2] |-> ExpText(e[2][i], AssignPrio)
                             \o <<T(":")>> \o ExpText(e[3][i], AssignPrio)]) \o <<T("}")>>
      [] e[1] = "index" -> ExpText(e[2], 0) \o <<T("[")>> \o ExpText(e[3], AssignPrio) \o <<T("]")>>
      [] e[1] = "member" -> ExpText(e[2], 0) \o <<T("."), W("id", e[3])>>
      [] e[1] = "method" -> ExpText(e[2], 0) \o <<T("."), W("id", e[3]), T("call(")>>
                             \o Exps(e[4]) \o <<T(")")>>
      [] e[1] = "walrus" -> ExpText(e[2], 0) \o <<T(":=")>> \o ExpText(e[3], AssignPrio)

ExpText(e, prio) ==
    IF PrioOf(e) > prio THEN <<T("(")>> \o Bare(e) \o <<T(")")>> ELSE Bare(e)

Texts(ss) == FlattenSeq([i \in DOMAIN ss |-> StatText(ss[i])])
BlockText(ss) == Texts(ss) \o <<T("end")>>

StatText(s) ==
    CASE s[1] = "var" -> <<T("var"), W("id", s[2]), T("=")>> \o ExpText(s[3], AssignPrio)
      [] s[1] = "set" -> ExpText(s[3], 0) \o <<T(s[2])>> \o ExpText(s[4], AssignPrio)
      [] s[1] = "expr" -> ExpText(s[2], AssignPrio)
      [] s[1] = "do" -> <<T("do")>> \o BlockText(s[2])
      [] s[1] = "if" -> <<T("if")>> \o ExpText(s[2], AssignPrio) \o Texts(s[3])
                            \o (IF s[4] = << >> THEN << >> ELSE <<T("else")>> \o Texts(s[4]))
                            \o <<T("end")>>
      [] s[1] = "while" -> <<T("while")>> \o ExpText(s[2], AssignPrio) \o BlockText(s[3])
      [] s[1] = "for" -> <<T("for"), W("id", s[2]), T(":")>> \o ExpText(s[3], AssignPrio)
                            \o BlockText(s[4])
      [] s[1] \in {"break", "continue"} -> <<T(s[1]), T(";")>>
      [] s[1] = "def" -> <<T("def"), W("id", s[2]), T("call(")>> \o Names(s[3]) \o <<T(")")>>
                            \o BlockText(s[4])
      [] s[1] = "return" -> <<T("return")>> \o ExpText(s[2], AssignPrio) \o <<T(";")>>
      [] s[1] = "rest" -> <<T("def"), W("id", s[2]), T("call(")>> \o Names(Front(s[3]))
                            \o (IF Len(s[3]) > 1 THEN <<T(",")>> ELSE << >>)
                            \o <<T("*"), W("id", Last(s[3])), T(")")>> \o BlockText(s[4])
      [] s[1] = "try" -> <<T("try")>> \o Texts(s[2]) \o <<T("except")>>
                            \o (IF s[3] = "" THEN <<T("..")>> ELSE <<W("str", s[3])>>)
                            \o <<T("as"), W("id", s[4])>> \o BlockText(s[5])
      [] s[1] = "raise" -> <<T("raise")>> \o ExpText(s[2], AssignPrio) \o <<T(";")>>
      [] s[1] = "class" -> <<T("class"), W("id", s[2])>>
                            \o (IF s[3] = "" THEN << >> ELSE <<T(":"), W("id", s[3])>>)
                            \o FlattenSeq([i \in DOMAIN s[4] |-> <<T("var"), W("id", s[4][i])>>])
                            \o FlattenSeq([i \in DOMAIN s[5] |->
                                   <<T("static"), W("id", s[5][i][1]), T("=")>> \o ExpText(s[5][i][2], AssignPrio)])
                            \o BlockText(s[6])

Text(program) == Texts(program) \o <<T("EOS")>>

-----------------------------------------------------------------------------
(* The meaning.  A variable is a place in the store, an environment the      *)
(* names in scope with their places, the innermost last.  Each operator      *)
(* takes a world w and returns the next one:                                 *)
(*   store, objs, classes   variables, lists, maps and objects, classes      *)
(*   trace, answers         what the program showed, what it is still told   *)
(*   sig, val               how it goes on ("ok", "break", "continue",       *)
(*                          "return", "raise") and the value that goes along *)

None == <<"nil">>
Boolean(b) == <<"bool", IF b THEN 1 ELSE 0>>
Shown(v) == IF v[1] \in {"int", "bool", "str"} THEN v ELSE <<v[1]>>

Ok(w, v) == [w EXCEPT !.sig = "ok", !.val = v]
Error(w, name) == [w EXCEPT !.sig = "raise", !.val = <<"str", name>>]
Then(w, F(_)) == IF w.sig = "ok" THEN F(w) ELSE w

Declare(w, v) == [w EXCEPT !.store = Append(@, v)]
Lookup(env, x) == Max({0} \cup {i \in DOMAIN env : env[i][1] = x})

True(w, v) ==
    CASE v[1] \in {"int", "bool"} -> v[2] # 0
      [] v[1] = "nil" -> FALSE
      [] v[1] = "str" -> v[2] # ""
      [] v[1] \in {"list", "map"} -> w.objs[v[2]].items # << >>
      [] OTHER -> TRUE

Quotient(x, y) == LET abs(n) == IF n < 0 THEN -n ELSE n
                  IN (IF (x < 0) = (y < 0) THEN 1 ELSE -1) * (abs(x) \div abs(y))

Calculate(op, x, y) ==
    CASE op = "+" -> <<"int", x + y>> [] op = "-" -> <<"int", x - y>> [] op = "*" -> <<"int", x * y>>
      [] op = "/" -> <<"int", Quotient(x, y)>> [] op = "%" -> <<"int", x - y * Quotient(x, y)>>
      [] op = "<" -> Boolean(x < y) [] op = "<=" -> Boolean(x <= y)
      [] op = ">" -> Boolean(x > y) [] op = ">=" -> Boolean(x >= y)
      [] op = "==" -> Boolean(x = y) [] op = "!=" -> Boolean(x # y)

Unfit(v) == IF v[1] \in {"list", "map", "obj"} THEN "attribute_error" ELSE "type_error"

Apply(w, op, x, y) ==
    LET ints == x[1] = "int" /\ y[1] = "int"
    IN CASE op = ".." /\ x[1] = "list" -> Ok([w EXCEPT !.objs[x[2]].items = Append(@, y)], x)
         [] op \in {"==", "!="} /\ ~ints -> Ok(w, Boolean((x = y) = (op = "==")))
         [] op \in {"/", "%"} /\ ints /\ y[2] = 0 -> Error(w, "divzero_error")
         [] ints -> Ok(w, Calculate(op, x[2], y[2]))
         [] OTHER -> Error(w, IF x[1] = "list" /\ op = "+" THEN "type_error" ELSE Unfit(x))

\* Where an item is, and what reading or writing one that is not there means.
ItemAt(w, v, k) ==
    LET items == w.objs[v[2]].items
        n == IF k[1] # "int" THEN -1 ELSE IF k[2] < 0 THEN k[2] + Len(items) ELSE k[2]
    IN CASE v[1] = "list" -> IF n \in 0..(Len(items) - 1) THEN n + 1 ELSE 0
         [] v[1] = "map" -> Max({0} \cup {i \in DOMAIN items : items[i][1] = k})
         [] OTHER -> 0

NoItem(w, v) ==
    Error(w, CASE v[1] = "list" -> "index_error" [] v[1] = "map" -> "key_error" [] OTHER -> Unfit(v))

Get(w, v, k) ==
    LET at == ItemAt(w, v, k)
        item == w.objs[v[2]].items[at]
    IN IF at = 0 THEN NoItem(w, v) ELSE Ok(w, IF v[1] = "map" THEN item[2] ELSE item)

Put(w, v, k, x) ==
    LET at == ItemAt(w, v, k)
        item == IF v[1] = "map" THEN <<k, x>> ELSE x
    IN IF at > 0 THEN Ok([w EXCEPT !.objs[v[2]].items[at] = item], x)
       ELSE IF v[1] = "map" THEN Ok([w EXCEPT !.objs[v[2]].items = Append(@, item)], x)
       ELSE NoItem(w, v)

RECURSIVE FindMember(_, _, _)

\* kind "var", "method", "static" or "none", of the nearest class that has it.
FindMember(w, c, x) ==
    LET class == w.classes[c]
        ms == {i \in DOMAIN class.methods : class.methods[i][1] = x}
        ss == {i \in DOMAIN class.statics : class.statics[i][1] = x}
    IN CASE c = 0 -> [kind |-> "none", class |-> 0, at |-> 0]
         [] c # 0 /\ x \in Range(class.vars) -> [kind |-> "var", class |-> c, at |-> 0]
         [] c # 0 /\ ms # {} -> [kind |-> "method", class |-> c, at |-> Max(ms)]
         [] c # 0 /\ ss # {} -> [kind |-> "static", class |-> c, at |-> Max(ss)]
         [] OTHER -> FindMember(w, class.super, x)

ClassOf(w, v) == IF v[1] = "obj" THEN w.objs[v[2]].class ELSE IF v[1] = "class" THEN v[2] ELSE 0

GetField(w, v, x) ==
    LET m == FindMember(w, ClassOf(w, v), x)
        class == w.classes[m.class]
    IN CASE m.kind = "var" /\ v[1] = "obj" -> Ok(w, w.objs[v[2]].fields[x])
         [] m.kind = "method" -> Ok(w, class.methods[m.at][2])
         [] m.kind = "static" -> Ok(w, class.statics[m.at][2])
         [] OTHER -> Error(w, "attribute_error")

PutField(w, v, x, y) ==
    LET m == FindMember(w, ClassOf(w, v), x)
    IN CASE m.kind = "var" /\ v[1] = "obj" -> Ok([w EXCEPT !.objs[v[2]].fields[x] = y], y)
         [] m.kind = "static" /\ v[1] = "class" ->
                Ok([w EXCEPT !.classes[m.class].statics[m.at][2] = y], y)
         [] OTHER -> Error(w, "attribute_error")

RECURSIVE Eval(_, _, _), EvalAll(_, _, _), Exec(_, _, _), ExecAll(_, _, _), Loop(_, _, _),
          Iteration(_, _, _, _, _), Invoke(_, _, _), Fields(_, _)

Fields(w, c) == IF c = 0 THEN {} ELSE Range(w.classes[c].vars) \cup Fields(w, w.classes[c].super)

\* A call: w.val is what it returns.
Invoke(w, f, args) ==
    LET rest == f[5]
        given(i) == CASE rest /\ i = Len(f[2]) -> <<"list", Len(w.objs) + 1>>
                      [] i <= Len(args) -> args[i]
                      [] OTHER -> None
        locs == [i \in DOMAIN f[2] |-> <<f[2][i], Len(w.store) + i>>]
        entered == [w EXCEPT !.store = @ \o [i \in DOMAIN f[2] |-> given(i)],
                             !.objs = IF rest THEN Append(@, [items |-> SubSeq(args, Len(f[2]), Len(args))]) ELSE @]
        left == ExecAll(f[3], f[4] \o locs, entered)
        object == <<"obj", Len(w.objs) + 1>>
        made == [w EXCEPT !.objs = Append(@, [class |-> f[2], fields |-> [x \in Fields(w, f[2]) |-> None]])]
        init == FindMember(w, f[2], "init")
        built == Invoke(made, w.classes[init.class].methods[init.at][2], <<object>> \o args)
    IN CASE f[1] = "fun" -> IF left.sig = "return" THEN Ok(left, left.val)
                            ELSE IF left.sig = "ok" THEN Ok(left, None) ELSE left
         [] f = <<"nat", "probe">> -> Ok([w EXCEPT !.trace = Append(@, Shown(args[1]))], None)
         [] f = <<"nat", "any">> -> IF w.answers = << >> THEN Ok(w, Boolean(FALSE))
                                    ELSE Ok([w EXCEPT !.answers = Tail(@)], Boolean(Head(w.answers)))
         [] f[1] = "class" -> IF init.kind = "method" THEN Then(built, LAMBDA u : Ok(u, object))
                              ELSE Ok(made, object)
         [] OTHER -> Error(w, Unfit(f))

\* w.val is the sequence of the values.
EvalAll(es, env, w) ==
    FoldLeft(LAMBDA u, e : Then(u, LAMBDA x : LET y == Eval(e, env, x)
                                              IN Then(y, LAMBDA z : Ok(z, Append(x.val, z.val)))),
             Ok(w, << >>), es)

Eval(e, env, w) ==
    LET two(a, b, F(_, _, _)) == Then(EvalAll(<<a, b>>, env, w), LAMBDA u : F(u, u.val[1], u.val[2]))
        one(a, F(_, _)) == Then(Eval(a, env, w), LAMBDA u : F(u, u.val))
        fresh == Len(w.objs) + 1
        new(items) == [w EXCEPT !.objs = Append(@, [items |-> items])]
    IN CASE e[1] \in {"int", "str", "bool"} -> Ok(w, <<e[1], e[2]>>)
         [] e[1] = "nil" -> Ok(w, None)
         [] e[1] = "id" -> Ok(w, IF Lookup(env, e[2]) = 0 THEN <<"nat", e[2]>>
                                 ELSE w.store[env[Lookup(env, e[2])][2]])
         [] e[1] = "bin" /\ e[2] = "&&" ->
                one(e[3], LAMBDA u, x : IF True(u, x) THEN Then(Eval(e[4], env, u), LAMBDA y : Ok(y, Boolean(True(y, y.val))))
                                        ELSE Ok(u, Boolean(FALSE)))
         [] e[1] = "bin" /\ e[2] = "||" ->
                one(e[3], LAMBDA u, x : IF True(u, x) THEN Ok(u, Boolean(TRUE))
                                        ELSE Then(Eval(e[4], env, u), LAMBDA y : Ok(y, Boolean(True(y, y.val)))))
         [] e[1] = "bin" /\ e[2] \notin LogicOps -> two(e[3], e[4], LAMBDA u, x, y : Apply(u, e[2], x, y))
         [] e[1] = "un" -> one(e[3], LAMBDA u, x :
                CASE e[2] = "!" -> Ok(u, Boolean(~True(u, x)))
                  [] e[2] # "!" /\ x[1] # "int" -> Error(u, Unfit(x))
                  [] OTHER -> Ok(u, <<"int", IF e[2] = "-" THEN -x[2] ELSE -x[2] - 1>>))
         [] e[1] = "cond" -> one(e[2], LAMBDA u, x : Eval(IF True(u, x) THEN e[3] ELSE e[4], env, u))
         [] e[1] = "call" -> Then(EvalAll(<<e[2]>> \o e[3], env, w),
                                  LAMBDA u : Invoke(u, Head(u.val), Tail(u.val)))
         [] e[1] = "lambda" -> Ok(w, <<"fun", e[2], << <<"return", e[3]>> >>, env, FALSE>>)
         [] e[1] = "fun" -> Ok(w, <<"fun", e[2], e[3], env, FALSE>>)
         [] e[1] = "list" -> Then(EvalAll(e[2], env, w), LAMBDA u :
                Ok([u EXCEPT !.objs = Append(@, [items |-> u.val])], <<"list", Len(u.objs) + 1>>))
         [] e[1] = "map" -> Then(EvalAll(e[2] \o e[3], env, w), LAMBDA u :
                Ok([u EXCEPT !.objs = Append(@, [items |-> [i \in DOMAIN e[2] |->
                        <<u.val[i], u.val[i + Len(e[2])]>>]])], <<"map", Len(u.objs) + 1>>))
         [] e[1] = "index" -> two(e[2], e[3], LAMBDA u, x, y : Get(u, x, y))
         [] e[1] = "member" -> one(e[2], LAMBDA u, x : GetField(u, x, e[3]))
         [] e[1] = "method" -> Then(EvalAll(<<e[2]>> \o e[4], env, w), LAMBDA u :
                LET self == Head(u.val)
                    f == GetField(u, self, e[3])
                    bound == self[1] = "obj" /\ FindMember(u, ClassOf(u, self), e[3]).kind = "method"
                    callable(v) == v[1] \in {"fun", "nat", "class"} \/ self[1] # "obj"
                IN Then(f, LAMBDA x : IF ~callable(x.val) THEN Error(x, "attribute_error") ELSE Invoke(x, x.val, IF bound THEN u.val ELSE Tail(u.val))))
         [] e[1] = "walrus" -> one(e[3], LAMBDA u, x :
                Ok([u EXCEPT !.store[env[Lookup(env, e[2][2])][2]] = x], x))

\* A statement also returns the environment for what follows it.
Exec(s, env, w) ==
    LET stay(u) == [w |-> u, env |-> env]
        bind(u, x, v) == [w |-> Ok(Declare(u, v), None), env |-> Append(env, <<x, Len(u.store) + 1>>)]
        assign(u, x) == LET l == Lookup(env, s[3][2]) IN
            CASE s[3][1] = "id" /\ l = 0 -> bind(u, s[3][2], x)
              [] s[3][1] = "id" /\ l # 0 -> stay(Ok([u EXCEPT !.store[env[l][2]] = x], None))
              [] s[3][1] = "index" -> stay(Then(EvalAll(<<s[3][2], s[3][3]>>, env, u),
                                                LAMBDA y : Put(y, y.val[1], y.val[2], x)))
              [] s[3][1] = "member" -> stay(Then(Eval(s[3][2], env, u),
                                                 LAMBDA y : PutField(y, y.val, s[3][3], x)))
        value == CASE s[1] \in {"var", "for"} -> Eval(s[3], env, w)
                   [] s[1] = "set" -> Eval(IF s[2] = "=" THEN s[4] ELSE <<"bin", CompoundOf[s[2]], s[3], s[4]>>, env, w)
                   [] OTHER -> Eval(s[2], env, w)
        v == value.val
        tried == ExecAll(s[2], env, w)
        caught == s[3] = "" \/ tried.val = <<"str", s[3]>>
        place == Len(w.store) + 1
        classEnv == Append(env, <<s[2], place>>)
        statics == EvalAll([i \in DOMAIN s[5] |-> s[5][i][2]], classEnv, Declare(w, None))
        super == IF s[3] = "" THEN <<"class", 0>> ELSE w.store[env[Lookup(env, s[3])][2]]
        class == [super |-> super[2], vars |-> s[4],
                  statics |-> [i \in DOMAIN s[5] |-> <<s[5][i][1], statics.val[i]>>],
                  methods |-> [i \in DOMAIN s[6] |->
                      <<s[6][i][2], <<"fun", <<"self">> \o s[6][i][3], s[6][i][4], classEnv, FALSE>> >>]]
    IN CASE s[1] \in {"break", "continue"} -> stay([w EXCEPT !.sig = s[1]])
         [] s[1] = "do" -> stay(ExecAll(s[2], env, w))
         [] s[1] = "while" -> stay(Loop(s, env, w))
         [] s[1] \in {"def", "rest"} -> bind(w, s[2], <<"fun", s[3], s[4], Append(env, <<s[2], place>>), s[1] = "rest">>)
         [] s[1] = "try" -> stay(IF tried.sig = "raise" /\ caught
                                 THEN ExecAll(s[5], Append(env, <<s[4], Len(tried.store) + 1>>),
                                              Ok(Declare(tried, tried.val), None))
                                 ELSE tried)
         [] s[1] = "class" /\ super[1] # "class" -> stay(Error(w, "type_error"))
         [] s[1] = "class" /\ super[1] = "class" -> [w |-> [statics EXCEPT !.classes = Append(@, class),
                                                     !.store[place] = <<"class", Len(statics.classes) + 1>>],
                               env |-> classEnv]
         [] OTHER ->
              CASE value.sig # "ok" -> stay(value)
                [] value.sig = "ok" /\ s[1] = "var" -> bind(value, s[2], v)
                [] value.sig = "ok" /\ s[1] = "set" -> assign(value, v)
                [] value.sig = "ok" /\ s[1] = "expr" -> stay(value)
                [] value.sig = "ok" /\ s[1] = "if" ->
                       stay(ExecAll(IF True(value, v) THEN s[3] ELSE s[4], env, value))
                [] value.sig = "ok" /\ s[1] = "for" ->
                       stay(IF v[1] = "list" THEN Iteration(s, v, 1, env, value) ELSE Error(value, "type_error"))
                [] value.sig = "ok" /\ s[1] \in {"return", "raise"} -> stay([value EXCEPT !.sig = s[1]])

ExecAll(ss, env, w) ==
    FoldLeft(LAMBDA done, s : IF done.w.sig = "ok" THEN Exec(s, done.env, done.w) ELSE done,
             [w |-> w, env |-> env], ss).w

\* After a turn of a loop: does it go on?
GoesOn(w) == w.sig \in {"ok", "continue"}
Leave(w) == IF w.sig = "break" THEN Ok(w, None) ELSE w

Loop(s, env, w) ==
    Then(Eval(s[2], env, w), LAMBDA c :
        LET turn == ExecAll(s[3], env, c)
        IN IF ~True(c, c.val) THEN c ELSE IF GoesOn(turn) THEN Loop(s, env, Ok(turn, None)) ELSE Leave(turn))

Iteration(s, v, i, env, w) ==
    LET items == w.objs[v[2]].items
        turn == ExecAll(s[4], Append(env, <<s[2], Len(w.store) + 1>>), Declare(w, items[i]))
    IN IF i > Len(items) THEN Ok(w, None)
       ELSE IF GoesOn(turn) THEN Iteration(s, v, i + 1, env, Ok(turn, None)) ELSE Leave(turn)

\* What a program shows and how it ends, given the answers it gets.
Means(program, answers) ==
    LET start == [store |-> << >>, objs |-> << >>, classes |-> << >>, trace |-> << >>,
                  answers |-> answers, sig |-> "ok", val |-> None]
        end == ExecAll(program, << >>, start)
    IN [trace |-> end.trace, error |-> IF end.sig = "raise" THEN end.val ELSE None]
=============================================================================
