------------------------------ MODULE MCBerry ------------------------------
(* Small programs, by the construct they exercise.  "any()" is an answer from *)
(* outside, "probe(x)" shows a value to the outside.                          *)
EXTENDS BerryProgram, BerrySource

Id(x) == <<"id", x>>
Num(n) == <<"int", n>>
Bin(op, l, r) == <<"bin", op, l, r>>
Call1(f, e) == <<"call", Id(f), <<e>> >>
Ask == <<"call", Id("any"), << >> >>
Probe(e) == <<"expr", Call1("probe", e)>>
Var(x, e) == <<"var", x, e>>
Set(x, e) == <<"set", "=", Id(x), e>>
Do(ss) == <<"do", ss>>
If(c, ss) == <<"if", c, ss, << >> >>
IfElse(c, ss, tt) == <<"if", c, ss, tt>>
Fun(ss) == <<"fun", << >>, ss>>
Def(f, xs, ss) == <<"def", f, xs, ss>>
Ret(e) == <<"return", e>>
Raise(s) == <<"raise", <<"str", s>> >>
Try(ss, name, x, tt) == <<"try", ss, name, x, tt>>
Tail0(x) == <<"expr", <<"call", Id(x), << >> >> >>

MCCompiled(s) == LET tokens == Text(s) IN Compile(tokens)
MCMeaning(s, told) == LET m == Means(s, told) IN m

-----------------------------------------------------------------------------
(* Expressions over two variables, in the three places a variable can live. *)

Shallow == {Id("a"), Num(1), Ask, <<"un", "!", Ask>>, <<"un", "-", Id("a")>>}
           \cup {Bin(op, l, Id("a")) : op \in {"-", "&&", "||"}, l \in {Id("b"), Ask}}
Deep == {Bin(op, l, r) : op \in {"-", "&&", "||"}, l \in Shallow, r \in Shallow}
        \cup {<<"cond", c, t, <<"un", "!", Id("b")>> >> : c \in Shallow, t \in {Id("a"), Bin("<", Id("a"), Num(4))}}
        \cup {<<"un", "!", x>> : x \in Shallow}

Declared(ss) == <<Var("a", Num(5)), Var("b", Num(2))>> \o ss

Places(ss) == {Declared(ss), <<Do(Declared(ss))>>,
               <<Do(<<Var("a", Num(5)), Var("b", Num(2)), Def("g", << >>, ss), Tail0("g")>>)>>}

ExpPrograms == {<<Do(Declared(<<Var("c", e), Probe(Id("c"))>>))>> : e \in Deep}
               \cup UNION {Places(<<Set("a", e), Probe(Id("a"))>>) : e \in Shallow}
               \cup {<<Do(Declared(<<IfElse(e, <<Probe(Num(1))>>, <<Probe(Num(2))>>)>>))>> : e \in Deep}

-----------------------------------------------------------------------------
(* Assignments one after the other. *)

Rights == {Id("a"), Id("b"), Num(7), Bin("+", Id("a"), Id("b")), Bin("-", Id("b"), Id("a")),
           <<"list", <<Id("a"), Id("b")>> >>, <<"index", <<"list", <<Id("a"), Id("b")>> >>, Num(1)>>,
           <<"call", <<"lambda", <<"x">>, Bin("-", Id("x"), Id("b"))>>, <<Id("a")>> >>,
           <<"index", <<"map", <<Num(1), Id("b")>>, <<Id("a"), Id("b")>> >>, Num(1)>>}
Sets == {Set(x, e) : x \in {"a", "b"}, e \in Rights}
        \cup {<<"set", op, Id(x), e>> : op \in {"+=", "-="}, x \in {"a", "b"},
                                        e \in {Id("a"), Bin("+", Id("a"), Id("b"))}}
SetPrograms == UNION {Places(<<s, t, Probe(Id("a")), Probe(Id("b"))>>)
                      : s \in Sets, t \in {Set("b", Bin("-", Id("b"), Id("a"))), Set("a", Id("b")),
                                            <<"set", "+=", Id("b"), Bin("+", Id("a"), Id("b"))>>}}

-----------------------------------------------------------------------------
(* Loops, handlers and functions in each other, left in every way, with and  *)
(* without a closure that outlives its block.                                *)

Exits == {<< >>, << <<"break">> >>, << <<"continue">> >>, <<Ret(Num(9))>>, <<Raise("e")>>,
          <<Raise("f")>>}
Captures == {<< >>, <<Set("k", Fun(<<Ret(Bin("+", Id("a"), Id("v")))>>))>>,
             <<Set("k", Fun(<<Set("v", Bin("+", Id("v"), Num(1))), Ret(Id("v"))>>))>>}

\* A body that declares v, may capture it, may leave, and goes on.
Bodies == {<<Var("v", Id("a"))>> \o c \o <<Set("a", Bin("+", Id("a"), Num(1)))>>
           \o (IF x = << >> THEN << >> ELSE <<If(Ask, x)>>) \o <<Set("v", Bin("+", Id("v"), Id("a")))>>
           : c \in Captures, x \in Exits}

Wraps(ss) == {<<Do(ss)>>, <<<<"while", Ask, ss>> >>,
              <<<<"for", "i", <<"list", <<Num(3), Num(4)>> >>, ss>> >>,
              <<Try(ss, "e", "x", <<Probe(Id("x"))>>)>>, <<Try(ss, "", "x", <<Probe(Id("a"))>>)>>,
              <<Def("h", << >>, ss), Probe(<<"call", Id("h"), << >> >>)>>}

Nests == UNION {UNION {Wraps(w \o <<Probe(Id("a"))>>) : w \in Wraps(b)} : b \in Bodies}

\* break and continue are in a loop of their function, as the compiler asks.
RECURSIVE WellPlaced(_, _)
WellPlaced(ss, loop) ==
    \A i \in DOMAIN ss :
        LET s == ss[i] IN
        CASE s[1] \in {"break", "continue"} -> loop
          [] s[1] = "do" -> WellPlaced(s[2], loop)
          [] s[1] = "if" -> WellPlaced(s[3], loop) /\ WellPlaced(s[4], loop)
          [] s[1] = "while" -> WellPlaced(s[3], TRUE)
          [] s[1] \in {"for", "def"} -> WellPlaced(s[4], s[1] = "for")
          [] s[1] = "try" -> WellPlaced(s[2], loop) /\ WellPlaced(s[5], loop)
          [] OTHER -> TRUE

NestPrograms ==
    {<<Do(<<Var("k", <<"nil">>), Var("a", Num(1))>> \o n \o
          <<Var("p", Num(20)), Var("q", Num(30)), If(Id("k"), <<Probe(<<"call", Id("k"), << >> >>),
            Probe(<<"call", Id("k"), << >> >>)>>), Probe(Id("p")), Probe(Id("q"))>>)>>
     : n \in {m \in Nests : WellPlaced(m, FALSE)}}

-----------------------------------------------------------------------------
(* Operations that fail, each caught by name, by name of another, by any      *)
(* handler, by one in the calling function, or by none.                      *)

Nothing == <<"nil">>
ListOf(es) == <<"list", es>>
MapOf(k, e) == <<"map", <<k>>, <<e>> >>
Index(l, k) == <<"index", l, k>>
Member1(o, x) == <<"member", o, x>>
Method(o, x, es) == <<"method", o, x, es>>
SetIn(l, e) == <<"set", "=", l, e>>
Class(c, super, members, statics, methods) == <<"class", c, super, members, statics, methods>>

Failing == {Bin("/", Id("a"), Num(0)), Bin("%", Id("a"), Num(0)), Bin("+", Id("a"), Nothing), Bin("<", Nothing, Id("a")),
            <<"un", "-", Ask>>, <<"call", Nothing, <<Id("a")>> >>, Index(ListOf(<<Id("a")>>), Num(5)),
            Index(MapOf(Num(1), Id("a")), Num(5)), Index(Id("a"), Num(0)), Bin("..", Nothing, Id("a")),
            Member1(Id("a"), "x"), Method(Id("a"), "x", << >>)}
Working == {Bin("/", Num(-7), Id("a")), Bin("%", Num(-7), Id("a")), Bin("==", Nothing, Id("a")), Bin("!=", Nothing, Id("a")),
            <<"un", "~", Id("a")>>, Index(Bin("..", ListOf(<<Id("a")>>), Num(8)), Num(-1)),
            Index(MapOf(Num(1), Id("a")), Num(1)), Bin("*", Id("a"), Id("b")), Bin(">=", Id("a"), Id("b")),
            Bin(">", Id("a"), Id("b")), Bin("<=", Id("a"), Id("b")), Bin("==", Id("a"), Id("b"))}
FailingStats == {SetIn(Index(Id("l"), Num(5)), Id("b")), SetIn(Index(Id("a"), Num(5)), Id("b")),
                 SetIn(Member1(Id("a"), "x"), Id("b")), <<"for", "i", Id("a"), <<Probe(Id("i"))>> >>,
                 Class("D", "a", << >>, << >>, << >>)}
Attempts == {<<Probe(e)>> : e \in Failing \cup Working}
            \cup {<<Var("l", ListOf(<<Id("a")>>)), s>> : s \in FailingStats}

Handled(ss) == {ss, <<Try(ss, "type_error", "x", <<Probe(Id("x"))>>)>>,
                <<Try(ss, "", "x", <<Probe(Id("x")), <<"raise", Id("x")>> >>)>>,
                <<Def("h", << >>, ss \o <<Probe(Num(1))>>),
                  Try(<<Tail0("h")>>, "divzero_error", "x", <<Probe(Id("x"))>>)>>}

ErrorPrograms == UNION {{<<Do(Declared(n \o <<Probe(Num(2))>>))>> : n \in Handled(ss)} : ss \in Attempts}

-----------------------------------------------------------------------------
(* A class, one that inherits from it and one from that, with or without     *)
(* constructors of their own, and what can be done with their objects.       *)

Self(x) == Member1(Id("self"), x)
Init1 == Def("init", <<"v">>, <<SetIn(Self("x"), Id("v")), Set("n", Bin("+", Id("n"), Num(1)))>>)
Init2 == Def("init", <<"v", "w">>, <<SetIn(Self("y"), Id("w")), Probe(Id("v"))>>)
GetX == Def("get", << >>, <<Ret(Self("x"))>>)
GetY == Def("get", << >>, <<Ret(Self("y"))>>)
Sum2 == Def("sum", <<"k">>, <<Ret(Bin("+", Method(Id("self"), "get", << >>), Id("k")))>>)
New(c) == <<"call", Id(c), <<Num(6), Num(7)>> >>

Classes(a, b, c) == <<Class("A", "", <<"x">>, <<<<"s", Num(4)>> >>, a \o <<Sum2>>),
                      Class("B", "A", <<"y">>, << >>, b), Class("C", "B", << >>, <<<<"s", Id("n")>> >>, c)>>

Uses == {<<Probe(Method(Id("o"), "get", << >>))>>, <<Probe(Method(Id("o"), "sum", <<Num(1)>>))>>,
         <<Probe(Member1(Id("o"), "s")), SetIn(Member1(Id("A"), "s"), Num(8)), Probe(Member1(Id("o"), "s"))>>,
         <<SetIn(Member1(Id("o"), "x"), Id("n")), Probe(Method(Id("o"), "sum", <<Member1(Id("o"), "x")>>))>>,
         <<Probe(Member1(Id("o"), "y")), SetIn(Member1(Id("o"), "y"), Id("n")), Probe(Member1(Id("o"), "y"))>>,
         <<SetIn(Member1(Id("o"), "s"), Num(3)), Probe(Num(3))>>, <<Probe(<<"call", Id("o"), << >> >>)>>,
         <<Probe(Method(Id("o"), "x", << >>))>>, <<Probe(Method(Id("C"), "s", << >>))>>,
         <<Var("m", Member1(Id("C"), "get")), Probe(<<"call", Id("m"), <<Id("o")>> >>)>>,
         <<Probe(Member1(Id("C"), "x"))>>}

ClassPrograms ==
    {<<Do(<<Var("n", Num(1))>> \o Classes(a, b, c) \o <<Var("o", New(k))>> \o u)>>
     : a \in {<<GetX>>, <<Init1, GetX>>}, b \in {<< >>, <<Init2>>, <<GetY>>}, c \in {<< >>, <<GetX, Init1>>},
       k \in {"A", "B", "C"}, u \in Uses}

\* Recursion, functions with the rest of the arguments, with too few and too
\* many, lists and maps.
OtherPrograms ==
    {<<Def("f", <<"n">>, <<If(Bin("<", Id("n"), Num(1)), <<Ret(Num(0))>>),
                           Ret(Bin("+", Id("n"), Call1("f", Bin("-", Id("n"), Num(1)))))>>),
       Probe(Call1("f", Num(3)))>>,
     <<Do(<<Var("t", Num(0)), <<"for", "i", ListOf(<<Num(1), Num(2)>>), <<<<"set", "+=", Id("t"), Id("i")>> >> >>,
            <<"while", Bin("<", Id("t"), Num(9)), <<<<"set", "*=", Id("t"), Num(2)>> >> >>, Probe(Id("t"))>>)>>,
     <<Do(<< <<"for", "i", ListOf(<<Num(1), Num(2)>>), << >> >>, Probe(Num(1))>>)>>,
     <<Do(<<Var("m", MapOf(Num(1), Num(2))), SetIn(Index(Id("m"), Num(3)), Num(4)), SetIn(Index(Id("m"), Num(1)), Num(5)),
            Probe(Bin("-", Index(Id("m"), Num(1)), Index(Id("m"), Num(3)))), If(Id("m"), <<Probe(Num(1))>>)>>)>>,
     <<Do(<<Var("l", ListOf(<<Num(1)>>)), SetIn(Index(Id("l"), Num(0)), Fun(<<Ret(Id("l"))>>)),
            Probe(Bin("==", <<"call", Index(Id("l"), Num(0)), << >> >>, Id("l")))>>)>>}
    \cup {<<d, Probe(<<"call", Id("g"), SubSeq(<<Num(5), Num(6), Num(7)>>, 1, n)>>)>>
          : n \in 0..3, d \in {<<"rest", "g", <<"a", "b">>, <<Ret(Bin("==", Id("b"), Id("a")))>> >>,
                                <<"rest", "g", <<"b">>, <<Ret(Index(Id("b"), Num(-1)))>> >>,
                                Def("g", <<"a", "b">>, <<Ret(Id("b"))>>)}}

\* Programs the compiler breaks, one for each way.
Keep(x) == Set("k", Fun(<<Ret(Id(x))>>))
After == <<Var("p", Num(20)), Probe(<<"call", Id("k"), << >> >>)>>
BrokenPrograms ==
    {<<Do(<<Var("k", Nothing)>> \o n \o After)>> :
        n \in {<< <<"while", Num(1), <<Var("v", Num(7)), Keep("v"), <<"break">> >> >> >>,
              <<Try(<<Var("v", Num(7)), Keep("v"), Raise("e")>>, "e", "x", <<Probe(Id("x"))>>)>>,
              <<Def("f", <<"n">>, <<Var("v", Num(7)), <<"while", Num(1), <<If(Id("n"), <<Ret(Num(0))>>),
                                                                   Keep("v"), Set("n", Num(1))>> >> >>),
                Var("o", Call1("f", Num(0))), Var("q", Num(0))>>}}
    \cup {<<Do(Declared(<<Set("b", Bin("+", Id("b"), Id("a"))), Set("a", Id("b")), Probe(Id("b"))>>))>>,
          <<Do(Declared(<<Var("c", Bin("==", Bin("||", Id("b"), Id("a")), <<"bool", 1>>)), Probe(Id("c"))>>))>>}

AllPrograms == ExpPrograms \cup SetPrograms \cup NestPrograms \cup ErrorPrograms \cup ClassPrograms
               \cup OtherPrograms

=============================================================================
