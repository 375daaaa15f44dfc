------------------------------ MODULE BerryImage ------------------------------
(* A compiled program, as the compiler (BerryCode) hands it to the           *)
(* interpreter (BerryVm): its prototypes (bproto, be_object.h), the last of  *)
(* them the main function, its classes and the number of its globals; and    *)
(* what the interpreter relies on and never checks: it has no verifier.      *)
EXTENDS Integers, Sequences, SequencesExt, FiniteSets

\* An RK operand: a register, or 256 plus the number of a constant.
K(i) == 256 + i
IsK(x) == x >= 256

\* outlive is history: how many local variables outlive a jump out of a loop
\* or into an exception handler (NoScope: the instruction leaves no scope).
NoScope == 999

Relations == {"LT", "LE", "EQ", "NE", "GT", "GE"}
Arithmetic == {"ADD", "SUB", "MUL", "DIV", "MOD"}

Attributes(class) ==
    Range(class.vars) \cup Range(class.statics) \cup {class.methods[i].name : i \in DOMAIN class.methods}

-----------------------------------------------------------------------------
(* What an instruction uses. *)

\* The operands that are registers or constants.
Sources(i) ==
    CASE i.op \in Arithmetic \cup Relations \cup {"GETIDX", "SETIDX", "GETMBR", "SETMBR", "CONNECT", "GETMET"} ->
            {i.b, i.c}
      [] i.op \in {"MOVE", "NEG", "FLIP", "SETSUPER"} \/ (i.op = "RET" /\ i.a = 1)
         \/ (i.op = "RAISE" /\ i.a = 0) -> {i.b}
      [] i.op = "RAISE" /\ i.a = 1 -> {i.b, i.c}
      [] OTHER -> {}

\* The operands that are always registers.
PlainOperands(i) ==
    CASE i.op = "GETMET" -> {i.a, i.a + 1}
      [] i.op = "CALL" -> i.a..(i.a + i.b)
      [] i.op = "CATCH" -> i.a..(i.a + i.b - 1) \cup i.a..(i.a + i.c - 1)
      [] i.op \in {"JMP", "CLOSE", "CLASS", "EXBLK", "RAISE", "RET"} -> {}
      [] OTHER -> {i.a}

\* The registers an instruction uses.
Operands(i) == PlainOperands(i) \cup {x \in Sources(i) : ~IsK(x)}

\* The registers of a function from which its inner functions capture.
CapturedBy(descs) == {descs[d].idx : d \in {e \in DOMAIN descs : descs[e].instack}}

\* The class of a CLASS or LDCONST instruction, and the captures of its methods.
ClassMade(p, i) == p.ktab[i.b + 1].v
CapturedByMethods(im, c) ==
    UNION {CapturedBy(im.protos[im.classes[c].methods[m].proto].upvals) : m \in DOMAIN im.classes[c].methods}

-----------------------------------------------------------------------------
(* What is known before each instruction, whichever way it is reached: the   *)
(* try blocks around it (tries: the positions of their EXBLK instructions),  *)
(* and the registers that a closure may have captured (open).                *)

Kept(n, a) == [a EXCEPT !.open = {x \in @ : x < n}]

\* Behind an instruction that did not fail.
Passed(im, p, pc, a) ==
    LET i == p.code[pc + 1] IN
    CASE i.op \in {"JMP", "JMPT", "JMPF"} -> Kept(i.outlive, a)
      [] i.op = "CLOSE" -> Kept(i.a, a)
      [] i.op = "CLOSURE" -> [a EXCEPT !.open = @ \cup CapturedBy(im.protos[p.ptab[i.b + 1]].upvals)]
      [] i.op = "CLASS" -> [a EXCEPT !.open = @ \cup CapturedByMethods(im, ClassMade(p, i))]
      [] i.op = "EXBLK" /\ i.a = 0 -> [a EXCEPT !.tries = Append(@, pc + 1)]
      [] i.op = "EXBLK" /\ i.a # 0 -> [a EXCEPT !.tries = SubSeq(@, 1, Len(@) - i.b)]
      [] OTHER -> a

\* In the handler of the innermost try block.
Caught(p, a) == Kept(p.code[Last(a.tries)].outlive, [a EXCEPT !.tries = Front(@)])

\* Where an instruction that does not fail may go on.
Targets(p, pc) ==
    LET i == p.code[pc + 1] IN
    CASE i.op = "JMP" -> {pc + 1 + i.b}
      [] i.op \in {"JMPT", "JMPF"} -> {pc + 1, pc + 1 + i.b}
      [] i.op = "LDBOOL" -> {pc + 1 + i.c}
      [] i.op = "CATCH" -> {pc + 1, pc + 2}
      [] i.op \in {"RET", "RAISE"} -> {}
      [] OTHER -> {pc + 1}

\* The handler of the innermost try block.
HandlerOf(p, a) == LET t == Last(a.tries) IN t + p.code[t].b

\* All ways out of an instruction: where to, and what is known there.
Flows(im, p, pc, a) ==
    {<<t, Passed(im, p, pc, a)>> : t \in Targets(p, pc)}
    \cup (IF a.tries = << >> THEN {} ELSE {<<HandlerOf(p, a), Caught(p, a)>>})

\* All of a function, as far as it can be reached, in passes over its code.
Passes == 3
Unreached == [tries |-> <<0>>, open |-> {}]

Known(im, p) ==
    LET Meet(known, flow) ==
            LET t == flow[1] IN
            [known EXCEPT ![t] = IF @ = Unreached THEN flow[2] ELSE [@ EXCEPT !.open = @ \cup flow[2].open]]
        Pass(known, pc) ==
            IF known[pc] = Unreached THEN known ELSE FoldLeft(Meet, known, SetToSeq(Flows(im, p, pc, known[pc])))
        n == Len(p.code)
        start == [pc \in 0..(n - 1) |-> IF pc = 0 THEN [tries |-> << >>, open |-> {}] ELSE Unreached]
        last == FoldLeft(Pass, start, [k \in 1..(Passes * n) |-> (k - 1) % n])
    IN [pc \in {x \in 0..(n - 1) : last[x] # Unreached} |-> last[pc]]

-----------------------------------------------------------------------------
(* Legal code. *)

\* A captured variable that is in scope, and a handler, are below the
\* registers a call uses.
Below(p, a, n) ==
    /\ \A x \in a.open : x < n
    /\ \A t \in DOMAIN a.tries : p.code[a.tries[t]].outlive <= n

\* Upvalues that a function p can give to a function inside it.
Capturable(p, descs) ==
    \A d \in DOMAIN descs : IF descs[d].instack THEN descs[d].idx \in 0..(p.nstack - 1)
                            ELSE descs[d].idx + 1 \in DOMAIN p.upvals

\* Instruction pc is the CLASS of class c, or puts it into its variable before.
Making(p, pc, c) ==
    LET is(i) == i.op = "CLASS" /\ ClassMade(p, i) = c
    IN \/ pc + 1 \in DOMAIN p.code /\ is(p.code[pc + 1])
       \/ pc + 2 \in DOMAIN p.code /\ p.code[pc + 1].op = "SETGBL" /\ is(p.code[pc + 2])

LegalOperands(im, p, pc) ==
    LET i == p.code[pc + 1] IN
    /\ Operands(i) \subseteq 0..(p.nstack - 1)
    /\ \A x \in Sources(i) : IsK(x) => x - 256 + 1 \in DOMAIN p.ktab /\ p.ktab[x - 256 + 1].t # "class"
    /\ i.op \in {"GETGBL", "SETGBL"} => i.b + 1 \in 1..im.globals
    /\ i.op \in {"GETUPV", "SETUPV"} => i.b + 1 \in DOMAIN p.upvals
    /\ i.op = "CALL" => i.b \in Nat
    /\ i.op = "RET" => i.a \in {0, 1}
    /\ i.op = "RAISE" => i.a \in 0..2
    /\ i.op = "LDCONST" => /\ i.b \in Nat /\ i.b + 1 \in DOMAIN p.ktab
                           /\ p.ktab[i.b + 1].t = "class" => Making(p, pc + 1, ClassMade(p, i))
    /\ i.op = "CLOSURE" => /\ i.b + 1 \in DOMAIN p.ptab
                           /\ p.ptab[i.b + 1] \in DOMAIN im.protos
                           /\ Capturable(p, im.protos[p.ptab[i.b + 1]].upvals)
    /\ i.op = "CLASS" => /\ i.b + 1 \in DOMAIN p.ktab /\ p.ktab[i.b + 1].t = "class"
                         /\ \A m \in DOMAIN im.classes[ClassMade(p, i)].methods :
                               Capturable(p, im.protos[im.classes[ClassMade(p, i)].methods[m].proto].upvals)

LegalStep(im, p, pc, known) ==
    LET i == p.code[pc + 1]
        a == known[pc]
    IN /\ LegalOperands(im, p, pc)
       /\ \A flow \in Flows(im, p, pc, a) :
             /\ flow[1] \in DOMAIN known
             /\ known[flow[1]].tries = flow[2].tries
             /\ flow[2].open \subseteq known[flow[1]].open
       /\ i.op = "EXBLK" /\ i.a # 0 => i.b \in 0..Len(a.tries)
       /\ i.op = "CALL" => Below(p, known[pc + 1], i.a)
       /\ i.op = "CATCH" => i.c <= 2
       /\ i.op = "RET" => a.tries = << >> /\ a.open = {}

Instructions == [op : STRING, a : Int, b : Int, c : Int, outlive : Nat]
Knowledge(p) == [tries : Seq(1..Len(p.code)), open : SUBSET (0..(p.nstack - 1))]

LegalProto(im, p) ==
    LET known == Known(im, p) IN
    /\ p.code \in Seq(Instructions)
    /\ p.nstack \in Nat /\ p.argc \in 0..p.nstack /\ (p.vararg => p.argc > 0)
    /\ \A k \in DOMAIN p.ktab :
          p.ktab[k].t \in {"int", "str"} \/ (p.ktab[k].t = "class" /\ p.ktab[k].v \in DOMAIN im.classes)
    /\ 0 \in DOMAIN known /\ known[0].tries = << >>
    /\ \A pc \in DOMAIN known : /\ pc \in 0..(Len(p.code) - 1) /\ known[pc] \in Knowledge(p)
                                /\ LegalStep(im, p, pc, known)

Legal(im) ==
    /\ DOMAIN im.protos = 1..Len(im.protos) /\ Len(im.protos) \in Nat \ {0}
    /\ Last(im.protos).upvals = << >> /\ im.globals \in Nat
    /\ \A k \in DOMAIN im.protos : LegalProto(im, im.protos[k])
    /\ DOMAIN im.classes = 1..Len(im.classes) /\ Len(im.classes) \in Nat
    /\ \A c \in DOMAIN im.classes : \A m \in DOMAIN im.classes[c].methods :
          im.classes[c].methods[m].proto \in DOMAIN im.protos

=============================================================================
