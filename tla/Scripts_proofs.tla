----------------------------- MODULE Scripts_proofs -----------------------------
(***************************************************************************)
(* Theorems about scripts: about the interpreter that runs them, for any   *)
(* programs whose code is legal, any sizes of the stack and any answers of *)
(* the host; and, at the end, about smartcar.be, for every value of its    *)
(* constants.                                                              *)
(***************************************************************************)
EXTENDS BerryProgram, Smartcar, Inductions, SequenceTheorems, TLAPS

-----------------------------------------------------------------------------
(* The inductive invariant IInv: as long as no captured variable has left  *)
(* its scope without CLOSE (unclosed), every call runs legal code at a     *)
(* place that can be reached, with the try blocks around that place set in *)
(* excs, and only variables in scope there captured; and every value       *)
(* refers to something that exists.                                        *)

FrameSet == [func : Nat, reg : Nat, top : Nat, ip : Nat]
HandlerSet == [depth : Nat, ip : Nat]
IsList(s) == s = [i \in 1..Len(s) |-> s[i]] /\ Len(s) \in Nat

\* The calls, the running one last.
Depth == Len(frames) + 1
Call(k) == IF k <= Len(frames) THEN frames[k] ELSE regs

\* The code a call runs, and what is known at the instruction it is at.
ProtoOf(f) == image.protos[ClosureOf(stack[f.func + 1]).proto]
KnownIn(f) == Known(image, ProtoOf(f))
Before(f) == KnownIn(f)[f.ip]

-----------------------------------------------------------------------------
(* Values.                                                                 *)

\* A closure has all the upvalues its code uses.
Complete(c) ==
    /\ c.proto \in DOMAIN image.protos
    /\ DOMAIN c.upvals = DOMAIN image.protos[c.proto].upvals
    /\ \A d \in DOMAIN c.upvals : c.upvals[d] \in Upvalues

IsFunction(id) ==
    /\ id[1] \in DOMAIN closures /\ id[2] \in DOMAIN closures[id[1]]
    /\ Complete(closures[id[1]][id[2]])

\* The class statement has been run: its methods have their upvalues.
ClassReady(c) == c \in DOMAIN classes /\ \A m \in DOMAIN closures[c + 1] : Complete(closures[c + 1][m])

Plain == {"int", "bool", "nil", "str", "nat", "not a method"}
InHeap == {"list", "map", "iter", "obj"}

Solid(v) ==
    \/ v[1] \in Plain
    \/ v[1] = "fun" /\ IsFunction(v[2])
    \/ v[1] = "class" /\ ClassReady(v[2])
    \/ v[1] \in InHeap /\ v[2] \in DOMAIN heap /\ heap[v[2]].type = v[1]

\* A class is in a register (a global) from LDCONST (SETGBL) to CLASS, the
\* next instruction: its methods have no upvalues yet.
Pending(v) == v[1] = "class" /\ v[2] \in DOMAIN classes /\ Making(Proto, regs.ip, v[2])
Valid(v) == Solid(v) \/ Pending(v)

-----------------------------------------------------------------------------
(* The parts of the state.                                                 *)

StackOK == IsList(stack) /\ \A s \in DOMAIN stack : Valid(stack[s])
GlobalsOK == DOMAIN globals = 1..image.globals /\ \A g \in DOMAIN globals : Valid(globals[g])

ClosuresOK ==
    /\ DOMAIN closures = 1..(Len(image.classes) + 1)
    /\ IsList(closures[1])
    /\ \A i \in DOMAIN closures[1] :
          LET c == closures[1][i] IN c = [proto |-> c.proto, upvals |-> c.upvals] /\ Complete(c)
    /\ \A c \in DOMAIN image.classes :
          LET ms == image.classes[c].methods IN
          /\ DOMAIN closures[c + 1] = DOMAIN ms
          /\ \A m \in DOMAIN ms : closures[c + 1][m] = [proto |-> ms[m].proto, upvals |-> closures[c + 1][m].upvals]

\* An open upvalue is of a variable that is in scope where its call is.
InScope(slot) == \E k \in 1..Depth : slot - Call(k).reg \in Before(Call(k)).open
UpvalueOK(u) == /\ u = [slot |-> u.slot, v |-> u.v] /\ u.slot \in Int /\ Solid(u.v)
                /\ u.slot >= 0 => InScope(u.slot)
UpvalsOK == IsList(upvals) /\ \A u \in Upvalues : UpvalueOK(Upvalue(u))

\* Lists, maps, iterators and objects.
RecordOK(r) ==
    \/ /\ r.type = "list" /\ r = [type |-> "list", items |-> r.items] /\ IsList(r.items)
       /\ \A k \in DOMAIN r.items : Solid(r.items[k])
    \/ /\ r.type = "map" /\ r = [type |-> "map", items |-> r.items] /\ IsList(r.items)
       /\ \A k \in DOMAIN r.items : Solid(r.items[k][1]) /\ Solid(r.items[k][2])
    \/ /\ r.type = "iter" /\ r = [type |-> "iter", of |-> r.of, next |-> r.next]
       /\ r.of[1] = "list" /\ Solid(r.of) /\ r.next \in Nat
    \/ /\ r.type = "obj" /\ r = [type |-> "obj", parts |-> r.parts]
       /\ DOMAIN r.parts \subseteq 0..Len(image.classes)
       /\ \A n \in DOMAIN r.parts :
             LET q == r.parts[n] IN
             /\ q = [class |-> q.class, vals |-> q.vals] /\ ClassReady(q.class)
             /\ DOMAIN q.vals = DOMAIN image.classes[q.class].vars
             /\ \A k \in DOMAIN q.vals : Solid(q.vals[k])
HeapOK == IsList(heap) /\ \A h \in DOMAIN heap : RecordOK(heap[h])

\* A method of a class may wait for the class statement to complete it.
AttrOK(c, a) ==
    /\ a = [kind |-> a.kind, v |-> a.v]
    /\ a.kind = "var" => a.v \in DOMAIN image.classes[c].vars
    /\ a.kind # "var" => Solid(a.v) \/ \E m \in DOMAIN closures[c + 1] : a.v = <<"fun", <<c + 1, m>> >>
ClassOK(c) ==
    LET r == classes[c] IN
    /\ r = [super |-> r.super, attrs |-> r.attrs]
    /\ r.super = 0 \/ ClassReady(r.super)
    /\ \A name \in DOMAIN r.attrs : AttrOK(c, r.attrs[name])
ClassesOK ==
    /\ IsList(classes) /\ DOMAIN classes = DOMAIN image.classes
    /\ \A c \in DOMAIN classes : ClassOK(c)

\* A call has its registers in the stack, two places above them for an
\* exception, and is at an instruction that can be reached.
FrameOK(f) ==
    /\ f.func + 1 \in DOMAIN stack /\ stack[f.func + 1][1] = "fun" /\ Solid(stack[f.func + 1])
    /\ f.func < f.reg /\ f.top = f.reg + ProtoOf(f).nstack /\ f.top + 2 \in DOMAIN stack
    /\ f.ip \in DOMAIN KnownIn(f)
\* A later call g uses nothing of what is captured or restored of f.
Apart(f, g) == f.reg <= g.func /\ Below(ProtoOf(f), Before(f), g.func - f.reg)
FramesOK ==
    /\ frames \in Seq(FrameSet) /\ regs \in FrameSet
    /\ \A k \in 1..Depth : FrameOK(Call(k))
    /\ \A j, k \in 1..Depth : j < k => Apart(Call(j), Call(k))

\* The handlers that call k has set are those of the try blocks ts, in order.
HandlersOf(es, k, ts) ==
    \E lo \in 0..Len(es) :
        /\ lo + Len(ts) <= Len(es)
        /\ \A h \in DOMAIN es : es[h].depth = k - 1 <=> h \in (lo + 1)..(lo + Len(ts))
        /\ \A j \in DOMAIN ts : es[lo + j].ip = ts[j]
\* Handlers belong to the first d calls, in the order of the calls.
HandlersBelow(es, d) ==
    /\ es \in Seq(HandlerSet)
    /\ \A h \in DOMAIN es : es[h].depth < d
    /\ \A g, h \in DOMAIN es : g < h => es[g].depth <= es[h].depth
HandlersOK ==
    /\ HandlersBelow(excs, Depth)
    /\ \A k \in 1..Depth : HandlersOf(excs, k, Before(Call(k)).tries)

Machine ==
    /\ Legal(image)
    /\ FramesOK /\ HandlersOK /\ StackOK /\ GlobalsOK /\ ClosuresOK /\ UpvalsOK /\ HeapOK /\ ClassesOK

IInv ==
    \/ /\ result = <<"idle">> /\ frames = << >> /\ excs = << >> /\ upvals = << >> /\ heap = << >>
    \/ result = <<"running">> /\ (~unclosed => Machine)
    \/ result[1] \in {"done", "raise"} /\ (~unclosed => excs = << >>)

-----------------------------------------------------------------------------
(* Lists.                                                                  *)

\* A function on the first numbers is a list.
LEMMA ListMade ==
    ASSUME NEW n \in Nat, NEW s, s = [i \in 1..n |-> s[i]]
    PROVE  IsList(s) /\ Len(s) = n /\ DOMAIN s = 1..n
<1> DEFINE S == {s[i] : i \in 1..n}
<1>1. s \in [1..n -> S]
  <2>1. DOMAIN s = 1..n
    OBVIOUS
  <2>2. \A i \in 1..n : s[i] \in S
    OBVIOUS
  <2> HIDE DEF S
  <2> QED
    BY <2>1, <2>2
<1> HIDE DEF S
<1>2. s \in Seq(S) /\ Len(s) = n
  BY <1>1
<1> QED
  BY <1>1, <1>2 DEF IsList

\* A sequence is a list.
LEMMA ListOfSeq ==
    ASSUME NEW S, NEW s \in Seq(S)
    PROVE  IsList(s)
<1>1. Len(s) \in Nat /\ s \in [1..Len(s) -> S]
  BY LenProperties
<1> QED
  BY <1>1 DEF IsList

\* A list is a sequence.
LEMMA ListIs ==
    ASSUME NEW s, IsList(s)
    PROVE  /\ s \in Seq({s[i] : i \in 1..Len(s)})
           /\ Len(s) \in Nat /\ DOMAIN s = 1..Len(s)
<1> DEFINE S == {s[i] : i \in 1..Len(s)}
<1>1. Len(s) \in Nat /\ DOMAIN s = 1..Len(s)
  BY DEF IsList
<1>2. s \in [1..Len(s) -> S]
  <2>1. s = [i \in 1..Len(s) |-> s[i]]
    BY DEF IsList
  <2>2. \A i \in 1..Len(s) : s[i] \in S
    OBVIOUS
  <2> HIDE DEF S
  <2> QED
    BY <2>1, <2>2
<1>3. s \in Seq(S)
  <2> HIDE DEF S
  <2> QED
    BY <1>1, <1>2
<1> QED
  BY <1>1, <1>3

\* A list with one more item.
LEMMA ListAppend ==
    ASSUME NEW s, IsList(s), NEW x
    PROVE  /\ IsList(Append(s, x)) /\ Len(Append(s, x)) = Len(s) + 1
           /\ DOMAIN Append(s, x) = 1..(Len(s) + 1)
           /\ \A i \in 1..Len(s) : Append(s, x)[i] = s[i]
           /\ Append(s, x)[Len(s) + 1] = x
<1> DEFINE S == {s[i] : i \in 1..Len(s)}
           T == S \cup {x}
<1>1. s \in Seq(S) /\ Len(s) \in Nat
  BY ListIs
<1> HIDE DEF S
<1>2. s \in Seq(T) /\ x \in T
  BY <1>1
<1> HIDE DEF T
<1>3. PICK t : t = Append(s, x)
  BY Zenon
<1>4. /\ t \in Seq(T) /\ Len(t) = Len(s) + 1
      /\ \A i \in 1..Len(s) : t[i] = s[i]
      /\ t[Len(s) + 1] = x
  BY <1>2, <1>3, AppendProperties
<1>5. IsList(t)
  BY <1>4, ListOfSeq
<1>6. DOMAIN t = 1..(Len(s) + 1)
  BY <1>4, <1>5 DEF IsList
<1> QED
  BY <1>3, <1>4, <1>5, <1>6

\* A list in which an item is another one.
LEMMA ListExcept ==
    ASSUME NEW s, IsList(s), NEW k, NEW x
    PROVE  LET t == [s EXCEPT ![k] = x]
           IN IsList(t) /\ Len(t) = Len(s) /\ DOMAIN t = DOMAIN s
<1>1. PICK t : t = [s EXCEPT ![k] = x]
  BY Zenon
<1>2. Len(s) \in Nat /\ DOMAIN s = 1..Len(s)
  BY DEF IsList
<1>3. t = [i \in 1..Len(s) |-> t[i]]
  BY <1>1, <1>2, Zenon
<1> QED
  BY <1>1, <1>2, <1>3, ListMade

\* The first items of a list.
LEMMA ListFirst ==
    ASSUME NEW s, IsList(s), NEW n \in 0..Len(s)
    PROVE  LET t == SubSeq(s, 1, n)
           IN IsList(t) /\ Len(t) = n /\ DOMAIN t = 1..n /\ \A i \in 1..n : t[i] = s[i]
<1>1. PICK t : t = SubSeq(s, 1, n)
  BY Zenon
<1>2. Len(s) \in Nat
  BY DEF IsList
<1>3. t = [i \in 1..n |-> s[i]]
  BY <1>1, <1>2, SMT
<1>4. n \in Nat /\ t = [i \in 1..n |-> t[i]]
  BY <1>2, <1>3
<1> QED
  BY <1>1, <1>3, <1>4, ListMade, Zenon

-----------------------------------------------------------------------------
(* What is known at the instruction of a call.                             *)

\* Each call is in order.
LEMMA CallIs ==
    ASSUME FramesOK, NEW k \in 1..Depth
    PROVE  Call(k) \in FrameSet /\ FrameOK(Call(k)) /\ Len(frames) \in Nat
<1>1. Len(frames) \in Nat /\ \A j \in 1..Len(frames) : frames[j] \in FrameSet
  BY DEF FramesOK
<1>2. k \in 1..(Len(frames) + 1)
  BY DEF Depth
<1> QED
  BY <1>1, <1>2 DEF FramesOK, Call

\* The running call is the last.
LEMMA Running1 ==
    ASSUME FramesOK
    PROVE  /\ Depth = Len(frames) + 1 /\ Depth \in Nat /\ Depth \in 1..Depth /\ Len(frames) \in Nat
           /\ Call(Depth) = regs /\ \A k \in 1..Len(frames) : k \in 1..Depth /\ Call(k) = frames[k]
BY DEF FramesOK, Depth, Call

\* A call runs legal code.
LEMMA CodeAt ==
    ASSUME Machine, NEW k \in 1..Depth
    PROVE  LET f == Call(k)
               p == ProtoOf(f)
           IN /\ f \in FrameSet /\ FrameOK(f)
              /\ ClosureOf(stack[f.func + 1]).proto \in DOMAIN image.protos
              /\ LegalProto(image, p) /\ LegalStep(image, p, f.ip, KnownIn(f))
              /\ f.ip \in 0..(Len(p.code) - 1) /\ p.code[f.ip + 1] \in Instructions
              /\ Before(f) \in Knowledge(p) /\ p.nstack \in Nat
              /\ Before(f).tries \in Seq(Nat)
              /\ \A j \in DOMAIN Before(f).tries : p.code[Before(f).tries[j]] \in Instructions
<1> DEFINE f == Call(k)
           p == ProtoOf(f)
<1>1. f \in FrameSet /\ FrameOK(f)
  BY CallIs, Zenon DEF Machine
<1>2. ClosureOf(stack[f.func + 1]).proto \in DOMAIN image.protos
  <2>1. stack[f.func + 1][1] = "fun" /\ Solid(stack[f.func + 1])
    BY <1>1 DEF FrameOK
  <2>2. IsFunction(stack[f.func + 1][2])
    BY <2>1 DEF Solid, Plain, InHeap
  <2> QED
    BY <2>2, Zenon DEF IsFunction, Complete, ClosureOf
<1>3. LegalProto(image, p)
  BY <1>2 DEF Machine, Legal, ProtoOf
<1> HIDE DEF f, p
<1>4. f.ip \in DOMAIN KnownIn(f) /\ KnownIn(f) = Known(image, p)
  BY <1>1 DEF FrameOK, KnownIn, p
<1>5. /\ LegalStep(image, p, f.ip, KnownIn(f))
      /\ f.ip \in 0..(Len(p.code) - 1) /\ KnownIn(f)[f.ip] \in Knowledge(p)
      /\ p.code \in Seq(Instructions) /\ p.nstack \in Nat
  BY <1>3, <1>4 DEF LegalProto
<1>6. p.code[f.ip + 1] \in Instructions
  <2>1. Len(p.code) \in Nat
    BY <1>5
  <2>2. f.ip + 1 \in 1..Len(p.code)
    BY <1>5, <2>1
  <2> QED
    BY <1>5, <2>2
<1>7. PICK ts : ts = KnownIn(f)[f.ip].tries
  OBVIOUS
<1>8. ts \in Seq(1..Len(p.code)) /\ Len(p.code) \in Nat /\ p.code \in Seq(Instructions)
  BY <1>5, <1>7 DEF Knowledge
<1>9. ts \in Seq(Nat) /\ \A j \in DOMAIN ts : p.code[ts[j]] \in Instructions
  <2>1. \A j \in 1..Len(ts) : ts[j] \in 1..Len(p.code)
    BY <1>8
  <2>2. \A j \in 1..Len(ts) : ts[j] \in Nat
    BY <1>8, <2>1
  <2>3. ts \in Seq(Nat)
    <3>1. ts \in [1..Len(ts) -> Nat] /\ Len(ts) \in Nat
      BY <1>8, <2>2
    <3> QED
      BY <3>1
  <2> QED
    BY <1>8, <2>1, <2>3
<1> QED
  BY <1>1, <1>2, <1>3, <1>5, <1>6, <1>7, <1>9 DEF f, p, Before

\* The running call, its registers and its instruction.
LEMMA Here ==
    ASSUME Machine
    PROVE  /\ regs \in FrameSet /\ FrameOK(regs)
           /\ Proto = ProtoOf(regs) /\ KnownIn(regs) = Known(image, Proto)
           /\ LegalProto(image, Proto) /\ LegalStep(image, Proto, regs.ip, KnownIn(regs))
           /\ LegalOperands(image, Proto, regs.ip)
           /\ regs.ip \in 0..(Len(Proto.code) - 1) /\ I \in Instructions
           /\ Before(regs) \in Knowledge(Proto) /\ Proto.nstack \in Nat
           /\ regs.func + 1 \in DOMAIN stack /\ regs.func < regs.reg
           /\ regs.top = regs.reg + Proto.nstack
           /\ 1..(regs.top + 2) \subseteq DOMAIN stack
           /\ IsList(stack) /\ DOMAIN stack = 1..Len(stack) /\ Len(stack) \in Nat
<1>1. Depth \in 1..Depth /\ Call(Depth) = regs
  BY Running1 DEF Machine
<1>2. /\ regs \in FrameSet /\ FrameOK(regs)
      /\ LegalProto(image, ProtoOf(regs)) /\ LegalStep(image, ProtoOf(regs), regs.ip, KnownIn(regs))
      /\ regs.ip \in 0..(Len(ProtoOf(regs).code) - 1) /\ ProtoOf(regs).code[regs.ip + 1] \in Instructions
      /\ Before(regs) \in Knowledge(ProtoOf(regs)) /\ ProtoOf(regs).nstack \in Nat
  BY <1>1, CodeAt
<1>3. Proto = ProtoOf(regs)
  BY DEF Proto, ProtoOf
<1>4. IsList(stack) /\ DOMAIN stack = 1..Len(stack) /\ Len(stack) \in Nat
  BY ListIs DEF Machine, StackOK
<1>5. regs.func + 1 \in DOMAIN stack /\ regs.func < regs.reg /\ regs.top = regs.reg + Proto.nstack
      /\ regs.top + 2 \in DOMAIN stack
  BY <1>2, <1>3 DEF FrameOK
<1>6. 1..(regs.top + 2) \subseteq DOMAIN stack
  BY <1>2, <1>4, <1>5 DEF FrameSet
<1>7. LegalOperands(image, Proto, regs.ip)
  BY <1>2, <1>3 DEF LegalStep
<1>8. KnownIn(regs) = Known(image, Proto) /\ I \in Instructions
  BY <1>2, <1>3 DEF KnownIn, I
<1> QED
  BY <1>2, <1>3, <1>4, <1>5, <1>6, <1>7, <1>8

\* Where an instruction goes on, and what is known there.
LEMMA Flow ==
    ASSUME Machine, NEW t \in Targets(Proto, regs.ip)
    PROVE  LET a == Passed(image, Proto, regs.ip, Before(regs))
           IN /\ t \in DOMAIN KnownIn(regs)
              /\ KnownIn(regs)[t].tries = a.tries /\ a.open \subseteq KnownIn(regs)[t].open
<1> DEFINE a == Passed(image, Proto, regs.ip, Before(regs))
<1>1. <<t, a>> \in Flows(image, Proto, regs.ip, Before(regs))
  BY DEF Flows
<1>2. LegalStep(image, Proto, regs.ip, KnownIn(regs))
  BY Here
<1> HIDE DEF a
<1>3. \A flow \in Flows(image, Proto, regs.ip, Before(regs)) :
         /\ flow[1] \in DOMAIN KnownIn(regs)
         /\ KnownIn(regs)[flow[1]].tries = flow[2].tries
         /\ flow[2].open \subseteq KnownIn(regs)[flow[1]].open
  BY <1>2, Zenon DEF LegalStep, Before
<1> QED
  BY <1>1, <1>3 DEF a

Special == {"JMP", "JMPT", "JMPF", "CLOSE", "CLOSURE", "CLASS", "EXBLK"}

\* Most instructions leave what is known as it is.
LEMMA FlowPlain ==
    ASSUME Machine, I.op \notin Special, NEW t \in Targets(Proto, regs.ip)
    PROVE  /\ t \in DOMAIN KnownIn(regs)
           /\ KnownIn(regs)[t].tries = Before(regs).tries
           /\ Before(regs).open \subseteq KnownIn(regs)[t].open
<1>1. Passed(image, Proto, regs.ip, Before(regs)) = Before(regs)
  BY Zenon DEF Passed, Special, I
<1> QED
  BY <1>1, Flow, Zenon

\* A register that an instruction uses.
LEMMA OperandIs ==
    ASSUME Machine, NEW x \in Operands(I)
    PROVE  /\ x \in 0..(Proto.nstack - 1)
           /\ Slot(x) \in DOMAIN stack /\ Slot(x) \in Nat
           /\ regs.reg < Slot(x) /\ Slot(x) <= regs.top
<1>1. x \in 0..(Proto.nstack - 1)
  BY Here, Zenon DEF LegalOperands, I
<1>2. regs.reg \in Nat /\ regs.top \in Nat
  BY Here DEF FrameSet
<1>3. regs.reg < Slot(x) /\ Slot(x) <= regs.top /\ Slot(x) \in Nat
  BY <1>1, <1>2, Here, SMTT(30) DEF Slot
<1>4. Slot(x) \in 1..(regs.top + 2)
  BY <1>2, <1>3
<1> QED
  BY <1>1, <1>3, <1>4, Here, Zenon

\* No value is of a class that is being made.
Settled ==
    /\ \A s \in DOMAIN stack : Solid(stack[s])
    /\ \A g \in DOMAIN globals : Solid(globals[g])

\* Between a class and the statement that makes it there is no other.
LEMMA SettledHere ==
    ASSUME Machine, I.op \notin {"SETGBL", "CLASS"}
    PROVE  Settled
<1>1. ASSUME NEW v PROVE ~Pending(v)
  BY DEF Pending, Making, I
<1> QED
  BY <1>1, Zenon DEF Machine, StackOK, GlobalsOK, Valid, Settled

\* A source of an instruction.
LEMMA SourceIs ==
    ASSUME Machine, Settled, NEW x \in Sources(I)
    PROVE  Solid(RK(x))
<1>1. CASE IsK(x)
  <2>1. x - 256 + 1 \in DOMAIN Proto.ktab /\ Proto.ktab[x - 256 + 1].t # "class"
    BY <1>1, Here, Zenon DEF LegalOperands, I
  <2>2. Proto.ktab[x - 256 + 1].t \in {"int", "str"}
    BY <2>1, Here DEF LegalProto
  <2> QED
    BY <1>1, <2>2, Zenon DEF RK, Const, Solid, Plain
<1>2. CASE ~IsK(x)
  <2>1. x \in Operands(I)
    BY <1>2 DEF Operands
  <2>2. Slot(x) \in DOMAIN stack
    BY <2>1, OperandIs
  <2> QED
    BY <1>2, <2>2 DEF RK, Settled
<1> QED
  BY <1>1, <1>2

-----------------------------------------------------------------------------
(* What is made stays: a value that is solid stays solid.                  *)

HeapGrows == \A h \in DOMAIN heap : h \in DOMAIN heap' /\ heap'[h].type = heap[h].type

ClosuresGrow ==
    /\ DOMAIN closures \subseteq DOMAIN closures'
    /\ \A g \in DOMAIN closures :
          /\ DOMAIN closures[g] \subseteq DOMAIN closures'[g]
          /\ g # 1 => DOMAIN closures'[g] = DOMAIN closures[g]
          /\ \A i \in DOMAIN closures[g] :
                /\ closures'[g][i].proto = closures[g][i].proto
                /\ Complete(closures[g][i]) => Complete(closures[g][i])'

Grows ==
    /\ image' = image /\ DOMAIN classes' = DOMAIN classes
    /\ Upvalues \subseteq Upvalues' /\ HeapGrows /\ ClosuresGrow

\* Closures that stay have their upvalues.
LEMMA ClosuresStay ==
    ASSUME image' = image, Upvalues \subseteq Upvalues', NEW c, Complete(c)
    PROVE  Complete(c)'
BY DEF Complete

\* Where no closure is made or changed.
LEMMA GrowsPlain ==
    ASSUME image' = image, DOMAIN classes' = DOMAIN classes, Upvalues \subseteq Upvalues',
           HeapGrows, closures' = closures
    PROVE  Grows
<1>1. ASSUME NEW g \in DOMAIN closures, NEW i \in DOMAIN closures[g], Complete(closures[g][i])
      PROVE  Complete(closures[g][i])'
  <2>1. PICK c : c = closures[g][i]
    OBVIOUS
  <2>2. Complete(c)'
    BY <1>1, <2>1, ClosuresStay
  <2> QED
    BY <2>1, <2>2
<1> QED
  BY <1>1 DEF Grows, ClosuresGrow

\* Where nothing is made.
LEMMA GrowsNot ==
    ASSUME image' = image, UNCHANGED memory
    PROVE  Grows
<1>1. closures' = closures /\ classes' = classes /\ heap' = heap /\ upvals' = upvals
  BY DEF memory
<1>2. HeapGrows
  BY <1>1 DEF HeapGrows
<1>3. Upvalues \subseteq Upvalues'
  BY <1>1 DEF Upvalues
<1> QED
  BY <1>1, <1>2, <1>3, GrowsPlain

\* The classes of the closures.
LEMMA ClassIs ==
    ASSUME Legal(image), ClosuresOK, ClassesOK, NEW c \in DOMAIN classes
    PROVE  c + 1 \in DOMAIN closures /\ c + 1 # 1
<1>1. /\ DOMAIN classes = DOMAIN image.classes
      /\ DOMAIN closures = 1..(Len(image.classes) + 1)
  BY DEF ClosuresOK, ClassesOK
<1>2. DOMAIN image.classes = 1..Len(image.classes) /\ Len(image.classes) \in Nat
  BY DEF Legal
<1> QED
  BY <1>1, <1>2

\* A class that is made stays made.
LEMMA ReadyKept ==
    ASSUME Machine, Grows, NEW c, ClassReady(c)
    PROVE  ClassReady(c)'
<1>1. c \in DOMAIN classes /\ c + 1 \in DOMAIN closures /\ c + 1 # 1
  BY ClassIs DEF ClassReady, Machine
<1>2. DOMAIN closures'[c + 1] = DOMAIN closures[c + 1] /\ DOMAIN classes' = DOMAIN classes
  BY <1>1 DEF Grows, ClosuresGrow
<1>3. \A m \in DOMAIN closures[c + 1] :
         closures'[c + 1][m].proto = closures[c + 1][m].proto /\ Complete(closures[c + 1][m])'
  BY <1>1 DEF Grows, ClosuresGrow, ClassReady
<1> QED
  BY <1>1, <1>2, <1>3 DEF ClassReady

\* A solid value stays solid.
LEMMA SolidKept ==
    ASSUME Machine, Grows, NEW v, Solid(v)
    PROVE  Solid(v)'
<1>1. CASE v[1] \in Plain
  BY <1>1 DEF Solid
<1>2. CASE v[1] = "fun" /\ IsFunction(v[2])
  BY <1>2 DEF Solid, IsFunction, Grows, ClosuresGrow
<1>3. CASE v[1] = "class" /\ ClassReady(v[2])
  BY <1>3, ReadyKept DEF Solid
<1>4. CASE v[1] \in InHeap /\ v[2] \in DOMAIN heap /\ heap[v[2]].type = v[1]
  BY <1>4 DEF Solid, Grows, HeapGrows
<1> QED
  BY <1>1, <1>2, <1>3, <1>4 DEF Solid

\* Globals that do not change stay in order.
LEMMA GlobalsKept ==
    ASSUME Machine, Settled, Grows, globals' = globals
    PROVE  GlobalsOK'
<1>1. \A g \in DOMAIN globals : Solid(globals[g])'
  <2> TAKE g \in DOMAIN globals
  <2>1. PICK v : v = globals[g]
    OBVIOUS
  <2>2. Solid(v)'
    BY <2>1, SolidKept DEF Settled
  <2> QED
    BY <2>1, <2>2
<1>2. image' = image /\ DOMAIN globals = 1..image.globals
  BY DEF Grows, Machine, GlobalsOK
<1> QED
  BY <1>1, <1>2 DEF GlobalsOK, Valid

\* Closures that do not change stay in order.
LEMMA ClosuresKept ==
    ASSUME Machine, Grows, closures' = closures
    PROVE  ClosuresOK'
<1>1. \A i \in DOMAIN closures[1] : Complete(closures[1][i]) => Complete(closures[1][i])'
  BY DEF Grows, ClosuresGrow, Machine, ClosuresOK
<1>2. image' = image
  BY DEF Grows
<1>3. ClosuresOK
  BY DEF Machine
<1> QED
  BY <1>1, <1>2, <1>3 DEF ClosuresOK

ScopeKept == \A slot : InScope(slot) => InScope(slot)'

\* An upvalue stays in order where its variable stays in scope.
LEMMA UpvalueKept ==
    ASSUME Machine, Grows, ScopeKept, NEW u, UpvalueOK(u)
    PROVE  UpvalueOK(u)'
<1>1. Solid(u.v)'
  BY SolidKept DEF UpvalueOK
<1>2. u.slot >= 0 => InScope(u.slot)'
  BY DEF UpvalueOK, ScopeKept
<1> QED
  BY <1>1, <1>2 DEF UpvalueOK

\* Upvalues that do not change stay in order.
LEMMA UpvalsKept ==
    ASSUME Machine, Grows, ScopeKept, upvals' = upvals
    PROVE  UpvalsOK'
<1>1. ASSUME NEW u \in Upvalues PROVE UpvalueOK(Upvalue(u))'
  <2>1. PICK w : w = Upvalue(u)
    OBVIOUS
  <2>2. UpvalueOK(w)
    BY <2>1 DEF Machine, UpvalsOK
  <2>3. UpvalueOK(w)'
    BY <2>2, UpvalueKept
  <2>4. w = Upvalue(u)'
    BY <2>1 DEF Upvalue
  <2> QED
    BY <2>3, <2>4
<1>2. Upvalues' = Upvalues
  BY DEF Upvalues
<1>3. IsList(upvals)
  BY Zenon DEF Machine, UpvalsOK
<1> QED
  BY <1>1, <1>2, <1>3 DEF UpvalsOK

\* A list, a map, an iterator or an object stays in order.
LEMMA RecordKept ==
    ASSUME Machine, Grows, NEW r, RecordOK(r)
    PROVE  RecordOK(r)'
<1>1. \A v : Solid(v) => Solid(v)'
  BY SolidKept
<1>2. \A c : ClassReady(c) => ClassReady(c)'
  BY ReadyKept
<1>3. image' = image
  BY DEF Grows
<1> QED
  BY <1>1, <1>2, <1>3 DEF RecordOK

\* A heap that does not change stays in order.
LEMMA HeapKept ==
    ASSUME Machine, Grows, heap' = heap
    PROVE  HeapOK'
<1>1. ASSUME NEW h \in DOMAIN heap PROVE RecordOK(heap[h])'
  <2>1. PICK r : r = heap[h]
    OBVIOUS
  <2>2. RecordOK(r)'
    BY <2>1, RecordKept DEF Machine, HeapOK
  <2> QED
    BY <2>1, <2>2
<1> QED
  BY <1>1 DEF Machine, HeapOK

\* An attribute of a class stays in order.
LEMMA AttrKept ==
    ASSUME Machine, Grows, NEW c \in DOMAIN classes, NEW a, AttrOK(c, a)
    PROVE  AttrOK(c, a)'
<1>1. \A v : Solid(v) => Solid(v)'
  BY SolidKept
<1>2. DOMAIN closures'[c + 1] = DOMAIN closures[c + 1] /\ image' = image
  BY ClassIs DEF Grows, ClosuresGrow, Machine
<1> QED
  BY <1>1, <1>2 DEF AttrOK

\* A class that does not change stays in order.
LEMMA ClassKept ==
    ASSUME Machine, Grows, NEW c \in DOMAIN classes, classes'[c] = classes[c]
    PROVE  ClassOK(c)'
<1>1. ClassOK(c)
  BY DEF Machine, ClassesOK
<1>2. \A name \in DOMAIN classes[c].attrs : AttrOK(c, classes[c].attrs[name])'
  <2> TAKE name \in DOMAIN classes[c].attrs
  <2>1. PICK a : a = classes[c].attrs[name]
    OBVIOUS
  <2>2. AttrOK(c, a)'
    BY <1>1, <2>1, AttrKept DEF ClassOK
  <2> QED
    BY <2>1, <2>2
<1>3. classes[c].super = 0 \/ ClassReady(classes[c].super)'
  <2>1. PICK s : s = classes[c].super
    OBVIOUS
  <2>2. s = 0 \/ ClassReady(s)'
    BY <1>1, <2>1, ReadyKept DEF ClassOK
  <2> QED
    BY <2>1, <2>2
<1> QED
  BY <1>1, <1>2, <1>3 DEF ClassOK

\* Classes that do not change stay in order.
LEMMA ClassesKept ==
    ASSUME Machine, Grows, classes' = classes
    PROVE  ClassesOK'
<1>1. \A c \in DOMAIN classes : ClassOK(c)'
  BY ClassKept
<1>2. image' = image /\ DOMAIN classes = DOMAIN image.classes /\ IsList(classes)
  BY DEF Grows, Machine, ClassesOK
<1> QED
  BY <1>1, <1>2 DEF ClassesOK

-----------------------------------------------------------------------------
(* Calls that stay.                                                        *)

\* The code of a call whose function stays in its place.
LEMMA CodeStays ==
    ASSUME Machine, Grows, NEW k \in 1..Depth, NEW f, f.func = Call(k).func,
           stack'[f.func + 1] = stack[f.func + 1]
    PROVE  ProtoOf(f)' = ProtoOf(Call(k)) /\ KnownIn(f)' = KnownIn(Call(k))
<1>1. PICK g : g = Call(k)
  OBVIOUS
<1>2. FrameOK(g) /\ g.func = f.func
  BY <1>1, CallIs DEF Machine
<1>3. PICK v : v = stack[f.func + 1]
  OBVIOUS
<1>4. v[1] = "fun" /\ Solid(v)
  BY <1>2, <1>3 DEF FrameOK
<1>5. IsFunction(v[2])
  BY <1>4 DEF Solid, Plain, InHeap
<1>6. closures'[v[2][1]][v[2][2]].proto = closures[v[2][1]][v[2][2]].proto
  BY <1>5 DEF IsFunction, Grows, ClosuresGrow
<1>7. image' = image
  BY DEF Grows
<1>8. ProtoOf(f)' = ProtoOf(g)
  BY <1>2, <1>3, <1>6, <1>7 DEF ProtoOf, ClosureOf
<1> QED
  BY <1>1, <1>7, <1>8 DEF KnownIn

\* The calls up to the n-th go on; that one at t.
LEMMA CallsCut ==
    ASSUME Machine, Grows, NEW n \in 1..Depth, NEW t \in DOMAIN KnownIn(Call(n)),
           frames' = SubSeq(frames, 1, n - 1), regs' = [Call(n) EXCEPT !.ip = t],
           DOMAIN stack \subseteq DOMAIN stack',
           \A k \in 1..n : stack'[Call(k).func + 1] = stack[Call(k).func + 1]
    PROVE  /\ FramesOK' /\ Depth' = n
           /\ \A k \in 1..n : /\ Call(k)' = IF k = n THEN regs' ELSE Call(k)
                              /\ ProtoOf(Call(k))' = ProtoOf(Call(k))
                              /\ KnownIn(Call(k))' = KnownIn(Call(k))
           /\ \A k \in 1..(n - 1) : Before(Call(k))' = Before(Call(k))
           /\ Before(Call(n))' = KnownIn(Call(n))[t]
<1>0. FramesOK /\ Len(frames) \in Nat /\ Depth = Len(frames) + 1 /\ frames \in Seq(FrameSet)
  BY Running1 DEF Machine, FramesOK
<1>1. /\ frames' \in Seq(FrameSet) /\ Len(frames') = n - 1
      /\ \A k \in 1..(n - 1) : frames'[k] = frames[k]
  <2>1. n - 1 \in Int /\ 1 \in Int /\ \A k \in 1..(n - 1) : frames[k] \in FrameSet
    BY <1>0
  <2> QED
    BY <1>0, <2>1, SubSeqProperties
<1>2. Depth' = n
  BY <1>1 DEF Depth
<1>3. \A k \in 1..n : Call(k)' = IF k = n THEN regs' ELSE Call(k)
  BY <1>0, <1>1 DEF Call
<1>4. \A k \in 1..n : Call(k) \in FrameSet /\ FrameOK(Call(k)) /\ k \in 1..Depth
  BY <1>0, CallIs
<1>5. regs' \in FrameSet /\ regs'.func = Call(n).func /\ regs'.reg = Call(n).reg
      /\ regs'.top = Call(n).top /\ regs'.ip = t
  <2>1. t \in Nat
    <3>1. LegalProto(image, ProtoOf(Call(n)))
      BY CodeAt
    <3>2. KnownIn(Call(n)) = Known(image, ProtoOf(Call(n)))
      BY DEF KnownIn
    <3>3. t \in 0..(Len(ProtoOf(Call(n)).code) - 1)
      BY <3>1, <3>2, Zenon DEF LegalProto
    <3> QED
      BY <3>3
  <2>2. Call(n) \in FrameSet
    BY <1>4
  <2> QED
    BY <2>1, <2>2 DEF FrameSet
<1>6. ASSUME NEW k \in 1..n
      PROVE  /\ ProtoOf(Call(k))' = ProtoOf(Call(k)) /\ KnownIn(Call(k))' = KnownIn(Call(k))
             /\ FrameOK(Call(k))'
             /\ Before(Call(k))' = IF k = n THEN KnownIn(Call(n))[t] ELSE Before(Call(k))
  <2>1. PICK f : f = Call(k)'
    OBVIOUS
  <2>2. f.func = Call(k).func /\ f.reg = Call(k).reg /\ f.top = Call(k).top
        /\ f.ip = (IF k = n THEN t ELSE Call(k).ip)
    BY <1>3, <1>5, <2>1, Zenon
  <2>3. ProtoOf(f)' = ProtoOf(Call(k)) /\ KnownIn(f)' = KnownIn(Call(k))
    <3>1. stack'[f.func + 1] = stack[f.func + 1] /\ k \in 1..Depth
      BY <1>4, <2>2
    <3> QED
      BY <2>2, <3>1, CodeStays
  <2>4. f.ip \in DOMAIN KnownIn(Call(k))
    BY <1>4, <2>2 DEF FrameOK
  <2>5. FrameOK(f)'
    <3>1. PICK v : v = stack[f.func + 1]
      OBVIOUS
    <3>2. v[1] = "fun" /\ Solid(v) /\ f.func + 1 \in DOMAIN stack /\ f.func < f.reg
          /\ f.top = f.reg + ProtoOf(Call(k)).nstack /\ f.top + 2 \in DOMAIN stack
      BY <1>4, <2>2, <3>1 DEF FrameOK
    <3>3. Solid(v)'
      BY <3>2, SolidKept
    <3>4. v = stack'[f.func + 1]
      BY <2>2, <3>1
    <3> QED
      BY <2>3, <2>4, <3>2, <3>3, <3>4 DEF FrameOK
  <2>6. Before(f)' = IF k = n THEN KnownIn(Call(n))[t] ELSE Before(Call(k))
    BY <2>2, <2>3 DEF Before
  <2> QED
    BY <2>1, <2>3, <2>5, <2>6
<1>7. ASSUME NEW j \in 1..n, NEW k \in 1..n, j < k
      PROVE  Apart(Call(j), Call(k))'
  <2>1. Apart(Call(j), Call(k)) /\ j # n
    BY <1>0, <1>4, <1>7 DEF FramesOK
  <2>2. Call(j)' = Call(j) /\ Call(k)'.func = Call(k).func
    BY <1>3, <1>5, <2>1, Zenon
  <2>3. ProtoOf(Call(j))' = ProtoOf(Call(j)) /\ Before(Call(j))' = Before(Call(j))
    BY <1>6, <2>1
  <2> QED
    BY <2>1, <2>2, <2>3 DEF Apart
<1>8. FramesOK'
  BY <1>1, <1>2, <1>5, <1>6, <1>7 DEF FramesOK
<1> QED
  BY <1>2, <1>3, <1>6, <1>8

\* The running call goes on at t, all others stay.
LEMMA CallsGoOn ==
    ASSUME Machine, Grows, NEW t \in DOMAIN KnownIn(regs),
           frames' = frames, regs' = [regs EXCEPT !.ip = t],
           DOMAIN stack \subseteq DOMAIN stack',
           \A k \in 1..Depth : stack'[Call(k).func + 1] = stack[Call(k).func + 1]
    PROVE  /\ FramesOK' /\ Depth' = Depth
           /\ \A k \in 1..Depth : /\ Call(k)' = IF k = Depth THEN regs' ELSE Call(k)
                                  /\ ProtoOf(Call(k))' = ProtoOf(Call(k))
                                  /\ KnownIn(Call(k))' = KnownIn(Call(k))
           /\ \A k \in 1..(Depth - 1) : Before(Call(k))' = Before(Call(k))
           /\ Before(Call(Depth))' = KnownIn(regs)[t]
<1>1. Depth \in 1..Depth /\ Call(Depth) = regs /\ Depth = Len(frames) + 1 /\ Len(frames) \in Nat
  BY Running1 DEF Machine
<1>2. frames' = SubSeq(frames, 1, Depth - 1)
  <2>1. frames \in Seq(FrameSet)
    BY DEF Machine, FramesOK
  <2>2. SubSeq(frames, 1, Len(frames)) = frames
    BY <2>1, SMT
  <2> QED
    BY <1>1, <2>2
<1> QED
  BY <1>1, <1>2, CallsCut

\* Places below the registers of the running call hold the functions of the calls.
LEMMA FunctionsBelow ==
    ASSUME Machine, NEW k \in 1..Depth
    PROVE  Call(k).func + 1 <= regs.reg /\ Call(k).func + 1 \in DOMAIN stack
<1>1. Depth \in 1..Depth /\ Call(Depth) = regs /\ Depth \in Nat
  BY Running1 DEF Machine
<1>2. /\ Call(k) \in FrameSet /\ FrameOK(Call(k))
      /\ regs \in FrameSet /\ FrameOK(regs)
  BY <1>1, CallIs DEF Machine
<1>3. CASE k = Depth
  BY <1>1, <1>2, <1>3 DEF FrameOK, FrameSet
<1>4. CASE k # Depth
  <2>1. Apart(Call(k), regs)
    BY <1>1, <1>4 DEF Machine, FramesOK
  <2> QED
    BY <1>2, <2>1 DEF Apart, FrameOK, FrameSet
<1> QED
  BY <1>3, <1>4

-----------------------------------------------------------------------------
(* An instruction that does not fail.                                      *)

StackStays ==
    /\ DOMAIN stack \subseteq DOMAIN stack'
    /\ \A k \in 1..Depth : stack'[Call(k).func + 1] = stack[Call(k).func + 1]

\* Of the stack, nothing changes below the registers of the running call.
LEMMA StackStaysBelow ==
    ASSUME Machine, DOMAIN stack \subseteq DOMAIN stack',
           \A s \in DOMAIN stack : s <= regs.reg => stack'[s] = stack[s]
    PROVE  StackStays
BY FunctionsBelow DEF StackStays

\* Registers of the running call are written.
LEMMA StackWritten ==
    ASSUME Machine, NEW s, regs.reg < s, NEW v, stack' = [stack EXCEPT ![s] = v]
    PROVE  IsList(stack') /\ StackStays /\ Len(stack') = Len(stack)
<1>1. IsList(stack)
  BY DEF Machine, StackOK
<1>2. IsList(stack') /\ DOMAIN stack' = DOMAIN stack /\ Len(stack') = Len(stack)
  BY <1>1, ListExcept, Zenon
<1>3. regs.reg \in Nat
  BY Here DEF FrameSet
<1>4. \A j \in DOMAIN stack : j <= regs.reg => stack'[j] = stack[j]
  <2> TAKE j \in DOMAIN stack
  <2>1. j \in Nat /\ (j <= regs.reg => j # s)
    BY <1>1, <1>3, Here
  <2> QED
    BY <2>1
<1> QED
  BY <1>2, <1>4, StackStaysBelow

\* The running call goes on at t.
GoesOn(t) ==
    /\ t \in Targets(Proto, regs.ip) /\ frames' = frames /\ regs' = [regs EXCEPT !.ip = t]
    /\ StackStays

\* Where the running call goes on, the calls stay in order.
LEMMA GoesOnCalls ==
    ASSUME Machine, Grows, NEW t, GoesOn(t)
    PROVE  /\ FramesOK' /\ Depth' = Depth
           /\ \A k \in 1..Depth : /\ Call(k)' = IF k = Depth THEN regs' ELSE Call(k)
                                  /\ Call(k)'.reg = Call(k).reg
                                  /\ ProtoOf(Call(k))' = ProtoOf(Call(k))
                                  /\ KnownIn(Call(k))' = KnownIn(Call(k))
           /\ \A k \in 1..(Depth - 1) : Before(Call(k))' = Before(Call(k))
           /\ Before(Call(Depth))' = KnownIn(regs)[t]
<1>1. t \in DOMAIN KnownIn(regs)
  BY Flow DEF GoesOn
<1>2. Call(Depth) = regs /\ regs'.reg = regs.reg
  BY Running1, Here DEF Machine, GoesOn, FrameSet
<1> QED
  BY <1>1, <1>2, CallsGoOn, Zenon DEF GoesOn, StackStays

\* The handlers stay.
LEMMA GoesOnHandlers ==
    ASSUME Machine, Grows, NEW t, GoesOn(t), excs' = excs,
           KnownIn(regs)[t].tries = Before(regs).tries
    PROVE  HandlersOK'
<1>1. Depth' = Depth /\ \A k \in 1..Depth : Before(Call(k))'.tries = Before(Call(k)).tries
  <2>1. Depth \in Nat /\ Call(Depth) = regs
    BY Running1 DEF Machine
  <2>2. /\ Depth' = Depth
        /\ \A k \in 1..(Depth - 1) : Before(Call(k))' = Before(Call(k))
        /\ Before(Call(Depth))' = KnownIn(regs)[t]
    BY GoesOnCalls
  <2> QED
    BY <2>1, <2>2
<1>2. \A k \in 1..Depth : HandlersOf(excs, k, Before(Call(k)).tries)'
  <2> TAKE k \in 1..Depth
  <2>1. PICK ts : ts = Before(Call(k)).tries
    OBVIOUS
  <2>2. HandlersOf(excs, k, ts)
    BY <2>1 DEF Machine, HandlersOK
  <2>3. HandlersOf(excs, k, ts)'
    BY <2>2 DEF HandlersOf
  <2>4. ts = Before(Call(k))'.tries
    BY <1>1, <2>1
  <2> QED
    BY <2>3, <2>4
<1> QED
  BY <1>1, <1>2 DEF Machine, HandlersOK, HandlersBelow

\* A captured variable is still in scope.
LEMMA GoesOnScope ==
    ASSUME Machine, Grows, NEW t, GoesOn(t), NEW slot, InScope(slot),
           slot - regs.reg \in Before(regs).open => slot - regs.reg \in KnownIn(regs)[t].open
    PROVE  InScope(slot)'
<1>1. PICK k \in 1..Depth : slot - Call(k).reg \in Before(Call(k)).open
  BY DEF InScope
<1>2. Depth \in Nat /\ Call(Depth) = regs
  BY Running1 DEF Machine
<1>3. /\ Depth' = Depth /\ Call(k)'.reg = Call(k).reg
      /\ k # Depth => Before(Call(k))' = Before(Call(k))
      /\ Before(Call(Depth))' = KnownIn(regs)[t]
  BY <1>2, GoesOnCalls
<1>4. slot - Call(k)'.reg \in Before(Call(k))'.open
  BY <1>1, <1>2, <1>3
<1> QED
  BY <1>3, <1>4 DEF InScope

\* Most instructions change nothing but values.
LEMMA GoesOnPlain ==
    ASSUME Machine, Grows, I.op \notin Special, NEW t, GoesOn(t), excs' = excs
    PROVE  FramesOK' /\ HandlersOK' /\ ScopeKept
<1>1. t \in DOMAIN KnownIn(regs) /\ KnownIn(regs)[t].tries = Before(regs).tries
      /\ Before(regs).open \subseteq KnownIn(regs)[t].open
  BY FlowPlain DEF GoesOn
<1>2. FramesOK' /\ HandlersOK'
  BY <1>1, GoesOnCalls, GoesOnHandlers
<1>3. ASSUME NEW slot, InScope(slot) PROVE InScope(slot)'
  BY <1>1, <1>3, GoesOnScope
<1> QED
  BY <1>2, <1>3 DEF ScopeKept

\* The next instruction.
LEMMA NextOne ==
    ASSUME Machine, I.op \notin {"JMP", "JMPT", "JMPF", "LDBOOL", "CATCH", "RET", "RAISE"}
    PROVE  /\ regs.ip + 1 \in Targets(Proto, regs.ip)
           /\ Skip(0) = [regs EXCEPT !.ip = regs.ip + 1]
<1>1. regs.ip \in Nat /\ DOMAIN regs = {"func", "reg", "top", "ip"}
  BY Here DEF FrameSet
<1>2. Targets(Proto, regs.ip) = {regs.ip + 1}
  BY DEF Targets, I
<1> QED
  BY <1>1, <1>2 DEF Skip

\* Such a step, whatever it does to the values.
LEMMA PlainStep ==
    ASSUME Machine, I.op \notin Special \cup {"SETGBL"}, Grows, NEW t, GoesOn(t), excs' = excs,
           IsList(stack'), (\A s \in DOMAIN stack : Solid(stack[s]))', globals' = globals,
           ClosuresOK', HeapOK', ClassesOK', ScopeKept => UpvalsOK'
    PROVE  Machine'
<1>1. Settled
  BY SettledHere DEF Special
<1>2. FramesOK' /\ HandlersOK' /\ ScopeKept
  BY GoesOnPlain
<1>3. StackOK'
  BY DEF StackOK, Valid
<1>4. GlobalsOK'
  BY <1>1, GlobalsKept
<1>5. Legal(image)'
  BY DEF Machine, Grows
<1> QED
  BY <1>2, <1>3, <1>4, <1>5 DEF Machine

Plains == STRING \ (Special \cup {"LDBOOL", "CATCH", "RET", "RAISE", "SETGBL"})

\* One that writes a register, and makes or changes what it likes of the heap
\* and the classes.
LEMMA WritesRegister ==
    ASSUME Machine, I.op \in Plains, NEW x \in Operands(I), NEW v, ToRegister(x, v),
           UNCHANGED <<image, control, upvals, closures, globals>>, DOMAIN classes' = DOMAIN classes,
           HeapGrows, Solid(v)', HeapOK', ClassesOK'
    PROVE  Machine'
<1>0. Settled
  BY SettledHere DEF Plains, Special
<1>1. Grows
  <2>1. Upvalues \subseteq Upvalues'
    BY DEF Upvalues
  <2> QED
    BY <2>1, GrowsPlain
<1>2. Slot(x) \in DOMAIN stack /\ regs.reg < Slot(x)
  BY OperandIs
<1>3. IsList(stack') /\ StackStays
  BY <1>2, StackWritten, Zenon DEF ToRegister
<1>4. GoesOn(regs.ip + 1)
  BY <1>3, NextOne DEF GoesOn, ToRegister, Plains, Special, control
<1>5. (\A s \in DOMAIN stack : Solid(stack[s]))'
  <2>1. \A s \in DOMAIN stack : Solid(stack[s])'
    <3> TAKE s \in DOMAIN stack
    <3>1. PICK w : w = IF s = Slot(x) THEN v ELSE stack[s]
      OBVIOUS
    <3>2. Solid(w)'
      BY <1>0, <1>1, <3>1, SolidKept DEF Settled
    <3>3. w = stack'[s]
      BY <3>1 DEF ToRegister
    <3> QED
      BY <3>2, <3>3
  <2>2. DOMAIN stack' = DOMAIN stack
    BY DEF ToRegister
  <2> QED
    BY <2>1, <2>2
<1>6. ClosuresOK' /\ (ScopeKept => UpvalsOK')
  BY <1>1, ClosuresKept, UpvalsKept
<1>7. I.op \notin Special \cup {"SETGBL"} /\ excs' = excs /\ globals' = globals
  BY DEF Plains, control
<1> QED
  BY <1>1, <1>3, <1>4, <1>5, <1>6, <1>7, PlainStep

-----------------------------------------------------------------------------
(* Handlers.                                                               *)

\* Handlers are a sequence.
LEMMA HandlerIs ==
    ASSUME NEW es, NEW d, HandlersBelow(es, d)
    PROVE  Len(es) \in Nat /\ DOMAIN es = 1..Len(es) /\ \A h \in 1..Len(es) : es[h] \in HandlerSet
BY DEF HandlersBelow

\* The handlers of the running call are the last.
LEMMA HandlersLast ==
    ASSUME NEW es, NEW d \in Nat \ {0}, HandlersBelow(es, d), NEW ts \in Seq(Nat), HandlersOf(es, d, ts)
    PROVE  /\ Len(ts) \in 0..Len(es)
           /\ \A h \in 1..Len(es) : es[h].depth = d - 1 <=> h > Len(es) - Len(ts)
           /\ \A j \in 1..Len(ts) : es[(Len(es) - Len(ts)) + j].ip = ts[j]
<1>1. Len(es) \in Nat /\ DOMAIN es = 1..Len(es) /\ \A h \in 1..Len(es) : es[h].depth \in Nat
  BY HandlerIs DEF HandlerSet
<1>2. Len(ts) \in Nat /\ DOMAIN ts = 1..Len(ts)
  OBVIOUS
<1>3. PICK lo \in 0..Len(es) :
        /\ lo + Len(ts) <= Len(es)
        /\ \A h \in 1..Len(es) : es[h].depth = d - 1 <=> h \in (lo + 1)..(lo + Len(ts))
        /\ \A j \in 1..Len(ts) : es[lo + j].ip = ts[j]
  BY <1>1, <1>2, Zenon DEF HandlersOf
<1>4. CASE Len(ts) = 0
  BY <1>1, <1>2, <1>3, <1>4
<1>5. CASE Len(ts) # 0
  <2>1. PICK m : m = lo + Len(ts)
    OBVIOUS
  <2>2. /\ m \in 1..Len(es) /\ Len(es) \in 1..Len(es) /\ m \in (lo + 1)..m
        /\ \A h \in 1..Len(es) : es[h].depth = d - 1 <=> h \in (lo + 1)..m
    BY <1>1, <1>2, <1>3, <1>5, <2>1
  <2>3. es[m].depth = d - 1
    BY <2>2
  <2>4. es[Len(es)].depth < d
    BY <1>1, <2>2, Zenon DEF HandlersBelow
  <2>5. m = Len(es)
    <3>1. SUFFICES ASSUME m # Len(es) PROVE FALSE
      OBVIOUS
    <3>2. m < Len(es)
      <4>1. m \in 1..Len(es) /\ Len(es) \in Nat
        BY <1>1, <2>2
      <4>2. m \in Int /\ Len(es) \in Int /\ m <= Len(es)
        BY <4>1
      <4> QED
        BY <3>1, <4>2
    <3>3. es[m].depth <= es[Len(es)].depth
      BY <1>1, <2>2, <3>2, Zenon DEF HandlersBelow
    <3>4. es[Len(es)].depth = d - 1
      BY <1>1, <2>2, <2>3, <2>4, <3>3
    <3>5. Len(es) \in (lo + 1)..m
      BY <2>2, <3>4
    <3> QED
      BY <2>2, <3>2, <3>5
  <2>6. lo = Len(es) - Len(ts)
    <3>1. lo \in Int /\ Len(es) \in Int /\ Len(ts) \in Int
      BY <1>1, <1>2
    <3>2. Len(es) = lo + Len(ts)
      BY <2>1, <2>5
    <3> QED
      BY <3>1, <3>2
  <2>7. \A h \in 1..Len(es) : es[h].depth = d - 1 <=> h > Len(es) - Len(ts)
    BY <1>1, <1>2, <2>2, <2>5, <2>6
  <2>8. \A j \in 1..Len(ts) : es[(Len(es) - Len(ts)) + j].ip = ts[j]
    BY <1>3, <2>6
  <2>9. Len(ts) \in 0..Len(es)
    BY <1>1, <1>2, <1>3
  <2> QED
    BY <2>7, <2>8, <2>9
<1> QED
  BY <1>2, <1>4, <1>5

\* Where the last handlers go, those of the other calls stay.
LEMMA HandlersFirst ==
    ASSUME NEW es, NEW d, HandlersBelow(es, d), NEW n \in 0..Len(es)
    PROVE  LET fs == SubSeq(es, 1, n)
           IN /\ HandlersBelow(fs, d) /\ Len(fs) = n /\ \A h \in 1..n : fs[h] = es[h]
              /\ \A k \in Nat, ts \in Seq(Nat) :
                    HandlersOf(es, k, ts) /\ (\A h \in (n + 1)..Len(es) : es[h].depth # k - 1)
                    => HandlersOf(fs, k, ts)
<1>1. Len(es) \in Nat /\ DOMAIN es = 1..Len(es) /\ \A h \in 1..Len(es) : es[h] \in HandlerSet
  BY HandlerIs
<1>2. PICK fs : fs = SubSeq(es, 1, n)
  BY Zenon
<1>3. fs \in Seq(HandlerSet) /\ Len(fs) = n /\ \A h \in 1..n : fs[h] = es[h]
  <2>1. n \in Int /\ 1 \in Int /\ \A h \in 1..n : es[h] \in HandlerSet
    BY <1>1
  <2> QED
    BY <1>1, <1>2, <2>1, SubSeqProperties
<1>4. HandlersBelow(fs, d)
  BY <1>1, <1>3 DEF HandlersBelow
<1>5. ASSUME NEW k \in Nat, NEW ts \in Seq(Nat), HandlersOf(es, k, ts),
             \A h \in (n + 1)..Len(es) : es[h].depth # k - 1
      PROVE  HandlersOf(fs, k, ts)
  <2>1. PICK lo \in 0..Len(es) :
          /\ lo + Len(ts) <= Len(es)
          /\ \A h \in 1..Len(es) : es[h].depth = k - 1 <=> h \in (lo + 1)..(lo + Len(ts))
          /\ \A j \in DOMAIN ts : es[lo + j].ip = ts[j]
    BY <1>1, <1>5, Zenon DEF HandlersOf
  <2>2. Len(ts) \in Nat /\ DOMAIN ts = 1..Len(ts) /\ DOMAIN fs = 1..n /\ n \in Nat
    BY <1>1, <1>3
  <2>3. CASE Len(ts) = 0
    <3>1. \A h \in DOMAIN fs : fs[h].depth # k - 1
      BY <1>1, <1>3, <2>1, <2>2, <2>3
    <3> QED
      BY <1>3, <2>2, <2>3, <3>1 DEF HandlersOf
  <2>4. CASE Len(ts) # 0
    <3>1. lo + Len(ts) <= n
      <4>1. SUFFICES ASSUME lo + Len(ts) > n PROVE FALSE
        BY <2>1, <2>2
      <4>2. lo + Len(ts) \in (n + 1)..Len(es) /\ lo + Len(ts) \in 1..Len(es)
        BY <1>1, <2>1, <2>2, <2>4, <4>1
      <4>3. es[lo + Len(ts)].depth = k - 1
        BY <1>1, <2>1, <2>2, <2>4, <4>2
      <4> QED
        BY <1>5, <4>2, <4>3
    <3>2. lo \in 0..n
      BY <2>1, <2>2, <3>1
    <3>3. \A h \in DOMAIN fs : fs[h].depth = k - 1 <=> h \in (lo + 1)..(lo + Len(ts))
      BY <1>1, <1>3, <2>1, <2>2
    <3>4. \A j \in DOMAIN ts : fs[lo + j].ip = ts[j]
      <4> TAKE j \in DOMAIN ts
      <4>1. lo + j \in 1..n
        BY <2>2, <3>1, <3>2
      <4> QED
        BY <1>3, <2>1, <4>1, Zenon
    <3> QED
      BY <1>3, <3>1, <3>2, <3>3, <3>4, Zenon DEF HandlersOf
  <2> QED
    BY <2>2, <2>3, <2>4
<1> QED
  BY <1>2, <1>3, <1>4, <1>5

\* The last handlers of the running call go.
LEMMA HandlersPopped ==
    ASSUME NEW es, NEW d \in Nat \ {0}, HandlersBelow(es, d),
           NEW ts \in Seq(Nat), HandlersOf(es, d, ts), NEW b \in 0..Len(ts)
    PROVE  LET fs == SubSeq(es, 1, Len(es) - b)
           IN /\ HandlersBelow(fs, d) /\ HandlersOf(fs, d, SubSeq(ts, 1, Len(ts) - b))
              /\ \A k \in 1..(d - 1), us \in Seq(Nat) : HandlersOf(es, k, us) => HandlersOf(fs, k, us)
<1>0. Len(es) \in Nat /\ DOMAIN es = 1..Len(es) /\ \A h \in 1..Len(es) : es[h] \in HandlerSet
  BY HandlerIs
<1>1. /\ Len(ts) \in 0..Len(es)
      /\ \A h \in 1..Len(es) : es[h].depth = d - 1 <=> h > Len(es) - Len(ts)
      /\ \A j \in 1..Len(ts) : es[(Len(es) - Len(ts)) + j].ip = ts[j]
  BY HandlersLast
<1>2. PICK n : n = Len(es) - b
  OBVIOUS
<1>3. n \in 0..Len(es) /\ Len(ts) \in Nat /\ b \in Nat
  BY <1>0, <1>1, <1>2
<1>4. PICK fs : fs = SubSeq(es, 1, n)
  BY Zenon
<1>5. /\ HandlersBelow(fs, d) /\ Len(fs) = n /\ \A h \in 1..n : fs[h] = es[h]
      /\ \A k \in Nat, us \in Seq(Nat) :
            HandlersOf(es, k, us) /\ (\A h \in (n + 1)..Len(es) : es[h].depth # k - 1) => HandlersOf(fs, k, us)
  BY <1>3, <1>4, HandlersFirst
<1>6. ASSUME NEW k \in 1..(d - 1), NEW us \in Seq(Nat), HandlersOf(es, k, us)
      PROVE  HandlersOf(fs, k, us)
  <2>1. ASSUME NEW h \in (n + 1)..Len(es) PROVE es[h].depth # k - 1
    <3>1. h \in 1..Len(es) /\ h > Len(es) - Len(ts)
      BY <1>0, <1>1, <1>2, <1>3
    <3>2. es[h].depth = d - 1
      BY <1>1, <3>1
    <3>3. d - 1 # k - 1
      OBVIOUS
    <3> QED
      BY <3>2, <3>3
  <2>2. k \in Nat
    OBVIOUS
  <2>3. \A vs \in Seq(Nat) : HandlersOf(es, k, vs) => HandlersOf(fs, k, vs)
    BY <1>5, <2>1, <2>2
  <2> QED
    BY <1>6, <2>3
<1>7. PICK us : us = SubSeq(ts, 1, Len(ts) - b)
  BY Zenon
<1>8. us \in Seq(Nat) /\ Len(us) = Len(ts) - b /\ \A j \in 1..(Len(ts) - b) : us[j] = ts[j]
  <2>1. Len(ts) - b \in Nat /\ 1 \in Int /\ \A h \in 1..(Len(ts) - b) : ts[h] \in Nat
    BY <1>3
  <2> QED
    BY <1>3, <1>7, <2>1, SubSeqProperties
<1>9. HandlersOf(fs, d, us)
  <2>1. PICK lo : lo = Len(es) - Len(ts)
    OBVIOUS
  <2>2. lo \in 0..Len(fs) /\ lo + Len(us) <= Len(fs) /\ lo + Len(us) = n /\ DOMAIN fs = 1..n /\ DOMAIN us = 1..(Len(ts) - b)
    BY <1>0, <1>1, <1>2, <1>3, <1>5, <1>8, <2>1, HandlerIs
  <2>3. \A h \in 1..n : fs[h].depth = d - 1 <=> h \in (lo + 1)..(lo + Len(us))
    BY <1>0, <1>1, <1>2, <1>3, <1>5, <2>1, <2>2
  <2>4. \A j \in 1..(Len(ts) - b) : fs[lo + j].ip = us[j]
    <3> TAKE j \in 1..(Len(ts) - b)
    <3>1. lo + j \in 1..n /\ j \in 1..Len(ts)
      BY <1>0, <1>1, <1>2, <1>3, <2>1
    <3> QED
      BY <1>1, <1>5, <1>8, <2>1, <3>1, Zenon
  <2> QED
    BY <2>2, <2>3, <2>4, Zenon DEF HandlersOf
<1> QED
  BY <1>2, <1>4, <1>5, <1>6, <1>7, <1>9

\* The running call sets one more.
LEMMA HandlersPushed ==
    ASSUME NEW es, NEW d \in Nat \ {0}, HandlersBelow(es, d),
           NEW ts \in Seq(Nat), HandlersOf(es, d, ts), NEW t \in Nat
    PROVE  LET fs == Append(es, [depth |-> d - 1, ip |-> t])
           IN /\ HandlersBelow(fs, d) /\ HandlersOf(fs, d, Append(ts, t))
              /\ \A k \in 1..(d - 1), us \in Seq(Nat) : HandlersOf(es, k, us) => HandlersOf(fs, k, us)
<1>0. Len(es) \in Nat /\ DOMAIN es = 1..Len(es) /\ (\A h \in 1..Len(es) : es[h] \in HandlerSet)
      /\ es \in Seq(HandlerSet)
  BY HandlerIs DEF HandlersBelow
<1>1. /\ Len(ts) \in 0..Len(es)
      /\ \A h \in 1..Len(es) : es[h].depth = d - 1 <=> h > Len(es) - Len(ts)
      /\ \A j \in 1..Len(ts) : es[(Len(es) - Len(ts)) + j].ip = ts[j]
  BY HandlersLast
<1>2. PICK x : x = [depth |-> d - 1, ip |-> t]
  BY Zenon
<1>3. x \in HandlerSet /\ x.depth = d - 1 /\ x.ip = t
  BY <1>2 DEF HandlerSet
<1>4. PICK fs : fs = Append(es, x)
  BY Zenon
<1>5. /\ fs \in Seq(HandlerSet) /\ Len(fs) = Len(es) + 1 /\ DOMAIN fs = 1..(Len(es) + 1)
      /\ \A h \in 1..Len(es) : fs[h] = es[h]
      /\ fs[Len(es) + 1] = x
  BY <1>0, <1>3, <1>4, AppendProperties, LenProperties
<1>6. \A h \in 1..Len(es) : es[h].depth < d /\ es[h].depth \in Nat
  BY <1>0, Zenon DEF HandlersBelow, HandlerSet
<1>7. HandlersBelow(fs, d)
  <2>1. \A h \in DOMAIN fs : fs[h].depth < d
    BY <1>0, <1>3, <1>5, <1>6
  <2>2. \A g, h \in DOMAIN fs : g < h => fs[g].depth <= fs[h].depth
    <3> TAKE g, h \in DOMAIN fs
    <3> HAVE g < h
    <3>1. g \in 1..Len(es)
      BY <1>0, <1>5
    <3>2. CASE h = Len(es) + 1
      BY <1>3, <1>5, <1>6, <3>1, <3>2
    <3>3. CASE h # Len(es) + 1
      <4>1. h \in 1..Len(es) /\ es[g].depth <= es[h].depth
        BY <1>0, <1>5, <3>1, <3>3 DEF HandlersBelow
      <4> QED
        BY <1>5, <3>1, <4>1
    <3> QED
      BY <3>2, <3>3
  <2> QED
    BY <1>5, <2>1, <2>2 DEF HandlersBelow
<1>8. ASSUME NEW k \in 1..(d - 1), NEW us \in Seq(Nat), HandlersOf(es, k, us)
      PROVE  HandlersOf(fs, k, us)
  <2>1. PICK lo \in 0..Len(es) :
          /\ lo + Len(us) <= Len(es)
          /\ \A h \in 1..Len(es) : es[h].depth = k - 1 <=> h \in (lo + 1)..(lo + Len(us))
          /\ \A j \in DOMAIN us : es[lo + j].ip = us[j]
    BY <1>0, <1>8, Zenon DEF HandlersOf
  <2>2. Len(us) \in Nat /\ DOMAIN us = 1..Len(us)
    OBVIOUS
  <2>3. lo \in 0..Len(fs) /\ lo + Len(us) <= Len(fs)
    BY <1>0, <1>5, <2>1, <2>2
  <2>4. \A h \in DOMAIN fs : fs[h].depth = k - 1 <=> h \in (lo + 1)..(lo + Len(us))
    <3> TAKE h \in DOMAIN fs
    <3>1. CASE h = Len(es) + 1
      BY <1>0, <1>3, <1>5, <2>1, <2>2, <3>1
    <3>2. CASE h # Len(es) + 1
      <4>1. h \in 1..Len(es)
        BY <1>0, <1>5, <3>2
      <4> QED
        BY <1>5, <2>1, <4>1, Zenon
    <3> QED
      BY <3>1, <3>2
  <2>5. \A j \in DOMAIN us : fs[lo + j].ip = us[j]
    <3> TAKE j \in DOMAIN us
    <3>1. lo + j \in 1..Len(es)
      BY <1>0, <2>1, <2>2
    <3> QED
      BY <1>5, <2>1, <3>1, Zenon
  <2> QED
    BY <2>3, <2>4, <2>5, Zenon DEF HandlersOf
<1>9. HandlersOf(fs, d, Append(ts, t))
  <2>1. PICK us : us = Append(ts, t)
    BY Zenon
  <2>2. Len(us) = Len(ts) + 1 /\ (\A j \in 1..Len(ts) : us[j] = ts[j]) /\ us[Len(ts) + 1] = t
        /\ DOMAIN us = 1..(Len(ts) + 1) /\ Len(ts) \in Nat
    BY <2>1, AppendProperties, LenProperties
  <2>3. PICK lo : lo = Len(es) - Len(ts)
    OBVIOUS
  <2>4. lo \in 0..Len(fs) /\ lo + Len(us) <= Len(fs) /\ lo + Len(us) = Len(es) + 1
    BY <1>0, <1>1, <1>5, <2>2, <2>3
  <2>5. \A h \in DOMAIN fs : fs[h].depth = d - 1 <=> h \in (lo + 1)..(lo + Len(us))
    <3> TAKE h \in DOMAIN fs
    <3>1. CASE h = Len(es) + 1
      BY <1>0, <1>1, <1>3, <1>5, <2>3, <2>4, <3>1
    <3>2. CASE h # Len(es) + 1
      <4>1. h \in 1..Len(es)
        BY <1>0, <1>5, <3>2
      <4>2. fs[h].depth = d - 1 <=> h > lo
        BY <1>1, <1>5, <2>3, <4>1
      <4> QED
        BY <1>0, <1>1, <2>3, <2>4, <4>1, <4>2
    <3> QED
      BY <3>1, <3>2
  <2>6. \A j \in DOMAIN us : fs[lo + j].ip = us[j]
    <3> TAKE j \in DOMAIN us
    <3>1. CASE j = Len(ts) + 1
      BY <1>0, <1>1, <1>3, <1>5, <2>2, <2>3, <3>1
    <3>2. CASE j # Len(ts) + 1
      <4>1. j \in 1..Len(ts) /\ lo + j \in 1..Len(es)
        BY <1>0, <1>1, <2>2, <2>3, <3>2, SMTT(30)
      <4> QED
        BY <1>1, <1>5, <2>2, <2>3, <4>1, Zenon
    <3> QED
      BY <3>1, <3>2
  <2> QED
    BY <2>1, <2>4, <2>5, <2>6, Zenon DEF HandlersOf
<1> QED
  BY <1>2, <1>4, <1>7, <1>8, <1>9

-----------------------------------------------------------------------------
(* An exception.                                                           *)

\* The calls lie above each other in the stack.
LEMMA CallsApart ==
    ASSUME Machine, NEW j \in 1..Depth, NEW k \in 1..Depth, j <= k
    PROVE  Call(j).func + 1 <= Call(k).reg /\ Call(j).func + 1 \in DOMAIN stack /\ Call(j).reg <= Call(k).reg
<1>1. /\ Call(j) \in FrameSet /\ FrameOK(Call(j))
      /\ Call(k) \in FrameSet /\ FrameOK(Call(k))
  BY CallIs DEF Machine
<1>2. CASE k = j
  BY <1>1, <1>2 DEF FrameOK, FrameSet
<1>3. CASE k # j
  <2>1. Apart(Call(j), Call(k))
    BY <1>3, Running1 DEF Machine, FramesOK
  <2> QED
    BY <1>1, <2>1 DEF Apart, FrameOK, FrameSet
<1> QED
  BY <1>2, <1>3

\* A captured variable is in no place of a function.
LEMMA ScopeApart ==
    ASSUME Machine, NEW slot \in Int, InScope(slot), NEW k \in 1..Depth
    PROVE  Call(k).func # slot
<1>1. PICK j \in 1..Depth : slot - Call(j).reg \in Before(Call(j)).open
  BY DEF InScope
<1>2. /\ Call(j) \in FrameSet /\ FrameOK(Call(j)) /\ Before(Call(j)) \in Knowledge(ProtoOf(Call(j)))
      /\ Call(k) \in FrameSet /\ FrameOK(Call(k))
  BY CodeAt
<1>3. Call(j).reg <= slot
  <2>1. slot - Call(j).reg \in 0..(ProtoOf(Call(j)).nstack - 1)
    BY <1>1, <1>2 DEF Knowledge
  <2> QED
    BY <1>2, <2>1 DEF FrameSet
<1>4. CASE k <= j
  <2>1. Call(k).func + 1 <= Call(j).reg
    BY <1>4, CallsApart
  <2> QED
    BY <1>2, <1>3, <2>1 DEF FrameSet
<1>5. CASE ~(k <= j)
  <2>1. j < k
    BY <1>5, Running1 DEF Machine
  <2>2. Apart(Call(j), Call(k))
    BY <2>1 DEF Machine, FramesOK
  <2>3. slot - Call(j).reg < Call(k).func - Call(j).reg
    BY <1>1, <2>2, SMTT(30) DEF Apart, Below
  <2> QED
    BY <1>2, <2>3 DEF FrameSet
<1> QED
  BY <1>4, <1>5

\* The call that set the last handler, and what is known there.
LEMMA Catcher ==
    ASSUME Machine, excs # << >>
    PROVE  LET n == Last(excs).depth + 1
               f == Call(n)
               p == ProtoOf(f)
               a == Before(f)
               t == HandlerOf(p, a)
           IN /\ n \in 1..Depth /\ a.tries # << >> /\ Last(a.tries) = Last(excs).ip
              /\ t \in DOMAIN KnownIn(f) /\ KnownIn(f)[t].tries = Front(a.tries)
              /\ {x \in a.open : x < p.code[Last(a.tries)].outlive} \subseteq KnownIn(f)[t].open
              /\ HandlersBelow(Front(excs), n) /\ HandlersOf(Front(excs), n, Front(a.tries))
              /\ \A k \in 1..(n - 1) : HandlersOf(Front(excs), k, Before(Call(k)).tries)
<1>0. HandlersBelow(excs, Depth) /\ Depth \in Nat
  BY Running1 DEF Machine, HandlersOK
<1>1. /\ excs \in Seq(HandlerSet) /\ Len(excs) \in Nat \ {0} /\ DOMAIN excs = 1..Len(excs)
      /\ \A h \in 1..Len(excs) : excs[h] \in HandlerSet
  BY <1>0, HandlerIs DEF HandlersBelow
<1>2. PICK n : n = Last(excs).depth + 1
  OBVIOUS
<1>3. n \in Nat \ {0} /\ n \in 1..Depth /\ excs[Len(excs)].depth = n - 1 /\ Last(excs) = excs[Len(excs)]
  <2>1. Len(excs) \in 1..Len(excs)
    BY <1>1
  <2>2. excs[Len(excs)].depth \in Nat /\ excs[Len(excs)].depth < Depth
    BY <1>0, <1>1, <2>1 DEF HandlersBelow, HandlerSet
  <2> QED
    BY <1>0, <1>2, <2>2 DEF Last
<1>4. HandlersBelow(excs, n)
  <2>1. ASSUME NEW h \in DOMAIN excs PROVE excs[h].depth < n
    <3>1. excs[h].depth <= excs[Len(excs)].depth
      <4>1. CASE h = Len(excs)
        BY <1>1, <1>3, <4>1
      <4>2. CASE h # Len(excs)
        <5>1. h < Len(excs) /\ Len(excs) \in DOMAIN excs
          <6>1. h \in 1..Len(excs) /\ Len(excs) \in Nat
            BY <1>1, <2>1
          <6> QED
            BY <1>1, <4>2, <6>1
        <5> QED
          BY <1>0, <2>1, <5>1 DEF HandlersBelow
      <4> QED
        BY <4>1, <4>2
    <3>2. excs[h].depth \in Nat
      BY <1>1, <2>1 DEF HandlerSet
    <3> QED
      BY <1>3, <3>1, <3>2
  <2> QED
    BY <1>0, <2>1 DEF HandlersBelow
<1>5. PICK f : f = Call(n)
  OBVIOUS
<1>6. PICK p : p = ProtoOf(f)
  OBVIOUS
<1>7. PICK a : a = Before(f)
  OBVIOUS
<1>8. a \in Knowledge(p) /\ LegalStep(image, p, f.ip, KnownIn(f)) /\ a = KnownIn(f)[f.ip]
  BY <1>3, <1>5, <1>6, <1>7, CodeAt DEF Before
<1>9. a.tries \in Seq(Nat) /\ DOMAIN a = {"tries", "open"}
  <2>1. a.tries \in Seq(Nat)
    BY <1>3, <1>5, <1>7, CodeAt
  <2>2. DOMAIN a = {"tries", "open"}
    BY <1>8 DEF Knowledge
  <2> QED
    BY <2>1, <2>2
<1>10. HandlersOf(excs, n, a.tries)
  BY <1>3, <1>5, <1>7 DEF Machine, HandlersOK
<1>11. a.tries # << >> /\ Last(a.tries) = Last(excs).ip
  <2>1. PICK ts : ts = a.tries
    OBVIOUS
  <2>2. ts \in Seq(Nat) /\ Len(ts) \in Nat
    BY <1>9, <2>1
  <2>3. /\ Len(ts) \in 0..Len(excs)
        /\ \A h \in 1..Len(excs) : excs[h].depth = n - 1 <=> h > Len(excs) - Len(ts)
        /\ \A j \in 1..Len(ts) : excs[(Len(excs) - Len(ts)) + j].ip = ts[j]
    BY <1>3, <1>4, <1>10, <2>1, <2>2, HandlersLast, Zenon
  <2>4. Len(excs) > Len(excs) - Len(ts)
    BY <1>1, <1>3, <2>3
  <2>5. Len(ts) \in 1..Len(ts)
    BY <1>1, <2>2, <2>4
  <2>6. excs[(Len(excs) - Len(ts)) + Len(ts)].ip = ts[Len(ts)]
    BY <2>3, <2>5
  <2>7. (Len(excs) - Len(ts)) + Len(ts) = Len(excs)
    BY <1>1, <2>2
  <2>8. ts # << >>
    BY <2>2, <2>5
  <2> QED
    BY <1>3, <2>1, <2>6, <2>7, <2>8 DEF Last
<1>12. PICK t : t = HandlerOf(p, a)
  OBVIOUS
<1>13. /\ t \in DOMAIN KnownIn(f) /\ KnownIn(f)[t].tries = Front(a.tries)
       /\ {x \in a.open : x < p.code[Last(a.tries)].outlive} \subseteq KnownIn(f)[t].open
  <2>1. PICK c : c = Caught(p, a)
    OBVIOUS
  <2>2. <<t, c>> \in Flows(image, p, f.ip, a)
    BY <1>11, <1>12, <2>1 DEF Flows
  <2>3. \A flow \in Flows(image, p, f.ip, a) :
           /\ flow[1] \in DOMAIN KnownIn(f)
           /\ KnownIn(f)[flow[1]].tries = flow[2].tries
           /\ flow[2].open \subseteq KnownIn(f)[flow[1]].open
    BY <1>8, Zenon DEF LegalStep
  <2>4. c.tries = Front(a.tries) /\ c.open = {x \in a.open : x < p.code[Last(a.tries)].outlive}
    BY <1>9, <2>1 DEF Caught, Kept
  <2> QED
    BY <2>2, <2>3, <2>4
<1>14. /\ HandlersBelow(Front(excs), n) /\ HandlersOf(Front(excs), n, Front(a.tries))
       /\ \A k \in 1..(n - 1), us \in Seq(Nat) : HandlersOf(excs, k, us) => HandlersOf(Front(excs), k, us)
  <2>1. PICK ts : ts = a.tries
    OBVIOUS
  <2>2. ts \in Seq(Nat) /\ 1 \in 0..Len(ts)
    BY <1>9, <1>11, <2>1
  <2>3. /\ HandlersBelow(SubSeq(excs, 1, Len(excs) - 1), n)
        /\ HandlersOf(SubSeq(excs, 1, Len(excs) - 1), n, SubSeq(ts, 1, Len(ts) - 1))
        /\ \A k \in 1..(n - 1), us \in Seq(Nat) :
              HandlersOf(excs, k, us) => HandlersOf(SubSeq(excs, 1, Len(excs) - 1), k, us)
    BY <1>3, <1>4, <1>10, <2>1, <2>2, HandlersPopped
  <2> QED
    BY <2>1, <2>3 DEF Front
<1>15. \A k \in 1..(n - 1) : HandlersOf(Front(excs), k, Before(Call(k)).tries)
  <2> TAKE k \in 1..(n - 1)
  <2>1. k \in 1..Depth
    BY <1>0, <1>3
  <2>2. Before(Call(k)).tries \in Seq(Nat)
    BY <2>1, CodeAt
  <2>3. HandlersOf(excs, k, Before(Call(k)).tries)
    BY <2>1 DEF Machine, HandlersOK
  <2> QED
    BY <1>14, <2>2, <2>3
<1> QED
  BY <1>2, <1>3, <1>5, <1>6, <1>7, <1>11, <1>12, <1>13, <1>14, <1>15

\* An exception goes to the handler of the last call that has one, which
\* is then the running one, with the registers and scopes it had; or ends the
\* program.
LEMMA Thrown ==
    ASSUME result = <<"running">>, Machine, Settled, NEW e, NEW arg, Solid(e), Solid(arg),
           Throw(e, arg), image' = image, UNCHANGED memory
    PROVE  IInv'
<1>1. CASE excs = << >>
  <2>1. result' = <<"raise", e>> /\ excs' = << >>
    BY <1>1 DEF Throw
  <2> QED
    BY <2>1 DEF IInv
<1>2. CASE excs # << >>
  <2>h. PICK h : h = Last(excs)
    OBVIOUS
  <2>n. PICK n : n = h.depth + 1
    OBVIOUS
  <2>f. PICK f : f = Call(n)
    OBVIOUS
  <2>a. PICK a : a = Before(f)
    OBVIOUS
  <2>p. PICK p : p = ProtoOf(f)
    OBVIOUS
  <2>t. PICK t : t = HandlerOf(p, a)
    OBVIOUS
  <2>s. PICK s : s = f.top
    OBVIOUS
  <2>o. PICK out : out = p.code[h.ip].outlive
    OBVIOUS
  <2>k. PICK known : known = KnownIn(f)
    OBVIOUS
  <2>1. /\ n \in 1..Depth /\ a.tries # << >> /\ Last(a.tries) = h.ip
        /\ t \in DOMAIN known /\ known[t].tries = Front(a.tries)
        /\ {x \in a.open : x < out} \subseteq known[t].open
        /\ HandlersBelow(Front(excs), n) /\ HandlersOf(Front(excs), n, Front(a.tries))
        /\ \A k \in 1..(n - 1) : HandlersOf(Front(excs), k, Before(Call(k)).tries)
    <3>1. LET m == Last(excs).depth + 1
              g == Call(m)
              q == ProtoOf(g)
              b == Before(g)
              r == HandlerOf(q, b)
          IN /\ m \in 1..Depth /\ b.tries # << >> /\ Last(b.tries) = Last(excs).ip
             /\ r \in DOMAIN KnownIn(g) /\ KnownIn(g)[r].tries = Front(b.tries)
             /\ {x \in b.open : x < q.code[Last(b.tries)].outlive} \subseteq KnownIn(g)[r].open
             /\ HandlersBelow(Front(excs), m) /\ HandlersOf(Front(excs), m, Front(b.tries))
             /\ \A k \in 1..(m - 1) : HandlersOf(Front(excs), k, Before(Call(k)).tries)
      BY <1>2, Catcher
    <3> QED
      BY <2>h, <2>n, <2>f, <2>a, <2>p, <2>t, <2>o, <2>k, <3>1
  <2>2. (IF Len(frames) > h.depth THEN frames[h.depth + 1] ELSE regs) = f
    <3>1. Depth = Len(frames) + 1 /\ Len(frames) \in Nat
      BY Running1 DEF Machine
    <3>2. h.depth \in Nat
      <4>1. excs \in Seq(HandlerSet)
        BY DEF Machine, HandlersOK, HandlersBelow
      <4>2. h \in HandlerSet
        BY <1>2, <2>h, <4>1 DEF Last
      <4> QED
        BY <4>2 DEF HandlerSet
    <3> QED
      BY <2>n, <2>f, <2>1, <3>1, <3>2 DEF Call
  <2>3. /\ stack' = [stack EXCEPT ![s + 1] = e, ![s + 2] = arg]
        /\ regs' = [f EXCEPT !.ip = t]
        /\ frames' = SubSeq(frames, 1, h.depth)
        /\ excs' = Front(excs)
        /\ unclosed' = (unclosed \/ OpenFrom(f.reg + out) # {})
        /\ result' = result
    <3>1. p = image.protos[ClosureOf(stack[f.func + 1]).proto]
      BY <2>p DEF ProtoOf
    <3>2. t = h.ip + p.code[h.ip].b
      BY <2>t, <2>1 DEF HandlerOf
    <3> QED
      BY <1>2, <2>h, <2>s, <2>o, <2>2, <3>1, <3>2, Zenon DEF Throw, Handlers
  <2>4. f \in FrameSet /\ FrameOK(f) /\ p.nstack \in Nat /\ a \in Knowledge(p) /\ known[f.ip] = a
        /\ a.tries \in Seq(Nat) /\ \A j \in DOMAIN a.tries : p.code[a.tries[j]] \in Instructions
    BY <2>f, <2>p, <2>a, <2>k, <2>1, CodeAt, Zenon DEF Before
  <2>5. s \in Nat /\ f.reg \in Nat /\ f.reg <= s
    BY <2>p, <2>s, <2>4 DEF FrameOK, FrameSet
  <2>6. IsList(stack') /\ DOMAIN stack' = DOMAIN stack
    <3>1. IsList(stack)
      BY DEF Machine, StackOK
    <3>2. PICK st : st = [stack EXCEPT ![s + 1] = e]
      BY Zenon
    <3>3. IsList(st) /\ DOMAIN st = DOMAIN stack
      BY <3>1, <3>2, ListExcept, Zenon
    <3>4. stack' = [st EXCEPT ![s + 2] = arg]
      BY <2>3, <3>2
    <3> QED
      BY <3>3, <3>4, ListExcept, Zenon
  <2>7. Grows
    BY GrowsNot
  <2>8. n \in Nat /\ n - 1 = h.depth /\ Depth \in Nat
    <3>1. Depth \in Nat
      BY Running1 DEF Machine
    <3>2. n \in Nat
      BY <2>1, <3>1
    <3>3. h.depth \in Nat
      <4>1. excs \in Seq(HandlerSet)
        BY DEF Machine, HandlersOK, HandlersBelow
      <4>2. h \in HandlerSet
        BY <1>2, <2>h, <4>1 DEF Last
      <4> QED
        BY <4>2 DEF HandlerSet
    <3> QED
      BY <2>n, <3>1, <3>2, <3>3
  <2>9. \A k \in 1..n : stack'[Call(k).func + 1] = stack[Call(k).func + 1]
    <3> TAKE k \in 1..n
    <3>1. k \in 1..Depth /\ k <= n
      BY <2>1, <2>8
    <3>2. Call(k).func + 1 <= f.reg /\ Call(k).func + 1 \in DOMAIN stack /\ Call(k) \in FrameSet
      BY <2>f, <2>1, <3>1, CallsApart, CallIs DEF Machine
    <3>3. Call(k).func + 1 \in Nat
      BY <3>2 DEF FrameSet
    <3>4. Call(k).func + 1 # s + 1 /\ Call(k).func + 1 # s + 2
      BY <2>5, <3>2, <3>3
    <3> QED
      BY <2>3, <3>2, <3>4
  <2>10. /\ FramesOK' /\ Depth' = n
         /\ \A k \in 1..n : Call(k)' = IF k = n THEN regs' ELSE Call(k)
         /\ \A k \in 1..(n - 1) : Before(Call(k))' = Before(Call(k))
         /\ Before(Call(n))' = known[t]
    <3>1. frames' = SubSeq(frames, 1, n - 1) /\ regs' = [Call(n) EXCEPT !.ip = t]
      BY <2>f, <2>3, <2>8
    <3>2. n \in 1..Depth /\ t \in DOMAIN KnownIn(Call(n)) /\ DOMAIN stack \subseteq DOMAIN stack'
      BY <2>f, <2>k, <2>1, <2>6
    <3>3. /\ FramesOK' /\ Depth' = n
          /\ \A k \in 1..n : Call(k)' = IF k = n THEN regs' ELSE Call(k)
          /\ \A k \in 1..(n - 1) : Before(Call(k))' = Before(Call(k))
          /\ Before(Call(n))' = KnownIn(Call(n))[t]
      BY <2>1, <2>7, <2>9, <3>1, <3>2, CallsCut
    <3> QED
      BY <2>f, <2>k, <3>3
  <2>11. HandlersOK'
    <3>1. \A k \in 1..n : HandlersOf(excs, k, Before(Call(k)).tries)'
      <4> TAKE k \in 1..n
      <4>1. PICK ts : ts = Before(Call(k))'.tries
        OBVIOUS
      <4>2. ts = IF k = n THEN Front(a.tries) ELSE Before(Call(k)).tries
        <5>1. CASE k = n
          BY <2>1, <2>10, <4>1, <5>1
        <5>2. CASE k # n
          <6>1. k \in 1..(n - 1)
            BY <2>8, <5>2
          <6> QED
            BY <2>10, <4>1, <5>2, <6>1
        <5> QED
          BY <5>1, <5>2
      <4>3. HandlersOf(Front(excs), k, ts)
        BY <2>1, <2>8, <4>2
      <4> QED
        BY <2>3, <4>1, <4>3
    <3>2. HandlersBelow(excs, Depth)'
      <4>1. HandlersBelow(Front(excs), n)
        BY <2>1
      <4> QED
        BY <2>3, <2>10, <4>1
    <3> QED
      BY <2>10, <3>1, <3>2 DEF HandlersOK
  <2>12. StackOK'
    <3>1. \A j \in DOMAIN stack : Solid(stack[j])'
      <4> TAKE j \in DOMAIN stack
      <4>1. PICK w : w = stack'[j]
        OBVIOUS
      <4>2. w = e \/ w = arg \/ w = stack[j]
        BY <2>3, <4>1
      <4>3. Solid(w)
        BY <4>2 DEF Settled
      <4>4. Solid(w)'
        BY <2>7, <4>3, SolidKept
      <4> QED
        BY <4>1, <4>4
    <3> QED
      BY <2>6, <3>1 DEF StackOK, Valid
  <2>13. ASSUME ~unclosed' PROVE UpvalsOK'
    <3>1. ASSUME NEW u \in Upvalues PROVE UpvalueOK(Upvalue(u))'
      <4>1. PICK w : w = Upvalue(u)
        OBVIOUS
      <4>2. UpvalueOK(w)
        BY <4>1 DEF Machine, UpvalsOK
      <4>3. Solid(w.v)'
        BY <2>7, <4>2, SolidKept DEF UpvalueOK
      <4>4. ASSUME w.slot >= 0 PROVE InScope(w.slot)'
        <5>1. PICK k \in 1..Depth : w.slot - Call(k).reg \in Before(Call(k)).open
          BY <4>2, <4>4 DEF UpvalueOK, InScope
        <5>2. out \in Nat
          <6>1. Len(a.tries) \in DOMAIN a.tries
            BY <2>1, <2>4
          <6>2. p.code[h.ip] \in Instructions
            BY <2>1, <2>4, <6>1 DEF Last
          <6> QED
            BY <2>o, <6>2 DEF Instructions
        <5>3. w.slot < f.reg + out
          <6>1. ~(w.slot >= f.reg + out)
            BY <2>3, <2>13, <4>1, Zenon DEF OpenFrom
          <6>2. w.slot \in Int
            BY <4>2 DEF UpvalueOK
          <6> QED
            BY <2>5, <5>2, <6>1, <6>2
        <5>4. Call(k) \in FrameSet /\ Before(Call(k)) \in Knowledge(ProtoOf(Call(k)))
          BY CodeAt
        <5>5. k <= n
          <6>1. SUFFICES ASSUME k > n PROVE FALSE
            BY <2>8
          <6>2. Apart(f, Call(k))
            BY <2>f, <2>1, <2>8, <6>1 DEF Machine, FramesOK
          <6>3. out <= Call(k).func - f.reg
            <7>1. PICK j \in DOMAIN a.tries : a.tries[j] = h.ip
              BY <2>1, <2>4 DEF Last
            <7>2. Below(p, a, Call(k).func - f.reg)
              BY <2>a, <2>p, <6>2 DEF Apart
            <7> QED
              BY <2>o, <7>1, <7>2 DEF Below
          <6>4. Call(k).reg <= w.slot
            <7>1. w.slot - Call(k).reg \in 0..(ProtoOf(Call(k)).nstack - 1) /\ w.slot \in Int
              BY <4>2, <5>1, <5>4 DEF Knowledge, UpvalueOK
            <7> QED
              BY <5>4, <7>1 DEF FrameSet
          <6>5. Call(k).func < Call(k).reg
            BY CallIs DEF Machine, FrameOK
          <6> QED
            BY <2>5, <4>2, <5>2, <5>3, <5>4, <6>3, <6>4, <6>5 DEF UpvalueOK, FrameSet
        <5>6. CASE k # n
          <6>1. k \in 1..(n - 1) /\ k \in 1..n
            BY <2>8, <5>5, <5>6
          <6>2. Call(k)' = Call(k) /\ Before(Call(k))' = Before(Call(k))
            BY <2>10, <5>6, <6>1
          <6> QED
            BY <2>10, <5>1, <6>1, <6>2 DEF InScope
        <5>7. CASE k = n
          <6>1. Call(n)'.reg = f.reg /\ Before(Call(n))' = known[t] /\ n \in 1..Depth'
            <7>1. n \in 1..n /\ n \in 1..Depth'
              BY <2>1, <2>8, <2>10
            <7>2. Call(n)' = regs'
              BY <2>10, <7>1
            <7>3. regs'.reg = f.reg
              BY <2>3, <2>4 DEF FrameSet
            <7> QED
              BY <2>10, <7>1, <7>2, <7>3
          <6>2. w.slot - f.reg \in a.open
            BY <2>f, <2>a, <5>1, <5>7
          <6>3. w.slot - f.reg < out
            BY <2>5, <4>2, <5>2, <5>3 DEF UpvalueOK
          <6>4. w.slot - f.reg \in known[t].open
            BY <2>1, <6>2, <6>3
          <6>5. (w.slot - Call(n).reg \in Before(Call(n)).open)'
            BY <6>1, <6>4
          <6> QED
            BY <6>1, <6>5 DEF InScope
        <5> QED
          BY <5>6, <5>7
      <4>5. UpvalueOK(w)'
        BY <4>2, <4>3, <4>4 DEF UpvalueOK
      <4>6. w = Upvalue(u)'
        BY <4>1 DEF Upvalue, memory
      <4> QED
        BY <4>5, <4>6
    <3>2. upvals' = upvals /\ IsList(upvals)
      BY DEF memory, Machine, UpvalsOK
    <3>3. Upvalues' = Upvalues /\ \A u : Upvalue(u)' = Upvalue(u)
      BY <3>2 DEF Upvalues, Upvalue
    <3> QED
      BY <3>1, <3>2, <3>3 DEF UpvalsOK
  <2>14. GlobalsOK' /\ ClosuresOK' /\ HeapOK' /\ ClassesOK' /\ Legal(image)'
    BY <2>7, GlobalsKept, ClosuresKept, HeapKept, ClassesKept DEF memory, Machine
  <2> QED
    BY <2>3, <2>10, <2>11, <2>12, <2>13, <2>14 DEF IInv, Machine
<1> QED
  BY <1>1, <1>2

-----------------------------------------------------------------------------
(* Values and what they stand for.                                         *)

\* A value of a plain type is solid.
LEMMA PlainSolid ==
    ASSUME NEW v, v[1] \in Plain
    PROVE  Solid(v) /\ Solid(v)'
BY DEF Solid

\* A value that stands for something in the heap is solid.
LEMMA HeapSolid ==
    ASSUME Machine, NEW v, Solid(v), v[1] \in InHeap
    PROVE  /\ v[2] \in DOMAIN heap /\ heap[v[2]].type = v[1] /\ RecordOK(heap[v[2]])
<1>1. v[2] \in DOMAIN heap /\ heap[v[2]].type = v[1]
  BY Zenon DEF Solid, InHeap, Plain
<1> QED
  BY <1>1 DEF Machine, HeapOK

\* A solid list is in the heap, with solid items.
LEMMA ListSolid ==
    ASSUME Machine, NEW v, Solid(v), v[1] = "list"
    PROVE  LET r == heap[v[2]]
           IN /\ v[2] \in DOMAIN heap /\ r.type = "list" /\ r = [type |-> "list", items |-> r.items]
              /\ IsList(r.items) /\ \A k \in DOMAIN r.items : Solid(r.items[k])
BY HeapSolid, Zenon DEF InHeap, RecordOK

\* A solid map is in the heap, with solid keys and values.
LEMMA MapSolid ==
    ASSUME Machine, NEW v, Solid(v), v[1] = "map"
    PROVE  LET r == heap[v[2]]
           IN /\ v[2] \in DOMAIN heap /\ r.type = "map" /\ r = [type |-> "map", items |-> r.items]
              /\ IsList(r.items) /\ \A k \in DOMAIN r.items : Solid(r.items[k][1]) /\ Solid(r.items[k][2])
BY HeapSolid, Zenon DEF InHeap, RecordOK

\* A solid iterator is in the heap, and so is its list.
LEMMA IterSolid ==
    ASSUME Machine, NEW v, Solid(v), v[1] = "iter"
    PROVE  LET r == heap[v[2]]
           IN /\ v[2] \in DOMAIN heap /\ r.type = "iter"
              /\ r = [type |-> "iter", of |-> r.of, next |-> r.next]
              /\ r.of[1] = "list" /\ Solid(r.of) /\ r.next \in Nat
BY HeapSolid, Zenon DEF InHeap, RecordOK

\* A solid object is in the heap.
LEMMA ObjSolid ==
    ASSUME Machine, NEW v, Solid(v), v[1] = "obj"
    PROVE  LET r == heap[v[2]]
           IN /\ v[2] \in DOMAIN heap /\ r.type = "obj" /\ r = [type |-> "obj", parts |-> r.parts]
              /\ DOMAIN r.parts \subseteq 0..Len(image.classes)
              /\ \A n \in DOMAIN r.parts :
                    LET q == r.parts[n] IN
                    /\ q = [class |-> q.class, vals |-> q.vals] /\ ClassReady(q.class)
                    /\ DOMAIN q.vals = DOMAIN image.classes[q.class].vars
                    /\ \A k \in DOMAIN q.vals : Solid(q.vals[k])
BY HeapSolid, Zenon DEF InHeap, RecordOK

\* A solid class is made.
LEMMA ClassSolid ==
    ASSUME NEW v, Solid(v), v[1] = "class"
    PROVE  ClassReady(v[2])
BY DEF Solid, InHeap, Plain

\* A solid function is made.
LEMMA FunSolid ==
    ASSUME NEW v, Solid(v), v[1] = "fun"
    PROVE  IsFunction(v[2])
BY DEF Solid, InHeap, Plain

-----------------------------------------------------------------------------
(* Steps that end in a value or in an error of the interpreter.            *)

\* An error of the interpreter keeps the machine in order.
LEMMA ErrorStep ==
    ASSUME result = <<"running">>, Machine, Settled, NEW name, VmError(name)
    PROVE  IInv'
<1>1. PICK e : e = <<"str", name>>
  BY Zenon
<1>2. PICK arg : arg = <<"str", "message">>
  BY Zenon
<1>3. Solid(e) /\ Solid(arg)
  <2>1. e[1] \in Plain /\ arg[1] \in Plain
    BY <1>1, <1>2 DEF Plain
  <2> QED
    BY <2>1, PlainSolid
<1>4. Throw(e, arg) /\ image' = image /\ UNCHANGED memory
  BY <1>1, <1>2, Zenon DEF VmError
<1> QED
  BY <1>3, <1>4, Thrown

\* A value into a register, and more objects, or some that have changed.
LEMMA ObjectStep ==
    ASSUME result = <<"running">>, Machine, I.op \in Plains, I.a \in Operands(I), NEW v, ToRegister(I.a, v),
           UNCHANGED <<image, control, upvals, closures, globals, classes>>,
           HeapGrows, Solid(v)', HeapOK'
    PROVE  IInv'
<1>1. PICK x : x = I.a
  OBVIOUS
<1>2. Grows
  <2>1. Upvalues \subseteq Upvalues' /\ DOMAIN classes' = DOMAIN classes
    BY DEF Upvalues
  <2> QED
    BY <2>1, GrowsPlain
<1>3. ClassesOK' /\ DOMAIN classes' = DOMAIN classes
  BY <1>2, ClassesKept
<1>4. Machine'
  BY <1>1, <1>3, WritesRegister
<1> QED
  BY <1>4 DEF IInv, control

\* A value into a register, and nothing else.
LEMMA ValueStep ==
    ASSUME result = <<"running">>, Machine, I.op \in Plains, I.a \in Operands(I), NEW v, ToRegister(I.a, v),
           UNCHANGED <<image, control, memory>>, Solid(v)
    PROVE  IInv'
<1>1. /\ UNCHANGED <<image, control, upvals, closures, globals, classes>> /\ heap' = heap
      /\ UNCHANGED memory /\ image' = image
  BY DEF memory
<1>2. HeapGrows /\ Grows
  BY <1>1, GrowsNot DEF HeapGrows
<1>3. Solid(v)' /\ HeapOK'
  BY <1>1, <1>2, SolidKept, HeapKept
<1> QED
  BY <1>1, <1>2, <1>3, ObjectStep

\* A step that writes no register writes one as it is.
LEMMA NoWrite ==
    ASSUME Machine, I.a \in Operands(I), stack' = stack, regs' = Skip(0)
    PROVE  ToRegister(I.a, stack[Slot(I.a)])
<1>1. PICK x : x = I.a
  OBVIOUS
<1>2. Slot(x) \in DOMAIN stack /\ IsList(stack)
  BY <1>1, OperandIs, Here
<1>3. stack = [stack EXCEPT ![Slot(x)] = stack[Slot(x)]]
  BY <1>2 DEF IsList
<1> QED
  BY <1>1, <1>3 DEF ToRegister

\* What an instruction is does not depend on where it is read.
LEMMA OpIs ==
    ASSUME Machine
    PROVE  I.op \in STRING /\ I.a \in Int /\ I.b \in Int /\ I.c \in Int /\ I.outlive \in Nat
BY Here DEF Instructions

\* The operands of most instructions.
LEMMA OperandA ==
    ASSUME I.op \notin {"GETMET", "CALL", "CATCH", "JMP", "CLOSE", "CLASS", "EXBLK", "RAISE", "RET"}
    PROVE  I.a \in Operands(I)
<1>1. PlainOperands(I) = {I.a}
  BY DEF PlainOperands
<1> QED
  BY <1>1 DEF Operands

\* Both operands of an operator are sources.
LEMMA SourcesTwo ==
    ASSUME I.op \in Arithmetic \cup Relations \cup {"GETIDX", "SETIDX", "GETMBR", "SETMBR", "CONNECT", "GETMET"}
    PROVE  I.b \in Sources(I) /\ I.c \in Sources(I)
<1>1. PICK i : i = I
  OBVIOUS
<1>2. i.op \notin {"MOVE", "NEG", "FLIP", "SETSUPER", "RET", "RAISE"}
  BY <1>1 DEF Arithmetic, Relations
<1>3. Sources(i) = {i.b, i.c}
  BY <1>1, <1>2 DEF Sources
<1> QED
  BY <1>1, <1>3

\* Arithmetic and comparison.
LEMMA OperateStep ==
    ASSUME result = <<"running">>, Machine, Operate
    PROVE  IInv'
<1>1. I.op \in Arithmetic \cup Relations
  BY DEF Operate, Running
<1>2. I.op \in Plains /\ I.a \in Operands(I) /\ I.op \notin {"SETGBL", "CLASS"}
  BY <1>1, OpIs DEF Plains, Special, Operands, PlainOperands, Arithmetic, Relations
<1>3. Settled
  BY <1>2, SettledHere
<1>4. ASSUME NEW v, ToRegister(I.a, v), UNCHANGED <<image, control, memory, outside>>, Solid(v)
      PROVE  IInv'
  BY <1>2, <1>4, ValueStep
<1> DEFINE x == RK(I.b)
           y == RK(I.c)
           ints == IsInt(x) /\ IsInt(y)
           zero == I.op \in {"DIV", "MOD"} /\ ints /\ y[2] = 0
           same == I.op \in {"EQ", "NE"} /\ ~ints
           done(v) == ToRegister(I.a, v) /\ UNCHANGED <<image, control, memory, outside>>
<1>5. \/ same /\ done(Bool((x = y) = (I.op = "EQ")))
      \/ ints /\ ~zero /\ done(Computed(I.op, x[2], y[2]))
      \/ zero /\ VmError("divzero_error")
      \/ ~ints /\ ~same /\ VmError(IF x[1] = "list" /\ I.op = "ADD" THEN "type_error" ELSE BadType(x))
  BY DEF Operate
<1> HIDE DEF x, y, ints, zero, same
<1>6. CASE done(Bool((x = y) = (I.op = "EQ")))
  <2>1. PICK v : v = Bool((x = y) = (I.op = "EQ"))
    OBVIOUS
  <2>2. Solid(v)
    <3>1. v[1] \in Plain
      BY <2>1 DEF Bool, Plain
    <3> QED
      BY <3>1, PlainSolid
  <2> QED
    BY <1>4, <1>6, <2>1, <2>2
<1>7. CASE done(Computed(I.op, x[2], y[2]))
  <2>1. PICK v : v = Computed(I.op, x[2], y[2])
    OBVIOUS
  <2>2. v[1] \in {"int", "bool"}
    BY <1>1, <2>1 DEF Computed, Bool, Arithmetic, Relations
  <2>3. Solid(v)
    <3>1. v[1] \in Plain
      BY <2>2, Zenon DEF Plain
    <3> QED
      BY <3>1, PlainSolid
  <2> QED
    BY <1>4, <1>7, <2>1, <2>3
<1>8. CASE VmError("divzero_error")
  BY <1>3, <1>8, ErrorStep
<1>9. CASE VmError(IF x[1] = "list" /\ I.op = "ADD" THEN "type_error" ELSE BadType(x))
  BY <1>3, <1>9, ErrorStep
<1> QED
  BY <1>5, <1>6, <1>7, <1>8, <1>9

\* Negation.
LEMMA NegateStep ==
    ASSUME result = <<"running">>, Machine, Negate
    PROVE  IInv'
<1>1. I.op \in {"NEG", "FLIP"}
  BY DEF Negate, Running
<1>2. I.op \in Plains /\ I.a \in Operands(I) /\ I.op \notin {"SETGBL", "CLASS"}
  BY <1>1, OpIs DEF Plains, Special, Operands, PlainOperands
<1>3. Settled
  BY <1>2, SettledHere
<1>4. CASE IsInt(RK(I.b))
  <2>1. PICK v : v = <<"int", IF I.op = "NEG" THEN -RK(I.b)[2] ELSE -RK(I.b)[2] - 1>>
    BY Zenon
  <2>2. ToRegister(I.a, v) /\ UNCHANGED <<image, control, memory>>
    BY <1>4, <2>1 DEF Negate
  <2>3. Solid(v)
    <3>1. v[1] \in Plain
      BY <2>1 DEF Plain
    <3> QED
      BY <3>1, PlainSolid
  <2> QED
    BY <1>2, <2>2, <2>3, ValueStep
<1>5. CASE ~IsInt(RK(I.b))
  <2>1. VmError(BadType(RK(I.b)))
    BY <1>5, Zenon DEF Negate
  <2> QED
    BY <1>3, <2>1, ErrorStep
<1> QED
  BY <1>4, <1>5

-----------------------------------------------------------------------------
(* Lists and maps.                                                         *)

\* A position that is found is one of the list or the map.
LEMMA PositionIs ==
    ASSUME Machine, NEW v, Solid(v), NEW k, Position(v, k) # 0
    PROVE  /\ v[1] \in {"list", "map"} /\ Position(v, k) \in DOMAIN heap[v[2]].items
<1> DEFINE items == heap[v[2]].items
           n == IF k[2] < 0 THEN k[2] + Len(items) ELSE k[2]
<1>1. CASE v[1] = "list"
  <2>1. IsList(items)
    BY <1>1, ListSolid, Zenon
  <2>2. Len(items) \in Nat /\ DOMAIN items = 1..Len(items)
    BY <2>1, ListIs
  <2>3. Position(v, k) = IF IsInt(k) /\ n \in 0..(Len(items) - 1) THEN n + 1 ELSE 0
    BY <1>1 DEF Position
  <2> HIDE DEF n, items
  <2>4. n \in 0..(Len(items) - 1) /\ Position(v, k) = n + 1
    BY <2>3
  <2> QED
    BY <1>1, <2>2, <2>4 DEF items
<1>2. CASE v[1] = "map"
  <2>1. IsList(items)
    BY <1>2, MapSolid, Zenon
  <2>2. Len(items) \in Nat /\ DOMAIN items = 1..Len(items)
    BY <2>1, ListIs
  <2> DEFINE found == {0} \cup {i \in DOMAIN items : items[i][1] = k}
  <2>3. Position(v, k) = Max(found)
    BY <1>2 DEF Position
  <2> HIDE DEF items
  <2>4. found \subseteq 0..Len(items) /\ found # {}
    BY <2>2
  <2> HIDE DEF found
  <2>5. IsFiniteSet(found) /\ found \subseteq Int
    <3>1. PICK m : m = Len(items)
      BY Zenon
    <3>2. IsFiniteSet(0..m) /\ m \in Nat
      BY <2>2, <3>1, FS_Interval
    <3>3. IsFiniteSet(found)
      BY <2>4, <3>1, <3>2, FS_Subset, Zenon
    <3> QED
      BY <2>4, <3>1, <3>2, <3>3
  <2>6. Max(found) \in found
    BY <2>4, <2>5, Extremes, Zenon
  <2> QED
    BY <1>2, <2>2, <2>3, <2>6, Zenon DEF found, items
<1>3. CASE v[1] \notin {"list", "map"}
  BY <1>3 DEF Position
<1> QED
  BY <1>1, <1>2, <1>3

\* A bad index or key is an error.
LEMMA IndexErrorStep ==
    ASSUME result = <<"running">>, Machine, Settled, NEW v, IndexError(v)
    PROVE  IInv'
BY ErrorStep DEF IndexError

\* A record of the heap is another one.
LEMMA HeapChanged ==
    ASSUME Machine, NEW h \in DOMAIN heap, NEW r, heap' = [heap EXCEPT ![h] = r],
           r.type = heap[h].type
    PROVE  HeapGrows /\ (Grows /\ RecordOK(r)' => HeapOK')
<1>1. IsList(heap)
  BY DEF Machine, HeapOK
<1>2. IsList(heap') /\ DOMAIN heap' = DOMAIN heap
  BY <1>1, ListExcept, Zenon
<1>3. HeapGrows
  BY <1>2 DEF HeapGrows
<1>4. ASSUME Grows, RecordOK(r)' PROVE HeapOK'
  <2>1. \A g \in DOMAIN heap : RecordOK(heap[g])'
    <3> TAKE g \in DOMAIN heap
    <3>1. PICK q : q = heap'[g]
      OBVIOUS
    <3>2. CASE g = h
      BY <1>4, <3>1, <3>2
    <3>3. CASE g # h
      <4>1. q = heap[g] /\ RecordOK(q)
        BY <3>1, <3>3 DEF Machine, HeapOK
      <4>2. RecordOK(q)'
        BY <1>4, <4>1, RecordKept
      <4> QED
        BY <3>1, <4>2
    <3> QED
      BY <3>2, <3>3
  <2> QED
    BY <1>2, <2>1 DEF HeapOK
<1> QED
  BY <1>3, <1>4

\* The heap has one record more.
LEMMA HeapAppended ==
    ASSUME Machine, NEW r, heap' = Append(heap, r)
    PROVE  /\ HeapGrows /\ (Grows /\ RecordOK(r)' => HeapOK')
           /\ Len(heap) + 1 \in DOMAIN heap' /\ heap'[Len(heap) + 1] = r
<1>1. IsList(heap)
  BY DEF Machine, HeapOK
<1>2. /\ IsList(heap') /\ DOMAIN heap' = 1..(Len(heap) + 1)
      /\ \A i \in 1..Len(heap) : heap'[i] = heap[i]
      /\ heap'[Len(heap) + 1] = r
      /\ DOMAIN heap = 1..Len(heap) /\ Len(heap) \in Nat
  BY <1>1, ListAppend, ListIs
<1>3. HeapGrows
  BY <1>2 DEF HeapGrows
<1>4. ASSUME Grows, RecordOK(r)' PROVE HeapOK'
  <2>1. \A g \in 1..(Len(heap) + 1) : RecordOK(heap[g])'
    <3> TAKE g \in 1..(Len(heap) + 1)
    <3>1. PICK q : q = heap'[g]
      OBVIOUS
    <3>2. CASE g = Len(heap) + 1
      BY <1>2, <1>4, <3>1, <3>2
    <3>3. CASE g # Len(heap) + 1
      <4>1. g \in 1..Len(heap)
        BY <1>2, <3>3
      <4>2. q = heap[g] /\ RecordOK(q)
        BY <1>2, <3>1, <4>1 DEF Machine, HeapOK
      <4>3. RecordOK(q)'
        BY <1>4, <4>2, RecordKept
      <4> QED
        BY <3>1, <4>3
    <3> QED
      BY <3>2, <3>3
  <2> QED
    BY <1>2, <2>1 DEF HeapOK
<1> QED
  BY <1>2, <1>3, <1>4

\* Grows, where only the heap is made or changed.
LEMMA GrowsHeap ==
    ASSUME UNCHANGED <<image, upvals, closures>>, DOMAIN classes' = DOMAIN classes, HeapGrows
    PROVE  Grows
<1>1. Upvalues \subseteq Upvalues'
  BY DEF Upvalues
<1> QED
  BY <1>1, GrowsPlain

\* The items of a list or a map are others.
LEMMA ItemsChanged ==
    ASSUME Machine, NEW h \in DOMAIN heap, NEW its, heap' = [heap EXCEPT ![h].items = its],
           UNCHANGED <<image, upvals, closures, classes>>,
           heap[h].type \in {"list", "map"}, heap[h] = [type |-> heap[h].type, items |-> heap[h].items],
           IsList(its),
           heap[h].type = "list" => \A k \in DOMAIN its : Solid(its[k]),
           heap[h].type = "map" => \A k \in DOMAIN its : Solid(its[k][1]) /\ Solid(its[k][2])
    PROVE  HeapGrows /\ Grows /\ HeapOK'
<1>1. PICK ty : ty = heap[h].type
  OBVIOUS
<1>2. PICK r : r = [type |-> ty, items |-> its]
  BY Zenon
<1>3. heap' = [heap EXCEPT ![h] = r]
  <2>1. PICK q : q = heap[h]
    OBVIOUS
  <2>2. [q EXCEPT !.items = its] = r
    <3>1. q = [type |-> ty, items |-> q.items]
      BY <1>1, <2>1
    <3> QED
      BY <1>2, <3>1
  <2>3. heap' = [heap EXCEPT ![h] = [q EXCEPT !.items = its]]
    BY <2>1
  <2> QED
    BY <2>2, <2>3, Zenon
<1>4. HeapGrows /\ (Grows /\ RecordOK(r)' => HeapOK')
  BY <1>1, <1>2, <1>3, HeapChanged, Zenon
<1>5. Grows
  BY <1>4, GrowsHeap
<1>6. RecordOK(r)
  BY <1>1, <1>2 DEF RecordOK
<1>7. RecordOK(r)'
  BY <1>5, <1>6, RecordKept
<1> QED
  BY <1>4, <1>5, <1>7

\* An item is read.
LEMMA GetIndexStep ==
    ASSUME result = <<"running">>, Machine, GetIndex
    PROVE  IInv'
<1>1. I.op = "GETIDX"
  BY DEF GetIndex, Running
<1>2. I.op \in Plains /\ I.a \in Operands(I) /\ I.op \notin {"SETGBL", "CLASS"}
      /\ I.b \in Sources(I) /\ I.c \in Sources(I)
  <2>1. I.op \in Plains /\ I.op \notin {"SETGBL", "CLASS"}
    BY <1>1, OpIs DEF Plains, Special
  <2>2. I.a \in Operands(I)
    BY <1>1, OperandA
  <2>3. I.b \in Sources(I) /\ I.c \in Sources(I)
    BY <1>1, SourcesTwo
  <2> QED
    BY <2>1, <2>2, <2>3
<1>3. Settled
  BY <1>2, SettledHere
<1>4. PICK v : v = RK(I.b)
  OBVIOUS
<1>5. Solid(v)
  BY <1>2, <1>3, <1>4, SourceIs
<1>6. PICK at : at = Position(v, RK(I.c))
  OBVIOUS
<1>7. CASE v[1] \in {"list", "map"} /\ at > 0
  <2>1. at \in DOMAIN heap[v[2]].items
    <3>1. Position(v, RK(I.c)) # 0
      BY <1>6, <1>7
    <3> QED
      BY <1>5, <1>6, <3>1, PositionIs
  <2>2. PICK item : item = heap[v[2]].items[at]
    OBVIOUS
  <2>3. PICK w : w = IF v[1] = "map" THEN item[2] ELSE item
    OBVIOUS
  <2>4. Solid(w)
    <3>1. CASE v[1] = "map"
      BY <1>5, <2>1, <2>2, <2>3, <3>1, MapSolid, Zenon
    <3>2. CASE v[1] = "list"
      BY <1>5, <2>1, <2>2, <2>3, <3>2, ListSolid, Zenon
    <3> QED
      BY <1>7, <3>1, <3>2
  <2>5. ~((v[1] \notin {"list", "map"}) \/ at = 0)
    BY <1>7, SMTT(30)
  <2>6. ToRegister(I.a, w) /\ UNCHANGED <<image, control, memory>>
    <3>1. CASE IndexError(v) /\ at = 0
      BY <1>7, <3>1
    <3>2. CASE IndexError(v) /\ v[1] \notin {"list", "map"}
      BY <1>7, <3>2
    <3>3. CASE ToRegister(I.a, w) /\ UNCHANGED <<image, control, memory, outside>>
      BY <3>3
    <3> QED
      BY <1>4, <1>6, <2>2, <2>3, <3>1, <3>2, <3>3 DEF GetIndex
  <2> QED
    BY <1>2, <2>4, <2>6, ValueStep
<1>8. CASE ~(v[1] \in {"list", "map"} /\ at > 0)
  <2>1. IndexError(v)
    BY <1>4, <1>6, <1>8, Zenon DEF GetIndex
  <2> QED
    BY <1>3, <2>1, IndexErrorStep
<1> QED
  BY <1>7, <1>8

\* An item is set.
LEMMA SetIndexStep ==
    ASSUME result = <<"running">>, Machine, SetIndex
    PROVE  IInv'
<1>1. I.op = "SETIDX"
  BY DEF SetIndex, Running
<1>2. I.op \in Plains /\ I.a \in Operands(I) /\ I.op \notin {"SETGBL", "CLASS"}
      /\ I.b \in Sources(I) /\ I.c \in Sources(I)
  <2>1. I.op \in Plains /\ I.op \notin {"SETGBL", "CLASS"}
    BY <1>1, OpIs DEF Plains, Special
  <2>2. I.a \in Operands(I)
    BY <1>1, OperandA
  <2>3. I.b \in Sources(I) /\ I.c \in Sources(I)
    BY <1>1, SourcesTwo
  <2> QED
    BY <2>1, <2>2, <2>3
<1>3. Settled
  BY <1>2, SettledHere
<1>4. PICK v : v = stack[Slot(I.a)]
  OBVIOUS
<1>5. PICK k : k = RK(I.b)
  OBVIOUS
<1>6. PICK w : w = RK(I.c)
  OBVIOUS
<1>7. Solid(v) /\ Solid(k) /\ Solid(w)
  BY <1>2, <1>3, <1>4, <1>5, <1>6, SourceIs, OperandIs DEF Settled
<1>8. PICK at : at = Position(v, k)
  OBVIOUS
<1>9. CASE v[1] = "map" \/ (v[1] = "list" /\ at > 0)
  <2>1. PICK item : item = IF v[1] = "map" THEN <<k, w>> ELSE w
    BY Zenon
  <2>2. PICK old : old = heap[v[2]].items
    OBVIOUS
  <2>3. PICK its : its = IF at = 0 THEN Append(old, item) ELSE [old EXCEPT ![at] = item]
    BY ZenonT(40)
  <2>4. /\ heap' = [heap EXCEPT ![v[2]].items = its]
        /\ regs' = Skip(0)
        /\ UNCHANGED <<image, stack, control, upvals, closures, globals, classes>>
    <3>1. CASE ~(v[1] = "map" \/ (v[1] = "list" /\ at > 0)) /\ IndexError(v)
      BY <1>9, <3>1
    <3>2. CASE /\ heap' = [heap EXCEPT ![v[2]].items = IF at = 0 THEN Append(@, item)
                                                       ELSE [@ EXCEPT ![at] = item]]
               /\ regs' = Skip(0)
               /\ UNCHANGED <<image, stack, control, upvals, closures, globals, classes, outside>>
      BY <2>2, <2>3, <3>2
    <3> QED
      BY <1>4, <1>5, <1>6, <1>8, <2>1, <3>1, <3>2 DEF SetIndex
  <2>5. /\ v[2] \in DOMAIN heap /\ heap[v[2]].type = v[1] /\ IsList(old)
        /\ heap[v[2]] = [type |-> heap[v[2]].type, items |-> heap[v[2]].items]
        /\ v[1] = "list" => \A i \in DOMAIN old : Solid(old[i])
        /\ v[1] = "map" => \A i \in DOMAIN old : Solid(old[i][1]) /\ Solid(old[i][2])
    <3>1. CASE v[1] = "map"
      BY <1>7, <2>2, <3>1, MapSolid, Zenon
    <3>2. CASE v[1] = "list"
      BY <1>7, <2>2, <3>2, ListSolid, Zenon
    <3> QED
      BY <1>9, <3>1, <3>2
  <2>6. Len(old) \in Nat /\ DOMAIN old = 1..Len(old)
    BY <2>5, ListIs
  <2>7. /\ IsList(its)
        /\ \A i \in DOMAIN its : its[i] = item \/ (i \in DOMAIN old /\ its[i] = old[i])
    <3>1. CASE at = 0
      <4>1. /\ IsList(its) /\ DOMAIN its = 1..(Len(old) + 1)
            /\ \A i \in 1..Len(old) : its[i] = old[i]
            /\ its[Len(old) + 1] = item
        BY <2>3, <2>5, <3>1, ListAppend
      <4> QED
        BY <2>6, <4>1
    <3>2. CASE at # 0
      BY <2>3, <2>5, <3>2, ListExcept, Zenon
    <3> QED
      BY <3>1, <3>2
  <2>8. /\ v[1] = "list" => \A i \in DOMAIN its : Solid(its[i])
        /\ v[1] = "map" => \A i \in DOMAIN its : Solid(its[i][1]) /\ Solid(its[i][2])
    <3>1. v[1] = "list" => item = w
      BY <2>1
    <3>2. v[1] = "map" => item[1] = k /\ item[2] = w
      BY <2>1
    <3> QED
      BY <1>7, <2>5, <2>7, <3>1, <3>2
  <2>9. HeapGrows /\ Grows /\ HeapOK'
    BY <1>9, <2>4, <2>5, <2>7, <2>8, ItemsChanged, Zenon
  <2>10. Solid(v)'
    BY <1>7, <2>9, SolidKept
  <2>11. ToRegister(I.a, v)
    BY <1>2, <1>4, <2>4, NoWrite
  <2> QED
    BY <1>2, <2>4, <2>9, <2>10, <2>11, ObjectStep
<1>10. CASE ~(v[1] = "map" \/ (v[1] = "list" /\ at > 0))
  <2>1. IndexError(v)
    BY <1>4, <1>5, <1>8, <1>10, Zenon DEF SetIndex
  <2> QED
    BY <1>3, <2>1, IndexErrorStep
<1> QED
  BY <1>9, <1>10, Zenon

\* A list gets one more item.
LEMMA ConnectStep ==
    ASSUME result = <<"running">>, Machine, Connect
    PROVE  IInv'
<1>1. I.op = "CONNECT"
  BY DEF Connect, Running
<1>2. I.op \in Plains /\ I.a \in Operands(I) /\ I.op \notin {"SETGBL", "CLASS"}
      /\ I.b \in Sources(I) /\ I.c \in Sources(I)
  <2>1. I.op \in Plains /\ I.op \notin {"SETGBL", "CLASS"}
    BY <1>1, OpIs DEF Plains, Special
  <2>2. I.a \in Operands(I)
    BY <1>1, OperandA
  <2>3. I.b \in Sources(I) /\ I.c \in Sources(I)
    BY <1>1, SourcesTwo
  <2> QED
    BY <2>1, <2>2, <2>3
<1>3. Settled
  BY <1>2, SettledHere
<1>4. PICK v : v = RK(I.b)
  OBVIOUS
<1>5. PICK w : w = RK(I.c)
  OBVIOUS
<1>6. Solid(v) /\ Solid(w)
  BY <1>2, <1>3, <1>4, <1>5, SourceIs
<1>7. CASE v[1] = "list"
  <2>1. PICK old : old = heap[v[2]].items
    OBVIOUS
  <2>2. PICK its : its = Append(old, w)
    BY Zenon
  <2>3. /\ heap' = [heap EXCEPT ![v[2]].items = its]
        /\ ToRegister(I.a, v)
        /\ UNCHANGED <<image, control, upvals, closures, globals, classes>>
    BY <1>4, <1>5, <1>7, <2>1, <2>2 DEF Connect
  <2>4. /\ v[2] \in DOMAIN heap /\ heap[v[2]].type = "list" /\ IsList(old)
        /\ heap[v[2]] = [type |-> "list", items |-> heap[v[2]].items]
        /\ \A i \in DOMAIN old : Solid(old[i])
    BY <1>6, <1>7, <2>1, ListSolid
  <2>5. Len(old) \in Nat /\ DOMAIN old = 1..Len(old)
    BY <2>4, ListIs
  <2>6. /\ IsList(its) /\ DOMAIN its = 1..(Len(old) + 1)
        /\ \A i \in 1..Len(old) : its[i] = old[i]
        /\ its[Len(old) + 1] = w
    BY <2>2, <2>4, ListAppend
  <2>7. \A i \in DOMAIN its : Solid(its[i])
    BY <1>6, <2>4, <2>5, <2>6
  <2>8. HeapGrows /\ Grows /\ HeapOK'
    BY <2>3, <2>4, <2>6, <2>7, ItemsChanged, Zenon
  <2>9. Solid(v)'
    BY <1>6, <2>8, SolidKept
  <2> QED
    BY <1>2, <2>3, <2>8, <2>9, ObjectStep
<1>8. CASE v[1] # "list"
  <2>1. VmError(BadType(v))
    BY <1>4, <1>8, Zenon DEF Connect
  <2> QED
    BY <1>3, <2>1, ErrorStep
<1> QED
  BY <1>7, <1>8

-----------------------------------------------------------------------------
(* Calls of what is no function of the program.                            *)

\* What a call finds in its registers, and above them.
LEMMA CallIsLegal ==
    ASSUME Machine, I.op = "CALL"
    PROVE  /\ I.op \in Plains /\ I.a \in Operands(I) /\ Settled
           /\ I.a \in Nat /\ I.b \in Nat /\ I.a + I.b < Proto.nstack
           /\ Slot(I.a) \in Nat /\ CallAt \in Nat /\ CallArgs \in Int
           /\ regs.reg < Slot(I.a) /\ Slot(I.a) <= CallAt /\ CallAt <= Slot(I.a) + 1
           /\ CallArgs >= -1 /\ (CallAt = Slot(I.a) => CallArgs >= 0)
           /\ CallAt + CallArgs = Slot(I.a) + I.b
           /\ Slot(I.a) + I.b <= regs.top
           /\ CallAt \in DOMAIN stack /\ CallAt + 1 \in DOMAIN stack
           /\ Solid(stack[CallAt]) /\ Solid(stack[CallAt + 1]) /\ Solid(stack[Slot(I.a)])
<1>1. I.op \in Plains /\ I.a \in Int
  BY OpIs DEF Plains, Special
<1>2. I.b \in Nat
  BY Here DEF LegalOperands, I
<1>3. Operands(I) \subseteq 0..(Proto.nstack - 1)
  BY Here DEF LegalOperands, I
<1>4. I.a \in Operands(I) /\ I.a + I.b \in Operands(I)
  <2>1. PlainOperands(I) = I.a..(I.a + I.b)
    BY DEF PlainOperands
  <2>2. I.a \in I.a..(I.a + I.b) /\ I.a + I.b \in I.a..(I.a + I.b)
    BY <1>1, <1>2
  <2> QED
    BY <2>1, <2>2 DEF Operands
<1>5. Proto.nstack \in Nat /\ regs.reg \in Nat /\ regs.top = regs.reg + Proto.nstack
      /\ 1..(regs.top + 2) \subseteq DOMAIN stack
  BY Here DEF FrameSet
<1>6. I.a \in Nat /\ I.a + I.b < Proto.nstack
  BY <1>2, <1>3, <1>4, <1>5
<1>7. Slot(I.a) = regs.reg + I.a + 1
  BY DEF Slot
<1>8. \/ CallAt = Slot(I.a) /\ CallArgs = I.b
      \/ CallAt = Slot(I.a) + 1 /\ CallArgs = I.b - 1
  BY DEF CallAt, CallArgs
<1>9. Settled
  BY SettledHere
<1>10. /\ Slot(I.a) \in Nat /\ CallAt \in Nat /\ CallArgs \in Int
       /\ regs.reg < Slot(I.a) /\ Slot(I.a) <= CallAt /\ CallAt <= Slot(I.a) + 1
       /\ CallArgs >= -1 /\ (CallAt = Slot(I.a) => CallArgs >= 0)
       /\ CallAt + CallArgs = Slot(I.a) + I.b
       /\ Slot(I.a) + I.b <= regs.top
  BY <1>2, <1>5, <1>6, <1>7, <1>8
<1>11. Slot(I.a) \in 1..(regs.top + 2) /\ CallAt \in 1..(regs.top + 2) /\ CallAt + 1 \in 1..(regs.top + 2)
  BY <1>2, <1>5, <1>10
<1>12. Slot(I.a) \in DOMAIN stack /\ CallAt \in DOMAIN stack /\ CallAt + 1 \in DOMAIN stack
  BY <1>5, <1>11
<1> QED
  BY <1>1, <1>2, <1>4, <1>6, <1>9, <1>10, <1>12 DEF Settled

\* The host is shown a value.
LEMMA HostProbeStep ==
    ASSUME result = <<"running">>, Machine, HostProbe
    PROVE  IInv'
<1>1. I.op = "CALL" /\ ToRegister(I.a, Nil) /\ UNCHANGED <<image, control, memory>>
  BY DEF HostProbe, Running
<1>2. Solid(Nil)
  <2>1. Nil[1] \in Plain
    BY DEF Nil, Plain
  <2> QED
    BY <2>1, PlainSolid
<1> QED
  BY <1>1, <1>2, CallIsLegal, ValueStep

\* The host answers.
LEMMA HostAnswerStep ==
    ASSUME result = <<"running">>, Machine, HostAnswer
    PROVE  IInv'
<1>1. I.op = "CALL"
  BY DEF HostAnswer, Running
<1>2. PICK b \in BOOLEAN : ToRegister(I.a, Bool(b)) /\ UNCHANGED <<image, control, memory>>
  BY DEF HostAnswer
<1>3. PICK v : v = Bool(b)
  OBVIOUS
<1>4. Solid(v)
  <2>1. v[1] \in Plain
    BY <1>3 DEF Bool, Plain
  <2> QED
    BY <2>1, PlainSolid
<1> QED
  BY <1>1, <1>2, <1>3, <1>4, CallIsLegal, ValueStep

\* A call that makes an object of the heap.
LEMMA MadeStep ==
    ASSUME result = <<"running">>, Machine, I.op = "CALL", NEW r, heap' = Append(heap, r),
           NEW ty, ty \in InHeap, r.type = ty, RecordOK(r),
           ToRegister(I.a, <<ty, Len(heap) + 1>>),
           UNCHANGED <<image, control, upvals, closures, globals, classes>>
    PROVE  IInv'
<1>1. /\ HeapGrows /\ (Grows /\ RecordOK(r)' => HeapOK')
      /\ Len(heap) + 1 \in DOMAIN heap' /\ heap'[Len(heap) + 1] = r
  BY HeapAppended
<1>2. Grows
  BY <1>1, GrowsHeap
<1>3. HeapOK'
  BY <1>1, <1>2, RecordKept
<1>4. PICK v : v = <<ty, Len(heap) + 1>>
  OBVIOUS
<1>5. Solid(v)'
  <2>1. v[1] = ty /\ v[2] = Len(heap) + 1
    BY <1>4
  <2> QED
    BY <1>1, <2>1 DEF Solid
<1> QED
  BY <1>1, <1>3, <1>4, <1>5, CallIsLegal, ObjectStep

\* A list or a map is made.
LEMMA NewObjectStep ==
    ASSUME result = <<"running">>, Machine, NewObject
    PROVE  IInv'
<1>1. I.op = "CALL" /\ stack[CallAt] \in {<<"nat", "list">>, <<"nat", "map">>}
  BY DEF NewObject, Running
<1>2. PICK ty : ty = stack[CallAt][2]
  OBVIOUS
<1>3. ty \in {"list", "map"}
  BY <1>1, <1>2
<1>4. PICK r : r = [type |-> ty, items |-> << >>]
  BY Zenon
<1>5. heap' = Append(heap, r) /\ ToRegister(I.a, <<ty, Len(heap) + 1>>)
      /\ UNCHANGED <<image, control, upvals, closures, globals, classes>>
  BY <1>2, <1>4 DEF NewObject
<1>6. RecordOK(r) /\ r.type = ty
  <2>1. IsList(<< >>) /\ DOMAIN << >> = {}
    BY DEF IsList
  <2>2. r.items = << >> /\ r.type = ty
    BY <1>4
  <2>3. r = [type |-> ty, items |-> r.items] /\ IsList(r.items) /\ DOMAIN r.items = {}
    BY <1>4, <2>1, <2>2
  <2> QED
    BY <1>3, <2>2, <2>3 DEF RecordOK
<1>7. ty \in InHeap
  BY <1>3 DEF InHeap
<1> QED
  BY <1>1, <1>5, <1>6, <1>7, MadeStep

\* An iterator is made.
LEMMA NewIteratorStep ==
    ASSUME result = <<"running">>, Machine, NewIterator
    PROVE  IInv'
<1>1. I.op = "CALL"
  BY DEF NewIterator, Running
<1>2. PICK v : v = stack[CallAt + 1]
  OBVIOUS
<1>3. Solid(v) /\ Settled
  BY <1>1, <1>2, CallIsLegal
<1>4. CASE v[1] = "list"
  <2>1. PICK r : r = [type |-> "iter", of |-> v, next |-> 0]
    BY Zenon
  <2>2. heap' = Append(heap, r) /\ ToRegister(I.a, <<"iter", Len(heap) + 1>>)
        /\ UNCHANGED <<image, control, upvals, closures, globals, classes>>
    BY <1>2, <1>4, <2>1 DEF NewIterator
  <2>3. r.type = "iter" /\ "iter" \in InHeap
    BY <2>1 DEF InHeap
  <2>4. RecordOK(r)
    BY <1>3, <1>4, <2>1 DEF RecordOK
  <2> QED
    BY <1>1, <2>2, <2>3, <2>4, MadeStep
<1>5. CASE v[1] # "list"
  <2>1. VmError("type_error")
    BY <1>2, <1>5, Zenon DEF NewIterator
  <2> QED
    BY <1>3, <2>1, ErrorStep
<1> QED
  BY <1>4, <1>5

\* An iterator moves on.
LEMMA IterateStep ==
    ASSUME result = <<"running">>, Machine, Iterate
    PROVE  IInv'
<1>1. I.op = "CALL" /\ stack[CallAt][1] = "iter"
  BY DEF Iterate, Running
<1>2. PICK i : i = stack[CallAt][2]
  OBVIOUS
<1>3. Settled /\ Solid(stack[CallAt])
  BY <1>1, CallIsLegal
<1>4. /\ i \in DOMAIN heap /\ heap[i].type = "iter"
      /\ heap[i] = [type |-> "iter", of |-> heap[i].of, next |-> heap[i].next]
      /\ heap[i].of[1] = "list" /\ Solid(heap[i].of) /\ heap[i].next \in Nat
  BY <1>1, <1>2, <1>3, IterSolid
<1>5. PICK items : items = heap[heap[i].of[2]].items
  OBVIOUS
<1>6. IsList(items) /\ \A k \in DOMAIN items : Solid(items[k])
  BY <1>4, <1>5, ListSolid, Zenon
<1>7. Len(items) \in Nat /\ DOMAIN items = 1..Len(items)
  BY <1>6, ListIs
<1>8. PICK n : n = heap[i].next
  OBVIOUS
<1>9. CASE n < Len(items)
  <2>1. PICK v : v = items[n + 1]
    OBVIOUS
  <2>2. Solid(v)
    <3>1. n + 1 \in 1..Len(items)
      BY <1>4, <1>7, <1>8, <1>9
    <3> QED
      BY <1>6, <1>7, <2>1, <3>1
  <2>3. PICK r : r = [heap[i] EXCEPT !.next = n + 1]
    BY Zenon
  <2>4. heap' = [heap EXCEPT ![i] = r] /\ ToRegister(I.a, v)
        /\ UNCHANGED <<image, control, upvals, closures, globals, classes>>
    <3>1. CASE /\ heap' = [heap EXCEPT ![i].next = Following(n)]
               /\ ToRegister(I.a, v)
               /\ UNCHANGED <<image, control, upvals, closures, globals, classes, outside>>
      <4>1. heap' = [heap EXCEPT ![i].next = n + 1]
        BY <1>8, <3>1 DEF Following
      <4> QED
        BY <2>3, <3>1, <4>1, Zenon
    <3>2. CASE n = Len(items)
      BY <1>4, <1>7, <1>8, <1>9, <3>2
    <3> QED
      BY <1>2, <1>5, <1>8, <2>1, <3>1, <3>2, Zenon DEF Iterate
  <2>5. /\ r.type = "iter" /\ r = [type |-> "iter", of |-> heap[i].of, next |-> n + 1]
        /\ r.of = heap[i].of /\ r.next = n + 1 /\ n + 1 \in Nat
    BY <1>4, <1>8, <2>3
  <2>6. RecordOK(r)
    BY <1>4, <2>5 DEF RecordOK
  <2>7. HeapGrows /\ (Grows /\ RecordOK(r)' => HeapOK')
    BY <1>4, <2>4, <2>5, HeapChanged, Zenon
  <2>8. Grows
    BY <2>4, <2>7, GrowsHeap
  <2>9. HeapOK' /\ Solid(v)'
    BY <2>2, <2>6, <2>7, <2>8, RecordKept, SolidKept
  <2> QED
    BY <1>1, <2>4, <2>7, <2>9, CallIsLegal, ObjectStep
<1>10. CASE ~(n < Len(items))
  <2>1. VmError("stop_iteration")
    BY <1>2, <1>5, <1>8, <1>10, Zenon DEF Iterate
  <2> QED
    BY <1>3, <2>1, ErrorStep
<1> QED
  BY <1>9, <1>10, ZenonT(40)

\* Something that cannot be called is called.
LEMMA CallErrorStep ==
    ASSUME result = <<"running">>, Machine, CallError
    PROVE  IInv'
<1>1. I.op = "CALL" /\ VmError(BadType(stack[CallAt]))
  BY DEF CallError, Running
<1>2. PICK name : name = BadType(stack[CallAt])
  OBVIOUS
<1> QED
  BY <1>1, <1>2, CallIsLegal, ErrorStep

-----------------------------------------------------------------------------
(* Classes and objects.                                                    *)

\* What a class has under a name, other than a variable, is solid.
LEMMA AttrSolid ==
    ASSUME Machine, NEW c, ClassReady(c), NEW name, HasAttr(c, name), classes[c].attrs[name].kind # "var"
    PROVE  Solid(classes[c].attrs[name].v)
<1>1. c \in DOMAIN classes /\ \A m \in DOMAIN closures[c + 1] : Complete(closures[c + 1][m])
  BY DEF ClassReady
<1>2. AttrOK(c, classes[c].attrs[name])
  BY <1>1, Zenon DEF Machine, ClassesOK, ClassOK, HasAttr
<1>3. PICK v : v = classes[c].attrs[name].v
  OBVIOUS
<1>4. Solid(v) \/ \E m \in DOMAIN closures[c + 1] : v = <<"fun", <<c + 1, m>> >>
  BY <1>2, <1>3 DEF AttrOK
<1>5. ASSUME NEW m \in DOMAIN closures[c + 1], v = <<"fun", <<c + 1, m>> >>
      PROVE  Solid(v)
  <2>1. c + 1 \in DOMAIN closures
    BY <1>1, ClassIs DEF Machine
  <2>2. v[1] = "fun" /\ v[2] = <<c + 1, m>>
    BY <1>5
  <2>3. v[2][1] = c + 1 /\ v[2][2] = m
    BY <2>2
  <2>4. IsFunction(v[2])
    BY <1>1, <1>5, <2>1, <2>3 DEF IsFunction
  <2> QED
    BY <2>2, <2>4 DEF Solid
<1> QED
  BY <1>3, <1>4, <1>5

\* A variable of an object is one of the part that has it.
LEMMA VarIs ==
    ASSUME Machine, NEW c \in DOMAIN classes, NEW name, HasAttr(c, name), classes[c].attrs[name].kind = "var"
    PROVE  classes[c].attrs[name].v \in DOMAIN image.classes[c].vars
BY Zenon DEF Machine, ClassesOK, ClassOK, AttrOK, HasAttr

IsAbove(w, c) ==
    w = [n \in 0..Len(classes) |->
            IF n = 0 THEN c ELSE IF w[n - 1] = 0 THEN 0 ELSE classes[w[n - 1]].super]

\* A class that is made inherits from classes that are made.
LEMMA AboveIs ==
    ASSUME Machine, NEW c, ClassReady(c)
    PROVE  /\ Len(classes) \in Nat /\ Len(classes) = Len(image.classes)
           /\ \A n \in 0..Len(classes) : Above(c)[n] = 0 \/ ClassReady(Above(c)[n])
<1> DEFINE V == {x \in DOMAIN classes \cup {0} : x = 0 \/ ClassReady(x)}
           next(x) == IF x = 0 THEN 0 ELSE classes[x].super
<1>1. PICK m : m = Len(classes)
  BY Zenon
<1>2. m \in Nat /\ DOMAIN classes = 1..m
  BY <1>1, ListIs DEF Machine, ClassesOK
<1>3. m = Len(image.classes)
  <2>1. 1..m = 1..Len(image.classes) /\ Len(image.classes) \in Nat
    BY <1>2 DEF Machine, ClassesOK, Legal
  <2> QED
    BY <1>2, <2>1
<1>4. c \in V
  BY DEF ClassReady
<1>5. \A x \in V : next(x) \in V
  <2> TAKE x \in V
  <2>1. CASE x = 0
    BY <2>1
  <2>2. CASE x # 0
    <3>1. x \in DOMAIN classes
      BY <2>2
    <3>2. ClassOK(x)
      BY <3>1 DEF Machine, ClassesOK
    <3>3. classes[x].super = 0 \/ ClassReady(classes[x].super)
      BY <3>2 DEF ClassOK
    <3> QED
      BY <2>2, <3>3 DEF ClassReady
  <2> QED
    BY <2>1, <2>2
<1> HIDE DEF V
<1>6. PICK step : step = [p \in V \X (1..m) |-> next(p[1])]
  BY Zenon
<1>7. step \in [V \X (1..m) -> V] /\ \A x \in V, i \in 1..m : step[<<x, i>>] = next(x)
  BY <1>5, <1>6
<1> HIDE DEF next
<1>8. PICK f \in [0..m -> V] : Unfolded(f, m, c, step)
  BY <1>2, <1>4, <1>7, Unfolds, Zenon
<1>9. f = [i \in 0..m |-> IF i = 0 THEN c ELSE step[<<f[i - 1], i>>]]
  BY <1>8, Zenon DEF Unfolded
<1>10. f = [i \in 0..m |-> IF i = 0 THEN c ELSE next(f[i - 1])]
  <2>1. \A i \in 0..m : f[i] = IF i = 0 THEN c ELSE next(f[i - 1])
    <3> TAKE i \in 0..m
    <3>1. CASE i = 0
      BY <1>9, <3>1
    <3>2. CASE i # 0
      <4>1. i \in 1..m /\ i - 1 \in 0..m
        BY <1>2, <3>2
      <4>2. f[i - 1] \in V
        BY <1>8, <4>1
      <4>3. f[i] = step[<<f[i - 1], i>>]
        BY <1>9, <3>2, Zenon
      <4> QED
        BY <1>7, <3>2, <4>1, <4>2, <4>3
    <3> QED
      BY <3>1, <3>2
  <2> QED
    BY <1>8, <2>1
<1>11. IsAbove(f, c)
  BY <1>1, <1>10, Zenon DEF IsAbove, next
<1>12. Above(c) = CHOOSE w : IsAbove(w, c)
  BY Zenon DEF Above, IsAbove
<1>13. PICK w : w = Above(c)
  OBVIOUS
<1>14. IsAbove(w, c)
  BY <1>11, <1>12, <1>13, Zenon
<1>15. w = [i \in 0..m |-> IF i = 0 THEN c ELSE next(w[i - 1])]
  BY <1>1, <1>14, Zenon DEF IsAbove, next
<1> DEFINE T == {i \in 0..m : w[i] \in V}
<1>16. 0..m \subseteq T
  <2>1. 0 \in T
    BY <1>2, <1>4, <1>15
  <2>2. \A i \in 1..m : i - 1 \in T => i \in T
    <3> TAKE i \in 1..m
    <3> HAVE i - 1 \in T
    <3>1. i \in 0..m /\ i # 0
      BY <1>2
    <3>2. w[i] = next(w[i - 1])
      BY <1>15, <3>1
    <3> QED
      BY <1>5, <3>1, <3>2
  <2> HIDE DEF T
  <2> QED
    BY <1>2, <2>1, <2>2, AlongPositions
<1> QED
  BY <1>1, <1>2, <1>3, <1>13, <1>16 DEF V

\* A class that is found is made, and has the attribute.
LEMMA ClassWithIs ==
    ASSUME Machine, NEW c, ClassReady(c), NEW name, ClassWith(c, name) # 0
    PROVE  ClassReady(ClassWith(c, name)) /\ HasAttr(ClassWith(c, name), name)
<1>1. PICK w : w = Above(c)
  OBVIOUS
<1>2. PICK m : m = Len(classes)
  BY Zenon
<1>3. m \in Nat /\ \A n \in 0..m : w[n] = 0 \/ ClassReady(w[n])
  BY <1>1, <1>2, AboveIs
<1>4. PICK found : found = {n \in {k \in 0..m : w[k] # 0} : HasAttr(w[n], name)}
  BY Zenon
<1>5. ClassWith(c, name) = IF found = {} THEN 0 ELSE w[Min(found)]
  BY <1>1, <1>2, <1>4 DEF ClassWith, Levels
<1>6. found # {} /\ found \subseteq 0..m
  BY <1>4, <1>5
<1>7. Min(found) \in found
  <2>1. IsFiniteSet(found) /\ found \subseteq Int
    <3>1. IsFiniteSet(0..m)
      BY <1>3, FS_Interval
    <3>2. IsFiniteSet(found)
      BY <1>6, <3>1, FS_Subset, Zenon
    <3> QED
      BY <1>3, <1>6, <3>2
  <2> QED
    BY <1>6, <2>1, Extremes, Zenon
<1> QED
  BY <1>3, <1>4, <1>5, <1>6, <1>7

\* A level that is found is one of the object, and has the attribute.
LEMMA LevelsWithIs ==
    ASSUME Machine, NEW v, Solid(v), v[1] = "obj", NEW name, LevelsWith(v[2], name) # {}
    PROVE  LET n == Min(LevelsWith(v[2], name))
               q == heap[v[2]].parts[n]
           IN /\ v[2] \in DOMAIN heap /\ n \in DOMAIN heap[v[2]].parts
              /\ ClassReady(q.class) /\ HasAttr(q.class, name)
<1>1. PICK o : o = v[2]
  OBVIOUS
<1>2. /\ o \in DOMAIN heap /\ DOMAIN heap[o].parts \subseteq 0..Len(image.classes)
      /\ \A n \in DOMAIN heap[o].parts : ClassReady(heap[o].parts[n].class)
  BY <1>1, ObjSolid, Zenon
<1>3. PICK found : found = LevelsWith(o, name)
  OBVIOUS
<1>4. found \subseteq DOMAIN heap[o].parts /\ \A n \in found : HasAttr(heap[o].parts[n].class, name)
  BY <1>3 DEF LevelsWith
<1>5. Min(found) \in found
  <2>1. PICK m : m = Len(image.classes)
    BY Zenon
  <2>2. m \in Nat /\ found \subseteq 0..m
    BY <1>2, <1>4, <2>1 DEF Machine, Legal
  <2>3. IsFiniteSet(found) /\ found \subseteq Int
    <3>1. IsFiniteSet(0..m)
      BY <2>2, FS_Interval
    <3>2. IsFiniteSet(found)
      BY <2>2, <3>1, FS_Subset, Zenon
    <3> QED
      BY <2>2, <3>2
  <2> QED
    BY <1>1, <1>3, <2>3, Extremes
<1> QED
  BY <1>1, <1>2, <1>3, <1>4, <1>5

\* What a member gives.
LEMMA MemberIs ==
    ASSUME Machine, NEW v, Solid(v), NEW k, Member(v, k).kind # "none"
    PROVE  Solid(Member(v, k).v)
<1>1. PICK name : name = k[2]
  OBVIOUS
<1>2. CASE v[1] = "obj"
  <2>1. PICK found : found = LevelsWith(v[2], name)
    OBVIOUS
  <2>2. PICK n : n = Min(found)
    OBVIOUS
  <2>3. PICK q : q = heap[v[2]].parts[n]
    OBVIOUS
  <2>4. PICK a : a = classes[q.class].attrs[name]
    OBVIOUS
  <2>5. Member(v, k) = IF found = {} THEN [kind |-> "none", v |-> Nil]
                       ELSE IF a.kind = "var" THEN [kind |-> "var", v |-> q.vals[a.v]] ELSE a
    BY <1>1, <1>2, <2>1, <2>2, <2>3, <2>4, Zenon DEF Member
  <2>6. found # {}
    BY <2>5
  <2>7. v[2] \in DOMAIN heap /\ n \in DOMAIN heap[v[2]].parts /\ ClassReady(q.class) /\ HasAttr(q.class, name)
    BY <1>2, <2>1, <2>2, <2>3, <2>6, LevelsWithIs
  <2>8. CASE a.kind = "var"
    <3>1. a.v \in DOMAIN image.classes[q.class].vars
      BY <2>4, <2>7, <2>8, VarIs, Zenon DEF ClassReady
    <3>2. DOMAIN q.vals = DOMAIN image.classes[q.class].vars /\ \A j \in DOMAIN q.vals : Solid(q.vals[j])
      BY <1>2, <2>3, <2>7, ObjSolid, Zenon
    <3> QED
      BY <2>5, <2>6, <2>8, <3>1, <3>2
  <2>9. CASE a.kind # "var"
    BY <2>4, <2>5, <2>6, <2>7, <2>9, AttrSolid
  <2> QED
    BY <2>8, <2>9
<1>3. CASE v[1] = "class"
  <2>1. PICK c : c = ClassWith(v[2], name)
    OBVIOUS
  <2>2. Member(v, k) = IF c = 0 \/ classes[c].attrs[name].kind = "var" THEN [kind |-> "none", v |-> Nil]
                       ELSE classes[c].attrs[name]
    BY <1>1, <1>3, <2>1 DEF Member
  <2>3. c # 0 /\ classes[c].attrs[name].kind # "var"
    BY <2>2
  <2>4. ClassReady(c) /\ HasAttr(c, name)
    BY <1>3, <2>1, <2>3, ClassSolid, ClassWithIs
  <2> QED
    BY <2>2, <2>3, <2>4, AttrSolid
<1>4. CASE v[1] \notin {"obj", "class"}
  <2>1. Member(v, k) = [kind |-> "none", v |-> Nil]
    BY <1>4, Zenon DEF Member
  <2> QED
    BY <2>1
<1> QED
  BY <1>2, <1>3, <1>4

\* A member is read.
LEMMA GetMemberStep ==
    ASSUME result = <<"running">>, Machine, GetMember
    PROVE  IInv'
<1>1. I.op = "GETMBR"
  BY DEF GetMember, Running
<1>2. I.op \in Plains /\ I.a \in Operands(I) /\ Settled /\ I.b \in Sources(I)
  BY <1>1, OpIs, OperandA, SourcesTwo, SettledHere DEF Plains, Special
<1>3. PICK m : m = Member(RK(I.b), RK(I.c))
  OBVIOUS
<1>4. CASE m.kind # "none"
  <2>1. PICK v : v = m.v
    OBVIOUS
  <2>2. ToRegister(I.a, v) /\ UNCHANGED <<image, control, memory>>
    BY <1>3, <1>4, <2>1 DEF GetMember
  <2>3. Solid(v)
    BY <1>2, <1>3, <1>4, <2>1, SourceIs, MemberIs
  <2> QED
    BY <1>2, <2>2, <2>3, ValueStep
<1>5. CASE m.kind = "none"
  <2>1. VmError("attribute_error")
    BY <1>3, <1>5, Zenon DEF GetMember
  <2> QED
    BY <1>2, <2>1, ErrorStep
<1> QED
  BY <1>4, <1>5

\* A method is read, with its object.
LEMMA GetMethodStep ==
    ASSUME result = <<"running">>, Machine, GetMethodOf
    PROVE  IInv'
<1>1. I.op = "GETMET"
  BY DEF GetMethodOf, Running
<1>2. I.op \in Plains /\ Settled /\ I.b \in Sources(I)
  BY <1>1, OpIs, SourcesTwo, SettledHere DEF Plains, Special
<1>3. I.a \in Operands(I) /\ I.a + 1 \in Operands(I)
  <2>1. PlainOperands(I) = {I.a, I.a + 1}
    BY <1>1 DEF PlainOperands
  <2> QED
    BY <2>1 DEF Operands
<1>4. PICK v : v = RK(I.b)
  OBVIOUS
<1>5. PICK m : m = Member(v, RK(I.c))
  OBVIOUS
<1>6. PICK bad : bad = (m.kind = "none" \/ (v[1] = "obj" /\ m.v[1] \notin {"fun", "nat", "iter", "class"}))
  OBVIOUS
<1>7. PICK pair : pair = IF v[1] = "obj" /\ m.kind = "method" THEN <<m.v, v>> ELSE <<NotMethod, m.v>>
  BY Zenon
<1>8. CASE ~bad
  <2>1. PICK s : s = Slot(I.a)
    OBVIOUS
  <2>2. /\ stack' = [stack EXCEPT ![s] = pair[1], ![s + 1] = pair[2]]
        /\ regs' = Skip(0) /\ UNCHANGED <<image, control, memory>>
    BY <1>4, <1>5, <1>6, <1>7, <1>8, <2>1, Zenon DEF GetMethodOf
  <2>3. Solid(v) /\ Solid(m.v)
    BY <1>2, <1>4, <1>5, <1>6, <1>8, SourceIs, MemberIs, Zenon
  <2>4. Solid(pair[1]) /\ Solid(pair[2])
    <3>1. Solid(NotMethod)
      <4>1. NotMethod[1] \in Plain
        BY DEF NotMethod, Plain
      <4> QED
        BY <4>1, PlainSolid
    <3>2. \/ pair[1] = m.v /\ pair[2] = v
          \/ pair[1] = NotMethod /\ pair[2] = m.v
      BY <1>7
    <3> QED
      BY <2>3, <3>1, <3>2
  <2>5. s \in Nat /\ regs.reg < s /\ regs.reg \in Nat
    BY <1>3, <2>1, OperandIs, Here DEF FrameSet
  <2>6. IsList(stack') /\ DOMAIN stack' = DOMAIN stack
    <3>1. IsList(stack)
      BY Here
    <3>2. PICK st : st = [stack EXCEPT ![s] = pair[1]]
      BY Zenon
    <3>3. IsList(st) /\ DOMAIN st = DOMAIN stack
      BY <3>1, <3>2, ListExcept, Zenon
    <3>4. stack' = [st EXCEPT ![s + 1] = pair[2]]
      BY <2>2, <3>2
    <3> QED
      BY <3>3, <3>4, ListExcept, Zenon
  <2>7. StackStays
    <3>1. \A j \in DOMAIN stack : j <= regs.reg => stack'[j] = stack[j]
      <4> TAKE j \in DOMAIN stack
      <4> HAVE j <= regs.reg
      <4>1. j \in Nat
        BY Here
      <4>2. j # s /\ j # s + 1
        BY <2>5, <4>1
      <4> QED
        BY <2>2, <4>2
    <3> QED
      BY <2>6, <3>1, StackStaysBelow
  <2>8. Grows /\ ~(I.op \in Special \cup {"SETGBL"})
    BY <1>2, <2>2, GrowsNot DEF Plains
  <2>9. GoesOn(regs.ip + 1)
    BY <1>1, <2>2, <2>7, NextOne DEF GoesOn, control
  <2>10. (\A j \in DOMAIN stack : Solid(stack[j]))'
    <3>1. \A j \in DOMAIN stack : Solid(stack[j])'
      <4> TAKE j \in DOMAIN stack
      <4>1. PICK w : w = stack'[j]
        OBVIOUS
      <4>2. w \in {pair[1], pair[2], stack[j]}
        BY <2>2, <4>1
      <4>3. Solid(w)
        BY <1>2, <2>4, <4>2 DEF Settled
      <4>4. Solid(w)'
        BY <2>8, <4>3, SolidKept
      <4> QED
        BY <4>1, <4>4
    <3> QED
      BY <2>6, <3>1
  <2>11. ClosuresOK' /\ HeapOK' /\ ClassesOK' /\ (ScopeKept => UpvalsOK')
         /\ globals' = globals /\ excs' = excs /\ result' = result
    BY <2>2, <2>8, ClosuresKept, HeapKept, ClassesKept, UpvalsKept DEF memory, control
  <2>12. Machine'
    BY <2>6, <2>8, <2>9, <2>10, <2>11, PlainStep
  <2> QED
    BY <2>11, <2>12 DEF IInv
<1>9. CASE bad
  <2>1. VmError("attribute_error")
    BY <1>4, <1>5, <1>6, <1>9, Zenon DEF GetMethodOf
  <2> QED
    BY <1>2, <2>1, ErrorStep
<1> QED
  BY <1>6, <1>8, <1>9

\* A step that changes one class.
LEMMA ClassStep ==
    ASSUME result = <<"running">>, Machine, I.op \in Plains, I.a \in Operands(I),
           stack' = stack, regs' = Skip(0),
           UNCHANGED <<image, control, upvals, closures, globals, heap>>,
           NEW c \in DOMAIN classes, NEW r, classes' = [classes EXCEPT ![c] = r], (ClassOK(c))'
    PROVE  IInv'
<1>1. IsList(classes') /\ DOMAIN classes' = DOMAIN classes
  BY ListExcept, Zenon DEF Machine, ClassesOK
<1>2. HeapGrows
  BY DEF HeapGrows
<1>3. Grows
  BY <1>1, <1>2, GrowsHeap
<1>4. ClassesOK'
  <2>1. \A d \in DOMAIN classes : ClassOK(d)'
    <3> TAKE d \in DOMAIN classes
    <3>1. CASE d = c
      BY <3>1
    <3>2. CASE d # c
      BY <1>3, <3>2, ClassKept
    <3> QED
      BY <3>1, <3>2
  <2>2. DOMAIN classes = DOMAIN image.classes
    BY DEF Machine, ClassesOK
  <2> QED
    BY <1>1, <2>1, <2>2 DEF ClassesOK
<1>5. PICK x : x = I.a
  OBVIOUS
<1>6. PICK v : v = stack[Slot(I.a)]
  OBVIOUS
<1>7. ToRegister(x, v)
  BY <1>5, <1>6, NoWrite
<1>8. Solid(v)'
  <2>1. I.op \notin {"SETGBL", "CLASS"}
    BY DEF Plains, Special
  <2>2. Settled
    BY <2>1, SettledHere
  <2>3. Solid(v)
    BY <1>6, <2>2, OperandIs DEF Settled
  <2> QED
    BY <1>3, <2>3, SolidKept
<1>9. HeapOK'
  BY <1>3, HeapKept
<1>10. Machine'
  BY <1>1, <1>2, <1>4, <1>5, <1>7, <1>8, <1>9, WritesRegister
<1> QED
  BY <1>10 DEF IInv, control

\* A class gets the class it inherits from.
LEMMA SetSuperStep ==
    ASSUME result = <<"running">>, Machine, SetSuperClass
    PROVE  IInv'
<1>1. I.op = "SETSUPER"
  BY DEF SetSuperClass, Running
<1>2. I.op \in Plains /\ I.a \in Operands(I) /\ Settled
  BY <1>1, OpIs, OperandA, SettledHere DEF Plains, Special
<1>3. I.b \in Sources(I)
  <2>1. Sources(I) = {I.b}
    BY <1>1 DEF Sources, Arithmetic, Relations
  <2> QED
    BY <2>1
<1>4. PICK class : class = stack[Slot(I.a)]
  OBVIOUS
<1>5. PICK super : super = RK(I.b)
  OBVIOUS
<1>6. Solid(class) /\ Solid(super)
  BY <1>2, <1>3, <1>4, <1>5, SourceIs, OperandIs DEF Settled
<1>7. CASE class[1] = "class" /\ super[1] = "class"
  <2>1. PICK c : c = class[2]
    OBVIOUS
  <2>2. ClassReady(c) /\ ClassReady(super[2])
    BY <1>6, <1>7, <2>1, ClassSolid
  <2>3. PICK q : q = classes[c]
    OBVIOUS
  <2>4. PICK r : r = [q EXCEPT !.super = super[2]]
    BY Zenon
  <2>5. classes' = [classes EXCEPT ![c] = r]
        /\ regs' = Skip(0) /\ UNCHANGED <<image, stack, control, upvals, closures, globals, heap>>
    BY <1>4, <1>5, <1>7, <2>1, <2>3, <2>4 DEF SetSuperClass
  <2>6. c \in DOMAIN classes /\ DOMAIN classes' = DOMAIN classes
    BY <2>2, <2>5 DEF ClassReady
  <2>7. Grows
    <3>1. HeapGrows
      BY <2>5 DEF HeapGrows
    <3> QED
      BY <2>5, <2>6, <3>1, GrowsHeap
  <2>8. q = [super |-> q.super, attrs |-> q.attrs]
        /\ \A name \in DOMAIN q.attrs : AttrOK(c, q.attrs[name])
    BY <2>3, <2>6 DEF Machine, ClassesOK, ClassOK
  <2>9. r = [super |-> super[2], attrs |-> q.attrs] /\ r = [super |-> r.super, attrs |-> r.attrs]
        /\ r.super = super[2] /\ r.attrs = q.attrs
    BY <2>4, <2>8
  <2>10. ClassReady(super[2])'
    <3>1. PICK d : d = super[2]
      OBVIOUS
    <3> QED
      BY <2>2, <2>7, <3>1, ReadyKept
  <2>11. \A name \in DOMAIN r.attrs : AttrOK(c, r.attrs[name])'
    BY <2>6, <2>7, <2>8, <2>9, AttrKept
  <2>12. r = classes'[c]
    BY <2>5, <2>6
  <2>13. ClassOK(c)'
    BY <2>9, <2>10, <2>11, <2>12 DEF ClassOK
  <2> QED
    BY <1>2, <2>5, <2>6, <2>13, ClassStep, Zenon
<1>8. CASE ~(class[1] = "class" /\ super[1] = "class")
  <2>1. VmError("type_error")
    BY <1>4, <1>5, <1>8, Zenon DEF SetSuperClass
  <2> QED
    BY <1>2, <2>1, ErrorStep
<1> QED
  BY <1>7, <1>8

\* A variable of an object is another value.
LEMMA PartChanged ==
    ASSUME Machine, NEW v, Solid(v), v[1] = "obj", NEW n \in DOMAIN heap[v[2]].parts,
           NEW k, NEW w, Solid(w),
           heap' = [heap EXCEPT ![v[2]].parts[n].vals[k] = w],
           UNCHANGED <<image, upvals, closures, classes>>
    PROVE  HeapGrows /\ Grows /\ HeapOK'
<1>1. PICK o : o = v[2]
  OBVIOUS
<1>2. PICK r : r = heap[o]
  OBVIOUS
<1>3. /\ o \in DOMAIN heap /\ r.type = "obj" /\ r = [type |-> "obj", parts |-> r.parts]
      /\ DOMAIN r.parts \subseteq 0..Len(image.classes)
      /\ \A j \in DOMAIN r.parts :
            LET q == r.parts[j] IN
            /\ q = [class |-> q.class, vals |-> q.vals] /\ ClassReady(q.class)
            /\ DOMAIN q.vals = DOMAIN image.classes[q.class].vars
            /\ \A i \in DOMAIN q.vals : Solid(q.vals[i])
  <2>1. o \in DOMAIN heap /\ RecordOK(r) /\ r.type = "obj"
    <3>1. v[1] \in InHeap
      BY DEF InHeap
    <3> QED
      BY <1>1, <1>2, <3>1, HeapSolid, Zenon
  <2> QED
    BY <2>1 DEF RecordOK
<1>4. PICK p : p = r.parts[n]
  OBVIOUS
<1>5. PICK vals : vals = [p.vals EXCEPT ![k] = w]
  BY Zenon
<1>6. PICK q : q = [p EXCEPT !.vals = vals]
  BY Zenon
<1>7. PICK parts : parts = [r.parts EXCEPT ![n] = q]
  BY Zenon
<1>8. PICK s : s = [r EXCEPT !.parts = parts]
  BY ZenonT(40)
<1>9. heap' = [heap EXCEPT ![o] = s]
  BY <1>1, <1>2, <1>4, <1>5, <1>6, <1>7, <1>8
<1>10. n \in DOMAIN r.parts
  BY <1>1, <1>2
<1>11. p = [class |-> p.class, vals |-> p.vals] /\ ClassReady(p.class)
       /\ DOMAIN p.vals = DOMAIN image.classes[p.class].vars
       /\ \A i \in DOMAIN p.vals : Solid(p.vals[i])
  BY <1>3, <1>4, <1>10
<1>12. /\ q = [class |-> q.class, vals |-> q.vals] /\ q.class = p.class /\ q.vals = vals
  BY <1>6, <1>11
<1>13. DOMAIN vals = DOMAIN p.vals /\ \A i \in DOMAIN vals : Solid(vals[i])
  BY <1>5, <1>11
<1>14. /\ s.type = "obj" /\ s.parts = parts /\ s = [type |-> "obj", parts |-> s.parts]
  BY <1>3, <1>8
<1>15. DOMAIN parts = DOMAIN r.parts /\ \A j \in DOMAIN parts : parts[j] = IF j = n THEN q ELSE r.parts[j]
  BY <1>7
<1>16. \A j \in DOMAIN parts :
          LET g == parts[j] IN
          /\ g = [class |-> g.class, vals |-> g.vals] /\ ClassReady(g.class)
          /\ DOMAIN g.vals = DOMAIN image.classes[g.class].vars
          /\ \A i \in DOMAIN g.vals : Solid(g.vals[i])
  <2> TAKE j \in DOMAIN parts
  <2>1. CASE j = n
    BY <1>11, <1>12, <1>13, <1>15, <2>1
  <2>2. CASE j # n
    BY <1>3, <1>15, <2>2
  <2> QED
    BY <2>1, <2>2
<1>17. RecordOK(s)
  BY <1>3, <1>14, <1>15, <1>16 DEF RecordOK
<1>18. HeapGrows /\ (Grows /\ RecordOK(s)' => HeapOK')
  BY <1>2, <1>3, <1>9, <1>14, HeapChanged, ZenonT(40)
<1>19. Grows
  BY <1>18, GrowsHeap
<1> QED
  BY <1>17, <1>18, <1>19, RecordKept

\* A member is set.
LEMMA SetMemberStep ==
    ASSUME result = <<"running">>, Machine, SetMember
    PROVE  IInv'
<1>1. I.op = "SETMBR"
  BY Zenon DEF SetMember, Running
<1>2. I.op \in Plains /\ I.a \in Operands(I) /\ Settled /\ I.c \in Sources(I)
  BY <1>1, OpIs, OperandA, SourcesTwo, SettledHere DEF Plains, Special
<1>3. PICK v : v = stack[Slot(I.a)]
  OBVIOUS
<1>4. PICK w : w = RK(I.c)
  OBVIOUS
<1>5. Solid(v) /\ Solid(w)
  BY <1>2, <1>3, <1>4, SourceIs, OperandIs DEF Settled
<1>6. PICK name : name = RK(I.b)[2]
  OBVIOUS
<1>7. PICK found : found = IF v[1] = "obj" THEN LevelsWith(v[2], name) ELSE {}
  BY Zenon
<1>8. PICK n : n = Min(found)
  OBVIOUS
<1>9. PICK attr : attr = classes[heap[v[2]].parts[n].class].attrs[name]
  OBVIOUS
<1>10. PICK c : c = IF v[1] = "class" THEN ClassWith(v[2], name) ELSE 0
  OBVIOUS
<1>11. \/ /\ found # {} /\ attr.kind = "var"
          /\ heap' = [heap EXCEPT ![v[2]].parts[n].vals[attr.v] = w]
          /\ regs' = Skip(0)
          /\ UNCHANGED <<image, stack, control, upvals, closures, globals, classes>>
       \/ /\ c > 0 /\ classes[c].attrs[name].kind # "var"
          /\ classes' = [classes EXCEPT ![c].attrs[name] = [kind |-> "static", v |-> w]]
          /\ regs' = Skip(0)
          /\ UNCHANGED <<image, stack, control, upvals, closures, globals, heap>>
       \/ VmError("attribute_error")
  BY <1>3, <1>4, <1>6, <1>7, <1>8, <1>9, <1>10, Zenon DEF SetMember
<1>12. CASE /\ found # {} /\ attr.kind = "var"
            /\ heap' = [heap EXCEPT ![v[2]].parts[n].vals[attr.v] = w]
            /\ regs' = Skip(0)
            /\ UNCHANGED <<image, stack, control, upvals, closures, globals, classes>>
  <2>1. v[1] = "obj" /\ found = LevelsWith(v[2], name)
    BY <1>7, <1>12
  <2>2. n \in DOMAIN heap[v[2]].parts
    BY <1>5, <1>8, <1>12, <2>1, LevelsWithIs, Zenon
  <2>3. PICK k : k = attr.v
    OBVIOUS
  <2>4. HeapGrows /\ Grows /\ HeapOK'
    BY <1>5, <1>12, <2>1, <2>2, <2>3, PartChanged, Zenon
  <2>5. Solid(v)'
    BY <1>5, <2>4, SolidKept
  <2>6. ToRegister(I.a, v)
    BY <1>2, <1>3, <1>12, NoWrite, Zenon
  <2> QED
    BY <1>2, <1>12, <2>4, <2>5, <2>6, ObjectStep
<1>13. CASE /\ c > 0 /\ classes[c].attrs[name].kind # "var"
            /\ classes' = [classes EXCEPT ![c].attrs[name] = [kind |-> "static", v |-> w]]
            /\ regs' = Skip(0)
            /\ UNCHANGED <<image, stack, control, upvals, closures, globals, heap>>
  <2>1. v[1] = "class" /\ c = ClassWith(v[2], name) /\ c # 0
    BY <1>10, <1>13
  <2>2. ClassReady(c) /\ HasAttr(c, name)
    BY <1>5, <2>1, ClassSolid, ClassWithIs
  <2>3. PICK q : q = classes[c]
    OBVIOUS
  <2>4. PICK a : a = [kind |-> "static", v |-> w]
    BY Zenon
  <2>5. PICK attrs : attrs = [q.attrs EXCEPT ![name] = a]
    BY Zenon
  <2>6. PICK r : r = [q EXCEPT !.attrs = attrs]
    BY Zenon
  <2>7. classes' = [classes EXCEPT ![c] = r]
    BY <1>13, <2>3, <2>4, <2>5, <2>6
  <2>8. c \in DOMAIN classes /\ DOMAIN classes' = DOMAIN classes
    BY <2>2, <2>7 DEF ClassReady
  <2>9. Grows
    <3>1. HeapGrows
      BY <1>13 DEF HeapGrows
    <3> QED
      BY <1>13, <2>8, <3>1, GrowsHeap
  <2>10. /\ q = [super |-> q.super, attrs |-> q.attrs] /\ (q.super = 0 \/ ClassReady(q.super))
         /\ \A x \in DOMAIN q.attrs : AttrOK(c, q.attrs[x])
    BY <2>3, <2>8 DEF Machine, ClassesOK, ClassOK
  <2>11. /\ r = [super |-> r.super, attrs |-> r.attrs] /\ r.super = q.super /\ r.attrs = attrs
    BY <2>6, <2>10
  <2>12. r.super = 0 \/ ClassReady(r.super)'
    BY <2>9, <2>10, <2>11, ReadyKept
  <2>13. \A x \in DOMAIN attrs : AttrOK(c, attrs[x])'
    <3> TAKE x \in DOMAIN attrs
    <3>1. CASE x = name
      <4>1. AttrOK(c, a)
        BY <1>5, <2>4 DEF AttrOK
      <4>2. attrs[x] = a
        BY <2>5, <3>1
      <4> QED
        BY <2>8, <2>9, <4>1, <4>2, AttrKept
    <3>2. CASE x # name
      <4>1. attrs[x] = q.attrs[x] /\ x \in DOMAIN q.attrs
        BY <2>5, <3>2
      <4> QED
        BY <2>8, <2>9, <2>10, <4>1, AttrKept
    <3> QED
      BY <3>1, <3>2
  <2>14. r = classes'[c]
    BY <2>7, <2>8
  <2>15. ClassOK(c)'
    BY <2>11, <2>12, <2>13, <2>14 DEF ClassOK
  <2> QED
    BY <1>2, <1>13, <2>7, <2>8, <2>15, ClassStep, Zenon
<1>14. CASE VmError("attribute_error")
  BY <1>2, <1>14, ErrorStep
<1> QED
  BY <1>11, <1>12, <1>13, <1>14

\* A captured variable is set.
LEMMA SetUpvalueStep ==
    ASSUME result = <<"running">>, Machine, SetUpvalue
    PROVE  IInv'
<1>1. I.op = "SETUPV"
  BY Zenon DEF SetUpvalue, Running
<1>2. I.op \in Plains /\ I.a \in Operands(I) /\ Settled
  BY <1>1, OpIs, OperandA, SettledHere DEF Plains, Special
<1>3. PICK u : u = ClosureOf(stack[regs.func + 1]).upvals[I.b + 1]
  OBVIOUS
<1>4. PICK v : v = stack[Slot(I.a)]
  OBVIOUS
<1>5. Solid(v)
  BY <1>2, <1>4, OperandIs, Zenon DEF Settled
<1>6. u \in Upvalues
  <2>1. PICK f : f = stack[regs.func + 1]
    OBVIOUS
  <2>2. IsFunction(f[2])
    <3>1. f[1] = "fun" /\ Solid(f)
      BY <2>1, Here DEF FrameOK
    <3> QED
      BY <3>1, FunSolid
  <2>3. PICK c : c = ClosureOf(f)
    OBVIOUS
  <2>4. Complete(c)
    BY <2>2, <2>3 DEF IsFunction, ClosureOf
  <2>5. Proto = image.protos[c.proto]
    BY <2>1, <2>3 DEF Proto
  <2>6. I.b + 1 \in DOMAIN Proto.upvals
    BY <1>1, Here DEF LegalOperands, I
  <2> QED
    BY <1>3, <2>1, <2>3, <2>4, <2>5, <2>6 DEF Complete
<1>7. PICK slot : slot = Upvalue(u).slot
  OBVIOUS
<1>8. PICK w : w = Upvalue(u)
  OBVIOUS
<1>9. UpvalueOK(w) /\ w.slot = slot
  BY <1>6, <1>7, <1>8, Zenon DEF Machine, UpvalsOK
<1>10. /\ stack' = IF slot >= 0 THEN [stack EXCEPT ![slot + 1] = v] ELSE stack
       /\ upvals' = IF slot >= 0 THEN upvals ELSE [upvals EXCEPT ![u[1]][u[2]].v = v]
       /\ regs' = Skip(0) /\ UNCHANGED <<image, control, closures, globals, heap, classes>>
  BY <1>3, <1>4, <1>7, Zenon DEF SetUpvalue
<1>11. /\ Upvalues' = Upvalues /\ IsList(upvals')
       /\ \A x \in Upvalues : Upvalue(x)' = IF slot >= 0 \/ x # u THEN Upvalue(x) ELSE [w EXCEPT !.v = v]
  <2>1. CASE slot >= 0
    BY <1>10, <2>1 DEF Upvalues, Upvalue, Machine, UpvalsOK
  <2>2. CASE ~(slot >= 0)
    <3>1. u[1] \in DOMAIN upvals /\ u[2] \in DOMAIN upvals[u[1]] /\ u = <<u[1], u[2]>>
      BY <1>6 DEF Upvalues
    <3>2. PICK g : g = u[1]
      OBVIOUS
    <3>3. PICK x : x = u[2]
      OBVIOUS
    <3>4. PICK r : r = [upvals[g] EXCEPT ![x] = [w EXCEPT !.v = v]]
      BY Zenon
    <3>5. upvals' = [upvals EXCEPT ![g] = r]
      BY <1>8, <1>10, <2>2, <3>2, <3>3, <3>4 DEF Upvalue
    <3>6. DOMAIN upvals' = DOMAIN upvals /\ \A h \in DOMAIN upvals : DOMAIN upvals'[h] = DOMAIN upvals[h]
      BY <3>1, <3>2, <3>4, <3>5
    <3>7. Upvalues' = Upvalues
      BY <3>6 DEF Upvalues
    <3>8. IsList(upvals')
      BY <3>5, ListExcept, Zenon DEF Machine, UpvalsOK
    <3>9. \A y \in Upvalues : Upvalue(y)' = IF y # u THEN Upvalue(y) ELSE [w EXCEPT !.v = v]
      <4> TAKE y \in Upvalues
      <4>1. y[1] \in DOMAIN upvals /\ y[2] \in DOMAIN upvals[y[1]] /\ y = <<y[1], y[2]>>
        BY DEF Upvalues
      <4> QED
        BY <3>1, <3>2, <3>3, <3>4, <3>5, <4>1 DEF Upvalue
    <3> QED
      BY <2>2, <3>7, <3>8, <3>9
  <2> QED
    BY <2>1, <2>2
<1>12. Grows
  <2>1. HeapGrows /\ DOMAIN classes' = DOMAIN classes
    BY <1>10 DEF HeapGrows
  <2> QED
    BY <1>10, <1>11, <2>1, GrowsPlain
<1>13. IsList(stack') /\ StackStays /\ DOMAIN stack' = DOMAIN stack
  <2>1. CASE ~(slot >= 0)
    BY <1>10, <2>1, Here DEF StackStays
  <2>2. CASE slot >= 0
    <3>1. IsList(stack') /\ DOMAIN stack' = DOMAIN stack
      BY <1>10, <2>2, Here, ListExcept, Zenon
    <3>2. \A k \in 1..Depth : Call(k).func # slot
      BY <1>9, <2>2, ScopeApart DEF UpvalueOK
    <3>3. \A k \in 1..Depth : stack'[Call(k).func + 1] = stack[Call(k).func + 1]
      <4> TAKE k \in 1..Depth
      <4>1. Call(k).func + 1 \in DOMAIN stack /\ Call(k).func \in Nat /\ Call(k).func # slot /\ slot \in Int
        BY <1>9, <3>2, FunctionsBelow, CallIs DEF UpvalueOK, FrameSet, Machine
      <4>2. Call(k).func + 1 # slot + 1
        BY <4>1
      <4> QED
        BY <1>10, <2>2, <4>1, <4>2
    <3> QED
      BY <3>1, <3>3 DEF StackStays
  <2> QED
    BY <2>1, <2>2
<1>14. GoesOn(regs.ip + 1)
  BY <1>1, <1>10, <1>13, NextOne DEF GoesOn, control
<1>15. (\A s \in DOMAIN stack : Solid(stack[s]))'
  <2>1. \A s \in DOMAIN stack : Solid(stack[s])'
    <3> TAKE s \in DOMAIN stack
    <3>1. PICK y : y = stack'[s]
      OBVIOUS
    <3>2. y = v \/ y = stack[s]
      BY <1>10, <3>1
    <3>3. Solid(y)
      BY <1>2, <1>5, <3>2 DEF Settled
    <3> QED
      BY <1>12, <3>1, <3>3, SolidKept
  <2> QED
    BY <1>13, <2>1
<1>16. ASSUME ScopeKept PROVE UpvalsOK'
  <2>1. \A x \in Upvalues : UpvalueOK(Upvalue(x))'
    <3> TAKE x \in Upvalues
    <3>1. PICK y : y = Upvalue(x)'
      OBVIOUS
    <3>2. UpvalueOK(y)
      <4>1. CASE slot >= 0 \/ x # u
        BY <1>11, <3>1, <4>1 DEF Machine, UpvalsOK
      <4>2. CASE ~(slot >= 0 \/ x # u)
        <5>1. y = [w EXCEPT !.v = v]
          BY <1>11, <3>1, <4>2
        <5>2. w = [slot |-> w.slot, v |-> w.v] /\ w.slot \in Int
          BY <1>9 DEF UpvalueOK
        <5>3. y.slot = slot /\ y.v = v /\ y = [slot |-> y.slot, v |-> y.v]
          BY <1>9, <5>1, <5>2
        <5> QED
          BY <1>5, <1>9, <4>2, <5>2, <5>3 DEF UpvalueOK
      <4> QED
        BY <4>1, <4>2
    <3>3. UpvalueOK(y)'
      BY <1>12, <1>16, <3>2, UpvalueKept
    <3> QED
      BY <3>1, <3>3
  <2> QED
    BY <1>11, <2>1 DEF UpvalsOK
<1>17. ClosuresOK' /\ HeapOK' /\ ClassesOK'
  BY <1>10, <1>12, ClosuresKept, HeapKept, ClassesKept
<1>18. excs' = excs /\ globals' = globals /\ result' = result /\ I.op \notin Special \cup {"SETGBL"}
  BY <1>2, <1>10 DEF control, Plains
<1>19. Machine'
  BY <1>12, <1>13, <1>14, <1>15, <1>16, <1>17, <1>18, PlainStep
<1> QED
  BY <1>18, <1>19, Zenon DEF IInv

-----------------------------------------------------------------------------
(* Jumps, and the ends of scopes.                                          *)

\* A step after which the machine goes on at t.
LEMMA StepTo ==
    ASSUME Machine, Grows, NEW t, GoesOn(t),
           HandlersOK', StackOK', GlobalsOK', ClosuresOK', UpvalsOK', HeapOK', ClassesOK'
    PROVE  Machine'
<1>1. FramesOK'
  BY GoesOnCalls
<1>2. Legal(image)'
  BY DEF Machine, Grows
<1> QED
  BY <1>1, <1>2 DEF Machine

\* The stack stays as it is.
LEMMA StackSame ==
    ASSUME Machine, Settled, Grows, stack' = stack
    PROVE  StackOK'
<1>1. \A s \in DOMAIN stack : Solid(stack[s])'
  <2> TAKE s \in DOMAIN stack
  <2>1. PICK v : v = stack[s]
    OBVIOUS
  <2>2. Solid(v)'
    BY <2>1, SolidKept DEF Settled
  <2> QED
    BY <2>1, <2>2
<1>2. IsList(stack)
  BY DEF Machine, StackOK
<1> QED
  BY <1>1, <1>2 DEF StackOK, Valid

\* A variable in scope is in the stack.
LEMMA ScopeInStack ==
    ASSUME Machine, NEW slot \in Int, InScope(slot)
    PROVE  slot + 1 \in DOMAIN stack
<1>1. PICK k \in 1..Depth : slot - Call(k).reg \in Before(Call(k)).open
  BY DEF InScope
<1>2. /\ Call(k) \in FrameSet /\ FrameOK(Call(k))
      /\ Before(Call(k)) \in Knowledge(ProtoOf(Call(k))) /\ ProtoOf(Call(k)).nstack \in Nat
  BY CodeAt
<1>3. slot - Call(k).reg \in 0..(ProtoOf(Call(k)).nstack - 1)
  BY <1>1, <1>2 DEF Knowledge
<1>4. Call(k).top = Call(k).reg + ProtoOf(Call(k)).nstack /\ Call(k).top + 2 \in DOMAIN stack
      /\ Call(k).reg \in Nat
  BY <1>2 DEF FrameOK, FrameSet
<1>5. slot + 1 \in 1..(Call(k).top + 2)
  BY <1>2, <1>3, <1>4
<1> QED
  BY <1>4, <1>5, Here

\* What an upvalue stands for.
LEMMA DerefSolid ==
    ASSUME Machine, Settled, NEW u \in Upvalues
    PROVE  Solid(Deref(u))
<1>1. PICK w : w = Upvalue(u)
  OBVIOUS
<1>2. UpvalueOK(w)
  BY <1>1 DEF Machine, UpvalsOK
<1>3. CASE w.slot >= 0
  <2>1. w.slot + 1 \in DOMAIN stack
    BY <1>2, <1>3, ScopeInStack DEF UpvalueOK
  <2> QED
    BY <1>1, <1>3, <2>1 DEF Deref, Settled
<1>4. CASE ~(w.slot >= 0)
  BY <1>1, <1>2, <1>4 DEF Deref, UpvalueOK
<1> QED
  BY <1>3, <1>4

\* A jump: it leaves no captured variable open behind it, or the history
\* says so.
LEMMA JumpingStep ==
    ASSUME result = <<"running">>, Machine, Jumping
    PROVE  IInv'
<1>1. I.op \in {"JMP", "JMPT", "JMPF"} /\ stack' = stack /\ frames' = frames /\ excs' = excs /\ result' = result
      /\ unclosed' = (unclosed \/ OpenFrom(regs.reg + I.outlive) # {}) /\ image' = image /\ UNCHANGED memory
  BY DEF Jumping, Running
<1>2. PICK t : regs' = [regs EXCEPT !.ip = t] /\ t \in Targets(Proto, regs.ip)
  <2>0. regs.ip \in Nat /\ DOMAIN regs = {"func", "reg", "top", "ip"} /\ I.b \in Int
    BY Here, OpIs DEF FrameSet
  <2>1. I = Proto.code[regs.ip + 1]
    BY DEF I
  <2>2. CASE I.op = "JMP"
    <3>1. regs' = Skip(I.b)
      BY <2>2 DEF Jumping
    <3>2. regs' = [regs EXCEPT !.ip = regs.ip + 1 + I.b]
      BY <2>0, <3>1 DEF Skip
    <3>3. regs.ip + 1 + I.b \in Targets(Proto, regs.ip)
      BY <2>1, <2>2 DEF Targets
    <3> QED
      BY <3>2, <3>3
  <2>3. CASE I.op \in {"JMPT", "JMPF"}
    <3>1. regs' = Skip(I.b) \/ regs' = Skip(0)
      BY DEF Jumping
    <3>2. regs' = [regs EXCEPT !.ip = regs.ip + 1 + I.b] \/ regs' = [regs EXCEPT !.ip = regs.ip + 1]
      BY <2>0, <3>1 DEF Skip
    <3>3. regs.ip + 1 + I.b \in Targets(Proto, regs.ip) /\ regs.ip + 1 \in Targets(Proto, regs.ip)
      BY <2>1, <2>3 DEF Targets
    <3> QED
      BY <3>2, <3>3
  <2> QED
    BY <1>1, <2>2, <2>3
<1>3. Settled
  BY <1>1, SettledHere
<1>4. Grows
  BY <1>1, GrowsNot
<1>5. GoesOn(t)
  BY <1>1, <1>2 DEF GoesOn, StackStays
<1>6. PICK out : out = I.outlive
  OBVIOUS
<1>7. KnownIn(regs)[t].tries = Before(regs).tries
      /\ {x \in Before(regs).open : x < out} \subseteq KnownIn(regs)[t].open
  <2>1. Passed(image, Proto, regs.ip, Before(regs)) = Kept(out, Before(regs))
    BY <1>1, <1>6, Zenon DEF Passed, I
  <2>2. Before(regs) \in Knowledge(Proto)
    BY Here
  <2>3. Kept(out, Before(regs)).tries = Before(regs).tries
        /\ Kept(out, Before(regs)).open = {x \in Before(regs).open : x < out}
    BY <2>2 DEF Kept, Knowledge
  <2> QED
    BY <1>2, <2>1, <2>3, Flow, Zenon
<1>8. HandlersOK'
  BY <1>1, <1>4, <1>5, <1>7, GoesOnHandlers
<1>9. ASSUME ~unclosed' PROVE UpvalsOK'
  <2>1. ASSUME NEW u \in Upvalues PROVE UpvalueOK(Upvalue(u))'
    <3>1. PICK w : w = Upvalue(u)
      OBVIOUS
    <3>2. UpvalueOK(w)
      BY <3>1 DEF Machine, UpvalsOK
    <3>3. Solid(w.v)'
      BY <1>4, <3>2, SolidKept DEF UpvalueOK
    <3>4. ASSUME w.slot >= 0 PROVE InScope(w.slot)'
      <4>1. InScope(w.slot) /\ w.slot \in Int
        BY <3>2, <3>4 DEF UpvalueOK
      <4>2. ~(w.slot >= regs.reg + out)
        BY <1>1, <1>6, <1>9, <3>1, Zenon DEF OpenFrom
      <4>3. regs.reg \in Nat /\ out \in Nat
        BY <1>6, Here, OpIs DEF FrameSet
      <4>4. w.slot - regs.reg < out
        BY <4>1, <4>2, <4>3
      <4>5. w.slot - regs.reg \in Before(regs).open => w.slot - regs.reg \in KnownIn(regs)[t].open
        BY <1>7, <4>4
      <4> QED
        BY <1>4, <1>5, <4>1, <4>5, GoesOnScope
    <3>5. UpvalueOK(w)'
      BY <3>2, <3>3, <3>4 DEF UpvalueOK
    <3>6. w = Upvalue(u)'
      BY <1>1, <3>1 DEF Upvalue, memory
    <3> QED
      BY <3>5, <3>6
  <2>2. upvals' = upvals /\ IsList(upvals)
    BY <1>1 DEF memory, Machine, UpvalsOK
  <2>3. Upvalues' = Upvalues /\ \A u : Upvalue(u)' = Upvalue(u)
    BY <2>2 DEF Upvalues, Upvalue
  <2> QED
    BY <2>1, <2>2, <2>3 DEF UpvalsOK
<1>10. GlobalsOK' /\ ClosuresOK' /\ HeapOK' /\ ClassesOK' /\ StackOK'
  BY <1>1, <1>3, <1>4, GlobalsKept, ClosuresKept, HeapKept, ClassesKept, StackSame DEF memory
<1>11. ~unclosed' => Machine'
  BY <1>4, <1>5, <1>8, <1>9, <1>10, StepTo
<1> QED
  BY <1>1, <1>11 DEF IInv

\* The captured variables of a scope are closed.
LEMMA CloseUpvaluesStep ==
    ASSUME result = <<"running">>, Machine, CloseUpvalues
    PROVE  IInv'
<1>1. I.op = "CLOSE" /\ upvals' = Closed(regs.reg + I.a) /\ regs' = Skip(0) /\ stack' = stack
      /\ UNCHANGED <<image, control, closures, globals, heap, classes>>
  BY DEF CloseUpvalues, Running
<1>2. Settled
  BY <1>1, SettledHere
<1>3. PICK from : from = regs.reg + I.a
  OBVIOUS
<1>4. /\ DOMAIN upvals' = DOMAIN upvals /\ \A g \in DOMAIN upvals : DOMAIN upvals'[g] = DOMAIN upvals[g]
      /\ \A g \in DOMAIN upvals : \A x \in DOMAIN upvals[g] :
            upvals'[g][x] = IF upvals[g][x].slot >= from THEN [slot |-> -1, v |-> Deref(<<g, x>>)]
                            ELSE upvals[g][x]
  <2>1. upvals' = Closed(from)
    BY <1>1, <1>3
  <2> QED
    BY <2>1 DEF Closed
<1>5. Upvalues' = Upvalues
  BY <1>4 DEF Upvalues
<1>6. Grows
  <2>1. HeapGrows /\ DOMAIN classes' = DOMAIN classes
    BY <1>1 DEF HeapGrows
  <2> QED
    BY <1>1, <1>5, <2>1, GrowsPlain
<1>7. PICK t : t = regs.ip + 1
  OBVIOUS
<1>8. GoesOn(t)
  BY <1>1, <1>7, NextOne DEF GoesOn, StackStays, control
<1>9. KnownIn(regs)[t].tries = Before(regs).tries
      /\ {x \in Before(regs).open : x < I.a} \subseteq KnownIn(regs)[t].open
  <2>1. Passed(image, Proto, regs.ip, Before(regs)) = Kept(I.a, Before(regs))
    BY <1>1 DEF Passed, I
  <2>2. Before(regs) \in Knowledge(Proto)
    BY Here
  <2>3. Kept(I.a, Before(regs)).tries = Before(regs).tries
        /\ Kept(I.a, Before(regs)).open = {x \in Before(regs).open : x < I.a}
    BY <2>2 DEF Kept, Knowledge
  <2>4. t \in Targets(Proto, regs.ip)
    BY <1>8 DEF GoesOn
  <2> QED
    BY <2>1, <2>3, <2>4, Flow
<1>10. HandlersOK'
  BY <1>1, <1>6, <1>8, <1>9, GoesOnHandlers DEF control
<1>11. UpvalsOK'
  <2>1. ASSUME NEW u \in Upvalues PROVE UpvalueOK(Upvalue(u))'
    <3>1. PICK w : w = Upvalue(u)
      OBVIOUS
    <3>2. UpvalueOK(w)
      BY <3>1 DEF Machine, UpvalsOK
    <3>3. PICK y : y = Upvalue(u)'
      OBVIOUS
    <3>4. PICK v : v = Deref(u)
      OBVIOUS
    <3>5. y = IF w.slot >= from THEN [slot |-> -1, v |-> v] ELSE w
      <4>1. u[1] \in DOMAIN upvals /\ u[2] \in DOMAIN upvals[u[1]] /\ u = <<u[1], u[2]>>
        BY DEF Upvalues
      <4>2. upvals'[u[1]][u[2]] = IF upvals[u[1]][u[2]].slot >= from
                                  THEN [slot |-> -1, v |-> Deref(<<u[1], u[2]>>)] ELSE upvals[u[1]][u[2]]
        BY <1>4, <4>1
      <4> QED
        BY <3>1, <3>3, <3>4, <4>1, <4>2 DEF Upvalue
    <3>6. CASE w.slot >= from
      <4>1. Solid(v)'
        BY <1>2, <1>6, <3>4, DerefSolid, SolidKept
      <4>2. y = [slot |-> -1, v |-> v]
        BY <3>5, <3>6
      <4>3. y.slot = -1 /\ y.v = v /\ y = [slot |-> y.slot, v |-> y.v]
        BY <4>2
      <4>4. UpvalueOK(y)'
        BY <4>1, <4>3 DEF UpvalueOK
      <4> QED
        BY <3>3, <4>4
    <3>7. CASE ~(w.slot >= from)
      <4>1. Solid(w.v)'
        BY <1>6, <3>2, SolidKept DEF UpvalueOK
      <4>2. ASSUME w.slot >= 0 PROVE InScope(w.slot)'
        <5>1. InScope(w.slot) /\ w.slot \in Int
          BY <3>2, <4>2 DEF UpvalueOK
        <5>2. regs.reg \in Nat /\ I.a \in Int
          BY Here, OpIs DEF FrameSet
        <5>3. w.slot - regs.reg < I.a
          BY <1>3, <3>7, <5>1, <5>2
        <5>4. w.slot - regs.reg \in Before(regs).open => w.slot - regs.reg \in KnownIn(regs)[t].open
          BY <1>9, <5>3
        <5> QED
          BY <1>6, <1>8, <5>1, <5>4, GoesOnScope
      <4>3. UpvalueOK(w)'
        BY <3>2, <4>1, <4>2 DEF UpvalueOK
      <4> QED
        BY <3>3, <3>5, <3>7, <4>3
    <3> QED
      BY <3>6, <3>7
  <2>2. IsList(upvals')
    <3>1. IsList(upvals)
      BY DEF Machine, UpvalsOK
    <3>2. DOMAIN upvals = 1..Len(upvals) /\ Len(upvals) \in Nat
      BY <3>1, ListIs
    <3>3. upvals' = [g \in 1..Len(upvals) |-> upvals'[g]]
      BY <1>1, <3>2 DEF Closed
    <3> QED
      BY <3>2, <3>3, ListMade
  <2> QED
    BY <1>5, <2>1, <2>2 DEF UpvalsOK
<1>12. GlobalsOK' /\ ClosuresOK' /\ HeapOK' /\ ClassesOK' /\ StackOK'
  BY <1>1, <1>2, <1>6, GlobalsKept, ClosuresKept, HeapKept, ClassesKept, StackSame
<1>13. Machine'
  BY <1>6, <1>8, <1>10, <1>11, <1>12, StepTo
<1> QED
  BY <1>1, <1>13 DEF IInv, control

-----------------------------------------------------------------------------
(* Handlers.                                                               *)

\* A try block is entered or left.
LEMMA TryBlockStep ==
    ASSUME result = <<"running">>, Machine, TryBlock
    PROVE  IInv'
<1>1. I.op = "EXBLK" /\ regs' = Skip(0) /\ stack' = stack /\ frames' = frames /\ result' = result
      /\ image' = image /\ UNCHANGED memory
      /\ excs' = IF I.a = 0 THEN Append(excs, [depth |-> Len(frames), ip |-> regs.ip + 1])
                 ELSE SubSeq(excs, 1, Len(excs) - I.b)
  BY DEF TryBlock, Running
<1>2. Settled
  BY <1>1, SettledHere
<1>3. Grows
  BY <1>1, GrowsNot
<1>4. PICK t : t = regs.ip + 1
  OBVIOUS
<1>5. GoesOn(t)
  BY <1>1, <1>4, NextOne DEF GoesOn, StackStays
<1>6. PICK a : a = Before(regs)
  OBVIOUS
<1>7. PICK b : b = KnownIn(regs)[t]
  OBVIOUS
<1>8. a \in Knowledge(Proto) /\ a.tries \in Seq(Nat) /\ Depth \in Nat \ {0} /\ Depth \in 1..Depth
      /\ Call(Depth) = regs /\ Len(frames) = Depth - 1 /\ regs.ip + 1 \in Nat
  <2>1. Depth \in 1..Depth /\ Call(Depth) = regs /\ Len(frames) \in Nat /\ Depth = Len(frames) + 1
    BY Running1 DEF Machine
  <2>2. a.tries \in Seq(Nat)
    BY <1>6, <2>1, CodeAt
  <2>3. a \in Knowledge(Proto) /\ regs.ip + 1 \in Nat
    BY <1>6, Here DEF FrameSet
  <2> QED
    BY <2>1, <2>2, <2>3
<1>9. /\ b.tries = IF I.a = 0 THEN Append(a.tries, t) ELSE SubSeq(a.tries, 1, Len(a.tries) - I.b)
      /\ a.open \subseteq b.open
  <2>1. Passed(image, Proto, regs.ip, a) = IF I.a = 0 THEN [a EXCEPT !.tries = Append(a.tries, t)]
                                            ELSE [a EXCEPT !.tries = SubSeq(a.tries, 1, Len(a.tries) - I.b)]
    BY <1>1, <1>4 DEF Passed, I
  <2>2. Passed(image, Proto, regs.ip, a).tries
            = (IF I.a = 0 THEN Append(a.tries, t) ELSE SubSeq(a.tries, 1, Len(a.tries) - I.b))
        /\ Passed(image, Proto, regs.ip, a).open = a.open
    BY <1>8, <2>1 DEF Knowledge
  <2>3. t \in Targets(Proto, regs.ip)
    BY <1>5 DEF GoesOn
  <2> QED
    BY <1>6, <1>7, <2>2, <2>3, Flow
<1>10. /\ HandlersBelow(excs, Depth) /\ HandlersOf(excs, Depth, a.tries)
       /\ \A k \in 1..Depth : HandlersOf(excs, k, Before(Call(k)).tries) /\ Before(Call(k)).tries \in Seq(Nat)
  <2>1. HandlersBelow(excs, Depth) /\ \A k \in 1..Depth : HandlersOf(excs, k, Before(Call(k)).tries)
    BY DEF Machine, HandlersOK
  <2>2. \A k \in 1..Depth : Before(Call(k)).tries \in Seq(Nat)
    BY CodeAt
  <2> QED
    BY <1>6, <1>8, <2>1, <2>2
<1>11. PICK es : es = excs'
  OBVIOUS
<1>12. /\ HandlersBelow(es, Depth) /\ HandlersOf(es, Depth, b.tries)
       /\ \A k \in 1..(Depth - 1) : HandlersOf(es, k, Before(Call(k)).tries)
  <2>1. CASE I.a = 0
    <3>1. es = Append(excs, [depth |-> Depth - 1, ip |-> t])
      BY <1>1, <1>4, <1>8, <1>11, <2>1
    <3>2. LET fs == Append(excs, [depth |-> Depth - 1, ip |-> t])
          IN /\ HandlersBelow(fs, Depth) /\ HandlersOf(fs, Depth, Append(a.tries, t))
             /\ \A k \in 1..(Depth - 1), us \in Seq(Nat) : HandlersOf(excs, k, us) => HandlersOf(fs, k, us)
      BY <1>4, <1>8, <1>10, HandlersPushed, Zenon
    <3>3. HandlersBelow(es, Depth) /\ HandlersOf(es, Depth, b.tries)
          /\ \A k \in 1..(Depth - 1), us \in Seq(Nat) : HandlersOf(excs, k, us) => HandlersOf(es, k, us)
      BY <1>9, <2>1, <3>1, <3>2
    <3>4. \A k \in 1..(Depth - 1) : k \in 1..Depth
      BY <1>8
    <3> QED
      BY <1>10, <3>3, <3>4
  <2>2. CASE I.a # 0
    <3>0. I.b \in 0..Len(a.tries)
      BY <1>1, <1>6, <2>2, Here DEF LegalStep, I, Before
    <3>1. es = SubSeq(excs, 1, Len(excs) - I.b)
      BY <1>1, <1>11, <2>2, Zenon
    <3>2. LET fs == SubSeq(excs, 1, Len(excs) - I.b)
          IN /\ HandlersBelow(fs, Depth) /\ HandlersOf(fs, Depth, SubSeq(a.tries, 1, Len(a.tries) - I.b))
             /\ \A k \in 1..(Depth - 1), us \in Seq(Nat) : HandlersOf(excs, k, us) => HandlersOf(fs, k, us)
      BY <1>8, <1>10, <3>0, HandlersPopped, Zenon
    <3>3. HandlersBelow(es, Depth) /\ HandlersOf(es, Depth, b.tries)
          /\ \A k \in 1..(Depth - 1), us \in Seq(Nat) : HandlersOf(excs, k, us) => HandlersOf(es, k, us)
      BY <1>9, <2>2, <3>1, <3>2
    <3>4. \A k \in 1..(Depth - 1) : k \in 1..Depth
      BY <1>8
    <3> QED
      BY <1>10, <3>3, <3>4
  <2> QED
    BY <2>1, <2>2
<1>13. /\ Depth' = Depth /\ \A k \in 1..(Depth - 1) : Before(Call(k))' = Before(Call(k))
       /\ Before(Call(Depth))' = b
  BY <1>3, <1>5, <1>7, GoesOnCalls
<1>14. HandlersOK'
  <2>1. \A k \in 1..Depth : HandlersOf(excs, k, Before(Call(k)).tries)'
    <3> TAKE k \in 1..Depth
    <3>1. PICK ts : ts = Before(Call(k))'.tries
      OBVIOUS
    <3>2. HandlersOf(es, k, ts)
      <4>1. CASE k = Depth
        BY <1>12, <1>13, <3>1, <4>1
      <4>2. CASE k # Depth
        <5>1. k \in 1..(Depth - 1)
          BY <1>8, <4>2
        <5> QED
          BY <1>12, <1>13, <3>1, <5>1
      <4> QED
        BY <4>1, <4>2
    <3> QED
      BY <1>11, <3>1, <3>2
  <2> QED
    BY <1>11, <1>12, <1>13, <2>1 DEF HandlersOK
<1>15. ScopeKept
  <2>1. ASSUME NEW slot, InScope(slot) PROVE InScope(slot)'
    <3>1. slot - regs.reg \in Before(regs).open => slot - regs.reg \in KnownIn(regs)[t].open
      BY <1>6, <1>7, <1>9
    <3> QED
      BY <1>3, <1>5, <2>1, <3>1, GoesOnScope
  <2> QED
    BY <2>1 DEF ScopeKept
<1>16. GlobalsOK' /\ ClosuresOK' /\ HeapOK' /\ ClassesOK' /\ StackOK' /\ UpvalsOK'
  BY <1>1, <1>2, <1>3, <1>15, GlobalsKept, ClosuresKept, HeapKept, ClassesKept, StackSame, UpvalsKept DEF memory
<1>17. Machine'
  BY <1>3, <1>5, <1>14, <1>16, StepTo
<1> QED
  BY <1>1, <1>17 DEF IInv

\* An exception is matched, and its values are put into registers.
LEMMA CatchStep ==
    ASSUME result = <<"running">>, Machine, CatchException
    PROVE  IInv'
<1>1. PICK caught : /\ caught \in BOOLEAN /\ I.op = "CATCH"
                    /\ stack' = [s \in DOMAIN stack |-> IF caught /\ s \in Slot(I.a)..(Slot(I.a) + I.c - 1)
                                                        THEN stack[regs.top + 1 + s - Slot(I.a)] ELSE stack[s]]
                    /\ regs' = Skip(IF caught THEN 1 ELSE 0)
                    /\ UNCHANGED <<image, control, memory, outside>>
  <2>1. PICK caught : caught = (I.b = 0 \/ \E i \in 0..(I.b - 1) : stack[Slot(I.a + i)] = stack[regs.top + 1])
    OBVIOUS
  <2>2. caught \in BOOLEAN
    BY <2>1
  <2> QED
    BY <2>1, <2>2, Zenon DEF CatchException, Running
<1>2. image' = image /\ UNCHANGED memory /\ excs' = excs /\ frames' = frames /\ result' = result
      /\ globals' = globals /\ upvals' = upvals /\ closures' = closures /\ heap' = heap /\ classes' = classes
  BY <1>1 DEF control, memory
<1>3. Settled /\ Grows /\ I.op \notin Special \cup {"SETGBL"}
  BY <1>1, <1>2, SettledHere, GrowsNot DEF Special
<1>4. /\ regs \in FrameSet /\ I.a \in Int /\ I.c \in Int /\ I.c <= 2 /\ regs.ip \in Nat /\ regs.top \in Nat
      /\ 1..(regs.top + 2) \subseteq DOMAIN stack
  <2>1. I.c <= 2
    BY <1>1, Here DEF LegalStep, I
  <2> QED
    BY <2>1, Here, OpIs DEF FrameSet
<1>5. \A j \in 0..(I.c - 1) : /\ regs.reg < Slot(I.a) + j /\ Slot(I.a) + j \in DOMAIN stack
                              /\ regs.top + 1 + j \in DOMAIN stack
  <2> TAKE j \in 0..(I.c - 1)
  <2>1. I.a + j \in Operands(I)
    <3>1. I.a + j \in I.a..(I.a + I.c - 1)
      BY <1>4
    <3>2. PlainOperands(I) = I.a..(I.a + I.b - 1) \cup I.a..(I.a + I.c - 1)
      BY <1>1 DEF PlainOperands
    <3> QED
      BY <3>1, <3>2 DEF Operands
  <2>2. Slot(I.a + j) = Slot(I.a) + j
    BY <1>4 DEF Slot, FrameSet
  <2>3. regs.reg < Slot(I.a) + j /\ Slot(I.a) + j \in DOMAIN stack
    BY <2>1, <2>2, OperandIs
  <2>4. regs.top + 1 + j \in 1..(regs.top + 2)
    BY <1>4
  <2> QED
    BY <1>4, <2>3, <2>4
<1>6. PICK lo : lo = Slot(I.a)
  OBVIOUS
<1>7. lo \in Int /\ regs.reg \in Nat
  BY <1>4, <1>6 DEF Slot, FrameSet
<1>0. DOMAIN stack' = DOMAIN stack
  BY <1>1
<1>8. \A s \in DOMAIN stack :
         stack'[s] = stack[s] \/ (\E j \in 0..(I.c - 1) : s = lo + j /\ stack'[s] = stack[regs.top + 1 + j])
  <2> TAKE s \in DOMAIN stack
  <2>1. stack'[s] = IF caught /\ s \in lo..(lo + I.c - 1) THEN stack[regs.top + 1 + s - lo] ELSE stack[s]
    BY <1>1, <1>6
  <2>2. CASE s \in lo..(lo + I.c - 1)
    <3>1. s - lo \in 0..(I.c - 1) /\ s = lo + (s - lo) /\ regs.top + 1 + s - lo = regs.top + 1 + (s - lo)
      BY <1>4, <1>7, <2>2
    <3> QED
      BY <2>1, <3>1
  <2> QED
    BY <2>1, <2>2
<1>9. IsList(stack')
  <2>1. DOMAIN stack' = 1..Len(stack) /\ Len(stack) \in Nat
    BY <1>0, Here
  <2>2. stack' = [s \in 1..Len(stack) |-> stack'[s]]
    BY <1>1, Here
  <2> QED
    BY <2>1, <2>2, ListMade
<1>10. StackStays
  <2>1. \A s \in DOMAIN stack : s <= regs.reg => stack'[s] = stack[s]
    <3> TAKE s \in DOMAIN stack
    <3>1. ASSUME s <= regs.reg, NEW j \in 0..(I.c - 1), s = lo + j PROVE FALSE
      <4>1. s \in Nat
        BY Here
      <4>2. regs.reg < s
        BY <1>5, <1>6, <3>1
      <4> QED
        BY <1>7, <3>1, <4>1, <4>2
    <3> QED
      BY <1>8, <3>1
  <2> QED
    BY <1>0, <2>1, StackStaysBelow
<1>11. (\A s \in DOMAIN stack : Solid(stack[s]))'
  <2>1. \A s \in DOMAIN stack : Solid(stack[s])'
    <3> TAKE s \in DOMAIN stack
    <3>1. PICK y : y = stack'[s]
      OBVIOUS
    <3>2. Solid(y)
      BY <1>3, <1>5, <1>8, <3>1 DEF Settled
    <3> QED
      BY <1>3, <3>1, <3>2, SolidKept
  <2> QED
    BY <1>0, <2>1
<1>12. PICK t : t = regs.ip + 1 + (IF caught THEN 1 ELSE 0)
  OBVIOUS
<1>13. GoesOn(t)
  <2>1. regs' = [regs EXCEPT !.ip = t]
    BY <1>1, <1>4, <1>12 DEF Skip, FrameSet
  <2>2. Targets(Proto, regs.ip) = {regs.ip + 1, regs.ip + 2}
    BY <1>1 DEF Targets, I
  <2>3. t \in Targets(Proto, regs.ip)
    BY <1>4, <1>12, <2>2
  <2> QED
    BY <1>2, <1>10, <2>1, <2>3 DEF GoesOn
<1>14. ClosuresOK' /\ HeapOK' /\ ClassesOK' /\ (ScopeKept => UpvalsOK')
  BY <1>2, <1>3, ClosuresKept, HeapKept, ClassesKept, UpvalsKept
<1>15. Machine'
  BY <1>2, <1>3, <1>9, <1>11, <1>13, <1>14, PlainStep
<1> QED
  BY <1>2, <1>15 DEF IInv

\* An exception is raised.
LEMMA RaiseStep ==
    ASSUME result = <<"running">>, Machine, RaiseException
    PROVE  IInv'
<1>1. I.op = "RAISE" /\ image' = image /\ UNCHANGED memory
  BY DEF RaiseException, Running
<1>2. Settled
  BY <1>1, SettledHere
<1>3. I.a \in {0, 1, 2}
  BY <1>1, Here DEF LegalOperands, I
<1>4. PICK e : e = IF I.a < 2 THEN RK(I.b) ELSE stack[regs.top + 1]
  OBVIOUS
<1>5. PICK arg : arg = (CASE I.a = 0 -> Nil [] I.a = 1 -> RK(I.c) [] I.a = 2 -> stack[regs.top + 2])
  OBVIOUS
<1>6. Throw(e, arg)
  BY <1>4, <1>5, Zenon DEF RaiseException
<1>7. Solid(stack[regs.top + 1]) /\ Solid(stack[regs.top + 2]) /\ Solid(Nil)
  <2>1. regs.top + 1 \in 1..(regs.top + 2) /\ regs.top + 2 \in 1..(regs.top + 2)
    BY Here DEF FrameSet
  <2>2. Nil[1] \in Plain
    BY DEF Nil, Plain
  <2> QED
    BY <1>2, <2>1, <2>2, Here, PlainSolid DEF Settled
<1>8. Solid(e) /\ Solid(arg)
  <2>1. CASE I.a = 0
    <3>1. I.b \in Sources(I)
      BY <1>1, <2>1 DEF Sources, Arithmetic, Relations
    <3>2. e = RK(I.b) /\ arg = Nil
      BY <1>4, <1>5, <2>1
    <3> QED
      BY <1>2, <1>7, <3>1, <3>2, SourceIs
  <2>2. CASE I.a = 1
    <3>1. I.b \in Sources(I) /\ I.c \in Sources(I)
      BY <1>1, <2>2 DEF Sources, Arithmetic, Relations
    <3>2. e = RK(I.b) /\ arg = RK(I.c)
      BY <1>4, <1>5, <2>2
    <3> QED
      BY <1>2, <3>1, <3>2, SourceIs
  <2>3. CASE I.a = 2
    BY <1>4, <1>5, <1>7, <2>3
  <2> QED
    BY <1>3, <2>1, <2>2, <2>3
<1> QED
  BY <1>1, <1>2, <1>6, <1>8, Thrown

-----------------------------------------------------------------------------
(* Loads, and the global variable of a class.                              *)

\* An upvalue of the running function.
LEMMA OwnUpvalue ==
    ASSUME Machine, NEW j \in DOMAIN Proto.upvals
    PROVE  ClosureOf(stack[regs.func + 1]).upvals[j] \in Upvalues
<1>1. PICK f : f = stack[regs.func + 1]
  OBVIOUS
<1>2. IsFunction(f[2])
  <2>1. f[1] = "fun" /\ Solid(f)
    BY <1>1, Here DEF FrameOK
  <2> QED
    BY <2>1, FunSolid
<1>3. PICK c : c = ClosureOf(f)
  OBVIOUS
<1>4. Complete(c)
  BY <1>2, <1>3 DEF IsFunction, ClosureOf
<1>5. Proto = image.protos[c.proto]
  BY <1>1, <1>3 DEF Proto
<1> QED
  BY <1>1, <1>3, <1>4, <1>5 DEF Complete

\* A constant that LDCONST loads.
LEMMA ConstantIs ==
    ASSUME Machine, I.op = "LDCONST"
    PROVE  LET k == Proto.ktab[I.b + 1]
           IN /\ Loaded = <<k.t, k.v>>
              /\ \/ k.t \in {"int", "str"}
                 \/ k.t = "class" /\ k.v \in DOMAIN image.classes /\ Making(Proto, regs.ip + 1, k.v)
<1>1. /\ I.b \in Nat /\ I.b + 1 \in DOMAIN Proto.ktab
      /\ Proto.ktab[I.b + 1].t = "class" => Making(Proto, regs.ip + 1, ClassMade(Proto, I))
  BY Here DEF LegalOperands, I
<1>2. IsK(K(I.b)) /\ K(I.b) - 256 + 1 = I.b + 1
  BY <1>1 DEF IsK, K
<1>3. RK(K(I.b)) = Const(Proto.ktab[I.b + 1])
  BY <1>2 DEF RK
<1>4. Loaded = Const(Proto.ktab[I.b + 1])
  BY <1>3 DEF Loaded
<1>5. \/ Proto.ktab[I.b + 1].t \in {"int", "str"}
      \/ Proto.ktab[I.b + 1].t = "class" /\ Proto.ktab[I.b + 1].v \in DOMAIN image.classes
  BY <1>1, Here, Zenon DEF LegalProto
<1> QED
  BY <1>1, <1>4, <1>5 DEF Const, ClassMade

\* What is loaded, but for a class that is being made.
LEMMA LoadedSolid ==
    ASSUME Machine, Settled, I.op \in Loads, I.op = "LDCONST" => Proto.ktab[I.b + 1].t # "class"
    PROVE  Solid(Loaded)
<1>1. CASE I.op \in {"LDNIL", "LDBOOL", "LDINT"}
  <2>1. PICK v : v = Loaded
    OBVIOUS
  <2>2. v[1] \in {"nil", "bool", "int"}
    BY <1>1, <2>1 DEF Loaded, Nil
  <2>3. v[1] \in Plain
    BY <2>2, Zenon DEF Plain
  <2> QED
    BY <2>1, <2>3, PlainSolid
<1>2. CASE I.op = "LDCONST"
  <2>1. PICK v : v = Loaded
    OBVIOUS
  <2>2. v[1] \in {"int", "str"}
    BY <1>2, <2>1, ConstantIs
  <2>3. v[1] \in Plain
    BY <2>2, Zenon DEF Plain
  <2> QED
    BY <2>1, <2>3, PlainSolid
<1>3. CASE I.op = "MOVE"
  <2>1. I.b \in Sources(I)
    BY <1>3 DEF Sources, Arithmetic, Relations
  <2>2. Loaded = RK(I.b)
    BY <1>3 DEF Loaded
  <2> QED
    BY <2>1, <2>2, SourceIs
<1>4. CASE I.op = "GETGBL"
  <2>1. I.b + 1 \in 1..image.globals
    BY <1>4, Here DEF LegalOperands, I
  <2>2. Loaded = globals[I.b + 1]
    BY <1>4 DEF Loaded
  <2> QED
    BY <2>1, <2>2 DEF Settled, Machine, GlobalsOK
<1>5. CASE I.op = "GETUPV"
  <2>1. I.b + 1 \in DOMAIN Proto.upvals
    BY <1>5, Here DEF LegalOperands, I
  <2>2. Loaded = Deref(ClosureOf(stack[regs.func + 1]).upvals[I.b + 1])
    BY <1>5 DEF Loaded
  <2> QED
    BY <2>1, <2>2, OwnUpvalue, DerefSolid
<1> QED
  BY <1>1, <1>2, <1>3, <1>4, <1>5 DEF Loads

\* A register is loaded.
LEMMA LoadStep ==
    ASSUME result = <<"running">>, Machine, Load
    PROVE  IInv'
<1>1. /\ I.op \in Loads /\ image' = image /\ UNCHANGED memory /\ frames' = frames /\ excs' = excs
      /\ result' = result /\ globals' = globals /\ upvals' = upvals /\ closures' = closures /\ heap' = heap
      /\ classes' = classes
  BY DEF Load, Running, control, memory
<1>2. I.op \notin Special \cup {"SETGBL", "CLASS", "CATCH", "RET", "RAISE"} /\ I.a \in Operands(I)
  BY <1>1, OperandA DEF Loads, Special
<1>3. Settled /\ Grows
  BY <1>1, <1>2, SettledHere, GrowsNot
<1>4. PICK v : v = Loaded
  OBVIOUS
<1>5. stack' = [stack EXCEPT ![Slot(I.a)] = v]
  BY <1>4 DEF Load
<1>6. Slot(I.a) \in DOMAIN stack /\ regs.reg < Slot(I.a)
  BY <1>2, OperandIs
<1>7. IsList(stack') /\ StackStays /\ DOMAIN stack' = DOMAIN stack
  BY <1>5, <1>6, StackWritten, Zenon
<1>8. PICK t : t = regs.ip + 1 + (IF I.op = "LDBOOL" THEN I.c ELSE 0)
  OBVIOUS
<1>9. GoesOn(t)
  <2>0. regs.ip \in Nat /\ DOMAIN regs = {"func", "reg", "top", "ip"} /\ I.c \in Int
    BY Here, OpIs DEF FrameSet
  <2>1. regs' = [regs EXCEPT !.ip = t]
    BY <1>8, <2>0 DEF Load, Skip
  <2>2. t \in Targets(Proto, regs.ip)
    <3>1. CASE I.op = "LDBOOL"
      <4>1. Targets(Proto, regs.ip) = {regs.ip + 1 + I.c}
        BY <3>1 DEF Targets, I
      <4> QED
        BY <1>8, <3>1, <4>1
    <3>2. CASE I.op # "LDBOOL"
      <4>1. Targets(Proto, regs.ip) = {regs.ip + 1}
        BY <1>2, <3>2 DEF Targets, I, Special
      <4> QED
        BY <1>8, <2>0, <3>2, <4>1
    <3> QED
      BY <3>1, <3>2
  <2> QED
    BY <1>1, <1>7, <2>1, <2>2 DEF GoesOn
<1>10. ClosuresOK' /\ HeapOK' /\ ClassesOK' /\ (ScopeKept => UpvalsOK')
  BY <1>1, <1>3, ClosuresKept, HeapKept, ClassesKept, UpvalsKept
<1>11. ASSUME Solid(v)' PROVE Machine'
  <2>1. \A s \in DOMAIN stack : Solid(stack[s])'
    <3> TAKE s \in DOMAIN stack
    <3>1. PICK y : y = stack'[s]
      OBVIOUS
    <3>2. y = v \/ y = stack[s]
      BY <1>5, <3>1
    <3>3. Solid(y)'
      BY <1>3, <1>11, <3>2, SolidKept DEF Settled
    <3> QED
      BY <3>1, <3>3
  <2>2. (\A s \in DOMAIN stack : Solid(stack[s]))'
    BY <1>7, <2>1
  <2> QED
    BY <1>1, <1>2, <1>3, <1>7, <1>9, <1>10, <2>2, PlainStep
<1>12. CASE ~(I.op = "LDCONST" /\ Proto.ktab[I.b + 1].t = "class")
  <2>1. Solid(v)
    BY <1>1, <1>3, <1>4, <1>12, LoadedSolid
  <2>2. Solid(v)'
    BY <1>3, <2>1, SolidKept
  <2> QED
    BY <1>1, <1>11, <2>2 DEF IInv
<1>13. CASE I.op = "LDCONST" /\ Proto.ktab[I.b + 1].t = "class"
  <2>1. v[1] = "class" /\ v[2] \in DOMAIN image.classes /\ Making(Proto, regs.ip + 1, v[2])
    BY <1>4, <1>13, ConstantIs
  <2>2. Proto' = Proto /\ regs'.ip = regs.ip + 1
    <3>1. Depth \in 1..Depth /\ Call(Depth) = regs
      BY Running1 DEF Machine
    <3>2. Call(Depth)' = regs' /\ ProtoOf(Call(Depth))' = ProtoOf(Call(Depth)) /\ Depth' = Depth
      BY <1>3, <1>9, <3>1, GoesOnCalls
    <3>3. (Proto = ProtoOf(regs))' /\ Proto = ProtoOf(regs)
      BY DEF Proto, ProtoOf
    <3>4. regs'.ip = t /\ t = regs.ip + 1
      BY <1>8, <1>9, <1>13, Here DEF GoesOn, FrameSet
    <3> QED
      BY <3>1, <3>2, <3>3, <3>4
  <2>3. Pending(v)'
    <3>1. v[2] \in DOMAIN classes'
      BY <1>1, <2>1 DEF Machine, ClassesOK
    <3>2. Making(Proto', regs'.ip, v[2])
      BY <2>1, <2>2
    <3> QED
      BY <2>1, <3>1, <3>2 DEF Pending
  <2>4. StackOK'
    <3>1. \A s \in DOMAIN stack : Valid(stack[s])'
      <4> TAKE s \in DOMAIN stack
      <4>1. PICK y : y = stack'[s]
        OBVIOUS
      <4>2. y = v \/ y = stack[s]
        BY <1>5, <4>1
      <4>3. CASE y = v
        <5>1. Pending(y)'
          BY <2>3, <4>3
        <5> QED
          BY <4>1, <5>1 DEF Valid
      <4>4. CASE y = stack[s]
        <5>1. Solid(y)
          BY <1>3, <4>4 DEF Settled
        <5>2. Solid(y)'
          BY <1>3, <5>1, SolidKept
        <5> QED
          BY <4>1, <5>2 DEF Valid
      <4> QED
        BY <4>2, <4>3, <4>4
    <3> QED
      BY <1>7, <3>1 DEF StackOK
  <2>5. HandlersOK' /\ ScopeKept
    BY <1>1, <1>2, <1>3, <1>9, GoesOnPlain
  <2>6. GlobalsOK'
    BY <1>1, <1>3, GlobalsKept
  <2>7. Machine'
    BY <1>3, <1>9, <1>10, <2>4, <2>5, <2>6, StepTo
  <2> QED
    BY <1>1, <2>7 DEF IInv
<1> QED
  BY <1>12, <1>13

\* A global is set.
LEMMA SetGlobalStep ==
    ASSUME result = <<"running">>, Machine, SetGlobal
    PROVE  IInv'
<1>1. /\ I.op = "SETGBL" /\ globals' = [globals EXCEPT ![I.b + 1] = stack[Slot(I.a)]] /\ regs' = Skip(0)
      /\ UNCHANGED <<image, stack, control, upvals, closures, heap, classes>>
  BY DEF SetGlobal, Running
<1>2. I.op \notin Special /\ I.a \in Operands(I)
  BY <1>1, OperandA DEF Special
<1>3. Grows
  <2>1. HeapGrows /\ Upvalues \subseteq Upvalues' /\ DOMAIN classes' = DOMAIN classes
    BY <1>1 DEF HeapGrows, Upvalues
  <2> QED
    BY <1>1, <2>1, GrowsPlain
<1>4. GoesOn(regs.ip + 1)
  BY <1>1, NextOne DEF GoesOn, StackStays, control
<1>5. Proto' = Proto /\ regs'.ip = regs.ip + 1 /\ regs.ip \in Nat
  <2>1. Depth \in 1..Depth /\ Call(Depth) = regs
    BY Running1 DEF Machine
  <2>2. Call(Depth)' = regs' /\ ProtoOf(Call(Depth))' = ProtoOf(Call(Depth)) /\ Depth' = Depth
    BY <1>3, <1>4, <2>1, GoesOnCalls
  <2>3. (Proto = ProtoOf(regs))' /\ Proto = ProtoOf(regs)
    BY DEF Proto, ProtoOf
  <2> QED
    BY <1>4, <2>1, <2>2, <2>3, Here DEF GoesOn, FrameSet
<1>6. ASSUME NEW v, Valid(v) PROVE Valid(v)'
  <2>1. CASE Solid(v)
    BY <1>3, <2>1, SolidKept DEF Valid
  <2>2. CASE Pending(v)
    <3>1. v[1] = "class" /\ v[2] \in DOMAIN classes /\ Making(Proto, regs.ip, v[2])
      BY <2>2 DEF Pending
    <3>2. Making(Proto, regs.ip + 1, v[2])
      <4>1. I = Proto.code[regs.ip + 1] /\ I.op # "CLASS"
        BY <1>1 DEF I
      <4>2. (regs.ip + 1) + 1 = regs.ip + 2
        BY <1>5
      <4> QED
        BY <3>1, <4>1, <4>2 DEF Making
    <3>3. Making(Proto', regs'.ip, v[2]) /\ v[2] \in DOMAIN classes'
      BY <1>1, <1>5, <3>1, <3>2
    <3> QED
      BY <3>1, <3>3 DEF Pending, Valid
  <2> QED
    BY <1>6, <2>1, <2>2 DEF Valid
<1>7. \A s \in DOMAIN stack : Valid(stack[s])'
  <2> TAKE s \in DOMAIN stack
  <2>1. PICK v : v = stack[s]
    OBVIOUS
  <2>2. Valid(v)'
    BY <1>6, <2>1 DEF Machine, StackOK
  <2> QED
    BY <1>1, <2>1, <2>2
<1>8. StackOK'
  BY <1>1, <1>7, Here DEF StackOK
<1>9. GlobalsOK'
  <2>1. \A g \in DOMAIN globals : Valid(globals[g])'
    <3> TAKE g \in DOMAIN globals
    <3>1. PICK v : v = globals'[g]
      OBVIOUS
    <3>2. v = globals[g] \/ v = stack[Slot(I.a)]
      BY <1>1, <3>1
    <3>3. Slot(I.a) \in DOMAIN stack
      BY <1>2, OperandIs
    <3>4. Valid(v)
      BY <3>2, <3>3 DEF Machine, StackOK, GlobalsOK
    <3> QED
      BY <1>6, <3>1, <3>4
  <2>2. DOMAIN globals' = DOMAIN globals /\ DOMAIN globals = 1..image.globals /\ image' = image
    BY <1>1 DEF Machine, GlobalsOK
  <2> QED
    BY <2>1, <2>2 DEF GlobalsOK
<1>10. HandlersOK' /\ ScopeKept
  BY <1>1, <1>2, <1>3, <1>4, GoesOnPlain DEF control
<1>11. ClosuresOK' /\ HeapOK' /\ ClassesOK' /\ UpvalsOK'
  BY <1>1, <1>3, <1>10, ClosuresKept, HeapKept, ClassesKept, UpvalsKept
<1>12. Machine'
  BY <1>3, <1>4, <1>8, <1>9, <1>10, <1>11, StepTo
<1> QED
  BY <1>1, <1>12 DEF IInv, control

-----------------------------------------------------------------------------
(* Captures.                                                               *)

\* The upvalues with those that are made.
LEMMA UpvaluesMade ==
    ASSUME Machine, NEW xs, upvals' = Append(upvals, Fresh(xs))
    PROVE  /\ IsList(upvals') /\ Len(upvals) \in Nat /\ Upvalues \subseteq Upvalues'
           /\ \A u \in Upvalues : Upvalue(u)' = Upvalue(u)
           /\ \A x \in DOMAIN Fresh(xs) : <<Len(upvals) + 1, x>> \in Upvalues'
           /\ \A u \in Upvalues' : u \in Upvalues \/ \E x \in DOMAIN Fresh(xs) : Upvalue(u)' = Fresh(xs)[x]
<1>1. PICK f : f = Fresh(xs)
  OBVIOUS
<1>2. IsList(upvals)
  BY DEF Machine, UpvalsOK
<1>3. DOMAIN upvals = 1..Len(upvals) /\ Len(upvals) \in Nat
  BY <1>2, ListIs
<1>4. /\ IsList(upvals') /\ DOMAIN upvals' = 1..(Len(upvals) + 1)
      /\ \A g \in 1..Len(upvals) : upvals'[g] = upvals[g]
      /\ upvals'[Len(upvals) + 1] = f
  BY <1>1, <1>2, ListAppend
<1>5. \A u \in Upvalues : u \in Upvalues' /\ Upvalue(u)' = Upvalue(u)
  <2> TAKE u \in Upvalues
  <2>1. u[1] \in 1..Len(upvals) /\ u[2] \in DOMAIN upvals[u[1]] /\ u = <<u[1], u[2]>>
    BY <1>3 DEF Upvalues
  <2>2. upvals'[u[1]] = upvals[u[1]] /\ u[1] \in DOMAIN upvals'
    BY <1>3, <1>4, <2>1
  <2>3. u \in Upvalues'
    BY <2>1, <2>2 DEF Upvalues
  <2> QED
    BY <2>2, <2>3 DEF Upvalue
<1>6. \A x \in DOMAIN f : <<Len(upvals) + 1, x>> \in Upvalues'
  <2>1. Len(upvals) + 1 \in DOMAIN upvals'
    BY <1>3, <1>4
  <2> QED
    BY <1>4, <2>1 DEF Upvalues
<1>7. \A u \in Upvalues' : u \in Upvalues \/ \E x \in DOMAIN f : Upvalue(u)' = f[x]
  <2> TAKE u \in Upvalues'
  <2>1. u[1] \in DOMAIN upvals' /\ u[2] \in DOMAIN upvals'[u[1]] /\ u = <<u[1], u[2]>>
    BY DEF Upvalues
  <2>2. CASE u[1] = Len(upvals) + 1
    BY <1>4, <2>1, <2>2 DEF Upvalue
  <2>3. CASE u[1] # Len(upvals) + 1
    <3>1. u[1] \in 1..Len(upvals)
      BY <1>3, <1>4, <2>1, <2>3
    <3>2. u[2] \in DOMAIN upvals[u[1]] /\ u[1] \in DOMAIN upvals
      BY <1>3, <1>4, <2>1, <3>1
    <3> QED
      BY <2>1, <3>2 DEF Upvalues
  <2> QED
    BY <2>2, <2>3
<1> QED
  BY <1>1, <1>3, <1>4, <1>5, <1>6, <1>7

\* A function has all its upvalues.
LEMMA RefsMade ==
    ASSUME Machine, NEW descs, Capturable(Proto, descs), NEW xs, CapturedBy(descs) \subseteq xs,
           upvals' = Append(upvals, Fresh(xs))
    PROVE  /\ DOMAIN Refs(descs) = DOMAIN descs
           /\ \A d \in DOMAIN descs : Refs(descs)[d] \in Upvalues'
<1>1. DOMAIN Refs(descs) = DOMAIN descs
  BY DEF Refs
<1>2. ASSUME NEW d \in DOMAIN descs PROVE Refs(descs)[d] \in Upvalues'
  <2>1. CASE descs[d].instack
    <3>1. PICK x : x = descs[d].idx
      OBVIOUS
    <3>2. x \in xs
      BY <2>1, <3>1 DEF CapturedBy
    <3>3. Refs(descs)[d] = Ref(x)
      BY <2>1, <3>1 DEF Refs
    <3>4. CASE OpenAt(x) = {}
      <4>1. Ref(x) = <<Len(upvals) + 1, x>> /\ x \in DOMAIN Fresh(xs)
        BY <3>2, <3>4 DEF Ref, Fresh
      <4> QED
        BY <3>3, <4>1, UpvaluesMade
    <3>5. CASE OpenAt(x) # {}
      <4>1. Ref(x) \in OpenAt(x)
        BY <3>5 DEF Ref
      <4>2. Ref(x) \in Upvalues
        BY <4>1 DEF OpenAt
      <4> QED
        BY <3>3, <4>2, UpvaluesMade
    <3> QED
      BY <3>4, <3>5
  <2>2. CASE ~descs[d].instack
    <3>1. descs[d].idx + 1 \in DOMAIN Proto.upvals
      BY <2>2 DEF Capturable
    <3>2. Refs(descs)[d] = ClosureOf(stack[regs.func + 1]).upvals[descs[d].idx + 1]
      BY <2>2 DEF Refs
    <3>3. Refs(descs)[d] \in Upvalues
      BY <3>1, <3>2, OwnUpvalue
    <3> QED
      BY <3>3, UpvaluesMade
  <2> QED
    BY <2>1, <2>2
<1> QED
  BY <1>1, <1>2

\* What is captured is in scope.
LEMMA UpvalsMade ==
    ASSUME Machine, Grows, NEW t, GoesOn(t), NEW xs, xs \subseteq Int,
           Before(regs).open \cup xs \subseteq KnownIn(regs)[t].open,
           upvals' = Append(upvals, Fresh(xs))
    PROVE  UpvalsOK'
<1>1. ASSUME NEW u \in Upvalues' PROVE UpvalueOK(Upvalue(u))'
  <2>1. CASE u \in Upvalues
    <3>1. PICK w : w = Upvalue(u)
      OBVIOUS
    <3>2. UpvalueOK(w)
      BY <2>1, <3>1 DEF Machine, UpvalsOK
    <3>3. Solid(w.v)'
      BY <3>2, SolidKept DEF UpvalueOK
    <3>4. ASSUME w.slot >= 0 PROVE InScope(w.slot)'
      <4>1. InScope(w.slot)
        BY <3>2, <3>4 DEF UpvalueOK
      <4>2. w.slot - regs.reg \in Before(regs).open => w.slot - regs.reg \in KnownIn(regs)[t].open
        OBVIOUS
      <4> QED
        BY <4>1, <4>2, GoesOnScope
    <3>5. UpvalueOK(w)'
      BY <3>2, <3>3, <3>4 DEF UpvalueOK
    <3>6. w = Upvalue(u)'
      BY <2>1, <3>1, UpvaluesMade
    <3> QED
      BY <3>5, <3>6
  <2>2. CASE u \notin Upvalues
    <3>1. PICK x \in DOMAIN Fresh(xs) : Upvalue(u)' = Fresh(xs)[x]
      BY <2>2, UpvaluesMade
    <3>2. PICK w : w = Upvalue(u)'
      OBVIOUS
    <3>3. PICK nil : nil = Nil
      OBVIOUS
    <3>4. w = [slot |-> regs.reg + x, v |-> nil] /\ x \in xs
      BY <3>1, <3>2, <3>3 DEF Fresh
    <3>5. PICK slot : slot = regs.reg + x
      OBVIOUS
    <3>6. regs.reg \in Nat /\ x \in Int /\ slot \in Int /\ slot - regs.reg = x
      BY <3>4, <3>5, Here DEF FrameSet
    <3>7. InScope(slot)'
      <4>1. Depth \in 1..Depth /\ Call(Depth) = regs
        BY Running1 DEF Machine
      <4>2. Depth' = Depth /\ Call(Depth)'.reg = regs.reg /\ Before(Call(Depth))' = KnownIn(regs)[t]
        BY <4>1, GoesOnCalls
      <4>3. (slot - Call(Depth).reg \in Before(Call(Depth)).open)'
        BY <3>4, <3>6, <4>2
      <4> QED
        BY <4>1, <4>2, <4>3 DEF InScope
    <3>8. Solid(nil)'
      <4>1. nil[1] \in Plain
        BY <3>3 DEF Nil, Plain
      <4> QED
        BY <4>1, PlainSolid
    <3>9. w.slot = slot /\ w.v = nil /\ w = [slot |-> w.slot, v |-> w.v]
      BY <3>4, <3>5
    <3>10. UpvalueOK(w)'
      BY <3>6, <3>7, <3>8, <3>9 DEF UpvalueOK
    <3> QED
      BY <3>2, <3>10
  <2> QED
    BY <2>1, <2>2
<1>2. \A u \in Upvalues' : UpvalueOK(Upvalue(u))'
  BY <1>1
<1>3. IsList(upvals')
  BY UpvaluesMade
<1> QED
  BY <1>2, <1>3 DEF UpvalsOK

\* A function is made, with its upvalues.
LEMMA MakeClosureStep ==
    ASSUME result = <<"running">>, Machine, MakeClosure
    PROVE  IInv'
<1>1. PICK proto : proto = Proto.ptab[I.b + 1]
  OBVIOUS
<1>2. PICK descs : descs = image.protos[proto].upvals
  OBVIOUS
<1>3. PICK refs : refs = Refs(descs)
  OBVIOUS
<1>4. PICK xs : xs = CapturedBy(descs)
  OBVIOUS
<1>5. PICK rec : rec = [proto |-> proto, upvals |-> refs]
  BY Zenon
<1>6. PICK v : v = <<"fun", <<1, Len(closures[1]) + 1>> >>
  BY ZenonT(40)
<1>7. /\ I.op = "CLOSURE"
      /\ closures' = [closures EXCEPT ![1] = Append(closures[1], rec)]
      /\ upvals' = Append(upvals, Fresh(xs))
      /\ ToRegister(I.a, v)
      /\ UNCHANGED <<image, control, globals, heap, classes>>
  BY <1>1, <1>2, <1>3, <1>4, <1>5, <1>6 DEF MakeClosure, Running
<1>8. proto \in DOMAIN image.protos /\ Capturable(Proto, descs)
  BY <1>1, <1>2, <1>7, Here, Zenon DEF LegalOperands, I
<1>9. Settled /\ I.a \in Operands(I)
  BY <1>7, SettledHere, OperandA
<1>10. /\ DOMAIN refs = DOMAIN descs /\ \A d \in DOMAIN descs : refs[d] \in Upvalues'
       /\ Upvalues \subseteq Upvalues'
  BY <1>3, <1>4, <1>7, <1>8, RefsMade, UpvaluesMade
<1>11. Complete(rec)'
  <2>1. rec.proto = proto /\ rec.upvals = refs
    BY <1>5
  <2> QED
    BY <1>2, <1>7, <1>8, <1>10, <2>1 DEF Complete
<1>12. PICK n : n = Len(closures[1])
  BY Zenon
<1>13. /\ n \in Nat /\ DOMAIN closures[1] = 1..n /\ IsList(closures[1]) /\ 1 \in DOMAIN closures
       /\ DOMAIN closures = 1..(Len(image.classes) + 1) /\ Len(image.classes) \in Nat
  <2>1. IsList(closures[1]) /\ DOMAIN closures = 1..(Len(image.classes) + 1) /\ Len(image.classes) \in Nat
    BY DEF Machine, ClosuresOK, Legal
  <2> QED
    BY <1>12, <2>1, ListIs
<1>14. /\ DOMAIN closures' = DOMAIN closures
       /\ \A g \in DOMAIN closures : g # 1 => closures'[g] = closures[g]
       /\ IsList(closures'[1]) /\ DOMAIN closures'[1] = 1..(n + 1)
       /\ \A i \in 1..n : closures'[1][i] = closures[1][i]
       /\ closures'[1][n + 1] = rec
  <2>1. PICK cs : cs = Append(closures[1], rec)
    BY Zenon
  <2>2. IsList(cs) /\ DOMAIN cs = 1..(n + 1) /\ (\A i \in 1..n : cs[i] = closures[1][i]) /\ cs[n + 1] = rec
    BY <1>12, <1>13, <2>1, ListAppend
  <2>3. closures' = [closures EXCEPT ![1] = cs]
    BY <1>7, <2>1
  <2>4. closures'[1] = cs
    BY <1>13, <2>3
  <2> QED
    BY <2>2, <2>3, <2>4, Zenon
<1>15. Grows
  <2>1. ASSUME NEW g \in DOMAIN closures, NEW i \in DOMAIN closures[g]
        PROVE  closures'[g][i] = closures[g][i] /\ i \in DOMAIN closures'[g]
    <3>1. CASE g = 1
      <4>1. i \in 1..n /\ i \in 1..(n + 1)
        BY <1>13, <3>1
      <4> QED
        BY <1>14, <3>1, <4>1, Zenon
    <3>2. CASE g # 1
      BY <1>14, <3>2
    <3> QED
      BY <3>1, <3>2
  <2>2. ASSUME NEW g \in DOMAIN closures, NEW i \in DOMAIN closures[g], Complete(closures[g][i])
        PROVE  Complete(closures[g][i])'
    <3>1. PICK c : c = closures[g][i]
      OBVIOUS
    <3>2. Complete(c)'
      BY <1>7, <1>10, <2>2, <3>1, ClosuresStay
    <3>3. c = closures'[g][i]
      BY <2>1, <3>1
    <3> QED
      BY <3>2, <3>3
  <2>3. ClosuresGrow
    BY <1>14, <2>1, <2>2 DEF ClosuresGrow
  <2>4. HeapGrows /\ DOMAIN classes' = DOMAIN classes /\ image' = image
    BY <1>7 DEF HeapGrows
  <2> QED
    BY <1>10, <2>3, <2>4 DEF Grows
<1>16. Solid(v)'
  <2>1. 1 \in DOMAIN closures' /\ n + 1 \in DOMAIN closures'[1]
    BY <1>13, <1>14
  <2>2. IsFunction(<<1, n + 1>>)'
    BY <1>11, <1>14, <2>1 DEF IsFunction
  <2>3. v[1] = "fun" /\ v[2] = <<1, n + 1>>
    BY <1>6, <1>12
  <2> QED
    BY <2>2, <2>3 DEF Solid
<1>17. ClosuresOK'
  <2>1. ASSUME NEW i \in DOMAIN closures'[1]
        PROVE  /\ closures'[1][i] = [proto |-> closures'[1][i].proto, upvals |-> closures'[1][i].upvals]
               /\ Complete(closures[1][i])'
    <3>1. PICK c : c = closures'[1][i]
      OBVIOUS
    <3>2. c = [proto |-> c.proto, upvals |-> c.upvals] /\ Complete(c)'
      <4>1. CASE i = n + 1
        <5>1. c = rec
          BY <1>14, <3>1, <4>1
        <5>2. rec = [proto |-> rec.proto, upvals |-> rec.upvals]
          BY <1>5
        <5> QED
          BY <1>11, <5>1, <5>2
      <4>2. CASE i # n + 1
        <5>1. i \in 1..n
          BY <1>13, <1>14, <4>2
        <5>2. c = closures[1][i]
          BY <1>14, <3>1, <5>1
        <5>3. c = [proto |-> c.proto, upvals |-> c.upvals] /\ Complete(c)
          BY <1>13, <5>1, <5>2, Zenon DEF Machine, ClosuresOK
        <5> QED
          BY <1>7, <1>10, <5>3, ClosuresStay
      <4> QED
        BY <4>1, <4>2
    <3> QED
      BY <3>1, <3>2
  <2>2. ASSUME NEW c \in DOMAIN image.classes
        PROVE  LET ms == image.classes[c].methods IN
               /\ DOMAIN closures'[c + 1] = DOMAIN ms
               /\ \A m \in DOMAIN ms :
                     closures'[c + 1][m] = [proto |-> ms[m].proto, upvals |-> closures'[c + 1][m].upvals]
    <3>1. c + 1 \in DOMAIN closures /\ c + 1 # 1
      <4>1. DOMAIN image.classes = 1..Len(image.classes)
        BY DEF Machine, Legal
      <4> QED
        BY <1>13, <4>1
    <3>2. closures'[c + 1] = closures[c + 1]
      BY <1>14, <3>1
    <3> QED
      BY <3>2 DEF Machine, ClosuresOK
  <2>3. (\A i \in DOMAIN closures[1] :
            LET c == closures[1][i] IN c = [proto |-> c.proto, upvals |-> c.upvals] /\ Complete(c))'
    BY <2>1, Zenon
  <2>4. image' = image
    BY <1>7
  <2> QED
    BY <1>13, <1>14, <2>2, <2>3, <2>4, Zenon DEF ClosuresOK
<1>18. Slot(I.a) \in DOMAIN stack /\ regs.reg < Slot(I.a)
  BY <1>9, OperandIs
<1>19. stack' = [stack EXCEPT ![Slot(I.a)] = v] /\ regs' = Skip(0)
  BY <1>7 DEF ToRegister
<1>20. IsList(stack') /\ StackStays /\ DOMAIN stack' = DOMAIN stack
  BY <1>18, <1>19, StackWritten, Zenon
<1>21. PICK t : t = regs.ip + 1
  OBVIOUS
<1>22. GoesOn(t)
  BY <1>7, <1>19, <1>20, <1>21, NextOne DEF GoesOn, control
<1>23. KnownIn(regs)[t].tries = Before(regs).tries
       /\ Before(regs).open \cup xs \subseteq KnownIn(regs)[t].open
  <2>1. Passed(image, Proto, regs.ip, Before(regs)) = [Before(regs) EXCEPT !.open = Before(regs).open \cup xs]
    BY <1>1, <1>2, <1>4, <1>7, Zenon DEF Passed, I
  <2>2. Before(regs) \in Knowledge(Proto)
    BY Here
  <2>3. Passed(image, Proto, regs.ip, Before(regs)).tries = Before(regs).tries
        /\ Passed(image, Proto, regs.ip, Before(regs)).open = Before(regs).open \cup xs
    BY <2>1, <2>2 DEF Knowledge
  <2>4. t \in Targets(Proto, regs.ip)
    BY <1>22 DEF GoesOn
  <2> QED
    BY <2>3, <2>4, Flow, Zenon
<1>24. HandlersOK'
  BY <1>7, <1>15, <1>22, <1>23, GoesOnHandlers DEF control
<1>25. xs \subseteq Int
  <2>1. \A d \in DOMAIN descs : descs[d].instack => descs[d].idx \in Int
    BY <1>8, Here DEF Capturable
  <2> QED
    BY <1>4, <2>1 DEF CapturedBy
<1>26. UpvalsOK'
  BY <1>7, <1>15, <1>22, <1>23, <1>25, UpvalsMade, Zenon
<1>27. StackOK'
  <2>1. \A s \in DOMAIN stack : Solid(stack[s])'
    <3> TAKE s \in DOMAIN stack
    <3>1. PICK y : y = stack'[s]
      OBVIOUS
    <3>2. y = v \/ y = stack[s]
      BY <1>19, <3>1
    <3>3. Solid(y)'
      BY <1>9, <1>15, <1>16, <3>2, SolidKept DEF Settled
    <3> QED
      BY <3>1, <3>3
  <2> QED
    BY <1>20, <2>1 DEF StackOK, Valid
<1>28. GlobalsOK' /\ HeapOK' /\ ClassesOK'
  BY <1>7, <1>9, <1>15, GlobalsKept, HeapKept, ClassesKept
<1>29. Machine'
  BY <1>15, <1>17, <1>22, <1>24, <1>26, <1>27, <1>28, StepTo
<1> QED
  BY <1>7, <1>29 DEF IInv, control

\* A class gets the upvalues of its methods.
LEMMA InitClassStep ==
    ASSUME result = <<"running">>, Machine, InitClass
    PROVE  IInv'
<1>1. PICK c : c = ClassMade(Proto, I)
  OBVIOUS
<1>2. PICK ms : ms = image.classes[c].methods
  OBVIOUS
<1>3. PICK xs : xs = CapturedByMethods(image, c)
  OBVIOUS
<1>4. PICK old : old = closures[c + 1]
  OBVIOUS
<1>5. PICK new : new = [m \in DOMAIN old |-> [old[m] EXCEPT !.upvals = Refs(image.protos[ms[m].proto].upvals)]]
  BY Zenon
<1>6. /\ I.op = "CLASS"
      /\ closures' = [closures EXCEPT ![c + 1] = new]
      /\ upvals' = Append(upvals, Fresh(xs))
      /\ regs' = Skip(0)
      /\ UNCHANGED <<image, stack, control, globals, heap, classes>>
  BY <1>1, <1>2, <1>3, <1>4, <1>5, Zenon DEF InitClass, Running
<1>7. /\ c \in DOMAIN image.classes /\ c \in DOMAIN classes
      /\ \A m \in DOMAIN ms : Capturable(Proto, image.protos[ms[m].proto].upvals)
  <2>1. /\ I.b + 1 \in DOMAIN Proto.ktab /\ Proto.ktab[I.b + 1].t = "class"
        /\ \A m \in DOMAIN ms : Capturable(Proto, image.protos[ms[m].proto].upvals)
    BY <1>1, <1>2, <1>6, Here, Zenon DEF LegalOperands, I
  <2>2. Proto.ktab[I.b + 1].v \in DOMAIN image.classes
    BY <2>1, Here DEF LegalProto
  <2> QED
    BY <1>1, <2>1, <2>2, Zenon DEF ClassMade, Machine, ClassesOK
<1>8. /\ c + 1 \in DOMAIN closures /\ c + 1 # 1 /\ DOMAIN closures = 1..(Len(image.classes) + 1)
      /\ DOMAIN old = DOMAIN ms
      /\ \A m \in DOMAIN ms : old[m] = [proto |-> ms[m].proto, upvals |-> old[m].upvals]
  <2>1. c + 1 \in DOMAIN closures /\ c + 1 # 1
    BY <1>7, ClassIs DEF Machine
  <2> QED
    BY <1>2, <1>4, <1>7, <2>1, Zenon DEF Machine, ClosuresOK
<1>9. /\ Upvalues \subseteq Upvalues' /\ IsList(upvals')
      /\ \A m \in DOMAIN ms :
            LET descs == image.protos[ms[m].proto].upvals
            IN DOMAIN Refs(descs) = DOMAIN descs /\ \A d \in DOMAIN descs : Refs(descs)[d] \in Upvalues'
  <2>1. ASSUME NEW m \in DOMAIN ms
        PROVE  LET descs == image.protos[ms[m].proto].upvals
               IN DOMAIN Refs(descs) = DOMAIN descs /\ \A d \in DOMAIN descs : Refs(descs)[d] \in Upvalues'
    <3>1. PICK descs : descs = image.protos[ms[m].proto].upvals
      OBVIOUS
    <3>2. CapturedBy(descs) \subseteq xs
      BY <1>2, <1>3, <3>1, Zenon DEF CapturedByMethods
    <3>3. Capturable(Proto, descs)
      BY <1>7, <3>1
    <3>4. DOMAIN Refs(descs) = DOMAIN descs /\ \A d \in DOMAIN descs : Refs(descs)[d] \in Upvalues'
      BY <1>6, <3>2, <3>3, RefsMade
    <3> QED
      BY <3>1, <3>4
  <2> QED
    BY <1>6, <2>1, UpvaluesMade
<1>10. \A m \in DOMAIN ms : /\ new[m] = [proto |-> ms[m].proto, upvals |-> new[m].upvals]
                            /\ Complete(new[m])'
  <2> TAKE m \in DOMAIN ms
  <2>1. PICK descs : descs = image.protos[ms[m].proto].upvals
    OBVIOUS
  <2>2. PICK refs : refs = Refs(descs)
    OBVIOUS
  <2>3. PICK r : r = new[m]
    OBVIOUS
  <2>4. r = [proto |-> ms[m].proto, upvals |-> refs]
    <3>1. PICK o : o = old[m]
      OBVIOUS
    <3>2. r = [o EXCEPT !.upvals = refs]
      BY <1>5, <1>8, <2>1, <2>2, <2>3, <3>1
    <3>3. o = [proto |-> ms[m].proto, upvals |-> o.upvals]
      BY <1>8, <3>1
    <3> QED
      BY <3>2, <3>3
  <2>5. DOMAIN refs = DOMAIN descs /\ \A d \in DOMAIN descs : refs[d] \in Upvalues'
    BY <1>9, <2>1, <2>2
  <2>6. ms[m].proto \in DOMAIN image.protos
    BY <1>2, <1>7 DEF Machine, Legal
  <2>7. Complete(r)'
    <3>1. r.proto = ms[m].proto /\ r.upvals = refs /\ image' = image
      BY <1>6, <2>4
    <3> QED
      BY <2>1, <2>5, <2>6, <3>1 DEF Complete
  <2> QED
    BY <2>3, <2>4, <2>7
<1>11. /\ DOMAIN closures' = DOMAIN closures /\ closures'[c + 1] = new /\ DOMAIN new = DOMAIN old
       /\ \A g \in DOMAIN closures : g # c + 1 => closures'[g] = closures[g]
  BY <1>5, <1>6, <1>8
<1>12. Grows
  <2>1. ASSUME NEW g \in DOMAIN closures
        PROVE  /\ DOMAIN closures'[g] = DOMAIN closures[g]
               /\ \A i \in DOMAIN closures[g] : /\ closures'[g][i].proto = closures[g][i].proto
                                                /\ Complete(closures[g][i]) => Complete(closures[g][i])'
    <3>1. CASE g = c + 1
      <4>1. \A i \in DOMAIN old : new[i].proto = old[i].proto /\ Complete(new[i])'
        <5> TAKE i \in DOMAIN old
        <5>1. old[i].proto = ms[i].proto
          <6>1. old[i] = [proto |-> ms[i].proto, upvals |-> old[i].upvals]
            BY <1>8
          <6> QED
            BY <6>1
        <5>2. new[i] = [proto |-> ms[i].proto, upvals |-> new[i].upvals] /\ Complete(new[i])'
          BY <1>8, <1>10
        <5>3. new[i].proto = ms[i].proto
          BY <5>2
        <5> QED
          BY <5>1, <5>2, <5>3
      <4>2. DOMAIN closures'[g] = DOMAIN closures[g] /\ closures'[g] = new /\ closures[g] = old
        BY <1>4, <1>11, <3>1
      <4>3. \A i \in DOMAIN old : Complete(closures[g][i])'
        BY <4>1, <4>2
      <4> QED
        BY <4>1, <4>2, <4>3
    <3>2. CASE g # c + 1
      <4>1. PICK cs : cs = closures[g]
        OBVIOUS
      <4>2. closures'[g] = cs
        BY <1>11, <3>2, <4>1
      <4>3. \A i \in DOMAIN cs : Complete(cs[i]) => Complete(cs[i])'
        BY <1>6, <1>9, ClosuresStay
      <4>4. \A i \in DOMAIN cs : Complete(closures[g][i]) => Complete(closures[g][i])'
        BY <4>1, <4>2, <4>3
      <4> QED
        BY <4>1, <4>2, <4>4
    <3> QED
      BY <3>1, <3>2
  <2>2. ClosuresGrow
    BY <1>11, <2>1 DEF ClosuresGrow
  <2>3. HeapGrows /\ DOMAIN classes' = DOMAIN classes /\ image' = image
    BY <1>6 DEF HeapGrows
  <2> QED
    BY <1>9, <2>2, <2>3 DEF Grows
<1>13. ClosuresOK'
  <2>1. closures'[1] = closures[1]
    BY <1>8, <1>11 DEF Machine, ClosuresOK, Legal
  <2>2. \A i \in DOMAIN closures[1] : Complete(closures[1][i])'
    <3> TAKE i \in DOMAIN closures[1]
    <3>1. PICK r : r = closures[1][i]
      OBVIOUS
    <3>2. Complete(r)
      BY <3>1, Zenon DEF Machine, ClosuresOK
    <3>3. Complete(r)'
      BY <1>6, <1>9, <3>2, ClosuresStay
    <3> QED
      BY <2>1, <3>1, <3>3
  <2>3. ASSUME NEW d \in DOMAIN image.classes
        PROVE  LET ks == image.classes[d].methods IN
               /\ DOMAIN closures'[d + 1] = DOMAIN ks
               /\ \A m \in DOMAIN ks :
                     closures'[d + 1][m] = [proto |-> ks[m].proto, upvals |-> closures'[d + 1][m].upvals]
    <3>1. CASE d = c
      BY <1>2, <1>8, <1>10, <1>11, <3>1
    <3>2. CASE d # c
      <4>1. d + 1 \in DOMAIN closures /\ d + 1 # c + 1
        <5>1. DOMAIN image.classes = 1..Len(image.classes) /\ Len(image.classes) \in Nat
          BY DEF Machine, Legal
        <5> QED
          BY <1>7, <1>8, <3>2, <5>1
      <4>2. closures'[d + 1] = closures[d + 1]
        BY <1>11, <4>1
      <4> QED
        BY <4>2 DEF Machine, ClosuresOK
    <3> QED
      BY <3>1, <3>2
  <2> QED
    BY <1>6, <1>11, <2>1, <2>2, <2>3 DEF Machine, ClosuresOK
<1>14. ClassReady(c)'
  <2>1. \A m \in DOMAIN new : Complete(closures[c + 1][m])'
    BY <1>8, <1>10, <1>11
  <2> QED
    BY <1>6, <1>7, <1>11, <2>1 DEF ClassReady
<1>15. ASSUME NEW v, Valid(v) PROVE Solid(v)'
  <2>1. CASE Solid(v)
    BY <1>12, <2>1, SolidKept
  <2>2. CASE Pending(v)
    <3>1. v[1] = "class" /\ Making(Proto, regs.ip, v[2])
      BY <2>2 DEF Pending
    <3>2. v[2] = c
      BY <1>1, <1>6, <3>1 DEF Making, I
    <3> QED
      BY <1>14, <3>1, <3>2 DEF Solid
  <2> QED
    BY <1>15, <2>1, <2>2 DEF Valid
<1>16. StackOK'
  <2>1. \A s \in DOMAIN stack : Solid(stack[s])'
    <3> TAKE s \in DOMAIN stack
    <3>1. PICK v : v = stack[s]
      OBVIOUS
    <3>2. Solid(v)'
      BY <1>15, <3>1 DEF Machine, StackOK
    <3> QED
      BY <1>6, <3>1, <3>2
  <2> QED
    BY <1>6, <2>1, Here DEF StackOK, Valid
<1>17. GlobalsOK'
  <2>1. \A g \in DOMAIN globals : Solid(globals[g])'
    <3> TAKE g \in DOMAIN globals
    <3>1. PICK v : v = globals[g]
      OBVIOUS
    <3>2. Solid(v)'
      BY <1>15, <3>1 DEF Machine, GlobalsOK
    <3> QED
      BY <1>6, <3>1, <3>2
  <2>2. DOMAIN globals = 1..image.globals
    BY DEF Machine, GlobalsOK
  <2> QED
    BY <1>6, <2>1, <2>2 DEF GlobalsOK, Valid
<1>18. PICK t : t = regs.ip + 1
  OBVIOUS
<1>19. GoesOn(t)
  BY <1>6, <1>18, NextOne DEF GoesOn, StackStays, control
<1>20. KnownIn(regs)[t].tries = Before(regs).tries
       /\ Before(regs).open \cup xs \subseteq KnownIn(regs)[t].open
  <2>1. Passed(image, Proto, regs.ip, Before(regs)) = [Before(regs) EXCEPT !.open = Before(regs).open \cup xs]
    BY <1>1, <1>3, <1>6 DEF Passed, I
  <2>2. Before(regs) \in Knowledge(Proto)
    BY Here
  <2>3. Passed(image, Proto, regs.ip, Before(regs)).tries = Before(regs).tries
        /\ Passed(image, Proto, regs.ip, Before(regs)).open = Before(regs).open \cup xs
    BY <2>1, <2>2 DEF Knowledge
  <2>4. t \in Targets(Proto, regs.ip)
    BY <1>19 DEF GoesOn
  <2> QED
    BY <2>3, <2>4, Flow
<1>21. HandlersOK'
  BY <1>6, <1>12, <1>19, <1>20, GoesOnHandlers, Zenon DEF control
<1>22. xs \subseteq Int
  <2>1. \A m \in DOMAIN ms : CapturedBy(image.protos[ms[m].proto].upvals) \subseteq Int
    <3> TAKE m \in DOMAIN ms
    <3>1. PICK descs : descs = image.protos[ms[m].proto].upvals
      OBVIOUS
    <3>2. Capturable(Proto, descs)
      BY <1>7, <3>1
    <3>3. \A d \in DOMAIN descs : descs[d].instack => descs[d].idx \in 0..(Proto.nstack - 1)
      BY <3>2 DEF Capturable
    <3>4. \A x \in 0..(Proto.nstack - 1) : x \in Int
      BY Here
    <3>5. CapturedBy(descs) \subseteq Int
      BY <3>3, <3>4, Zenon DEF CapturedBy
    <3> QED
      BY <3>1, <3>5
  <2> QED
    BY <1>2, <1>3, <2>1 DEF CapturedByMethods
<1>23. UpvalsOK'
  BY <1>6, <1>12, <1>19, <1>20, <1>22, UpvalsMade, Zenon
<1>24. HeapOK' /\ ClassesOK'
  BY <1>6, <1>12, HeapKept, ClassesKept
<1>25. Machine'
  BY <1>12, <1>13, <1>16, <1>17, <1>19, <1>21, <1>23, <1>24, StepTo
<1> QED
  BY <1>6, <1>25 DEF IInv, control

-----------------------------------------------------------------------------
(* Returns.                                                                *)

\* A variable of another call is below the registers of the running one.
LEMMA OthersBelow ==
    ASSUME Machine, Before(regs).open = {}, NEW slot \in Int, InScope(slot)
    PROVE  /\ slot < regs.func
           /\ \E k \in 1..(Depth - 1) : slot - Call(k).reg \in Before(Call(k)).open
<1>1. PICK k \in 1..Depth : slot - Call(k).reg \in Before(Call(k)).open
  BY DEF InScope
<1>2. Depth \in 1..Depth /\ Call(Depth) = regs /\ Depth \in Nat
  BY Running1 DEF Machine
<1>3. k # Depth
  BY <1>1, <1>2
<1>4. Apart(Call(k), regs)
  BY <1>2, <1>3 DEF Machine, FramesOK
<1>5. slot - Call(k).reg < regs.func - Call(k).reg
  BY <1>1, <1>4 DEF Apart, Below
<1>6. Call(k).reg \in Nat /\ regs.func \in Nat
  BY CallIs, Here DEF Machine, FrameSet
<1>7. k \in 1..(Depth - 1)
  BY <1>2, <1>3
<1> QED
  BY <1>1, <1>5, <1>6, <1>7

\* A call returns.
LEMMA ReturnStep ==
    ASSUME result = <<"running">>, Machine, ReturnFromCall
    PROVE  IInv'
<1>1. PICK v : v = IF I.a = 0 THEN Nil ELSE RK(I.b)
  OBVIOUS
<1>2. /\ I.op = "RET" /\ stack' = [stack EXCEPT ![regs.func + 1] = v]
      /\ UNCHANGED <<image, excs, unclosed, memory>>
  BY <1>1 DEF ReturnFromCall, Running
<1>3. Settled /\ Grows
  <2>1. UNCHANGED memory /\ image' = image
    BY <1>2
  <2> QED
    BY <1>2, <2>1, SettledHere, GrowsNot
<1>4. Solid(v)
  <2>1. I.a \in {0, 1}
    BY <1>2, Here DEF LegalOperands, I
  <2>2. CASE I.a = 0
    <3>1. v = Nil
      BY <1>1, <2>2
    <3>2. Nil[1] \in Plain
      BY DEF Nil, Plain
    <3> QED
      BY <3>1, <3>2, PlainSolid
  <2>3. CASE I.a = 1
    <3>1. I.b \in Sources(I)
      BY <1>2, <2>3 DEF Sources, Arithmetic, Relations
    <3> QED
      BY <1>1, <1>3, <2>3, <3>1, SourceIs
  <2> QED
    BY <2>1, <2>2, <2>3
<1>5. Before(regs).tries = << >> /\ Before(regs).open = {}
  BY <1>2, Here DEF LegalStep, I, Before
<1>6. Depth \in 1..Depth /\ Call(Depth) = regs /\ Depth \in Nat \ {0} /\ Depth = Len(frames) + 1 /\ Len(frames) \in Nat
  BY Running1 DEF Machine
<1>7. HandlersBelow(excs, Depth) /\ HandlersOf(excs, Depth, << >>)
  BY <1>5, <1>6 DEF Machine, HandlersOK
<1>8. \A h \in 1..Len(excs) : excs[h].depth \in Nat /\ excs[h].depth < Depth - 1
  <2>1. << >> \in Seq(Nat) /\ Len(<< >>) = 0
    OBVIOUS
  <2>2. \A h \in 1..Len(excs) : excs[h].depth = Depth - 1 <=> h > Len(excs) - 0
    <3>1. PICK ts : ts = << >>
      OBVIOUS
    <3>2. ts \in Seq(Nat) /\ HandlersOf(excs, Depth, ts) /\ Len(ts) = 0
      BY <1>7, <2>1, <3>1
    <3>3. \A h \in 1..Len(excs) : excs[h].depth = Depth - 1 <=> h > Len(excs) - Len(ts)
      <4>1. HandlersBelow(excs, Depth) /\ Depth \in Nat \ {0}
        BY <1>6, <1>7
      <4> QED
        BY <3>2, <4>1, HandlersLast, Zenon
    <3> QED
      BY <3>2, <3>3
  <2>3. Len(excs) \in Nat /\ DOMAIN excs = 1..Len(excs) /\ \A h \in 1..Len(excs) : excs[h] \in HandlerSet
    BY <1>7, HandlerIs
  <2>4. \A h \in 1..Len(excs) : excs[h].depth < Depth
    BY <1>7, <2>3 DEF HandlersBelow
  <2> QED
    BY <1>6, <2>2, <2>3, <2>4 DEF HandlerSet
<1>9. CASE Len(frames) = 0
  <2>1. result' = <<"done">>
    BY <1>9 DEF ReturnFromCall
  <2>2. excs = << >>
    <3>1. excs \in Seq(HandlerSet)
      BY <1>7 DEF HandlersBelow
    <3>2. Len(excs) = 0
      BY <1>6, <1>8, <1>9, <3>1
    <3> QED
      BY <3>1, <3>2
  <2>3. excs' = << >> /\ result'[1] = "done"
    BY <1>2, <2>1, <2>2
  <2> QED
    BY <2>3 DEF IInv
<1>10. CASE Len(frames) # 0
  <2>n. PICK n : n = Depth - 1
    OBVIOUS
  <2>1. n \in Nat \ {0} /\ n \in 1..Depth /\ n < Depth /\ n = Len(frames)
    BY <1>6, <1>10, <2>n
  <2>f. PICK f : f = Call(n)
    OBVIOUS
  <2>2. regs' = f /\ frames' = SubSeq(frames, 1, n - 1) /\ result' = result
    <3>1. regs' = Last(frames) /\ frames' = Front(frames) /\ result' = result
      BY <1>10 DEF ReturnFromCall
    <3>2. f = frames[Len(frames)]
      BY <2>1, <2>f DEF Call
    <3> QED
      BY <2>1, <3>1, <3>2 DEF Last, Front
  <2>3. f \in FrameSet /\ FrameOK(f)
    BY <2>1, <2>f, CallIs DEF Machine
  <2>t. PICK t : t = f.ip
    OBVIOUS
  <2>4. t \in DOMAIN KnownIn(f) /\ regs' = [f EXCEPT !.ip = t]
    BY <2>2, <2>3, <2>t DEF FrameOK, FrameSet
  <2>5. IsList(stack') /\ DOMAIN stack' = DOMAIN stack
    BY <1>2, Here, ListExcept, Zenon
  <2>6. \A k \in 1..n : stack'[Call(k).func + 1] = stack[Call(k).func + 1]
    <3> TAKE k \in 1..n
    <3>1. k \in 1..Depth /\ k <= n
      BY <1>6, <2>1
    <3>2. Call(k).func + 1 <= f.reg /\ Call(k).func + 1 \in DOMAIN stack /\ Call(k) \in FrameSet
      BY <2>1, <2>f, <3>1, CallsApart, CallIs DEF Machine
    <3>3. f.reg <= regs.func
      BY <1>6, <2>1, <2>f DEF Machine, FramesOK, Apart
    <3>4. Call(k).func + 1 # regs.func + 1
      BY <2>3, <3>2, <3>3, Here, SMTT(30) DEF FrameSet
    <3> QED
      BY <1>2, <3>2, <3>4
  <2>7. /\ FramesOK' /\ Depth' = n
        /\ \A k \in 1..n : Call(k)' = IF k = n THEN regs' ELSE Call(k)
        /\ \A k \in 1..(n - 1) : Before(Call(k))' = Before(Call(k))
        /\ Before(Call(n))' = KnownIn(Call(n))[t]
    <3>1. t \in DOMAIN KnownIn(Call(n)) /\ regs' = [Call(n) EXCEPT !.ip = t]
      BY <2>f, <2>4
    <3> QED
      BY <1>3, <2>1, <2>2, <2>5, <2>6, <3>1, CallsCut
  <2>8. \A k \in 1..n : Call(k)' = Call(k) /\ Before(Call(k))' = Before(Call(k))
    <3> TAKE k \in 1..n
    <3>1. CASE k = n
      BY <2>2, <2>f, <2>t, <2>7, <3>1 DEF Before
    <3>2. CASE k # n
      <4>1. k \in 1..(n - 1)
        BY <2>1, <3>2
      <4> QED
        BY <2>7, <3>2, <4>1
    <3> QED
      BY <3>1, <3>2
  <2>9. HandlersOK'
    <3>1. \A k \in 1..n : HandlersOf(excs, k, Before(Call(k)).tries)'
      <4> TAKE k \in 1..n
      <4>1. PICK ts : ts = Before(Call(k)).tries
        OBVIOUS
      <4>2. k \in 1..Depth
        BY <1>6, <2>1
      <4>3. HandlersOf(excs, k, ts)
        BY <4>1, <4>2 DEF Machine, HandlersOK
      <4>4. HandlersOf(excs, k, ts)'
        BY <1>2, <4>3 DEF HandlersOf
      <4>5. ts = Before(Call(k))'.tries
        BY <2>8, <4>1
      <4> QED
        BY <4>4, <4>5
    <3>2. HandlersBelow(excs, Depth)'
      <4>1. DOMAIN excs = 1..Len(excs)
        BY <1>7, HandlerIs
      <4>2. HandlersBelow(excs, n)
        BY <1>7, <1>8, <2>n, <4>1 DEF HandlersBelow
      <4> QED
        BY <1>2, <2>7, <4>2 DEF HandlersBelow
    <3> QED
      BY <2>7, <3>1, <3>2 DEF HandlersOK
  <2>10. UpvalsOK'
    <3>1. ASSUME NEW u \in Upvalues PROVE UpvalueOK(Upvalue(u))'
      <4>1. PICK w : w = Upvalue(u)
        OBVIOUS
      <4>2. UpvalueOK(w)
        BY <4>1 DEF Machine, UpvalsOK
      <4>3. Solid(w.v)'
        BY <1>3, <4>2, SolidKept DEF UpvalueOK
      <4>4. ASSUME w.slot >= 0 PROVE InScope(w.slot)'
        <5>1. PICK k \in 1..n : w.slot - Call(k).reg \in Before(Call(k)).open
          BY <1>5, <2>n, <4>2, <4>4, OthersBelow DEF UpvalueOK
        <5>2. Call(k)' = Call(k) /\ Before(Call(k))' = Before(Call(k))
          BY <2>8
        <5> QED
          BY <2>7, <5>1, <5>2 DEF InScope
      <4>5. UpvalueOK(w)'
        BY <4>2, <4>3, <4>4 DEF UpvalueOK
      <4>6. w = Upvalue(u)'
        BY <1>2, <4>1 DEF Upvalue, memory
      <4> QED
        BY <4>5, <4>6
    <3>2. upvals' = upvals /\ IsList(upvals)
      BY <1>2 DEF memory, Machine, UpvalsOK
    <3>3. Upvalues' = Upvalues
      BY <3>2 DEF Upvalues
    <3> QED
      BY <3>1, <3>2, <3>3 DEF UpvalsOK
  <2>11. StackOK'
    <3>1. \A s \in DOMAIN stack : Solid(stack[s])'
      <4> TAKE s \in DOMAIN stack
      <4>1. PICK y : y = stack'[s]
        OBVIOUS
      <4>2. y = v \/ y = stack[s]
        BY <1>2, <4>1
      <4>3. Solid(y)'
        BY <1>3, <1>4, <4>2, SolidKept DEF Settled
      <4> QED
        BY <4>1, <4>3
    <3> QED
      BY <2>5, <3>1 DEF StackOK, Valid
  <2>12. GlobalsOK' /\ ClosuresOK' /\ HeapOK' /\ ClassesOK' /\ Legal(image)'
    <3>1. globals' = globals /\ closures' = closures /\ heap' = heap /\ classes' = classes /\ image' = image
      BY <1>2 DEF memory
    <3> QED
      BY <1>3, <3>1, GlobalsKept, ClosuresKept, HeapKept, ClassesKept DEF Machine
  <2>13. Machine'
    BY <2>7, <2>9, <2>10, <2>11, <2>12 DEF Machine
  <2> QED
    BY <2>2, <2>13 DEF IInv
<1> QED
  BY <1>9, <1>10

-----------------------------------------------------------------------------
(* Calls of functions.                                                     *)

\* A call whose function stays in its place, at an instruction it can reach.
LEMMA CallStays ==
    ASSUME Machine, Grows, NEW k \in 1..Depth, NEW f,
           f.func = Call(k).func, f.reg = Call(k).reg, f.top = Call(k).top, f.ip \in DOMAIN KnownIn(Call(k)),
           stack'[f.func + 1] = stack[f.func + 1], DOMAIN stack \subseteq DOMAIN stack'
    PROVE  /\ ProtoOf(f)' = ProtoOf(Call(k)) /\ FrameOK(f)' /\ Before(f)' = KnownIn(Call(k))[f.ip]
<1>1. ProtoOf(f)' = ProtoOf(Call(k)) /\ KnownIn(f)' = KnownIn(Call(k))
  BY CodeStays
<1>2. PICK v : v = stack[f.func + 1]
  OBVIOUS
<1>3. v[1] = "fun" /\ Solid(v) /\ f.func + 1 \in DOMAIN stack /\ f.func < f.reg
      /\ f.top = f.reg + ProtoOf(Call(k)).nstack /\ f.top + 2 \in DOMAIN stack
  BY <1>2, CallIs DEF FrameOK, Machine
<1>4. Solid(v)'
  BY <1>3, SolidKept
<1>5. v = stack'[f.func + 1]
  BY <1>2
<1>6. FrameOK(f)'
  BY <1>1, <1>3, <1>4, <1>5 DEF FrameOK
<1>7. Before(f)' = KnownIn(Call(k))[f.ip]
  BY <1>1 DEF Before
<1> QED
  BY <1>1, <1>6, <1>7

\* The calls, with one more that starts.
LEMMA CallsEntered ==
    ASSUME Machine, I.op = "CALL", Grows, StackStays, NEW f \in FrameSet, regs' = f,
           frames' = Append(frames, Skip(0)), excs' = excs,
           f.ip = 0, f.func >= regs.reg + I.a, FrameOK(f)',
           Before(f)'.tries = << >>
    PROVE  FramesOK' /\ HandlersOK' /\ ScopeKept
<1>1. /\ Depth = Len(frames) + 1 /\ Depth \in Nat \ {0} /\ Depth \in 1..Depth /\ Len(frames) \in Nat
      /\ Call(Depth) = regs /\ frames \in Seq(FrameSet) /\ regs \in FrameSet
  BY Running1 DEF Machine, FramesOK
<1>2. PICK g : g = Skip(0)
  OBVIOUS
<1>3. PICK t : t = regs.ip + 1
  OBVIOUS
<1>4. t \in Targets(Proto, regs.ip) /\ g = [regs EXCEPT !.ip = t]
  BY <1>2, <1>3, NextOne
<1>5. t \in DOMAIN KnownIn(regs) /\ KnownIn(regs)[t].tries = Before(regs).tries
      /\ Before(regs).open \subseteq KnownIn(regs)[t].open
  BY <1>4, FlowPlain DEF Special
<1>6. g \in FrameSet /\ g.func = regs.func /\ g.reg = regs.reg /\ g.top = regs.top /\ g.ip = t
  <2>1. t \in Nat
    BY <1>1, <1>3 DEF FrameSet
  <2>2. regs = [func |-> regs.func, reg |-> regs.reg, top |-> regs.top, ip |-> regs.ip]
        /\ regs.func \in Nat /\ regs.reg \in Nat /\ regs.top \in Nat
    BY <1>1 DEF FrameSet
  <2>3. g = [func |-> regs.func, reg |-> regs.reg, top |-> regs.top, ip |-> t]
    BY <1>4, <2>2
  <2> QED
    BY <2>1, <2>2, <2>3 DEF FrameSet
<1>7. /\ frames' \in Seq(FrameSet) /\ Len(frames') = Depth
      /\ \A k \in 1..(Depth - 1) : frames'[k] = frames[k]
      /\ frames'[Depth] = g
  <2>1. frames' = Append(frames, g)
    BY <1>2
  <2> QED
    BY <1>1, <1>6, <2>1, AppendProperties
<1>8. Depth' = Depth + 1
  BY <1>7 DEF Depth
<1>9. \A k \in 1..(Depth + 1) : Call(k)' = IF k = Depth + 1 THEN f ELSE IF k = Depth THEN g ELSE Call(k)
  <2> TAKE k \in 1..(Depth + 1)
  <2>1. CASE k = Depth + 1
    BY <1>1, <1>7, <2>1 DEF Call
  <2>2. CASE k = Depth
    BY <1>1, <1>7, <2>2 DEF Call
  <2>3. CASE k # Depth /\ k # Depth + 1
    <3>1. k \in 1..(Depth - 1) /\ k <= Len(frames) /\ k <= Len(frames')
      BY <1>1, <1>7, <2>3
    <3> QED
      BY <1>7, <2>3, <3>1 DEF Call
  <2> QED
    BY <2>1, <2>2, <2>3
<1>10. ASSUME NEW k \in 1..Depth
       PROVE  /\ ProtoOf(Call(k))' = ProtoOf(Call(k)) /\ FrameOK(Call(k))'
              /\ Call(k)'.reg = Call(k).reg /\ Call(k)'.func = Call(k).func
              /\ Before(Call(k))' = IF k = Depth THEN KnownIn(regs)[t] ELSE Before(Call(k))
  <2>1. PICK c : c = Call(k)'
    OBVIOUS
  <2>2. k \in 1..(Depth + 1) /\ k # Depth + 1
    BY <1>1
  <2>3. c = IF k = Depth THEN g ELSE Call(k)
    BY <1>9, <2>1, <2>2
  <2>4. FrameOK(Call(k))
    BY CallIs DEF Machine
  <2>5. c.func = Call(k).func /\ c.reg = Call(k).reg /\ c.top = Call(k).top /\ c.ip \in DOMAIN KnownIn(Call(k))
        /\ KnownIn(Call(k))[c.ip] = (IF k = Depth THEN KnownIn(regs)[t] ELSE Before(Call(k)))
    BY <1>1, <1>5, <1>6, <2>3, <2>4 DEF FrameOK, Before
  <2>6. stack'[c.func + 1] = stack[c.func + 1] /\ DOMAIN stack \subseteq DOMAIN stack'
    BY <2>5 DEF StackStays
  <2>7. ProtoOf(c)' = ProtoOf(Call(k)) /\ FrameOK(c)' /\ Before(c)' = KnownIn(Call(k))[c.ip]
    BY <2>5, <2>6, CallStays
  <2> QED
    BY <2>1, <2>5, <2>7
<1>11. ASSUME NEW j \in 1..(Depth + 1), NEW k \in 1..(Depth + 1), j < k
       PROVE  Apart(Call(j), Call(k))'
  <2>1. j \in 1..Depth
    BY <1>1, <1>11
  <2>2. CASE k # Depth + 1
    <3>1. k \in 1..Depth /\ j # Depth
      BY <1>1, <1>11, <2>2
    <3>2. Apart(Call(j), Call(k))
      BY <1>11, <2>1, <3>1 DEF Machine, FramesOK
    <3>3. /\ ProtoOf(Call(j))' = ProtoOf(Call(j)) /\ Before(Call(j))' = Before(Call(j))
          /\ Call(j)'.reg = Call(j).reg /\ Call(k)'.func = Call(k).func
      BY <1>10, <2>1, <3>1
    <3> QED
      BY <3>2, <3>3 DEF Apart
  <2>3. CASE k = Depth + 1
    <3>1. Call(k)' = f
      BY <1>9, <2>3
    <3>2. PICK m : m = f.func - Call(j).reg
      OBVIOUS
    <3>3. f.func \in Nat /\ Call(j).reg \in Nat /\ Call(j).func \in Nat /\ regs.reg \in Nat /\ regs.func \in Nat
          /\ regs.func < regs.reg /\ I.a \in Nat
      <4>1. Call(j) \in FrameSet
        BY <2>1, CallIs DEF Machine
      <4>2. I.a \in Nat
        BY CallIsLegal
      <4> QED
        BY <1>1, <4>1, <4>2, Here DEF FrameSet
    <3>4. Call(j).reg <= f.func /\ Below(ProtoOf(Call(j)), IF j = Depth THEN KnownIn(regs)[t] ELSE Before(Call(j)), m)
      <4>1. CASE j = Depth
        <5>1. Below(Proto, KnownIn(regs)[t], I.a)
          BY <1>3, Here DEF LegalStep, I
        <5>2. KnownIn(regs)[t] \in Knowledge(Proto)
          BY <1>5, Here DEF LegalProto
        <5>3. I.a <= m /\ m \in Int /\ regs.reg <= f.func
          BY <1>1, <3>2, <3>3, <4>1, SMTT(30)
        <5>4. Below(Proto, KnownIn(regs)[t], m)
          <6>1. \A x \in KnownIn(regs)[t].open : x < m
            BY <3>3, <5>1, <5>2, <5>3, Here, SMTT(30) DEF Below, Knowledge
          <6>2. ASSUME NEW i \in DOMAIN KnownIn(regs)[t].tries
                PROVE  Proto.code[KnownIn(regs)[t].tries[i]].outlive <= m
            <7>1. Proto.code[KnownIn(regs)[t].tries[i]].outlive <= I.a
              BY <5>1 DEF Below
            <7>2. Proto.code[KnownIn(regs)[t].tries[i]].outlive \in Nat
              <8>1. Proto.code[Before(regs).tries[i]] \in Instructions
                BY <1>1, <1>5, CodeAt, Here, Zenon
              <8> QED
                BY <1>5, <8>1 DEF Instructions
            <7> QED
              BY <3>3, <5>3, <7>1, <7>2
          <6> QED
            BY <6>1, <6>2 DEF Below
        <5> QED
          BY <1>1, <4>1, <5>3, <5>4, Here
      <4>2. CASE j # Depth
        <5>1. Apart(Call(j), regs) /\ j < Depth
          BY <1>1, <2>1, <4>2 DEF Machine, FramesOK
        <5>2. PICK b : b = Before(Call(j))
          OBVIOUS
        <5>3. PICK q : q = ProtoOf(Call(j))
          OBVIOUS
        <5>4. PICK lo : lo = regs.func - Call(j).reg
          OBVIOUS
        <5>5. Below(q, b, lo) /\ Call(j).reg <= regs.func
          BY <5>1, <5>2, <5>3, <5>4 DEF Apart
        <5>6. lo <= m /\ lo \in Int /\ m \in Int /\ Call(j).reg <= f.func
          <6>1. PICK cr : cr = Call(j).reg
            OBVIOUS
          <6>2. lo = regs.func - cr /\ m = f.func - cr /\ cr \in Nat
            BY <3>2, <3>3, <5>4, <6>1
          <6>3. f.func >= regs.func
            BY <1>1, <3>3
          <6>4. lo <= m /\ lo \in Int /\ m \in Int
            BY <3>3, <6>2, <6>3, SMTT(30)
          <6>5. cr <= f.func
            BY <3>3, <5>5, <6>1, <6>2, <6>3, SMTT(30)
          <6> QED
            BY <6>1, <6>4, <6>5
        <5>7. b \in Knowledge(q) /\ q.nstack \in Nat /\ \A i \in DOMAIN b.tries : q.code[b.tries[i]] \in Instructions
          BY <2>1, <5>2, <5>3, CodeAt, Zenon
        <5>8. Below(q, b, m)
          <6>1. \A x \in b.open : x < m
            BY <5>5, <5>6, <5>7 DEF Below, Knowledge
          <6>2. \A i \in DOMAIN b.tries : q.code[b.tries[i]].outlive <= m
            BY <5>5, <5>6, <5>7, SMTT(30) DEF Below, Instructions
          <6> QED
            BY <6>1, <6>2 DEF Below
        <5> QED
          BY <4>2, <5>2, <5>3, <5>6, <5>8
      <4> QED
        BY <4>1, <4>2
    <3>5. /\ ProtoOf(Call(j))' = ProtoOf(Call(j)) /\ Call(j)'.reg = Call(j).reg
          /\ Before(Call(j))' = IF j = Depth THEN KnownIn(regs)[t] ELSE Before(Call(j))
      BY <1>10, <2>1
    <3> QED
      BY <3>1, <3>2, <3>4, <3>5 DEF Apart
  <2> QED
    BY <2>2, <2>3
<1>12. \A k \in 1..(Depth + 1) : FrameOK(Call(k))'
  <2> TAKE k \in 1..(Depth + 1)
  <2>1. CASE k = Depth + 1
    <3>1. f = Call(k)'
      BY <1>9, <2>1
    <3> QED
      BY <3>1
  <2>2. CASE k # Depth + 1
    <3>1. k \in 1..Depth
      BY <1>1, <2>2
    <3> QED
      BY <1>10, <3>1
  <2> QED
    BY <2>1, <2>2
<1>13. FramesOK'
  BY <1>7, <1>8, <1>11, <1>12 DEF FramesOK
<1>14. HandlersOK'
  <2>1. HandlersBelow(excs, Depth)
    BY DEF Machine, HandlersOK
  <2>2. DOMAIN excs = 1..Len(excs) /\ Len(excs) \in Nat /\ \A h \in 1..Len(excs) : excs[h].depth \in Nat
    BY <2>1, HandlerIs DEF HandlerSet
  <2>3. HandlersBelow(excs, Depth + 1)
    <3>1. \A h \in DOMAIN excs : excs[h].depth < Depth + 1
      BY <1>1, <2>1, <2>2 DEF HandlersBelow
    <3> QED
      BY <2>1, <3>1 DEF HandlersBelow
  <2>4. ASSUME NEW k \in 1..(Depth + 1) PROVE HandlersOf(excs, k, Before(Call(k)).tries)'
    <3>1. PICK ts : ts = Before(Call(k))'.tries
      OBVIOUS
    <3>2. HandlersOf(excs, k, ts)
      <4>1. CASE k = Depth + 1
        <5>1. f = Call(k)'
          BY <1>9, <4>1
        <5>2. ts = << >>
          BY <3>1, <5>1
        <5>3. \A h \in DOMAIN excs : excs[h].depth # k - 1
          BY <1>1, <2>1, <2>2, <4>1 DEF HandlersBelow
        <5>4. Len(ts) = 0 /\ DOMAIN ts = {} /\ 0 \in 0..Len(excs) /\ 0 + Len(ts) <= Len(excs)
              /\ (0 + 1)..(0 + Len(ts)) = {}
          BY <2>2, <5>2
        <5> QED
          BY <5>3, <5>4 DEF HandlersOf
      <4>2. CASE k # Depth + 1
        <5>1. k \in 1..Depth
          BY <1>1, <4>2
        <5>2. ts = Before(Call(k)).tries
          BY <1>1, <1>5, <1>10, <3>1, <5>1
        <5> QED
          BY <5>1, <5>2 DEF Machine, HandlersOK
      <4> QED
        BY <4>1, <4>2
    <3>3. HandlersOf(excs, k, ts)'
      BY <3>2, Zenon DEF HandlersOf
    <3> QED
      BY <3>1, <3>3
  <2>5. HandlersBelow(excs, Depth)'
    BY <1>8, <2>3 DEF HandlersBelow
  <2> QED
    BY <1>8, <2>4, <2>5 DEF HandlersOK
<1>15. ASSUME NEW slot, InScope(slot) PROVE InScope(slot)'
  <2>1. PICK k \in 1..Depth : slot - Call(k).reg \in Before(Call(k)).open
    BY <1>15 DEF InScope
  <2>2. slot - Call(k)'.reg \in Before(Call(k))'.open
    BY <1>1, <1>5, <1>10, <2>1
  <2>3. k \in 1..Depth'
    BY <1>1, <1>8
  <2> QED
    BY <2>2, <2>3 DEF InScope
<1> QED
  BY <1>13, <1>14, <1>15 DEF ScopeKept

\* A value that is solid, or stands for an object of the heap hp.
SolidWith(v, hp) == Solid(v) \/ (v[1] \in InHeap /\ v[2] \in DOMAIN hp /\ hp[v[2]].type = v[1])

\* A call is entered: its registers are above those of the caller, whose
\* function and variables it does not touch.
LEMMA EnterStep ==
    ASSUME result = <<"running">>, Machine, I.op = "CALL",
           NEW st, NEW hp, NEW at \in Nat, NEW func \in Nat, NEW argc \in Int, Enter(st, hp, at, func, argc),
           IsList(st), DOMAIN st = DOMAIN stack, \A s \in DOMAIN stack : s <= regs.reg => st[s] = stack[s],
           Slot(I.a) <= func, func <= at, func <= at + argc, at + argc <= Len(st), at \in DOMAIN st,
           st[func] = st[at], st[at][1] = "fun", Solid(st[at]),
           IsList(hp), \A h \in DOMAIN heap : h \in DOMAIN hp /\ hp[h].type = heap[h].type,
           \A h \in DOMAIN hp : RecordOK(hp[h]),
           \A s \in DOMAIN st : SolidWith(st[s], hp)
    PROVE  IInv'
<1>1. PICK fun : fun = st[at]
  OBVIOUS
<1>2. PICK p : p = image.protos[ClosureOf(fun).proto]
  OBVIOUS
<1>3. PICK rest : rest = [k \in 1..(argc - p.argc + 1) |-> st[at + p.argc + k - 1]]
  BY Zenon
<1>4. PICK r : r = [type |-> "list", items |-> rest]
  BY Zenon
<1>5. PICK list : list = <<"list", Len(hp) + 1>>
  BY ZenonT(40)
<1>6. /\ stack' = Entered(st, at, argc, p, list)
      /\ heap' = IF p.vararg THEN Append(hp, r) ELSE hp
      /\ frames' = Append(frames, Skip(0))
      /\ regs' = Frame(func, at, p)
      /\ UNCHANGED <<image, excs, result, unclosed, upvals, closures, globals, classes>>
  BY <1>1, <1>2, <1>3, <1>4, <1>5 DEF Enter
<1>7. /\ LegalProto(image, p) /\ p.nstack \in Nat /\ p.argc \in 0..p.nstack /\ (p.vararg => p.argc > 0)
      /\ p.argc \in Nat
  <2>1. ClosureOf(fun).proto \in DOMAIN image.protos
    <3>1. IsFunction(fun[2])
      BY <1>1, FunSolid
    <3> QED
      BY <3>1, Zenon DEF IsFunction, Complete, ClosureOf
  <2>2. LegalProto(image, p)
    BY <1>2, <2>1, Zenon DEF Machine, Legal
  <2>3. p.nstack \in Nat /\ p.argc \in 0..p.nstack /\ (p.vararg => p.argc > 0)
    BY <2>2 DEF LegalProto
  <2> QED
    BY <2>2, <2>3
<1>8. DOMAIN st = 1..Len(st) /\ Len(st) \in Nat /\ DOMAIN hp = 1..Len(hp) /\ Len(hp) \in Nat
  BY ListIs
<1>9. Settled /\ regs.reg < Slot(I.a) /\ Slot(I.a) \in Nat /\ regs.reg \in Nat /\ I.a \in Nat
      /\ Slot(I.a) = regs.reg + I.a + 1
  <2>1. Settled /\ regs.reg < Slot(I.a) /\ Slot(I.a) \in Nat /\ I.a \in Nat
    BY CallIsLegal
  <2>2. regs.reg \in Nat
    BY Here DEF FrameSet
  <2> QED
    BY <2>1, <2>2 DEF Slot
\* The heap.
<1>10. /\ IsList(heap') /\ \A h \in DOMAIN hp : h \in DOMAIN heap' /\ heap'[h] = hp[h]
       /\ \A h \in DOMAIN heap' : h \in DOMAIN hp \/ (p.vararg /\ heap'[h] = r)
       /\ p.vararg => Len(hp) + 1 \in DOMAIN heap' /\ heap'[Len(hp) + 1] = r
  <2>1. CASE p.vararg
    <3>1. heap' = Append(hp, r)
      BY <1>6, <2>1
    <3>2. /\ IsList(heap') /\ DOMAIN heap' = 1..(Len(hp) + 1) /\ \A h \in 1..Len(hp) : heap'[h] = hp[h]
          /\ heap'[Len(hp) + 1] = r
      BY <3>1, ListAppend
    <3>3. \A h \in 1..(Len(hp) + 1) : h \in 1..Len(hp) \/ h = Len(hp) + 1
      BY <1>8
    <3>4. Len(hp) + 1 \in 1..(Len(hp) + 1) /\ \A h \in 1..Len(hp) : h \in 1..(Len(hp) + 1)
      BY <1>8
    <3> QED
      BY <1>8, <2>1, <3>2, <3>3, <3>4
  <2>2. CASE ~p.vararg
    BY <1>6, <2>2
  <2> QED
    BY <2>1, <2>2
<1>11. Grows
  <2>1. HeapGrows
    <3>1. \A h \in DOMAIN heap : h \in DOMAIN heap' /\ heap'[h] = hp[h] /\ hp[h].type = heap[h].type
      BY <1>10
    <3> QED
      BY <3>1 DEF HeapGrows
  <2>2. Upvalues \subseteq Upvalues' /\ DOMAIN classes' = DOMAIN classes
    BY <1>6 DEF Upvalues
  <2> QED
    BY <1>6, <2>1, <2>2, GrowsPlain
<1>12. ASSUME NEW v, SolidWith(v, hp) PROVE Solid(v)'
  <2>1. CASE Solid(v)
    BY <1>11, <2>1, SolidKept
  <2>2. CASE v[1] \in InHeap /\ v[2] \in DOMAIN hp /\ hp[v[2]].type = v[1]
    BY <1>10, <2>2 DEF Solid
  <2> QED
    BY <1>12, <2>1, <2>2 DEF SolidWith
<1>13. HeapOK'
  <2>1. ASSUME p.vararg PROVE RecordOK(r)'
    <3>1. IsList(rest) /\ DOMAIN rest = 1..(argc - p.argc + 1)
      <4>1. CASE argc - p.argc + 1 >= 0
        <5>1. PICK m : m = argc - p.argc + 1
          OBVIOUS
        <5>2. m \in Nat
          BY <1>7, <4>1, <5>1
        <5>3. rest = [k \in 1..m |-> rest[k]]
          BY <1>3, <5>1
        <5> QED
          BY <5>1, <5>2, <5>3, ListMade
      <4>2. CASE ~(argc - p.argc + 1 >= 0)
        <5>1. 1..(argc - p.argc + 1) = 1..0
          BY <1>7, <4>2
        <5>2. DOMAIN rest = 1..0
          BY <1>3, <5>1
        <5>3. rest = [k \in 1..0 |-> rest[k]]
          BY <1>3, <5>1
        <5>4. IsList(rest)
          BY <5>3, ListMade, Zenon
        <5> QED
          BY <5>1, <5>2, <5>4
      <4> QED
        BY <4>1, <4>2
    <3>2. \A k \in DOMAIN rest : Solid(rest[k])'
      <4> TAKE k \in DOMAIN rest
      <4>1. k \in 1..(argc - p.argc + 1) /\ rest[k] = st[at + p.argc + k - 1]
        BY <1>3, <3>1
      <4>2. at + p.argc + k - 1 \in DOMAIN st
        BY <1>7, <1>8, <4>1, SMTT(30)
      <4>3. PICK v : v = rest[k]
        OBVIOUS
      <4>4. SolidWith(v, hp)
        BY <4>1, <4>2, <4>3
      <4> QED
        BY <1>12, <4>3, <4>4
    <3>3. r.type = "list" /\ r.items = rest /\ r = [type |-> "list", items |-> r.items]
      BY <1>4
    <3> QED
      BY <3>1, <3>2, <3>3 DEF RecordOK
  <2>2. \A h \in DOMAIN heap' : RecordOK(heap[h])'
    <3> TAKE h \in DOMAIN heap'
    <3>1. PICK x : x = heap'[h]
      OBVIOUS
    <3>2. CASE h \in DOMAIN hp
      <4>1. RecordOK(x)
        BY <1>10, <3>1, <3>2
      <4> QED
        BY <1>11, <3>1, <4>1, RecordKept
    <3>3. CASE p.vararg /\ heap'[h] = r
      BY <2>1, <3>3
    <3> QED
      BY <1>10, <3>2, <3>3
  <2> QED
    BY <1>10, <2>2 DEF HeapOK
\* The stack.
<1>14. PICK n : n = Len(st) + Growth(st, at - 1, p.nstack)
  OBVIOUS
<1>15. n \in Nat /\ Len(st) <= n /\ at + p.nstack + 2 <= n
  <2>1. FreeMin \in Nat /\ FreeMin >= 4
    BY StackAssumption
  <2>2. PICK m : m = p.nstack + FreeMin
    OBVIOUS
  <2>3. n = Len(st) + (IF Len(st) >= at - 1 + m THEN 0 ELSE m)
    BY <1>14, <2>2 DEF Growth
  <2>4. m \in Nat /\ m >= p.nstack + 4 /\ at \in 1..Len(st)
    BY <1>7, <1>8, <2>1, <2>2
  <2>5. PICK ns : ns = p.nstack
    OBVIOUS
  <2>6. PICK len : len = Len(st)
    OBVIOUS
  <2>7. ns \in Nat /\ len \in Nat /\ m \in Nat /\ m >= ns + 4 /\ at \in 1..len
        /\ n = len + (IF len >= at - 1 + m THEN 0 ELSE m)
    BY <1>7, <1>8, <2>3, <2>4, <2>5, <2>6, Zenon
  <2>8. n \in Nat /\ len <= n /\ at + ns + 2 <= n
    BY <2>7, SMTT(30)
  <2> QED
    BY <2>5, <2>6, <2>8
<1>16. stack' = [s \in 1..n |-> IF p.vararg /\ s = at + p.argc THEN list
                                ELSE IF s \in (at + argc + 1)..(at + p.argc + 1) \/ s > Len(st) THEN Nil ELSE st[s]]
  BY <1>6, <1>14 DEF Entered
<1>17. IsList(stack') /\ DOMAIN stack' = 1..n
  <2>1. stack' = [s \in 1..n |-> stack'[s]]
    BY <1>16
  <2> QED
    BY <1>15, <2>1, ListMade
<1>18. ASSUME NEW s \in 1..n PROVE Solid(stack[s])'
  <2>1. PICK v : v = stack'[s]
    OBVIOUS
  <2>2. \/ v = list /\ p.vararg
        \/ v = Nil
        \/ s \in 1..Len(st) /\ v = st[s]
    BY <1>8, <1>16, <2>1
  <2>3. Solid(v)'
    <3>1. CASE v = list /\ p.vararg
      <4>1. v[1] = "list" /\ v[2] = Len(hp) + 1 /\ r.type = "list"
        BY <1>4, <1>5, <3>1
      <4>2. v[1] \in InHeap
        BY <4>1 DEF InHeap
      <4> QED
        BY <1>10, <3>1, <4>1, <4>2 DEF Solid
    <3>2. CASE v = Nil
      <4>1. v[1] \in Plain
        BY <3>2 DEF Nil, Plain
      <4> QED
        BY <4>1, PlainSolid
    <3>3. CASE s \in 1..Len(st) /\ v = st[s]
      BY <1>8, <1>12, <3>3
    <3> QED
      BY <2>2, <3>1, <3>2, <3>3
  <2> QED
    BY <2>1, <2>3
<1>19. StackOK'
  <2>1. \A s \in DOMAIN stack' : Solid(stack[s])'
    BY <1>17, <1>18
  <2> QED
    BY <1>17, <2>1 DEF StackOK, Valid
<1>20. \A s \in 1..func : s \in 1..n /\ stack'[s] = st[s]
  <2> TAKE s \in 1..func
  <2>1. s \in 1..n /\ s <= Len(st)
    BY <1>8, <1>15
  <2>2. s \notin (at + argc + 1)..(at + p.argc + 1)
    OBVIOUS
  <2>3. ~(p.vararg /\ s = at + p.argc)
    BY <1>7
  <2>4. ~(s > Len(st))
    BY <1>8, <2>1
  <2> QED
    BY <1>16, <2>1, <2>2, <2>3, <2>4
<1>21. StackStays
  <2>1. DOMAIN stack \subseteq DOMAIN stack'
    BY <1>8, <1>15, <1>17
  <2>2. \A s \in DOMAIN stack : s <= regs.reg => stack'[s] = stack[s]
    <3> TAKE s \in DOMAIN stack
    <3>1. ASSUME s <= regs.reg PROVE s \in 1..func
      BY <1>8, <1>9, <3>1
    <3> QED
      BY <1>20, <3>1
  <2> QED
    BY <2>1, <2>2, StackStaysBelow
\* The new call.
<1>22. PICK f : f = [func |-> func - 1, reg |-> at, top |-> at + p.nstack, ip |-> 0]
  BY Zenon
<1>23. regs' = f /\ f \in FrameSet /\ f.func >= regs.reg + I.a /\ f.ip = 0
       /\ f.func + 1 = func /\ f.reg = at /\ f.top = at + p.nstack
  <2>1. regs' = f
    BY <1>6, <1>22 DEF Frame
  <2>2. func - 1 \in Nat /\ func - 1 >= regs.reg + I.a /\ at + p.nstack \in Nat
    BY <1>7, <1>9, SMTT(30)
  <2> QED
    BY <1>22, <2>1, <2>2 DEF FrameSet
<1>24. func \in 1..n /\ stack'[func] = fun
  <2>1. func \in 1..func
    BY <1>9
  <2> QED
    BY <1>1, <1>20, <2>1
<1>25. ProtoOf(f)' = p
  BY <1>2, <1>6, <1>23, <1>24, Zenon DEF ProtoOf, ClosureOf
<1>26. KnownIn(f)' = Known(image, p) /\ 0 \in DOMAIN Known(image, p) /\ Known(image, p)[0].tries = << >>
  BY <1>6, <1>7, <1>25 DEF KnownIn, LegalProto
<1>27. FrameOK(f)'
  <2>1. Solid(fun)'
    BY <1>1, <1>11, SolidKept
  <2>2. f.top + 2 \in 1..n /\ f.func < f.reg
    <3>1. at + p.nstack + 2 \in 1..n /\ func - 1 < at
      BY <1>7, <1>15
    <3>2. f.func = func - 1 /\ f.top + 2 = at + p.nstack + 2
      BY <1>22
    <3> QED
      BY <1>23, <3>1, <3>2
  <2>3. f.func + 1 \in DOMAIN stack' /\ stack'[f.func + 1] = fun /\ fun[1] = "fun" /\ f.top + 2 \in DOMAIN stack'
    BY <1>1, <1>17, <1>23, <1>24, <2>2
  <2> QED
    BY <1>23, <1>25, <1>26, <2>1, <2>2, <2>3 DEF FrameOK
<1>28. Before(f)'.tries = << >>
  BY <1>23, <1>26 DEF Before
<1>29. FramesOK' /\ HandlersOK' /\ ScopeKept
  BY <1>6, <1>11, <1>21, <1>23, <1>27, <1>28, CallsEntered
<1>30. GlobalsOK' /\ ClosuresOK' /\ ClassesOK' /\ UpvalsOK' /\ Legal(image)'
  BY <1>6, <1>9, <1>11, <1>29, GlobalsKept, ClosuresKept, ClassesKept, UpvalsKept DEF Machine
<1>31. Machine'
  BY <1>13, <1>19, <1>29, <1>30 DEF Machine
<1> QED
  BY <1>6, <1>31 DEF IInv

\* A function is called.
LEMMA CallClosureStep ==
    ASSUME result = <<"running">>, Machine, CallClosure
    PROVE  IInv'
<1>1. PICK at : at = CallAt
  OBVIOUS
<1>2. PICK func : func = Slot(I.a)
  OBVIOUS
<1>3. PICK argc : argc = CallArgs
  OBVIOUS
<1>4. PICK hp : hp = heap
  OBVIOUS
<1>5. PICK st : st = [stack EXCEPT ![func] = stack[at]] /\ Enter(st, hp, at, func, argc)
  BY <1>1, <1>2, <1>3, <1>4 DEF CallClosure
<1>6. I.op = "CALL" /\ stack[at][1] = "fun"
  BY <1>1 DEF CallClosure, Running
<1>7. /\ Settled /\ regs.reg < func /\ func <= at /\ at <= func + 1 /\ func \in Nat /\ at \in Nat /\ argc \in Int
      /\ I.b \in Nat /\ at + argc = func + I.b /\ func + I.b <= regs.top /\ at \in DOMAIN stack /\ Solid(stack[at])
  BY <1>1, <1>2, <1>3, <1>6, CallIsLegal
<1>8. IsList(st) /\ DOMAIN st = DOMAIN stack /\ Len(st) = Len(stack)
  BY <1>5, Here, ListExcept, Zenon
<1>9. func \in DOMAIN stack
  <2>1. func \in 1..Len(stack)
    <3>1. regs.reg \in Nat /\ at \in 1..Len(stack) /\ Len(stack) \in Nat
      BY <1>7, Here DEF FrameSet
    <3> QED
      BY <1>7, <3>1
  <2> QED
    BY <2>1, Here
<1>10. st[func] = stack[at] /\ st[at] = stack[at]
  BY <1>5, <1>7, <1>9
<1>11. \A s \in DOMAIN stack : s <= regs.reg => st[s] = stack[s]
  <2> TAKE s \in DOMAIN stack
  <2>1. s \in Nat /\ regs.reg \in Nat
    BY Here DEF FrameSet
  <2> QED
    BY <1>5, <1>7, <2>1
<1>12. func <= at + argc /\ at + argc <= Len(st)
  <2>1. regs.top + 2 \in 1..Len(stack) /\ regs.top \in Nat
    BY Here DEF FrameSet
  <2> QED
    BY <1>7, <1>8, <2>1
<1>13. \A s \in DOMAIN st : SolidWith(st[s], hp)
  BY <1>5, <1>7, <1>8 DEF SolidWith, Settled
<1>14. /\ IsList(hp) /\ (\A h \in DOMAIN heap : h \in DOMAIN hp /\ hp[h].type = heap[h].type)
       /\ \A h \in DOMAIN hp : RecordOK(hp[h])
  BY <1>4 DEF Machine, HeapOK
<1>15. Slot(I.a) <= func
  BY <1>2, <1>7
<1> QED
  BY <1>5, <1>6, <1>7, <1>8, <1>10, <1>11, <1>12, <1>13, <1>14, <1>15, EnterStep, Zenon

-----------------------------------------------------------------------------
(* Calls of classes.                                                       *)

\* A new object.
LEMMA ObjectMade ==
    ASSUME Machine, NEW c, ClassReady(c)
    PROVE  RecordOK(Object(c)) /\ Object(c).type = "obj"
<1>1. PICK w : w = Above(c)
  OBVIOUS
<1>2. PICK levels : levels = Levels(c)
  OBVIOUS
<1>3. PICK nil : nil = Nil
  OBVIOUS
<1>4. PICK parts : parts = [n \in levels |-> [class |-> w[n], vals |-> [k \in DOMAIN image.classes[w[n]].vars |-> nil]]]
  BY Zenon
<1>5. PICK r : r = [type |-> "obj", parts |-> parts]
  BY Zenon
<1>6. Object(c) = r
  BY <1>1, <1>2, <1>3, <1>4, <1>5 DEF Object
<1>7. levels \subseteq 0..Len(image.classes) /\ \A n \in levels : ClassReady(w[n])
  <2>1. /\ Len(classes) = Len(image.classes)
        /\ \A n \in 0..Len(classes) : w[n] = 0 \/ ClassReady(w[n])
    BY <1>1, AboveIs
  <2>2. levels = {n \in 0..Len(classes) : w[n] # 0}
    BY <1>1, <1>2 DEF Levels
  <2> QED
    BY <2>1, <2>2
<1>8. Solid(nil)
  <2>1. nil[1] \in Plain
    BY <1>3 DEF Nil, Plain
  <2> QED
    BY <2>1, PlainSolid
<1>9. \A n \in DOMAIN parts :
         LET q == parts[n] IN
         /\ q = [class |-> q.class, vals |-> q.vals] /\ ClassReady(q.class)
         /\ DOMAIN q.vals = DOMAIN image.classes[q.class].vars
         /\ \A k \in DOMAIN q.vals : Solid(q.vals[k])
  <2> TAKE n \in DOMAIN parts
  <2>1. PICK q : q = parts[n]
    OBVIOUS
  <2>2. PICK vals : vals = [k \in DOMAIN image.classes[w[n]].vars |-> nil]
    BY Zenon
  <2>3. n \in levels /\ q = [class |-> w[n], vals |-> vals]
    BY <1>4, <2>1, <2>2
  <2>4. q.class = w[n] /\ q.vals = vals /\ q = [class |-> q.class, vals |-> q.vals]
    BY <2>3
  <2>5. DOMAIN vals = DOMAIN image.classes[w[n]].vars /\ \A k \in DOMAIN vals : Solid(vals[k])
    BY <1>8, <2>2
  <2> QED
    BY <1>7, <2>1, <2>3, <2>4, <2>5
<1>10. r.type = "obj" /\ r.parts = parts /\ r = [type |-> "obj", parts |-> r.parts]
  BY <1>5
<1>11. DOMAIN parts = levels
  BY <1>4
<1> QED
  BY <1>6, <1>7, <1>9, <1>10, <1>11 DEF RecordOK

\* An object is made, and its constructor is called.
LEMMA CallClassStep ==
    ASSUME result = <<"running">>, Machine, CallClass
    PROVE  IInv'
<1>1. PICK at : at = CallAt
  OBVIOUS
<1>2. PICK func : func = Slot(I.a)
  OBVIOUS
<1>3. PICK argc : argc = CallArgs
  OBVIOUS
<1>4. PICK c : c = stack[at][2]
  OBVIOUS
<1>5. PICK o : o = Object(c)
  OBVIOUS
<1>6. PICK hp : hp = Append(heap, o)
  BY Zenon
<1>7. PICK object : object = <<"obj", Len(heap) + 1>>
  BY Zenon
<1>8. PICK owner : owner = ClassWith(c, "init")
  OBVIOUS
<1>9. PICK init : init = classes[owner].attrs["init"]
  OBVIOUS
<1>10. PICK made : made = [stack EXCEPT ![func] = object, ![at] = object]
  BY Zenon
<1>11. PICK called : called = [s \in DOMAIN stack |-> IF s \in (at + 2)..(at + 2 + argc) THEN made[s - 2]
                                                      ELSE IF s = at + 1 THEN init.v ELSE made[s]]
  BY Zenon
<1>12. /\ I.op = "CALL" /\ stack[at][1] = "class"
       /\ \/ owner # 0 /\ init.kind # "var" /\ init.v[1] = "fun" /\ Enter(called, hp, at + 1, at + 1, argc + 1)
          \/ /\ heap' = hp /\ stack' = made /\ regs' = Skip(0)
             /\ UNCHANGED <<image, control, upvals, closures, globals, classes>>
  BY <1>1, <1>2, <1>3, <1>4, <1>5, <1>6, <1>7, <1>8, <1>9, <1>10, <1>11, ZenonT(40) DEF CallClass, Running
<1>13. /\ I.op \in Plains /\ Settled /\ regs.reg < func /\ func <= at /\ at <= func + 1 /\ func \in Nat /\ at \in Nat
       /\ argc \in Int /\ argc >= -1 /\ I.b \in Nat /\ at + argc = func + I.b /\ func + I.b <= regs.top
       /\ at \in DOMAIN stack /\ at + 1 \in DOMAIN stack /\ Solid(stack[at]) /\ regs.reg \in Nat
  <2>1. regs.reg \in Nat
    BY Here DEF FrameSet
  <2> QED
    BY <1>1, <1>2, <1>3, <1>12, <2>1, CallIsLegal
<1>14. ClassReady(c)
  BY <1>4, <1>12, <1>13, ClassSolid
<1>15. RecordOK(o) /\ o.type = "obj"
  BY <1>5, <1>14, ObjectMade
<1>16. IsList(stack) /\ DOMAIN stack = 1..Len(stack) /\ Len(stack) \in Nat /\ regs.top + 2 <= Len(stack)
       /\ regs.top \in Nat
  <2>1. regs.top + 2 \in 1..Len(stack) /\ regs.top \in Nat
    BY Here DEF FrameSet
  <2> QED
    BY <2>1, Here
<1>17. IsList(made) /\ DOMAIN made = DOMAIN stack
       /\ \A s \in DOMAIN stack : made[s] = object \/ (s # func /\ s # at /\ made[s] = stack[s])
  <2>1. PICK st : st = [stack EXCEPT ![func] = object]
    BY Zenon
  <2>2. made = [st EXCEPT ![at] = object]
    BY <1>10, <2>1
  <2>3. IsList(st) /\ DOMAIN st = DOMAIN stack
    BY <1>16, <2>1, ListExcept, Zenon
  <2>4. IsList(made) /\ DOMAIN made = DOMAIN stack
    BY <2>2, <2>3, ListExcept, Zenon
  <2> QED
    BY <2>1, <2>2, <2>3, <2>4
<1>18. \A s \in DOMAIN stack : s <= regs.reg => made[s] = stack[s]
  <2> TAKE s \in DOMAIN stack
  <2>1. ASSUME s <= regs.reg PROVE s # func /\ s # at
    BY <1>13, <1>16, <2>1
  <2> QED
    BY <1>10, <2>1
<1>19. CASE owner # 0 /\ init.kind # "var" /\ init.v[1] = "fun" /\ Enter(called, hp, at + 1, at + 1, argc + 1)
  <2>1. Solid(init.v)
    <3>1. ClassReady(owner) /\ HasAttr(owner, "init")
      BY <1>8, <1>14, <1>19, ClassWithIs
    <3> QED
      BY <1>9, <1>19, <3>1, AttrSolid
  <2>2. IsList(called) /\ DOMAIN called = DOMAIN stack /\ Len(called) = Len(stack)
    <3>1. called = [s \in 1..Len(stack) |-> called[s]]
      BY <1>11, <1>16
    <3> QED
      BY <1>16, <3>1, ListMade, Zenon
  <2>3. called[at + 1] = init.v
    BY <1>11, <1>13
  <2>4. \A s \in DOMAIN stack : s <= regs.reg => called[s] = stack[s]
    <3> TAKE s \in DOMAIN stack
    <3>1. ASSUME s <= regs.reg PROVE s \notin (at + 2)..(at + 2 + argc) /\ s # at + 1
      BY <1>13, <1>16, <3>1
    <3> QED
      BY <1>11, <1>18, <3>1
  <2>5. /\ IsList(hp) /\ DOMAIN hp = 1..(Len(heap) + 1) /\ Len(heap) \in Nat /\ DOMAIN heap = 1..Len(heap)
        /\ \A h \in 1..Len(heap) : hp[h] = heap[h]
        /\ hp[Len(heap) + 1] = o
    <3>1. IsList(heap)
      BY DEF Machine, HeapOK
    <3> QED
      BY <1>6, <3>1, ListAppend, ListIs
  <2>6. \A h \in DOMAIN heap : h \in DOMAIN hp /\ hp[h].type = heap[h].type
    BY <2>5
  <2>7. \A h \in DOMAIN hp : RecordOK(hp[h])
    <3> TAKE h \in DOMAIN hp
    <3>1. CASE h = Len(heap) + 1
      BY <1>15, <2>5, <3>1
    <3>2. CASE h # Len(heap) + 1
      <4>1. h \in DOMAIN heap /\ hp[h] = heap[h]
        BY <2>5, <3>2
      <4> QED
        BY <4>1 DEF Machine, HeapOK
    <3> QED
      BY <3>1, <3>2
  <2>8. SolidWith(object, hp)
    <3>1. object[1] = "obj" /\ object[2] = Len(heap) + 1
      BY <1>7
    <3>2. object[1] \in InHeap
      BY <3>1 DEF InHeap
    <3>3. Len(heap) + 1 \in DOMAIN hp
      BY <2>5
    <3> QED
      BY <1>15, <2>5, <3>1, <3>2, <3>3 DEF SolidWith
  <2>9. \A s \in DOMAIN stack : SolidWith(made[s], hp)
    <3> TAKE s \in DOMAIN stack
    <3>1. CASE made[s] = object
      BY <2>8, <3>1
    <3>2. CASE made[s] = stack[s]
      BY <1>13, <3>2 DEF SolidWith, Settled
    <3> QED
      BY <1>17, <3>1, <3>2
  <2>10. \A s \in DOMAIN called : SolidWith(called[s], hp)
    <3> TAKE s \in DOMAIN called
    <3>1. CASE s \in (at + 2)..(at + 2 + argc)
      <4>1. s - 2 \in DOMAIN stack
        <5>1. s - 2 \in 1..Len(stack)
          BY <1>13, <1>16, <3>1, SMTT(30)
        <5> QED
          BY <1>16, <5>1
      <4>2. called[s] = made[s - 2]
        BY <1>11, <2>2, <3>1
      <4>3. PICK j : j = s - 2
        OBVIOUS
      <4> QED
        BY <2>9, <4>1, <4>2, <4>3
    <3>2. CASE s \notin (at + 2)..(at + 2 + argc) /\ s = at + 1
      BY <2>1, <2>3, <3>2 DEF SolidWith
    <3>3. CASE s \notin (at + 2)..(at + 2 + argc) /\ s # at + 1
      BY <1>11, <2>2, <2>9, <3>3
    <3> QED
      BY <3>1, <3>2, <3>3
  <2>11. PICK pos : pos = at + 1
    OBVIOUS
  <2>12. PICK n : n = argc + 1
    OBVIOUS
  <2>13. /\ pos \in Nat /\ n \in Int /\ Slot(I.a) <= pos /\ pos <= pos /\ pos <= pos + n /\ pos + n <= Len(called)
         /\ pos \in DOMAIN called
    <3>1. pos \in Nat /\ n \in Int /\ func <= pos /\ pos <= pos + n /\ pos + n <= Len(stack)
      BY <1>13, <1>16, <2>11, <2>12
    <3> QED
      BY <1>2, <1>13, <2>2, <2>11, <3>1
  <2>14. Enter(called, hp, pos, pos, n)
    BY <1>19, <2>11, <2>12
  <2>15. called[pos][1] = "fun" /\ Solid(called[pos])
    BY <1>19, <2>1, <2>3, <2>11
  <2> QED
    BY <1>12, <2>2, <2>4, <2>5, <2>6, <2>7, <2>10, <2>13, <2>14, <2>15, EnterStep, Zenon
<1>20. CASE /\ heap' = hp /\ stack' = made /\ regs' = Skip(0)
            /\ UNCHANGED <<image, control, upvals, closures, globals, classes>>
  <2>1. HeapGrows /\ (Grows /\ RecordOK(o)' => HeapOK')
        /\ Len(heap) + 1 \in DOMAIN heap' /\ heap'[Len(heap) + 1] = o
    BY <1>6, <1>20, HeapAppended
  <2>2. Grows
    BY <1>20, <2>1, GrowsHeap
  <2>3. HeapOK'
    BY <1>15, <2>1, <2>2, RecordKept
  <2>4. Solid(object)'
    <3>1. object[1] = "obj" /\ object[2] = Len(heap) + 1
      BY <1>7
    <3>2. object[1] \in InHeap
      BY <3>1 DEF InHeap
    <3> QED
      BY <1>15, <2>1, <3>1, <3>2 DEF Solid
  <2>5. \A s \in DOMAIN stack : Solid(stack[s])'
    <3> TAKE s \in DOMAIN stack
    <3>1. PICK y : y = stack'[s]
      OBVIOUS
    <3>2. y = object \/ y = stack[s]
      BY <1>17, <1>20, <3>1
    <3>3. Solid(y)'
      BY <1>13, <2>2, <2>4, <3>2, SolidKept DEF Settled
    <3> QED
      BY <3>1, <3>3
  <2>6. (\A s \in DOMAIN stack : Solid(stack[s]))'
    BY <1>17, <1>20, <2>5
  <2>7. StackStays
    BY <1>17, <1>18, <1>20, StackStaysBelow
  <2>8. GoesOn(regs.ip + 1)
    BY <1>12, <1>20, <2>7, NextOne DEF GoesOn, control
  <2>9. ClosuresOK' /\ ClassesOK' /\ (ScopeKept => UpvalsOK')
    BY <1>20, <2>2, ClosuresKept, ClassesKept, UpvalsKept
  <2>10. excs' = excs /\ globals' = globals /\ result' = result /\ IsList(stack')
         /\ I.op \notin Special \cup {"SETGBL"}
    BY <1>13, <1>17, <1>20 DEF control, Plains
  <2>11. Machine'
    BY <2>2, <2>3, <2>6, <2>8, <2>9, <2>10, PlainStep
  <2> QED
    BY <2>10, <2>11 DEF IInv
<1> QED
  BY <1>12, <1>19, <1>20

-----------------------------------------------------------------------------
(* The beginning of a program.                                             *)

\* A program starts with its main function in the only call, with no handler,
\* no upvalue and no object, and with classes that have their own methods.
LEMMA LoadProgramStep ==
    ASSUME IInv, NEW im, Legal(im), LoadProgram(im)
    PROVE  IInv'
<1>1. /\ result = <<"idle">> /\ result' = <<"running">> /\ image' = im
      /\ UNCHANGED <<frames, excs, upvals, heap, unclosed>>
  BY DEF LoadProgram
<1>2. frames = << >> /\ excs = << >> /\ upvals = << >> /\ heap = << >>
  <2>1. result # <<"running">> /\ result[1] \notin {"done", "raise"}
    BY <1>1
  <2> QED
    BY <2>1 DEF IInv
<1>3. PICK n : n = Len(im.protos)
  BY Zenon
<1>4. PICK main : main = im.protos[n]
  OBVIOUS
<1>5. /\ n \in DOMAIN im.protos /\ main = Last(im.protos) /\ main.upvals = << >>
      /\ LegalProto(im, main) /\ main.nstack \in Nat /\ main.argc \in 0..main.nstack
      /\ (main.vararg => main.argc > 0) /\ main.argc \in Nat
      /\ DOMAIN im.classes = 1..Len(im.classes) /\ Len(im.classes) \in Nat /\ im.globals \in Nat
  <2>1. n \in DOMAIN im.protos /\ main = Last(im.protos) /\ main.upvals = << >>
    BY <1>3, <1>4 DEF Legal, Last
  <2>2. LegalProto(im, main)
    BY <1>4, <2>1, Zenon DEF Legal
  <2>3. main.nstack \in Nat /\ main.argc \in 0..main.nstack /\ (main.vararg => main.argc > 0)
    BY <2>2 DEF LegalProto
  <2> QED
    BY <2>1, <2>2, <2>3 DEF Legal
<1>6. PICK fun : fun = [s \in 1..StackSize |-> IF s = 1 THEN <<"fun", <<1, 1>> >> ELSE Nil]
  BY Zenon
<1>7. stack' = Entered(fun, 1, 0, main, Nil) /\ regs' = Frame(1, 1, main)
  BY <1>5, <1>6 DEF LoadProgram
<1>8. StackSize \in Nat \ {0} /\ FreeMin \in Nat /\ FreeMin >= 4
  BY StackAssumption
<1>9. Len(fun) = StackSize /\ IsList(fun)
  <2>1. fun = [s \in 1..StackSize |-> fun[s]]
    BY <1>6
  <2> QED
    BY <1>8, <2>1, ListMade
<1>10. PICK m : m = Len(fun) + Growth(fun, 0, main.nstack)
  OBVIOUS
<1>11. m \in Nat /\ StackSize <= m /\ main.nstack + 3 <= m
  <2>1. PICK ns : ns = main.nstack
    OBVIOUS
  <2>2. PICK w : w = ns + FreeMin
    OBVIOUS
  <2>3. m = StackSize + (IF StackSize >= 0 + w THEN 0 ELSE w)
    BY <1>9, <1>10, <2>1, <2>2 DEF Growth
  <2>4. ns \in Nat
    BY <1>5, <2>1
  <2>5. m \in Nat /\ StackSize <= m /\ ns + 3 <= m
    BY <1>8, <2>2, <2>3, <2>4
  <2> QED
    BY <2>1, <2>5
<1>12. stack' = [s \in 1..m |-> IF main.vararg /\ s = 1 + main.argc THEN Nil
                                ELSE IF s \in 2..(main.argc + 2) \/ s > StackSize THEN Nil ELSE fun[s]]
  <2>1. 1 + 0 + 1 = 2 /\ 1 + main.argc + 1 = main.argc + 2 /\ 1 - 1 = 0
    BY <1>5
  <2> QED
    BY <1>7, <1>9, <1>10, <2>1 DEF Entered
<1>13. IsList(stack') /\ DOMAIN stack' = 1..m
  <2>1. stack' = [s \in 1..m |-> stack'[s]]
    BY <1>12
  <2> QED
    BY <1>11, <2>1, ListMade
<1>14. 1 \in 1..m /\ stack'[1] = <<"fun", <<1, 1>> >>
  <2>1. 1 \in 1..m /\ 1 \in 1..StackSize /\ ~(1 > StackSize) /\ 1 \notin 2..(main.argc + 2)
    BY <1>5, <1>8, <1>11
  <2>2. ~(main.vararg /\ 1 = 1 + main.argc)
    BY <1>5
  <2>3. stack'[1] = fun[1]
    BY <1>12, <2>1, <2>2
  <2> QED
    BY <1>6, <2>1, <2>3
<1>15. \A s \in 1..m : stack'[s] = <<"fun", <<1, 1>> >> \/ stack'[s] = Nil
  <2> TAKE s \in 1..m
  <2>1. stack'[s] = Nil \/ (s \in 1..StackSize /\ stack'[s] = fun[s])
    BY <1>8, <1>12
  <2> QED
    BY <1>6, <2>1
\* The closures.
<1>16. PICK c1 : c1 = [proto |-> n, upvals |-> << >>]
  BY Zenon
<1>17. closures' = [g \in 1..(Len(im.classes) + 1) |->
                       IF g = 1 THEN <<c1>>
                       ELSE [k \in DOMAIN im.classes[g - 1].methods |->
                                [proto |-> im.classes[g - 1].methods[k].proto, upvals |-> << >>]]]
  BY <1>3, <1>16 DEF LoadProgram
<1>18. 1 \in DOMAIN closures' /\ closures'[1] = <<c1>>
  BY <1>5, <1>17
<1>19. c1 = [proto |-> c1.proto, upvals |-> c1.upvals] /\ c1.proto = n /\ c1.upvals = << >>
  BY <1>16
<1>20. Complete(c1)'
  <2>1. DOMAIN << >> = {}
    OBVIOUS
  <2>3. image'.protos[c1.proto].upvals = << >>
    BY <1>1, <1>4, <1>5, <1>19, Zenon
  <2>4. DOMAIN c1.upvals = {} /\ image'.protos[c1.proto].upvals = c1.upvals
    BY <1>19, <2>1, <2>3
  <2>2. c1.proto \in DOMAIN image'.protos
    BY <1>1, <1>5, <1>19
  <2> QED
    BY <2>2, <2>4 DEF Complete
<1>21. IsList(<<c1>>) /\ DOMAIN <<c1>> = {1} /\ <<c1>>[1] = c1
  <2>1. <<c1>> \in Seq({c1})
    OBVIOUS
  <2>2. IsList(<<c1>>)
    BY <2>1, ListOfSeq, Zenon
  <2> QED
    BY <2>2
<1>22. \A c \in DOMAIN im.classes :
          /\ c + 1 \in DOMAIN closures' /\ DOMAIN closures'[c + 1] = DOMAIN im.classes[c].methods
          /\ \A k \in DOMAIN im.classes[c].methods :
                closures'[c + 1][k] = [proto |-> im.classes[c].methods[k].proto, upvals |-> << >>]
  <2> TAKE c \in DOMAIN im.classes
  <2>1. PICK h : h = c + 1
    OBVIOUS
  <2>2. h \in 1..(Len(im.classes) + 1) /\ h # 1 /\ h - 1 = c
    BY <1>5, <2>1
  <2>3. PICK ms : ms = im.classes[c].methods
    OBVIOUS
  <2>4. closures'[h] = [k \in DOMAIN ms |-> [proto |-> ms[k].proto, upvals |-> << >>]]
    BY <1>17, <2>2, <2>3
  <2>5. h \in DOMAIN closures'
    BY <1>17, <2>2
  <2> QED
    BY <2>1, <2>3, <2>4, <2>5
<1>23. ClosuresOK'
  <2>1. DOMAIN closures' = 1..(Len(im.classes) + 1)
    BY <1>17
  <2>2. (\A i \in DOMAIN closures[1] :
           LET c == closures[1][i] IN c = [proto |-> c.proto, upvals |-> c.upvals] /\ Complete(c))'
    BY <1>18, <1>19, <1>20, <1>21
  <2>3. \A c \in DOMAIN im.classes :
          LET ms == im.classes[c].methods IN
          /\ DOMAIN closures'[c + 1] = DOMAIN ms
          /\ \A k \in DOMAIN ms :
                closures'[c + 1][k] = [proto |-> ms[k].proto, upvals |-> closures'[c + 1][k].upvals]
    <3> TAKE c \in DOMAIN im.classes
    <3>1. PICK ms : ms = im.classes[c].methods
      OBVIOUS
    <3>2. PICK cs : cs = closures'[c + 1]
      OBVIOUS
    <3>3. DOMAIN cs = DOMAIN ms /\ \A k \in DOMAIN ms : cs[k] = [proto |-> ms[k].proto, upvals |-> << >>]
      BY <1>22, <3>1, <3>2
    <3>4. \A k \in DOMAIN ms : cs[k] = [proto |-> ms[k].proto, upvals |-> cs[k].upvals]
      BY <3>3
    <3> QED
      BY <3>1, <3>2, <3>3, <3>4
  <2> QED
    BY <1>1, <1>18, <1>21, <2>1, <2>2, <2>3 DEF ClosuresOK
\* The values.
<1>24. ASSUME NEW v, v = Nil \/ v = <<"fun", <<1, 1>> >> PROVE Solid(v)'
  <2>1. CASE v = Nil
    BY <2>1 DEF Solid, Plain, Nil
  <2>2. CASE v = <<"fun", <<1, 1>> >>
    <3>1. v[1] = "fun" /\ v[2] = <<1, 1>> /\ v[2][1] = 1 /\ v[2][2] = 1
      BY <2>2
    <3>2. IsFunction(<<1, 1>>)'
      BY <1>18, <1>20, <1>21 DEF IsFunction
    <3> QED
      BY <3>1, <3>2 DEF Solid
  <2> QED
    BY <1>24, <2>1, <2>2
<1>25. StackOK'
  <2>1. \A s \in DOMAIN stack' : Solid(stack[s])'
    <3> TAKE s \in DOMAIN stack'
    <3>1. PICK v : v = stack'[s]
      OBVIOUS
    <3>2. Solid(v)'
      BY <1>13, <1>15, <1>24, <3>1
    <3> QED
      BY <3>1, <3>2
  <2> QED
    BY <1>13, <2>1 DEF StackOK, Valid
<1>26. GlobalsOK'
  <2>1. globals' = [g \in 1..im.globals |-> IF g <= Len(Natives) THEN <<"nat", Natives[g]>> ELSE Nil]
    BY DEF LoadProgram
  <2>2. \A g \in DOMAIN globals' : Solid(globals[g])'
    <3> TAKE g \in DOMAIN globals'
    <3>1. globals'[g] = <<"nat", Natives[g]>> \/ globals'[g] = Nil
      BY <2>1
    <3>2. globals'[g][1] = "nat" \/ globals'[g][1] = "nil"
      BY <3>1 DEF Nil
    <3> QED
      BY <3>2, Zenon DEF Solid, Plain
  <2> QED
    BY <1>1, <2>1, <2>2 DEF GlobalsOK, Valid
\* The call.
<1>27. PICK f : f = [func |-> 0, reg |-> 1, top |-> 1 + main.nstack, ip |-> 0]
  BY Zenon
<1>28. regs' = f /\ f \in FrameSet /\ f.func = 0 /\ f.reg = 1 /\ f.top = 1 + main.nstack /\ f.ip = 0
  <2>1. 1 - 1 = 0 /\ 1 + main.nstack \in Nat
    BY <1>5
  <2> QED
    BY <1>7, <1>27, <2>1 DEF Frame, FrameSet
<1>29. ProtoOf(f)' = main
  <2>1. f.func + 1 = 1
    BY <1>28
  <2>2. <<"fun", <<1, 1>> >>[2][1] = 1 /\ <<"fun", <<1, 1>> >>[2][2] = 1
    OBVIOUS
  <2>3. closures'[1][1] = c1
    BY <1>18, <1>21
  <2> QED
    BY <1>1, <1>4, <1>14, <1>19, <2>1, <2>2, <2>3, Zenon DEF ProtoOf, ClosureOf
<1>30. KnownIn(f)' = Known(im, main) /\ 0 \in DOMAIN Known(im, main) /\ Known(im, main)[0].tries = << >>
  BY <1>1, <1>5, <1>29 DEF KnownIn, LegalProto
<1>31. FrameOK(f)'
  <2>1. f.func + 1 = 1 /\ f.func < f.reg /\ f.top + 2 \in 1..m /\ f.top = f.reg + main.nstack
    BY <1>5, <1>11, <1>28
  <2>2. Solid(<<"fun", <<1, 1>> >>)'
    BY <1>24
  <2>3. f.func + 1 \in DOMAIN stack' /\ stack'[f.func + 1] = <<"fun", <<1, 1>> >> /\ f.top + 2 \in DOMAIN stack'
    BY <1>13, <1>14, <2>1
  <2>4. <<"fun", <<1, 1>> >>[1] = "fun"
    OBVIOUS
  <2> QED
    BY <1>28, <1>29, <1>30, <2>1, <2>2, <2>3, <2>4 DEF FrameOK
<1>32. Depth' = 1 /\ \A k \in 1..1 : Call(k)' = f
  <2>1. Len(frames') = 0
    BY <1>1, <1>2
  <2>2. \A k \in 1..1 : ~(k <= Len(frames'))
    BY <2>1
  <2> QED
    BY <1>28, <2>1, <2>2 DEF Depth, Call
<1>33. FramesOK'
  <2>1. frames' \in Seq(FrameSet)
    BY <1>1, <1>2
  <2>2. \A k \in 1..Depth' : FrameOK(Call(k))'
    <3> TAKE k \in 1..Depth'
    <3>1. Call(k)' = f
      BY <1>32
    <3> QED
      BY <1>31, <3>1
  <2>3. \A j, k \in 1..Depth' : ~(j < k)
    BY <1>32
  <2> QED
    BY <1>28, <2>1, <2>2, <2>3 DEF FramesOK
<1>34. HandlersOK'
  <2>1. HandlersBelow(excs, Depth)'
    BY <1>1, <1>2 DEF HandlersBelow
  <2>2. \A k \in 1..Depth' : HandlersOf(excs, k, Before(Call(k)).tries)'
    <3> TAKE k \in 1..Depth'
    <3>1. Call(k)' = f
      BY <1>32
    <3>2. Before(f)'.tries = << >>
      BY <1>28, <1>30 DEF Before
    <3>3. HandlersOf(<< >>, k, << >>)
      BY DEF HandlersOf
    <3> QED
      BY <1>1, <1>2, <3>1, <3>2, <3>3
  <2> QED
    BY <2>1, <2>2 DEF HandlersOK
\* The rest.
<1>35. UpvalsOK' /\ HeapOK'
  <2>1. IsList(<< >>) /\ DOMAIN << >> = {}
    <3>1. << >> \in Seq({})
      OBVIOUS
    <3>2. IsList(<< >>)
      BY <3>1, ListOfSeq, Zenon
    <3> QED
      BY <3>2
  <2>2. Upvalues' = {}
    BY <1>1, <1>2 DEF Upvalues
  <2> QED
    BY <1>1, <1>2, <2>1, <2>2 DEF UpvalsOK, HeapOK
<1>36. classes' = [c \in DOMAIN im.classes |->
                     [super |-> 0, attrs |-> [name \in Attributes(im.classes[c]) |-> Attr(im, c, name)]]]
  BY DEF LoadProgram
<1>37. \A c \in DOMAIN im.classes : ClassOK(c)'
  <2> TAKE c \in DOMAIN im.classes
  <2>1. PICK r : r = [super |-> 0, attrs |-> [name \in Attributes(im.classes[c]) |-> Attr(im, c, name)]]
    BY Zenon
  <2>2. classes'[c] = r
    BY <1>36, <2>1
  <2>3. r.super = 0 /\ r = [super |-> r.super, attrs |-> r.attrs]
    BY <2>1
  <2>4. \A name \in DOMAIN r.attrs : AttrOK(c, r.attrs[name])'
    <3> TAKE name \in DOMAIN r.attrs
    <3>1. PICK a : a = Attr(im, c, name)
      OBVIOUS
    <3>2. r.attrs[name] = a
      BY <2>1, <3>1
    <3>3. PICK ms : ms = {k \in DOMAIN im.classes[c].methods : im.classes[c].methods[k].name = name}
      BY Zenon
    <3>4. PICK var : var = {i \in DOMAIN im.classes[c].vars : im.classes[c].vars[i] = name}
      BY Zenon
    <3>5. PICK k : k = CHOOSE x \in ms : TRUE
      OBVIOUS
    <3>10. PICK i : i = CHOOSE x \in var : TRUE
      OBVIOUS
    <3>6. a = CASE var # {} -> [kind |-> "var", v |-> i]
                [] var = {} /\ ms # {} -> [kind |-> IF im.classes[c].methods[k].static THEN "static" ELSE "method",
                               v |-> <<"fun", <<c + 1, k>> >>]
                [] OTHER -> [kind |-> "static", v |-> Nil]
      BY <3>1, <3>3, <3>4, <3>5, <3>10, Zenon DEF Attr
    <3>7. CASE var # {}
      <4>2. i \in var
        BY <3>7, <3>10
      <4>4. a = [kind |-> "var", v |-> i]
        BY <3>6, <3>7
      <4>5. a.kind = "var" /\ a.v = i /\ a = [kind |-> a.kind, v |-> a.v]
        BY <4>4
      <4>6. a.v \in DOMAIN im.classes[c].vars
        BY <3>4, <4>2, <4>5
      <4>7. AttrOK(c, a)'
        BY <1>1, <4>5, <4>6 DEF AttrOK
      <4> QED
        BY <3>2, <4>7
    <3>8. CASE var = {} /\ ms # {}
      <4>1. k \in ms
        BY <3>5, <3>8
      <4>2. a = [kind |-> IF im.classes[c].methods[k].static THEN "static" ELSE "method",
                 v |-> <<"fun", <<c + 1, k>> >>]
        BY <3>6, <3>8
      <4>3. a.kind # "var" /\ a.v = <<"fun", <<c + 1, k>> >> /\ a = [kind |-> a.kind, v |-> a.v]
        BY <4>2
      <4>4. k \in DOMAIN closures'[c + 1]
        BY <1>22, <3>3, <4>1
      <4>5. AttrOK(c, a)'
        BY <4>3, <4>4 DEF AttrOK
      <4> QED
        BY <3>2, <4>5
    <3>9. CASE var = {} /\ ms = {}
      <4>1. a = [kind |-> "static", v |-> Nil]
        BY <3>6, <3>9
      <4>2. a.kind # "var" /\ a.v = Nil /\ a = [kind |-> a.kind, v |-> a.v]
        BY <4>1
      <4>3. Solid(a.v)'
        BY <1>24, <4>2
      <4>4. AttrOK(c, a)'
        BY <4>2, <4>3 DEF AttrOK
      <4> QED
        BY <3>2, <4>4
    <3> QED
      BY <3>7, <3>8, <3>9
  <2> QED
    BY <2>2, <2>3, <2>4 DEF ClassOK
<1>38. ClassesOK'
  <2>1. DOMAIN classes' = DOMAIN im.classes /\ DOMAIN im.classes = 1..Len(im.classes)
    BY <1>5, <1>36
  <2>2. classes' = [c \in 1..Len(im.classes) |-> classes'[c]]
    BY <1>36, <2>1
  <2>3. IsList(classes')
    BY <1>5, <2>2, ListMade
  <2> QED
    BY <1>1, <1>37, <2>1, <2>3 DEF ClassesOK
<1>39. Machine'
  BY <1>1, <1>23, <1>25, <1>26, <1>33, <1>34, <1>35, <1>38 DEF Machine
<1> QED
  BY <1>1, <1>39 DEF IInv

-----------------------------------------------------------------------------
(* The whole interpreter.                                                  *)

\* An instruction is executed only while the program runs.
LEMMA RunsOnly ==
    ASSUME VmNext
    PROVE  result = <<"running">>
<1>1. CASE Load
  BY <1>1 DEF Load, Running
<1>2. CASE SetGlobal
  BY <1>2, Zenon DEF SetGlobal, Running
<1>3. CASE SetUpvalue
  BY <1>3, Zenon DEF SetUpvalue, Running
<1>4. CASE Operate
  BY <1>4 DEF Operate, Running
<1>5. CASE Negate
  BY <1>5 DEF Negate, Running
<1>6. CASE Jumping
  BY <1>6 DEF Jumping, Running
<1>7. CASE MakeClosure
  BY <1>7 DEF MakeClosure, Running
<1>8. CASE CloseUpvalues
  BY <1>8 DEF CloseUpvalues, Running
<1>9. CASE CallClosure
  BY <1>9, ZenonT(40) DEF CallClosure, Running
<1>10. CASE CallClass
  BY <1>10 DEF CallClass, Running
<1>11. CASE HostProbe
  BY <1>11 DEF HostProbe, Running
<1>12. CASE HostAnswer
  BY <1>12 DEF HostAnswer, Running
<1>13. CASE NewObject
  BY <1>13 DEF NewObject, Running
<1>14. CASE NewIterator
  BY <1>14, ZenonT(40) DEF NewIterator, Running
<1>15. CASE Iterate
  BY <1>15 DEF Iterate, Running
<1>16. CASE CallError
  BY <1>16 DEF CallError, Running
<1>17. CASE ReturnFromCall
  BY <1>17 DEF ReturnFromCall, Running
<1>18. CASE TryBlock
  BY <1>18 DEF TryBlock, Running
<1>19. CASE CatchException
  BY <1>19 DEF CatchException, Running
<1>20. CASE RaiseException
  BY <1>20 DEF RaiseException, Running
<1>21. CASE GetIndex
  BY <1>21, Zenon DEF GetIndex, Running
<1>22. CASE SetIndex
  BY <1>22 DEF SetIndex, Running
<1>23. CASE Connect
  BY <1>23, Zenon DEF Connect, Running
<1>24. CASE InitClass
  BY <1>24 DEF InitClass, Running
<1>25. CASE SetSuperClass
  BY <1>25 DEF SetSuperClass, Running
<1>26. CASE GetMember
  BY <1>26 DEF GetMember, Running
<1>27. CASE GetMethodOf
  BY <1>27, Zenon DEF GetMethodOf, Running
<1>28. CASE SetMember
  BY <1>28, Zenon DEF SetMember, Running
<1> QED
  BY <1>1, <1>2, <1>3, <1>4, <1>5, <1>6, <1>7, <1>8, <1>9, <1>10, <1>11, <1>12, <1>13, <1>14, <1>15, <1>16, <1>17, <1>18, <1>19, <1>20, <1>21, <1>22, <1>23, <1>24, <1>25, <1>26, <1>27, <1>28 DEF VmNext

\* How a step may leave the result and the history.
Quiet == result' = result /\ unclosed' = unclosed
Throws == \E e, arg : Throw(e, arg)

\* A variable that has left its scope without CLOSE does not come back.
LEMMA UnclosedStays ==
    ASSUME result = <<"running">>, unclosed, VmNext
    PROVE  IInv'
<1>1. Quiet => IInv'
  <2> SUFFICES ASSUME Quiet PROVE IInv'
    OBVIOUS
  <2>1. result' = <<"running">> /\ unclosed'
    BY Zenon DEF Quiet
  <2> QED
    BY <2>1, Zenon DEF IInv
<1>2. ASSUME NEW e, NEW arg, Throw(e, arg) PROVE IInv'
  <2>1. CASE excs = << >>
    <3>1. result' = <<"raise", e>> /\ unclosed' = unclosed
      BY <1>2, <2>1, Zenon DEF Throw
    <3>2. result'[1] \in {"done", "raise"}
      BY <3>1
    <3>3. unclosed'
      BY <3>1, Zenon
    <3> QED
      BY <3>2, <3>3, Zenon DEF IInv
  <2>2. CASE excs # << >>
    <3>1. result' = <<"running">> /\ unclosed'
      BY <1>2, <2>2, Zenon DEF Throw
    <3> QED
      BY <3>1, Zenon DEF IInv
  <2> QED
    BY <2>1, <2>2
<1>3. Throws => IInv'
  BY <1>2, Zenon DEF Throws
<1>4. ASSUME NEW name, VmError(name) PROVE Throws
  BY <1>4, Zenon DEF VmError, Throws
<1>5. UNCHANGED control => Quiet
  BY DEF control, Quiet
<1>6. ASSUME NEW st, NEW hp, NEW at, NEW func, NEW argc, Enter(st, hp, at, func, argc) PROVE Quiet
  BY <1>6, Zenon DEF Enter, Quiet
<1>11. CASE Load
  <2>1. Quiet
    BY <1>11, <1>5, Zenon DEF Load
  <2> QED
    BY <1>1, <2>1
<1>12. CASE SetGlobal
  <2>1. Quiet
    BY <1>12, <1>5, Zenon DEF SetGlobal
  <2> QED
    BY <1>1, <2>1
<1>13. CASE SetUpvalue
  <2>1. Quiet
    BY <1>13, <1>5, Zenon DEF SetUpvalue
  <2> QED
    BY <1>1, <2>1
<1>14. CASE MakeClosure
  <2>1. Quiet
    BY <1>14, <1>5, Zenon DEF MakeClosure
  <2> QED
    BY <1>1, <2>1
<1>15. CASE CloseUpvalues
  <2>1. Quiet
    BY <1>15, <1>5, Zenon DEF CloseUpvalues
  <2> QED
    BY <1>1, <2>1
<1>16. CASE HostProbe
  <2>1. Quiet
    BY <1>16, <1>5, Zenon DEF HostProbe
  <2> QED
    BY <1>1, <2>1
<1>17. CASE HostAnswer
  <2>1. Quiet
    BY <1>17, <1>5, Zenon DEF HostAnswer
  <2> QED
    BY <1>1, <2>1
<1>18. CASE NewObject
  <2>1. Quiet
    BY <1>18, <1>5, Zenon DEF NewObject
  <2> QED
    BY <1>1, <2>1
<1>19. CASE CatchException
  <2>1. Quiet
    BY <1>19, <1>5, Zenon DEF CatchException
  <2> QED
    BY <1>1, <2>1
<1>20. CASE InitClass
  <2>1. Quiet
    BY <1>20, <1>5, Zenon DEF InitClass
  <2> QED
    BY <1>1, <2>1
<1>21. CASE TryBlock
  <2>1. Quiet
    BY <1>21, <1>5, Zenon DEF TryBlock, Quiet
  <2> QED
    BY <1>1, <2>1
<1>22. CASE Operate
  <2>1. Quiet \/ Throws
    BY <1>22, <1>4, <1>5, Zenon DEF Operate
  <2> QED
    BY <1>1, <1>3, <2>1
<1>23. CASE Negate
  <2>1. Quiet \/ Throws
    BY <1>23, <1>4, <1>5, Zenon DEF Negate
  <2> QED
    BY <1>1, <1>3, <2>1
<1>24. CASE NewIterator
  <2>1. Quiet \/ Throws
    BY <1>24, <1>4, <1>5, Zenon DEF NewIterator
  <2> QED
    BY <1>1, <1>3, <2>1
<1>25. CASE Iterate
  <2>1. Quiet \/ Throws
    BY <1>25, <1>4, <1>5, Zenon DEF Iterate
  <2> QED
    BY <1>1, <1>3, <2>1
<1>26. CASE CallError
  <2>1. Quiet \/ Throws
    BY <1>26, <1>4, <1>5, Zenon DEF CallError
  <2> QED
    BY <1>1, <1>3, <2>1
<1>27. CASE GetIndex
  <2>1. Quiet \/ Throws
    BY <1>27, <1>4, <1>5, Zenon DEF GetIndex, IndexError
  <2> QED
    BY <1>1, <1>3, <2>1
<1>28. CASE SetIndex
  <2>1. Quiet \/ Throws
    BY <1>28, <1>4, <1>5, Zenon DEF SetIndex, IndexError
  <2> QED
    BY <1>1, <1>3, <2>1
<1>29. CASE Connect
  <2>1. Quiet \/ Throws
    BY <1>29, <1>4, <1>5, Zenon DEF Connect
  <2> QED
    BY <1>1, <1>3, <2>1
<1>30. CASE SetSuperClass
  <2>1. Quiet \/ Throws
    BY <1>30, <1>4, <1>5, Zenon DEF SetSuperClass
  <2> QED
    BY <1>1, <1>3, <2>1
<1>31. CASE GetMember
  <2>1. Quiet \/ Throws
    BY <1>31, <1>4, <1>5, Zenon DEF GetMember
  <2> QED
    BY <1>1, <1>3, <2>1
<1>32. CASE GetMethodOf
  <2>1. Quiet \/ Throws
    BY <1>32, <1>4, <1>5, Zenon DEF GetMethodOf
  <2> QED
    BY <1>1, <1>3, <2>1
<1>33. CASE SetMember
  <2>1. Quiet \/ Throws
    BY <1>33, <1>4, <1>5, Zenon DEF SetMember
  <2> QED
    BY <1>1, <1>3, <2>1
<1>34. CASE Jumping
  <2>1. result' = <<"running">> /\ unclosed'
    BY <1>34, Zenon DEF Jumping
  <2> QED
    BY <2>1, Zenon DEF IInv
<1>35. CASE CallClosure
  <2>1. Quiet
    BY <1>35, <1>6, Zenon DEF CallClosure
  <2> QED
    BY <1>1, <2>1
<1>36. CASE CallClass
  <2>1. Quiet
    BY <1>36, <1>5, <1>6, Zenon DEF CallClass
  <2> QED
    BY <1>1, <2>1
<1>37. CASE RaiseException
  <2>1. Throws
    BY <1>37, Zenon DEF RaiseException, Throws
  <2> QED
    BY <1>3, <2>1
<1>38. CASE ReturnFromCall
  <2>1. (result' = <<"done">> \/ result' = result) /\ unclosed' = unclosed
    BY <1>38, Zenon DEF ReturnFromCall
  <2>2. CASE result' = <<"done">>
    <3>1. result'[1] \in {"done", "raise"}
      BY <2>2
    <3>2. unclosed'
      BY <2>1, Zenon
    <3> QED
      BY <3>1, <3>2, Zenon DEF IInv
  <2>3. CASE result' = result
    BY <1>1, <2>1, <2>3, Zenon DEF Quiet
  <2> QED
    BY <2>1, <2>2, <2>3
<1> QED
  BY <1>11, <1>12, <1>13, <1>14, <1>15, <1>16, <1>17, <1>18, <1>19, <1>20, <1>21, <1>22, <1>23, <1>24, <1>25, <1>26, <1>27, <1>28, <1>29, <1>30, <1>31, <1>32, <1>33, <1>34, <1>35, <1>36, <1>37, <1>38, Zenon DEF VmNext

\* Every instruction of legal code keeps the machine in order.
LEMMA InstructionStep ==
    ASSUME IInv, VmNext
    PROVE  IInv'
<1>1. result = <<"running">>
  BY RunsOnly
<1>2. unclosed \/ Machine
  <2>1. result[1] \notin {"done", "raise"} /\ result # <<"idle">>
    BY <1>1
  <2> QED
    BY <2>1, Zenon DEF IInv
<1>3. CASE unclosed
  BY <1>1, <1>3, UnclosedStays
<1>4. CASE Machine
  <2>1. CASE Load
    BY <1>1, <1>4, <2>1, LoadStep
  <2>2. CASE SetGlobal
    BY <1>1, <1>4, <2>2, SetGlobalStep
  <2>3. CASE SetUpvalue
    BY <1>1, <1>4, <2>3, SetUpvalueStep
  <2>4. CASE Operate
    BY <1>1, <1>4, <2>4, OperateStep
  <2>5. CASE Negate
    BY <1>1, <1>4, <2>5, NegateStep
  <2>6. CASE Jumping
    BY <1>1, <1>4, <2>6, JumpingStep
  <2>7. CASE MakeClosure
    BY <1>1, <1>4, <2>7, MakeClosureStep
  <2>8. CASE CloseUpvalues
    BY <1>1, <1>4, <2>8, CloseUpvaluesStep
  <2>9. CASE CallClosure
    BY <1>1, <1>4, <2>9, CallClosureStep
  <2>10. CASE CallClass
    BY <1>1, <1>4, <2>10, CallClassStep
  <2>11. CASE HostProbe
    BY <1>1, <1>4, <2>11, HostProbeStep
  <2>12. CASE HostAnswer
    BY <1>1, <1>4, <2>12, HostAnswerStep
  <2>13. CASE NewObject
    BY <1>1, <1>4, <2>13, NewObjectStep
  <2>14. CASE NewIterator
    BY <1>1, <1>4, <2>14, NewIteratorStep
  <2>15. CASE Iterate
    BY <1>1, <1>4, <2>15, IterateStep
  <2>16. CASE CallError
    BY <1>1, <1>4, <2>16, CallErrorStep
  <2>17. CASE ReturnFromCall
    BY <1>1, <1>4, <2>17, ReturnStep
  <2>18. CASE TryBlock
    BY <1>1, <1>4, <2>18, TryBlockStep
  <2>19. CASE CatchException
    BY <1>1, <1>4, <2>19, CatchStep
  <2>20. CASE RaiseException
    BY <1>1, <1>4, <2>20, RaiseStep
  <2>21. CASE GetIndex
    BY <1>1, <1>4, <2>21, GetIndexStep
  <2>22. CASE SetIndex
    BY <1>1, <1>4, <2>22, SetIndexStep
  <2>23. CASE Connect
    BY <1>1, <1>4, <2>23, ConnectStep
  <2>24. CASE InitClass
    BY <1>1, <1>4, <2>24, InitClassStep
  <2>25. CASE SetSuperClass
    BY <1>1, <1>4, <2>25, SetSuperStep
  <2>26. CASE GetMember
    BY <1>1, <1>4, <2>26, GetMemberStep
  <2>27. CASE GetMethodOf
    BY <1>1, <1>4, <2>27, GetMethodStep
  <2>28. CASE SetMember
    BY <1>1, <1>4, <2>28, SetMemberStep
  <2> QED
    BY <2>1, <2>2, <2>3, <2>4, <2>5, <2>6, <2>7, <2>8, <2>9, <2>10, <2>11, <2>12, <2>13, <2>14, <2>15, <2>16, <2>17, <2>18, <2>19, <2>20, <2>21, <2>22, <2>23, <2>24, <2>25, <2>26, <2>27, <2>28 DEF VmNext
<1> QED
  BY <1>2, <1>3, <1>4

\* The compiler makes legal code of every program.
AllLegal == \A s \in Programs : Legal(Compiled(s))

-----------------------------------------------------------------------------
(* Theorems.                                                               *)

\* A machine with nothing to run is in order.
LEMMA StartOK ==
    ASSUME Start
    PROVE  IInv /\ source \in Programs
BY DEF Start, VmInit, IInv

\* Where nothing changes.
LEMMA NothingChanges ==
    ASSUME Machine, UNCHANGED <<source, image, stack, regs, upvals, closures, globals, heap, classes, frames, excs>>
    PROVE  Machine'
<1>1. Proto' = Proto /\ Depth' = Depth /\ Upvalues' = Upvalues
  BY DEF Proto, ClosureOf, Depth, Upvalues
<1>2. \A k : Call(k)' = Call(k)
  BY DEF Call
<1>3. \A f : ProtoOf(f)' = ProtoOf(f)
  BY DEF ProtoOf, ClosureOf
<1>4. \A f : KnownIn(f)' = KnownIn(f) /\ Before(f)' = Before(f)
  BY <1>3 DEF KnownIn, Before
<1>5. \A slot : InScope(slot) => InScope(slot)'
  BY <1>1, <1>2, <1>4 DEF InScope
<1>6. Grows
  BY GrowsNot DEF memory
<1>7. \A v : Valid(v) => Valid(v)'
  <2>1. \A v : Solid(v) => Solid(v)'
    BY <1>6, SolidKept
  <2>2. \A v : Pending(v) => Pending(v)'
    BY <1>1 DEF Pending
  <2> QED
    BY <2>1, <2>2 DEF Valid
<1>8. StackOK'
  BY <1>7 DEF Machine, StackOK
<1>9. GlobalsOK'
  BY <1>7 DEF Machine, GlobalsOK
<1>10. \A f : FrameOK(f) => FrameOK(f)'
  BY <1>3, <1>4, <1>6, SolidKept DEF FrameOK
<1>11. \A f, g : Apart(f, g) => Apart(f, g)'
  BY <1>3, <1>4 DEF Apart
<1>12. FramesOK'
  BY <1>1, <1>2, <1>10, <1>11 DEF Machine, FramesOK
<1>13. HandlersOK'
  BY <1>1, <1>2, <1>4 DEF Machine, HandlersOK
<1>14. ScopeKept
  BY <1>5 DEF ScopeKept
<1> QED
  BY <1>6, <1>8, <1>9, <1>12, <1>13, <1>14, ClosuresKept, UpvalsKept, HeapKept, ClassesKept DEF Machine

\* Each step of a script keeps the machine in order.
LEMMA ProgramStep ==
    ASSUME AllLegal, IInv, source \in Programs, [RunScript \/ Instruction]_all
    PROVE  IInv' /\ source' \in Programs
<1>1. CASE RunScript
  <2>1. LoadProgram(Compiled(source)) /\ source' = source
    BY <1>1 DEF RunScript
  <2>2. PICK im : im = Compiled(source)
    OBVIOUS
  <2>3. Legal(im) /\ LoadProgram(im)
    BY <2>1, <2>2 DEF AllLegal
  <2> QED
    BY <2>1, <2>3, LoadProgramStep
<1>2. CASE Instruction
  <2>1. VmNext /\ source' = source
    BY <1>2 DEF Instruction
  <2> QED
    BY <2>1, InstructionStep
<1>3. CASE UNCHANGED all
  <2>1. /\ UNCHANGED <<source, image, stack, regs, upvals, closures, globals, heap, classes, frames, excs>>
        /\ UNCHANGED <<result, unclosed>>
    BY <1>3 DEF all, vmVars, registers, memory, control, outside
  <2>2. IInv'
    <3>1. CASE result = <<"idle">> /\ frames = << >> /\ excs = << >> /\ upvals = << >> /\ heap = << >>
      BY <2>1, <3>1 DEF IInv
    <3>2. CASE result = <<"running">> /\ unclosed
      BY <2>1, <3>2, Zenon DEF IInv
    <3>3. CASE result = <<"running">> /\ Machine
      <4>1. Machine'
        BY <2>1, <3>3, NothingChanges
      <4> QED
        BY <2>1, <3>3, <4>1, Zenon DEF IInv
    <3>4. CASE result[1] \in {"done", "raise"} /\ (~unclosed => excs = << >>)
      BY <2>1, <3>4, Zenon DEF IInv
    <3> QED
      BY <3>1, <3>2, <3>3, <3>4, Zenon DEF IInv
  <2> QED
    BY <2>1, <2>2
<1> QED
  BY <1>1, <1>2, <1>3

\* The machine of a script is always in order.
LEMMA ScriptOK ==
    ASSUME AllLegal
    PROVE  Script => [](IInv /\ source \in Programs)
<1>1. Start => IInv /\ source \in Programs
  BY StartOK
<1>2. IInv /\ source \in Programs /\ [RunScript \/ Instruction]_all => (IInv /\ source \in Programs)'
  BY ProgramStep
<1> QED
  BY <1>1, <1>2, PTL DEF Script

\* The machine of a program that runs.
LEMMA RunningMachine ==
    ASSUME IInv, ~unclosed, result[1] = "running"
    PROVE  Machine /\ result = <<"running">>
<1>1. result # <<"idle">> /\ result[1] \notin {"done", "raise"}
  OBVIOUS
<1> QED
  BY <1>1, Zenon DEF IInv

\* A machine in order stays in the code and the stack.
LEMMA TypeIs ==
    ASSUME IInv, ~unclosed
    PROVE  TypeOK
<1>1. result[1] \in {"idle", "running", "done", "raise"}
  <2>1. result = <<"idle">> \/ result = <<"running">> \/ result[1] \in {"done", "raise"}
    BY Zenon DEF IInv
  <2> QED
    BY <2>1
<1>2. ASSUME result[1] = "running"
      PROVE  /\ Legal(image) /\ regs.ip \in 0..(Len(Proto.code) - 1) /\ regs.top <= Len(stack)
             /\ \A s \in DOMAIN stack : stack[s][1] \in
                   {"int", "bool", "nil", "str", "fun", "nat", "list", "map", "iter", "class", "obj", "not a method"}
  <2>1. Machine
    BY <1>2, RunningMachine
  <2>2. Legal(image)
    BY <2>1 DEF Machine
  <2>3. regs.ip \in 0..(Len(Proto.code) - 1)
    BY <2>1, Here
  <2>4. regs.top <= Len(stack)
    <3>1. regs.top + 2 \in DOMAIN stack /\ regs.top \in Nat
      BY <2>1, Here DEF FrameSet, FrameOK
    <3>2. DOMAIN stack = 1..Len(stack) /\ Len(stack) \in Nat
      BY <2>1, ListIs DEF Machine, StackOK
    <3> QED
      BY <3>1, <3>2
  <2>5. ASSUME NEW s \in DOMAIN stack
        PROVE  stack[s][1] \in
                   {"int", "bool", "nil", "str", "fun", "nat", "list", "map", "iter", "class", "obj", "not a method"}
    <3>1. Valid(stack[s])
      BY <2>1 DEF Machine, StackOK
    <3> QED
      BY <3>1, Zenon DEF Valid, Solid, Pending, Plain, InHeap
  <2> QED
    BY <2>2, <2>3, <2>4, <2>5, Zenon
<1> QED
  BY <1>1, <1>2, Zenon DEF TypeOK

\* Handlers of a machine in order belong to calls.
LEMMA HandlersAre ==
    ASSUME IInv, ~unclosed
    PROVE  HandlersBelongToCalls
<1>1. CASE excs = << >>
  BY <1>1 DEF HandlersBelongToCalls
<1>2. CASE result[1] = "running"
  <2>1. Machine /\ result # <<"done">>
    BY <1>2, RunningMachine
  <2>2. Depth = Len(frames) + 1 /\ Len(frames) \in Nat
    BY <2>1, Running1 DEF Machine
  <2>3. ASSUME NEW h \in DOMAIN excs PROVE excs[h].depth <= Len(frames)
    <3>1. HandlersBelow(excs, Depth)
      BY <2>1 DEF Machine, HandlersOK
    <3>2. excs[h].depth < Depth
      BY <3>1 DEF HandlersBelow
    <3>3. excs[h] \in HandlerSet
      BY <3>1, HandlerIs
    <3>4. excs[h].depth \in Nat
      BY <3>3 DEF HandlerSet
    <3> QED
      BY <2>2, <3>2, <3>4
  <2> QED
    BY <2>1, <2>3 DEF HandlersBelongToCalls
<1>3. excs = << >> \/ result[1] = "running"
  <2>1. <<"running">>[1] = "running"
    OBVIOUS
  <2> QED
    BY <2>1, Zenon DEF IInv
<1> QED
  BY <1>1, <1>2, <1>3

\* An instruction of a machine in order uses reserved registers only.
LEMMA RegistersAre ==
    ASSUME IInv, ~unclosed
    PROVE  RegistersAreReserved
<1> SUFFICES ASSUME result[1] = "running", NEW x \in Operands(I) PROVE regs.reg + x < regs.top
  BY DEF RegistersAreReserved
<1>1. Machine
  BY RunningMachine
<1>2. Slot(x) <= regs.top /\ x \in 0..(Proto.nstack - 1)
  BY <1>1, OperandIs
<1>3. regs.reg \in Nat /\ regs.top \in Nat /\ Proto.nstack \in Nat
  BY <1>1, Here DEF FrameSet
<1> QED
  BY <1>2, <1>3 DEF Slot

\* Only one instruction returns.
LEMMA OnlyReturn ==
    ASSUME VmNext, I.op = "RET"
    PROVE  ReturnFromCall
<1>1. CASE Load
  BY <1>1 DEF Load, Running, Loads
<1>2. CASE SetGlobal
  BY <1>2, Zenon DEF SetGlobal, Running
<1>3. CASE SetUpvalue
  BY <1>3, Zenon DEF SetUpvalue, Running
<1>4. CASE Operate
  BY <1>4 DEF Operate, Running, Arithmetic, Relations
<1>5. CASE Negate
  BY <1>5 DEF Negate, Running
<1>6. CASE Jumping
  BY <1>6 DEF Jumping, Running
<1>7. CASE MakeClosure
  BY <1>7 DEF MakeClosure, Running
<1>8. CASE CloseUpvalues
  BY <1>8 DEF CloseUpvalues, Running
<1>9. CASE CallClosure
  BY <1>9, ZenonT(40) DEF CallClosure, Running
<1>10. CASE CallClass
  BY <1>10 DEF CallClass, Running
<1>11. CASE HostProbe
  BY <1>11 DEF HostProbe, Running
<1>12. CASE HostAnswer
  BY <1>12 DEF HostAnswer, Running
<1>13. CASE NewObject
  BY <1>13 DEF NewObject, Running
<1>14. CASE NewIterator
  BY <1>14, ZenonT(40) DEF NewIterator, Running
<1>15. CASE Iterate
  BY <1>15 DEF Iterate, Running
<1>16. CASE CallError
  BY <1>16 DEF CallError, Running
<1>17. CASE ReturnFromCall
  BY <1>17
<1>18. CASE TryBlock
  BY <1>18 DEF TryBlock, Running
<1>19. CASE CatchException
  BY <1>19 DEF CatchException, Running
<1>20. CASE RaiseException
  BY <1>20 DEF RaiseException, Running
<1>21. CASE GetIndex
  BY <1>21, ZenonT(40) DEF GetIndex, Running
<1>22. CASE SetIndex
  BY <1>22 DEF SetIndex, Running
<1>23. CASE Connect
  BY <1>23, ZenonT(40) DEF Connect, Running
<1>24. CASE InitClass
  BY <1>24 DEF InitClass, Running
<1>25. CASE SetSuperClass
  BY <1>25 DEF SetSuperClass, Running
<1>26. CASE GetMember
  BY <1>26 DEF GetMember, Running
<1>27. CASE GetMethodOf
  BY <1>27, Zenon DEF GetMethodOf, Running
<1>28. CASE SetMember
  BY <1>28, Zenon DEF SetMember, Running
<1> QED
  BY <1>1, <1>2, <1>3, <1>4, <1>5, <1>6, <1>7, <1>8, <1>9, <1>10, <1>11, <1>12, <1>13, <1>14, <1>15, <1>16, <1>17, <1>18, <1>19, <1>20, <1>21, <1>22, <1>23, <1>24, <1>25, <1>26, <1>27, <1>28 DEF VmNext

\* What is captured at a return is not of the call that ends.
LEMMA ReturnCloses ==
    ASSUME IInv, ~unclosed, result[1] = "running", I.op = "RET", RunScript \/ Instruction, NEW u \in Upvalues'
    PROVE  Upvalue(u)'.slot < regs.reg
<1>1. Machine
  BY RunningMachine
<1>2. ReturnFromCall
  <2>1. ~RunScript
    BY DEF RunScript, LoadProgram
  <2> QED
    BY <2>1, OnlyReturn DEF Instruction
<1>3. Upvalues' = Upvalues /\ Upvalue(u)' = Upvalue(u)
  BY <1>2 DEF ReturnFromCall, memory, Upvalues, Upvalue
<1>4. UpvalueOK(Upvalue(u))
  BY <1>1, <1>3 DEF Machine, UpvalsOK
<1>5. PICK slot : slot = Upvalue(u).slot
  OBVIOUS
<1>6. slot \in Int /\ (slot >= 0 => InScope(slot))
  BY <1>4, <1>5 DEF UpvalueOK
<1>7. Before(regs).open = {}
  BY <1>1, Here DEF LegalStep, I, Before
<1>8. regs.func \in Nat /\ regs.reg \in Nat /\ regs.func < regs.reg
  BY <1>1, Here DEF FrameSet
<1>9. CASE slot >= 0
  <2>1. slot < regs.func
    BY <1>1, <1>6, <1>7, <1>9, OthersBelow
  <2> QED
    BY <1>3, <1>5, <1>6, <1>8, <2>1
<1>10. CASE ~(slot >= 0)
  BY <1>3, <1>5, <1>6, <1>8, <1>10
<1> QED
  BY <1>9, <1>10

\* As long as no captured variable has left its scope without CLOSE, a script
\* whose code is legal stays in its code and in its stack, whose registers all
\* hold values: what the interpreter (be_vm.c), which checks none of it, relies
\* on (TypeOK).
THEOREM ProgramsAreTyped ==
    ASSUME AllLegal
    PROVE  Script => [](~unclosed => TypeOK)
<1>1. IInv => (~unclosed => TypeOK)
  BY TypeIs
<1> QED
  BY <1>1, ScriptOK, PTL

\* Nor does a handler outlive the call that set it, whichever way its try
\* block is left (HandlersBelongToCalls).
THEOREM HandlersBelong ==
    ASSUME AllLegal
    PROVE  Script => [](~unclosed => HandlersBelongToCalls)
<1>1. IInv => (~unclosed => HandlersBelongToCalls)
  BY HandlersAre
<1> QED
  BY <1>1, ScriptOK, PTL

\* Nor does an instruction use a register its function does not reserve
\* (RegistersAreReserved).
THEOREM RegistersReserved ==
    ASSUME AllLegal
    PROVE  Script => [](~unclosed => RegistersAreReserved)
<1>1. IInv => (~unclosed => RegistersAreReserved)
  BY RegistersAre
<1> QED
  BY <1>1, ScriptOK, PTL

\* And when a call returns, every variable of it that a closure has captured
\* has been moved out of its registers (ReturnClosesUpvalues).
THEOREM ReturnsClose ==
    ASSUME AllLegal
    PROVE  Script => ReturnClosesUpvalues
<1>1. ASSUME IInv, [RunScript \/ Instruction]_all
      PROVE  [(result[1] = "running" /\ I.op = "RET" /\ ~unclosed)
                 => \A u \in Upvalues' : Upvalue(u)'.slot < regs.reg]_all
  BY <1>1, ReturnCloses
<1> QED
  BY <1>1, ScriptOK, PTL DEF Script, ReturnClosesUpvalues

-----------------------------------------------------------------------------
(* The script smartcar.be.                                                 *)

\* Each of the two labels belongs to one command, and is no other report.
LEMMA Labels ==
    /\ Label["start"] = "charging: headroom ok"
    /\ Label["stop"] = "stopped: low headroom"
    /\ WantCharge \in Commands
BY DEF Label, WantCharge, Commands

-----------------------------------------------------------------------------
(* A token that was rejected is not used again.                            *)

TokenInv == (rejected => ~token) /\ (pc = "command" => token)
            /\ token \in BOOLEAN /\ rejected \in BOOLEAN

\* TokenInv is inductive.
LEMMA TokenStep == TokenInv /\ [Next]_vars => TokenInv'
<1> SUFFICES ASSUME TokenInv, [Next]_vars PROVE TokenInv'
  OBVIOUS
<1> USE DEF TokenInv
<1>1. CASE TickBegins
  <2>1. UNCHANGED <<token, rejected>>
    BY <1>1 DEF TickBegins
  <2>2. pc' = "command" => token
    BY <1>1, Zenon DEF TickBegins, Idle
  <2> QED
    BY <2>1, <2>2
<1>2. CASE TokenGranted
  BY <1>2 DEF TokenGranted
<1>3. CASE CommandRejected
  BY <1>3 DEF CommandRejected, Idle
<1>4. CASE CommandAccepted \/ CommandFailed \/ TokenRefused
  <2>1. pc' = "idle" /\ UNCHANGED <<token, rejected>>
    BY <1>4 DEF CommandAccepted, CommandFailed, TokenRefused, Idle, scriptVars
  <2> QED
    BY <2>1
<1>5. CASE TickFails
  BY <1>5 DEF TickFails, scriptVars
<1>6. CASE Reload \/ Reboot
  BY <1>6 DEF Reload, Reboot, TopLevel, Idle
<1>7. CASE Sync \/ Headroom \/ Secrets \/ TokenEnds \/ Execute
           \/ CommandLost \/ Driver \/ UNCHANGED vars
  <2>1. UNCHANGED <<pc, token, rejected>>
    BY <1>7 DEF Sync, Headroom, Secrets, TokenEnds, Execute, CommandLost, Driver,
                vars, scriptVars
  <2> QED
    BY <2>1
<1> QED
  BY <1>1, <1>2, <1>3, <1>4, <1>5, <1>6, <1>7 DEF Next, ScriptStep

\* A rejected token is given up before the next command, whatever happened
\* in between.
THEOREM RejectionCorrect == Spec => []RejectedTokenNotReused
<1>1. Init => TokenInv
  BY DEF Init, TokenInv
<1>2. TokenInv => RejectedTokenNotReused
  BY DEF TokenInv, RejectedTokenNotReused
<1> QED
  BY <1>1, <1>2, TokenStep, PTL DEF Spec

-----------------------------------------------------------------------------
(* What is reported.                                                       *)

\* Unless an answer was lost, what the script remembers as sent is the last
\* command the cloud took, and so is what it reports.
MemoryInv ==
    /\ want \in Commands
    /\ sent_charge \in Commands \cup {"nil"}
    /\ lost \in BOOLEAN
    /\ pc = "failed" => report = "error"
    /\ \/ lost = TRUE
       \/ (sent_charge # "nil" => lastTaken = sent_charge) /\ ReportIsLastCommand

\* MemoryInv is inductive.
LEMMA MemoryStep ==
    ASSUME MemoryInv, [Next]_vars
    PROVE  MemoryInv'
<1> USE DEF MemoryInv, ReportIsLastCommand, Commands
<1>1. CASE TickBegins
  <2>1. UNCHANGED <<sent_charge, lastTaken, lost>>
    BY <1>1 DEF TickBegins, cloudVars
  <2>2. want' = want \/ want' = WantCharge
    BY <1>1 DEF TickBegins
  <2>3. \/ report' \in {"no headroom figure yet", "set vehicle_id and user_id"}
        \/ report' = Label[WantCharge] /\ sent_charge = WantCharge
        \/ report' = report
    BY <1>1 DEF TickBegins, Idle, ToldRecently
  <2>4. pc' # "failed"
    BY <1>1 DEF TickBegins, Idle
  <2> QED
    BY <2>1, <2>2, <2>3, <2>4, Labels
<1>2. CASE CommandAccepted
  <2>1. /\ sent_charge' = want /\ lastTaken' = want /\ report' = Label[want]
        /\ want' = want /\ lost' = FALSE /\ pc' = "idle"
    BY <1>2 DEF CommandAccepted, Taken, Idle
  <2> QED
    BY <2>1, Labels
<1>3. CASE CommandRejected
  BY <1>3, Labels DEF CommandRejected, Idle, cloudVars
<1>4. CASE CommandFailed
  <2>1. UNCHANGED <<want, sent_charge>> /\ report' = "api error" /\ pc' = "idle"
    BY <1>4 DEF CommandFailed, Idle, scriptVars
  <2>2. CASE UNCHANGED <<late, car, lastTaken, lost>>
    BY <2>1, <2>2, Labels
  <2>3. CASE lost' = TRUE
    BY <2>1, <2>3
  <2> QED
    BY <1>4, <2>2, <2>3 DEF CommandFailed
<1>5. CASE TokenRefused \/ TickFails
  BY <1>5, Labels DEF TokenRefused, TickFails, Idle, scriptVars, cloudVars
<1>6. CASE Reboot
  BY <1>6, Labels DEF Reboot, Idle, TopLevel, cloudVars
<1>7. CASE Reload
  <2>1. /\ sent_charge' = "nil" /\ lost' = FALSE
        /\ pc = "failed" /\ pc' = "idle"
        /\ UNCHANGED <<want, lastTaken, report>>
    BY <1>7 DEF Reload, TopLevel, cloudVars
  <2> QED
    BY <2>1, Labels
<1>8. CASE TokenGranted \/ Sync \/ Headroom \/ Secrets \/ TokenEnds
           \/ Execute \/ CommandLost \/ Driver \/ UNCHANGED vars
  BY <1>8 DEF TokenGranted, Sync, Headroom, Secrets, TokenEnds, Execute,
              CommandLost, Driver, vars, scriptVars, cloudVars
<1> QED
  BY <1>1, <1>2, <1>3, <1>4, <1>5, <1>6, <1>7, <1>8 DEF Next, ScriptStep

\* Whatever is lost, late or rejected, the report names the last command the
\* cloud took, unless the answer to that very command was lost.
THEOREM ReportCorrect == Spec => []ReportIsWrongOnlyIfLost
<1>1. Init => MemoryInv
  BY Labels DEF Init, MemoryInv, ReportIsLastCommand, Commands
<1>2. MemoryInv /\ [Next]_vars => MemoryInv'
  BY MemoryStep
<1>3. MemoryInv => ReportIsWrongOnlyIfLost
  BY DEF MemoryInv, ReportIsWrongOnlyIfLost
<1> QED
  BY <1>1, <1>2, <1>3, PTL DEF Spec

-----------------------------------------------------------------------------
(* The command is repeated in time.                                        *)

\* The age of sent_at is no less than the time since a command was last
\* accepted: setting the clock can only make it greater.
AgeInv ==
    /\ quiet \in 0 .. REASSERT /\ sentAge \in 0 .. REASSERT
    /\ want \in Commands
    /\ sent_charge # "nil" => quiet <= sentAge
    /\ pc = "failed" => report = "error"
    /\ ReassertsInTime

\* AgeInv is inductive.
LEMMA AgeStep ==
    ASSUME AgeInv, [Next]_vars
    PROVE  AgeInv'
<1> USE SmartcarAssumption DEF AgeInv, ReassertsInTime, Commands
<1>1. CASE TickBegins
  <2>1. /\ sentAge' = IF synced /\ sentAge < REASSERT THEN sentAge + 1 ELSE sentAge
        /\ quiet' = IF synced /\ quiet < REASSERT THEN quiet + 1 ELSE quiet
        /\ UNCHANGED sent_charge
        /\ want' = want \/ want' = WantCharge
    BY <1>1 DEF TickBegins, Later
  <2>2. \/ report' \in {"no headroom figure yet", "set vehicle_id and user_id"}
        \/ sent_charge = WantCharge /\ sentAge' < REASSERT
        \/ pc' \in {"token", "command"}
    BY <1>1 DEF TickBegins, Idle, ToldRecently
  <2>5. pc' # "failed"
    BY <1>1 DEF TickBegins, Idle
  <2>3. sentAge' \in 0 .. REASSERT /\ quiet' \in 0 .. REASSERT
    <3>1. CASE synced
      BY <2>1, <3>1
    <3>2. CASE ~synced
      BY <2>1, <3>2
    <3> QED
      BY <3>1, <3>2
  <2>4. sent_charge # "nil" => quiet' <= sentAge'
    <3>1. CASE synced
      BY <2>1, <3>1
    <3>2. CASE ~synced
      BY <2>1, <3>2
    <3> QED
      BY <3>1, <3>2
  <2>6. CASE report' \in {"no headroom figure yet", "set vehicle_id and user_id"}
    <3>1. \A c \in Commands : report' # Label[c]
      BY <2>6, Labels
    <3> QED
      BY <2>1, <2>3, <2>4, <2>5, <3>1, Labels
  <2>7. CASE sent_charge = WantCharge /\ sentAge' < REASSERT
    <3>1. sent_charge # "nil"
      BY <2>7, Labels
    <3>2. quiet' < REASSERT
      BY <2>3, <2>4, <2>7, <3>1
    <3> QED
      BY <2>1, <2>3, <2>4, <2>5, <3>2, Labels
  <2>8. CASE pc' \in {"token", "command"}
    BY <2>1, <2>3, <2>4, <2>5, <2>8, Labels
  <2> QED
    BY <2>2, <2>6, <2>7, <2>8
<1>2. CASE CommandAccepted
  BY <1>2 DEF CommandAccepted, Idle
<1>3. CASE CommandRejected
  BY <1>3, Labels DEF CommandRejected, Idle
<1>4. CASE CommandFailed \/ TokenRefused \/ TickFails
  BY <1>4, Labels DEF CommandFailed, TokenRefused, TickFails, Idle, scriptVars
<1>5. CASE Reboot
  <2>1. /\ pc' = "idle" /\ report' = "none" /\ sent_charge' = "nil" /\ sentAge' = 0
        /\ UNCHANGED <<quiet, want>>
    BY <1>5 DEF Reboot, Idle, TopLevel
  <2>3. \A c \in Commands : report' # Label[c]
    BY <2>1, Labels
  <2>4. ReassertsInTime'
    BY <2>3
  <2> QED
    BY <2>1, <2>4
<1>6. CASE Reload
  <2>1. pc = "failed" /\ report' = report /\ sent_charge' = "nil"
        /\ UNCHANGED <<quiet, want>> /\ sentAge' = 0 /\ pc' = "idle"
    BY <1>6 DEF Reload, TopLevel
  <2>2. \A c \in Commands : report' # Label[c]
    BY <2>1, Labels
  <2>3. ReassertsInTime'
    BY <2>2
  <2> QED
    BY <2>1, <2>3
<1>7. CASE TokenGranted \/ Headroom \/ Secrets \/ TokenEnds \/ Execute
           \/ CommandLost \/ Driver \/ UNCHANGED vars
  BY <1>7 DEF TokenGranted, Headroom, Secrets, TokenEnds, Execute, CommandLost,
              Driver, vars, scriptVars, cloudVars
<1>8. CASE Sync
  BY <1>8 DEF Sync
<1> QED
  BY <1>1, <1>2, <1>3, <1>4, <1>5, <1>6, <1>7, <1>8 DEF Next, ScriptStep

\* A tick that reports a state does so less than REASSERT ticks after a
\* command was accepted, for any interval, restarts and a clock that is set
\* late included.
THEOREM ReassertCorrect == Spec => []ReassertsInTime
<1>1. Init => AgeInv
  BY SmartcarAssumption DEF Init, AgeInv, ReassertsInTime, Commands
<1>2. AgeInv /\ [Next]_vars => AgeInv'
  BY AgeStep
<1>3. AgeInv => ReassertsInTime
  BY DEF AgeInv
<1> QED
  BY <1>1, <1>2, <1>3, PTL DEF Spec
=============================================================================
