---------------------------- MODULE BerryProgram ----------------------------
(* A script from its text to its end: compiled (BerryParser, BerryCode), run  *)
(* (BerryVm) and held to what the text means (BerrySource).                  *)
EXTENDS BerryVm

CONSTANTS
    Programs,        \* syntax trees
    Compiled(_),     \* what the compiler makes of one
    Meaning(_, _)    \* what one shows and how it ends, given the answers it gets
ASSUME ProgramsAssumption == Programs # {}

VARIABLE source

all == <<source, vmVars>>

Start == VmInit /\ source \in Programs

\* be_loadbuffer() and be_pcall().
RunScript == LoadProgram(Compiled(source)) /\ UNCHANGED source

Instruction == VmNext /\ UNCHANGED source

\* A call of the interpreter goes on until it returns.
Script == Start /\ [][RunScript \/ Instruction]_all /\ WF_all(Instruction)

-----------------------------------------------------------------------------
\* Lists, maps and objects show as what they are, not which.
Visible(v) == IF v[1] \in {"int", "bool", "str"} THEN v ELSE <<v[1]>>

Ended == result[1] \in {"done", "raise"}

\* The program runs legal code (looked at before its first instruction: no step
\* changes it), stays in the code and in the stack, and its registers hold
\* values.
TypeOK ==
    /\ result[1] \in {"idle", "running", "done", "raise"}
    /\ (result[1] = "running" /\ frames = << >> /\ regs.ip = 0) => Legal(image)
    /\ result[1] = "running" =>
          /\ regs.ip \in 0..(Len(Proto.code) - 1)
          /\ regs.top <= Len(stack)
          /\ \A s \in DOMAIN stack : stack[s][1] \in
                {"int", "bool", "nil", "str", "fun", "nat", "list", "map", "iter", "class", "obj", "not a method"}

\* What the program shows and how it ends is what its text means.
AsWritten ==
    Ended => LET m == Meaning(source, answers)
             IN /\ m.trace = [i \in DOMAIN trace |-> Visible(trace[i])]
                /\ m.error = (IF result[1] = "raise" THEN result[2] ELSE Nil)

\* Through code generation, register allocation, jumps, upvalues, calls and
\* handlers, a program does what it says; but for the ways in which the compiler
\* is known to break one, which the histories record: an instruction of another
\* variable fused with the MOVE behind it, the truth value of an and/or dropped,
\* a captured variable left by a jump or an exception.
RunsAsWritten == (Ended /\ image.harmed = {} /\ ~unclosed) => AsWritten

\* No handler outlives the function call that set it, whichever way its try
\* block was left: the depth it would cut the call stack to still exists, and
\* at the end there is none.
HandlersBelongToCalls ==
    /\ \A h \in DOMAIN excs : excs[h].depth <= Len(frames)
    /\ result = <<"done">> => excs = << >>

\* Every register an instruction uses is one the function reserves, and so
\* one the collector keeps: it clears the stack above.
RegistersAreReserved ==
    result[1] = "running" => \A x \in Operands(I) : regs.reg + x < regs.top

\* A variable of a call that has returned is not reached through its register
\* any more, which belongs to the next call.
ReturnClosesUpvalues ==
    [][(result[1] = "running" /\ I.op = "RET" /\ ~unclosed) => \A u \in Upvalues' : Upvalue(u)'.slot < regs.reg]_all

\* Every program of the runs comes to its end, with no instruction it gets
\* stuck on and no jump that runs in circles.
Ends == (result[1] = "running") ~> Ended
=============================================================================
