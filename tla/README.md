# A TLA+ model of the ChargeXcel DLM contract

The repository is the public half of ChargeXcel's dynamic load management: the
contract by which a third-party program (a *plugin*, over HTTP) or a small
Berry *script* (on the unit itself) reads the unit's headroom and reports what
it does with it. Its safety claim is one-directional: nothing a plugin or a
script does may reach the relay or stop the unit. The firmware itself is not in
the repository. What is: the contract's pure logic, the script host with the
vendored Berry interpreter and compiler, a desktop runner, a reference plugin
and three example scripts.

This directory holds TLA+ modules of those parts, TLC runs over small
instances, and proofs that TLAPS checks for every value of the constants.

    tlc -workers 2 -config ScriptVmAll.cfg MCDlmScriptVm.tla
    tlapm DlmScriptVm_proofs.tla

## Inventory

| Part | State | Operations | What makes it correct | Module |
|---|---|---|---|---|
| Contract logic, `runner/vm/DlmLogic.*` | one `DlmProviderState` per provider: time of the last recorded submission, advisory, two wrapping counters | `record`, `sanitiseAction`, `online` | a flood thins out and never silences; online means heard of; each submission is counted once; the stored text is printable and bounded | `DlmLogic`, `DlmProvider` |
| Script host, `runner/vm/DlmScriptVm.*` | `m_vm`, `m_interval`, per-tick counters and report, the static `s_active` | `load`, `tick`, `unload`, the natives `http`, `report`, `log`, `secret`, `telemetry`, the hook `obsHook` | one object at a time; every error path gives the slot back; a script costs one tick and never the process; a tick's answer is about that tick | `DlmScriptVm`, `DlmScriptSlot` |
| Berry exceptions, `be_exec.c` | a chain of `setjmp` frames, the call and exception stacks | `be_throw`, `be_pcall`, try blocks | a throw always lands in an activation that still exists, with its calls and registers | `DlmScriptVm`, `BerryVm`, `BerryVector` |
| Berry compiler, `be_lexer.c`, `be_parser.c`, `be_code.c`, `be_var.c` | the source, one expression, open jumps, free registers, the code so far | one pass from text to bytecode | the code does what the text says | `BerryLexer`, `BerryParser`, `BerryCode`, `BerrySource` |
| Berry interpreter, `be_vm.c`, `be_func.c`, `be_class.c` | registers, call stack, handlers, upvalues, objects | the opcodes | as above; a register has one owner; a closure keeps its variables | `BerryImage`, `BerryVm`, `BerryProgram` |
| Berry collector, `be_gc.c` | colours, gray list, fixed objects, `GC_HALT` | collect, destructors, delete all | what is reachable is kept, destructors run once and cannot nest a collection, garbage goes | `BerryHeap`; with the host, `DlmScriptVm` |
| Berry memory, `be_mem.c` | two kinds of pools, usage | allocate, resize, free, give pools back | no two blocks overlap, none leaks, usage is what is used | `BerryPools` |
| Berry strings, `be_string.c` | the table of short strings | make, find, compare, resize, sweep | equal pointers are equal texts | `BerryStrings` |
| Berry vectors, lists, maps, `be_vector.c`, `be_list*.c`, `be_map*.c` | a block with a capacity, a count, chains | grow, insert, remove, iterate | each behaves as the stack, sequence or function it stands for | `BerryVector`, `BerryList`, `BerryMap` |
| Berry bytes and json, `be_byteslib.c`, `be_jsonlib.c` | buffers, owned or mapped; texts | the methods; `load`, `dump` | one owner per buffer; what is written reads back | `BerryBytes`, `BerryBits`, `BerryJson` |
| Reference plugin, `reference-plugin/` | `managing`, `action`, the last tick's time | `run`, `tick`, `decide` | polls on time, sends what it decided, survives everything but a rejected key | `DlmProvider` |
| `scripts/smartcar.be` | token and expiry, last command sent and when | `tick`, `refresh_token` | reports what it told the car; repeats it in time; the car ends up as the headroom wants | `Smartcar` |
| `scripts/epiccharging.be` | none between ticks | `tick` | the ports it reports have their share of the headroom | `EpicCharging` |
| Desktop runner, `runner/main.cpp` | the arena's counters, canned answers, exit code | tick loop, HTTP, arena | a tick that failed is an exit code; the peak is never hidden | `CxlRun` |
| `scripts/minimal.be`, `SafetyTypes.h`, firmware | | | | not modelled |

How they interact. A plugin posts to `/api/dlm/v1/tick`; the route calls
`DlmLogic::record()` and answers with telemetry. The unit (or the runner) calls
`DlmScriptVm::load()`, which compiles the script and runs its top level, then
`tick()` every `intervalSeconds()`, and after a failed tick unloads and loads
again. The script calls back into the host through native functions that find
it by `s_active`. The interpreter calls `obsHook()` every 8,192 instructions,
and the hook may raise. Each allocation of a container or a string goes through
`be_realloc()`, which may collect; the collector calls script code (`deinit`)
from inside allocations, from `be_gc_collect()` in `tick()` and from
`be_vm_delete()` in `unload()`.

Hard behaviours: exceptions that are `longjmp`s across C frames; callbacks
that run script code in the middle of the collector or the host's teardown;
allocations that fail, or collect, anywhere; a budget enforced by an exception
the script can catch; a one-pass compiler that rewrites the code it has just
emitted; blocks left in every way while closures hold their variables; requests
delayed, lost, answered late; the unit restarting with a poll open; a command
taken whose answer is lost; commands executed after their successors; a clock
that jumps from 0 to the real time. All are listed under `hazards` in
`PROJECT.json`, at their line.

## Modules

    DlmLogic ------> DlmProvider ------> MCDlmProvider, DlmProvider_proofs
    DlmScriptSlot -> DlmScriptVm ------> MCDlmScriptVm, DlmScriptVm_proofs
                     Smartcar ---------> MCSmartcar,    Scripts_proofs
    BerryImage -> BerryCode -> BerryParser -> BerrySource --+-> MCBerry
               +> BerryVm ---> BerryProgram ----------------+
                                            +---> Scripts_proofs

    BerryHeap, BerryStrings, BerryPools ----> BerryHeap_proofs ----+
    BerrySizes -> BerryVector, BerryList, --> BerryStorage_proofs -+
                  BerryMap                                         |
    BerryBits --> BerryBytes ---------------> BerryStorage_proofs -+
    DlmScriptSlot -> CxlRun, EpicCharging --> Runner_proofs -------+-> Parts
    Parts ---+-> Parts_proofs
             +-> MCParts  (with BerryJson, BerryLexer)
    Inductions: lemmas the proofs about data share

### The contract and the host

**DlmLogic** has the functions of `DlmLogic.cpp` as operators over records:
`Record` returns the verdict and the new state, as `record()` does, with the
rate limit before anything is stored; counters are taken modulo `COUNTER_WRAP`
(2^32 in the source). A text is a sequence of characters, because
`sanitiseAction()` cuts and replaces characters.

**DlmProvider** puts one provider's record between the reference plugin and a
network. The plugin's loop is `Poll`, then `Answered`, `Failed` or
`Disconnected`; the unit is `Arrive` (plugin) and `OtherArrives` (another
program with the same key), both through `Record`; the environment loses and
delays requests, restarts the unit, revokes the key and changes the headroom.
`world`, chosen once, says who else sends with the key and how long a request
may be on its way. The route is external: it is taken to authenticate, to store
what `record()` decides, and to answer 200, 401 or 429 as `docs/http-api.md`
has it. The unit's clock starts at 1 when it boots, and 0 keeps its meaning
"nothing this boot". `lastArrival`, `arrivals`, `storedAt` and `storedFrom` are
history: they record what happened and decide nothing.

**DlmScriptVm** is the script host together with the parts of Berry on which
its promises rest. A call is a path through `pc`; each stage is one stretch of C
code up to the next point where script code may run or an exception may start.
The script is the environment: in the stages `script` and `capture`, and inside
destructors, it may report, make a request, raise, enter and leave try blocks,
create and drop objects, exhaust the arena, and return, in any order. `tries`
counts the error frames of the script's own activation and `ftries` those of
the running destructor; `Throw` picks the innermost frame as `be_throw()` does:
the destructor's, the script's, `be_pcall()`'s, or none, which is `abort()`. A
memory failure passes the script's frames, as in `be_except_block_resume()`.
The collector is reduced to the instances that have a `deinit`: `live` and
`garbage` counts, a loop over `white`, `GC_HALT` as `gcHalt`. A `longjmp` out of
that loop (`LeaveSweep`) skips the statement that clears the flag. `Features`
says which language features the scripts use, so that a run can ask what holds
without one of them.

**DlmScriptSlot** is the specification a caller of the host would write: a slot
held by at most one object, acquired only when free, released by every failure,
an interval that is in range while loaded and the default otherwise, and a tick
that changes nothing but its answer. `DlmScriptVm` implements it with
`loaded <- {v \in Vms : m_vm[v]}` (`ImplementsSlot`).

**CxlRun** is `main()` of the runner as a caller of that slot: it composes
`DlmScriptSlot` (one object) with the tick loop, the arena the interpreter
allocates from (`Malloc`, `Realloc`, `Free`, with the cap and the peak) and the
canned answers (`ReadLine`, `Pick`). A failed tick is followed by `unload()` and
a `load()` in the next round.

**Smartcar** is `tick()` of `smartcar.be`, split at its two HTTP calls, inside
the unit that calls and reloads it, with the vendor's cloud and the car. Time
counts ticks; what the script computes from `t['epoch']` appears as the age of
`sent_at` and the life left of the token, which stand still while `epoch` is 0
and run out when the clock is set (`Sync`). The cloud may reject a token early,
take a command whose answer is lost (`lost` remembers that), and pass a command
on late or never; `secrets` are what the owner has set so far.

**EpicCharging** is `tick()` of `epiccharging.be`, split at its calls: the list
of sessions, then a PATCH per port. Cars come and go and the headroom moves
between any two of them; a call may fail, with or without effect; a call past
the host's cap raises and fails the tick, after which the script is loaded
again. Power is counted in units that make every share a whole number.

### The Berry language

**BerryCode** and **BerryParser** are the compiler: one operator per
nonterminal of `be_parser.c` and per function of `be_code.c`, each from a parser
state to a parser state. There is no syntax tree in the code and none in the
model: the expression just read (`e`, the `bexpdesc`), its two chains of open
jumps, the first free register, the emitted instructions and the blocks, loops
and functions around them are all there is. `harmed` is history: it marks where
one of the known errors (see below) struck; an instruction's `outlive` says how
many local variables are in scope where a jump out of a loop, or a handler, goes.

**BerryImage** is what the compiler hands to the interpreter: instructions and
their operands, functions, classes. `Legal` is what the interpreter relies on
and never checks, since Berry has no verifier: registers, constants, globals
and upvalues that exist, a way on from each instruction, and, on every way to an
instruction, the same try blocks around it (`Known`, a dataflow analysis like
that of a bytecode verifier); a class in a register before its `CLASS`
instruction only for the one step to it; no `RET` inside a try block or with a
variable still captured.

**BerryVm** is the interpreter: one action per group of opcodes, and two for an
exception that finds a handler or does not. Registers of all frames are one
stack, which grows as `precall()` grows it (`Growth`); an open upvalue is a place
in it. Upvalues are grouped by the instruction that made them, and shared as
`findupval()` shares them; an object is the chain of its instances, with one part
per class above. `any()` is a host function whose answer TLC chooses, `probe()`
one that shows a value. `unclosed` is history: a captured variable left its scope
without `CLOSE`.

**BerrySource** is the reference: syntax trees, the text each is written as, and
a definitional interpreter (`Means`) that has environments instead of registers,
and knows neither jumps nor upvalues. **BerryProgram** compiles the text, runs it
and compares. `Compiled` and `Meaning` are constants so that TLC evaluates each
once per program.

**BerryLexer** is `be_lexer.c` over bytes: numbers, strings with escapes,
f-strings (which are rewritten into a call and read again), comments, line
counts, the token that is read ahead. Its properties compare the tokens with the
longest that could be read, and with what an f-string stands for. The parser of
`BerryParser` gets its tokens from `BerrySource`, so that the two halves are
bounded separately.

### The data structures

Each module has the operations of one source file as actions, and, as variables
that the operations do not read, what a caller should find.

| Module | State in the code | What it is held to |
|---|---|---|
| `BerryHeap` | `gcList`, `marked`, `fixed`, `gray`, `stack`, `globals`, `halted`; `refs` is what an object refers to | reachability, computed from the roots |
| `BerryPools` | `pool16`, `pool32` (pools of slots), `hostSize`, `usage` | `held`: where each user's block is, and its size |
| `BerryStrings` | `strTable` (lists of strings), `strCount`; constants compiled in | texts |
| `BerryVector` | `stk`: cells, count, end | `pushed`, a sequence; `saved`, what try blocks return to |
| `BerryList` | `vec`: cells, count | `meant`, a sequence per list; `loop`, what a for loop has seen |
| `BerryMap` | `map`: slots with `next`, `lastfree`, count | `put`, a function; `walk`, what a loop has seen |
| `BerryBytes` | `mem` (buffers), `obj` (size, length, address, fixed, mapped) | the bytes the calls should have left |
| `BerryJson` | none: texts and values | the grammar of JSON, by cutting a text in every way |

`BerryHeap` splits a collection where script code may run: `Collect`,
`MarkNext` for each gray object, `CallDestructor` and `DestructorReturns` or
`DestructorThrows`, `DeleteWhite`. An allocation (`Allocate`) may collect before
the new object is linked; one forced by a full arena (`forced`) runs no
destructors. `BerryBits` holds the conversions `BerryBytes` uses: integers of 1
to 4 bytes and either end, bit fields, hexadecimal, base64. `BerrySizes` is
`be_nextsize()`: powers of two up to the largest one that an `int` holds.

**Parts** puts them side by side, with `CxlRun` and `EpicCharging`. They share
no variable; `part` says which one runs, and the others stay where they begin.
A part about which there are theorems is reached through its proof module
(`Heap`, `Storage`, `Runner`), so that `Parts_proofs` can cite them. **MCParts**
adds json and the lexer, whose operators are RECURSIVE, and gives the constants
their values. The properties of the two modules name those of the parts:

| Property | Stands for |
|---|---|
| `BytesAsWanted` | `BerryBytes!BuffersOwned`, `!BytesAsWanted` (in `Parts`, by way of `Storage`) |
| `ReadsBackAsWritten` | `BerryBytes!TextsReadBack`, `!NumbersReadBack` |
| `NothingFreedEarly` | `BerryHeap!ReachableIsKept`, `!DestructorsSeeAll`, `!HeapInOrder` |
| `CollectsAllGarbage` | `BerryHeap!CollectsAllGarbage`, an action property |
| `BlocksApart` | `BerryPools!BlocksApart`, `!UsageIsInUse` |
| `EqualMeansSameText` | `BerryStrings!EqualMeansSameText`, `!TableInOrder` |
| `StackAsPushed` | `BerryVector!StackAsPushed` |
| `ListAsMeant` | `BerryList!ListAsMeant`, `!ReadsAsMeant`, `!LoopSeesAll` |
| `MapAsMeant` | `BerryMap!FindsWhatWasPut`, `!ChainsInOrder`, `!WalksEnd`, `!WalkSeesAll` |
| `LoadsExactlyJson`, `DumpLoads` | `BerryJson!LoadsExactlyJson`; `!DumpLoads`, `!WrittenAsCounted` |
| `TokensAsSpelled`, `StringsAsMeant` | `BerryLexer!TokensAreLongest`, `!StopsOnlyForCause`, `!LinesCounted`; `!ShownReadsBack`, `!FStringsAsMeant` |
| `ExitStatusTells`, `CannedInTurn` | `CxlRun!ExitStatusTells`, `!ArenaCounted`; `!CannedInTurn` |
| `SentPortsHaveShare` | `EpicCharging!SentPortsHaveShare` |

The operators named `X_Something` next to a definition `X` are its mutants:
the same code with a plausible bug. They show that the properties can fail.

## Runs

| Run | What it asks | Bounds |
|---|---|---|
| `ScriptVmAll` | With everything a script can do and two objects that compete for the slot: types, the slot and the VMs agree, no stale error frame, the advisory is this tick's, the slot specification is implemented | two objects (symmetric), budget 1, one request, one try block per activation, two objects with a destructor |
| `ScriptVmEnds` | Without try blocks every call ends, destructors that loop included, and no tick over budget is a success | budget 2, two objects with a destructor |
| `TimeoutLoop` | *violated:* with try blocks, a call may go on for ever | budget 1 |
| `ScriptAborts` | *violated:* a script can end the process | one object with a destructor |
| `StuckCollector` | *violated:* after a successful tick the garbage is gone | one object with a destructor |
| `ProviderAnswered` | In three worlds: the record keeps up with a flood, online means heard of, the counters add up and wrap; a lone plugin's page shows one of its decisions; on a quick network it is never refused, and an older report never replaces a newer | clock to 9, poll interval 5, delays of 3 and 6, rate limit 2, offline after 5, counters modulo 4 |
| `ProviderRetries` | *violated:* only a rejected key ends the plugin | alone, delay 1 |
| `SmartcarFollows` | The report is wrong only after a lost answer, repeated in time, never with a rejected token; with all of the environment's mischief, a steady headroom brings the car to the right state, again and again | `reassert_s` of 2 ticks, tokens of 0 or 3 |
| `SmartcarLostAnswer` | *violated:* the report names the last command taken | as above |
| `BerryRuns` | Each of some 2100 scripts, compiled and run under every sequence of answers, shows and ends with what it means; handlers, registers and upvalues stay in order; it ends; and before its first instruction, its code is `Legal` (`TypeOK`) | two free answers per run; a stack of 50 places and 10 above each call, as in `berry_conf.h` |
| `BerryMiscompiles` | *violated:* five scripts do what they say | as above |
| `BerryParts` | Each data structure, the lexer, json, the runner and `epiccharging.be` behave as their callers are promised | below |

Why the bounds suffice.

*Host, plugin, smartcar.* A budget of 1 or 2 heartbeats has the cases "not yet",
"at" and "past"; `m_heartbeats` stops at the budget plus 2 because the code only
compares it with the budget. One try block per activation tells "a frame of
mine" from "none", and destructor, script and `be_pcall()` still nest three
deep. Two instances allow a destructor to throw with another still to come.
The provider's clock covers one poll and its answer, a second poll that overtakes
it (a delay of 6 with an interval of 5; 3 is the longest that is `Timely`), four
rate-limit intervals, and an offline limit that runs out. `Smartcar` has no cut-off: ages and lives are clamped at the values
the script compares them with, so its state space is the whole one.

*Scripts of `BerryRuns`.* They are built by construct: expressions of two
operators over `&& || ! == + -`, the ternary and calls, with operands in a local
variable, an upvalue or a global, as a condition, a value or an argument;
assignments of every kind to every kind of place; bodies that declare and
perhaps capture a variable and perhaps leave by `break`, `continue`, `return`
or `raise`, inside two of `do`, `while`, `for`, `try` and a function; each
operation that can fail, handled by name, by another name, by any handler, in
the caller, or not; a class, one that inherits from it and one from that, with
and without constructors, used in every way; rest parameters, recursion, lists
and maps. Two nestings are what the compiler's bookkeeping needs to go wrong:
all known errors show at that depth.

*`BerryParts`.* Two bytes objects, up to 7 bytes (the cap), three calls: a
buffer can be shared, moved and freed. Three objects on the heap and five steps
of the script, one inside a destructor: a cycle with an observer, a new object
while one is half built. Three blocks in pools of two 16-byte slots and one
32-byte slot, on a heap that holds only some of them: each size class is left
and entered, and fails. Three short strings, two of one hash, tables of one to
four lists. A stack of up to 5 cells over capacities 2, 4 and 6, two nested try
blocks. Two lists, three calls at indexes from both ends and past them. Four
keys, two to four of which share a slot, seven calls. JSON documents of each type
with one byte changed, lost or added; every source text of up to three of 14
characters, every f-string of up to three of 8, and chosen longer ones. Two
ticks of the runner with four responses files; an arena of 6 and a unit's of 4.
Four ports, one without a name and two with their own maximum, a page of 3, a
cap of 3 calls, two ticks.

Deadlock is checked where the system cannot stop. It is switched off in the
provider's runs (bounded clock, and the plugin may stop), in the script runs
whose features let the process abort, and where a program ends or the number of
calls is bounded.

## Fairness

`DlmScriptVm!FairSpec`: weak fairness of `HostStep`, the C code between two
points where script code runs (it has no unbounded loop of its own), and strong
fairness of `Heartbeat`: a script that is running is executing instructions, and
the VM counts them over all of its code, so that short interruptions do not
postpone the hook for ever. Nothing is assumed of the script itself; that is
the point of `CallsEnd`. HTTP calls are taken to return (the runner gives curl a
timeout).

`BerryProgram!Script`: weak fairness of `Instruction`. A call of the interpreter
goes on until it returns. `Ends` then says that the code of a program which
ends, ends.

`Smartcar!FairSpec`: weak fairness of the script's steps, of the reload and of
the clock being set, since the unit keeps calling; and, as an assumption on the
environment, strong fairness of a granted token, an accepted command and a late
command arriving: a cloud asked again and again does not fail every time.

The other specifications state safety only, and have no fairness.

## What is proved

All theorems are proved for arbitrary constants satisfying the modules' named
assumptions (`DlmScriptVmAssumption`, `DlmLogicAssumption`,
`DlmProviderAssumption`, `TextAssumption`, `SmartcarAssumption`; and for the
parts `NodesAreNumbered`, `StringsConstants`, `PoolsConstants`,
`VectorConstants`, `ListConstants`, `MapConstants`, `RunConstants` and
`SharesAreWhole`, together `PartsConstants`, which TLC evaluates with the
constants of `BerryParts`): any number of objects, any budget, limits, delays,
sizes, texts, keys and scripts; for the interpreter, `StackAssumption`. They say what the types and tables of the source
say: sizes, counts and hash codes are natural numbers, a text is short or long, a
constant in the table has the hash of its text, the depth of a stack and the
number of keys in a map are within what `be_nextsize()` reaches.

`DlmScriptVm_proofs`
- `TypesCorrect`, from `TypeInv`: the types alone are not inductive, because a
  call in progress must have an object (`CallHasSelf`).
- `FramesCorrect`: no stale error frame. `NoStaleFrames` is inductive, given the
  types: each way out of an activation drops the frames it owned.
- `OneActiveCorrect` and `Implementation`, from `SlotInv`: every stage in which
  the VM exists belongs to the object that owns it (`CallOwnsVm`), and each
  stage belongs to one kind of call (`StageOfCall`). Without them a step of
  `tick()` could not be told from one of `load()`. `Implementation` maps each
  action to a slot step or a stutter.
- `AdvisoryCorrect`, from `AdvisoryInv`: the flag and the report are set together
  and cleared together, and only the object under call changes either.
- `NeverAbortsPlain`: under `Plain` (no destructors, exception objects or
  exhaustion) the process never aborts, whatever is raised or caught. The
  invariant is that there is no instance with a destructor and no exception
  object, so that bytecode runs in the stage `script` only, which is `be_pcall()`.
- `BudgetHolds`, from `BudgetInv`: without try blocks a successful tick is within
  budget, since the first heartbeat past it ends the call.

`DlmProvider_proofs`
- `TypesCorrect`: every variable stays in its domain. The times are not
  inductive alone: that a record's time is not in the future needs the clock's
  own invariant, and the plugin's that its texts fit.
- `PageCorrect`, from `PluginInv` (whatever is on its way, stored or remembered
  by the plugin is one of its decisions, whole) and `TextAssumption`: the texts
  of `decide()` still differ once they are sanitised. Without that assumption a
  page could not tell its decisions apart.
- `CountersCorrect`, for any width of the counters: both sides of the sum wrap,
  and `OneMore` says that adding one before or after wrapping is the same.
- `SanitisedIsPlain`: what `sanitiseAction()` returns is printable and bounded,
  and keeps printable characters in place.
- `FloodCorrect` and `OnlineCorrect`, from `RecordInv`, which ties the record to
  the history: a refusal implies a stored submission less than one interval ago.
- `NeverRefused` and `PageInOrder`, from `TimelyInv`, for a plugin alone with its
  key in a world with `maxDelay + MIN_SUBMISSION_INTERVAL <= INTERVAL` (the
  condition is part of the properties): only the latest poll can be on its way,
  and what is stored was stored no later than `maxDelay` after the poll before
  it. With the shipped numbers (one poll per second or slower, 200 ms) this
  gives the delay up to which a plugin may rely on never being refused.

`Scripts_proofs`, for `smartcar.be` (for the interpreter, see below):
- `RejectionCorrect`, from `TokenInv`; `ReportCorrect`, from `MemoryInv` (what is
  remembered as sent is the last command taken, or an answer was lost);
  `ReassertCorrect`, from `AgeInv` (`quiet` never outruns the age of `sent_at`),
  the clock being set late included.

`Inductions` holds what the proofs about data rest on. tlapm cannot instantiate
the library's induction theorems, which take an operator; but a *set* of numbers
(`SetInduction`) or of sets (`SubsetInduction`) it can, and the set of those for
which a statement is true serves as well as the statement. From them follow that
a function may be defined by recursion (`RecursionExists`, `Unfolds`), that what
each step along a sequence preserves holds at its end (`AlongPositions`), that a
finite set of numbers has a least and a largest (`Extremes`), and what a sum over
a finite set does when one term changes or is bounded (`SumOf...`).

`BerryHeap_proofs`, the collector, the strings and the memory:
- `HeapSafe` and `GarbageCollected`, from `HeapInv`, which the three properties
  are far from being: while marking, no dark object refers to a white one and what
  is gray is in the gray list (`TriColour`); what is coloured could be reached when
  the collection began (`LiveIsThere`); while destructors run, what lives leads to
  nothing that will be deleted, but for what a destructor has taken hold of
  (`LiveIsClosed`, `lost`); the walk over the list leaves no instance behind that it
  should have called (`WalkLeavesNone`); and from no root does one come to an object
  that is gone (`NothingGone`). That what can be reached is a fixed point of the
  references, and the least, is proved by induction over sets of objects.
- `StringsCorrect`, from `StringsInv`: while no new string has been lost to a
  resize (`astray`), each bucket has no string twice and holds exactly the short
  strings hashed there, their texts all differ and are none of the constants', and
  whatever is held exists. The parts of a resize and of a sweep (every bucket
  rebuilt, every dead string taken out) each keep this form (`TableIs`).
- `PoolsCorrect`, from `PoolsInv`, which says what the pools, the heap and `usage`
  are in terms of the blocks handed out (`Accounts`), and that garbage belongs to
  users that have a block. Every path of `be_realloc()` keeps it: allocation, the
  retry after a collection, growing and shrinking within a size class and from
  one to another, and giving empty pools back.

`BerryStorage_proofs`, stacks, lists, maps and bytes objects:
- `StackCorrect`, from `StackInv`: the cells in use are what was pushed
  (`Faithful`), and what an outer try block keeps begins what an inner one keeps
  (`Nested`), without which the stack after two exceptions in a row is not known.
- `ListsCorrect`, from `ListInv`: each list's cells in use are what its calls
  made of it, and the part a for loop has seen is the beginning of it. Insertion
  and removal move a tail by one cell, in the order in which the code moves it.
- `MapsCorrect`, from `MapInv`. What can be found under each key is what was put
  there (`Stores`), given that the block is in order (`IsMap`): each key is there
  once; a key that is not at its main slot is linked to by another of the same
  main slot, where one of them is at home, and nothing links to that one
  (`Chains`); no links go in a circle, not even those `setnil()` leaves in empty
  slots, along which a search may start (`Falls`: some ranking goes down along
  every link); and the slots above `lastfree` are in use, so that with fewer keys
  than slots `nextfree()` finds one. Each case of `insert()` and `be_map_remove()`
  keeps this: into an empty main slot, behind a key at home, in place of one that
  is not; the only one of a chain, the first, a later one. `resize()` inserts each
  key into a block in order, whose keys are those it has come past (`MovedOver`).
  A loop has seen the keys up to its slot (`WalkSees`).
- `BytesCorrect`, from `BytesInv`, for constants that fit together
  (`BytesConstants`: a finite set of objects, sizes that are numbers, texts of
  bytes). Each buffer is a row of at most `BytesMax` bytes; an object that has one
  knows its size and holds in it what its calls made (`want`), and no other owns
  it; a view reaches no further than the buffer it looks at, while that one is
  there; and a buffer nobody owns is the work of an object that the code has lost
  track of (`spoilt`). `BuffersOwned` alone says nothing about views, through
  which bytes are written too. A call is proved from what it does to a record of
  attributes: that `bytes_realloc()` keeps the bytes that fit, `bytes_resize()`
  all that are in use, that appending is all or nothing, and that what a new
  length uncovers is zero whatever the heap left there (`Unwritten`).

`Runner_proofs`:
- `StatusCorrect`, from `RunInv`: while nothing has failed, the worst peak and
  the peak of the call under way are together the highest the arena has been
  (`PeakKnown`), which holds because each call starts its peak at what is in
  use; and a failure is known by the exit status or a script still to be
  unloaded (`Control`).
- `ArenaCorrect`: `used` is the sum of the sizes of the blocks.
- `AnsweredInTurn`: the counter of a canned response is the number of requests
  that were alike, so that the n-th gets the n-th response that matches.
- `SharesAreSent`, from `EpicInv`: the share times the number of ports is the figure
  the tick has read, and no more ports are counted as sent than have been set to
  their share; a sum of limits, each at most the share, is then at most the figure.

`Scripts_proofs`, the interpreter, for any programs whose code is legal
(`AllLegal`), any stack and any answers of the host. `ProgramsAreTyped`,
`HandlersBelong` and `RegistersReserved` are the invariants `TypeOK`,
`HandlersBelongToCalls` and `RegistersAreReserved` as long as `unclosed` is
false, and `ReturnsClose` is `ReturnClosesUpvalues`. All four follow from `IInv`,
which has to say of the whole machine what they say of the running call:
- every call, not the last alone, has its function in the stack, its registers
  above it and two places more for an exception, and is at an instruction that
  can be reached (`FrameOK`); otherwise nothing is known after a return or a throw;
- a later call lies above what an earlier one has captured or would be cut back
  to (`Apart`);
- the handlers of each call are exactly the try blocks around the place where it
  is, in their order, and those of earlier calls come first (`HandlersOK`), so
  that the last one is what `be_throw()` needs;
- an open upvalue is of a variable in scope where some call is (`InScope`), every
  closure has the upvalues its code uses (`Complete`), and values refer to
  closures, classes and objects that exist (`Solid`), a class that awaits its
  `CLASS` instruction excepted (`Pending`).

A step is proved by what it changes: loads, calls, returns, throws, closures,
classes and stores into the heap each keep the parts they do not touch (lemmas on
what stays in order when the stack, the heap or the upvalues grow), and what is
known behind the instruction follows from `LegalStep`.

Two premises are not proved. *Legal code:* the compiler is written with RECURSIVE
operators; `TypeOK` checks `Legal` for each of the programs of `BerryRuns`
instead, at its start. It is no theorem of the compiler: a `return` in a loop,
above the first closure that captures a variable from outside the loop, is
compiled without a `CLOSE` (`be_code.c:816`), and in the second round leaves the
variable open. The attempt to prove `ReturnClosesUpvalues` found this one; it is
the fifth script of `BerryMiscompiles`. *`~unclosed`:* past one of the two
known errors that set it (below), an upvalue reads and writes a register that
belongs to something else, and nothing general can be said. The run checks the
invariants without this premise for its programs.

`Parts_proofs` states the properties of the run `BerryParts` for the whole of
`PartsSpec`: each part, seen alone, makes a step of its own or a stutter, and
therefore has the invariants above (`HeapCorrect`, `AllGarbageGoes`,
`StringsAreTheirTexts`, `MemoryCorrect`, `FramesAsPushed`, `ListsAsMeant`,
`MapsAsPut`, `BytesAreWanted`, `StatusAndArena`, `ResponsesInTurn`, `PortsHaveShare`).

Only model-checked:
- the liveness properties `CallsEnd`, `CarFollows` and `Ends`: the prover does not
  handle liveness under fairness, or ENABLED;
- `RunsAsWritten`, json and the lexer: what they say is about RECURSIVE operators
  over programs and texts, and a module that reaches one cannot have theorems;
- `ReadsBackAsWritten`: that hex, base64, integers and bit fields in bytes objects
  read back. It is arithmetic with powers of two, about which the provers know
  nothing.

## Where code and comments disagree

Each is a run that TLC shows violated, and a finding in `PROJECT.json`.

1. `TimeoutLoop`. `DlmScriptVm.h:22-24` promises that a looping script costs one
   tick. `timeout_error` is an ordinary exception: `while true try ... except ..
   end end` handles each one, the next comes 8,192 instructions later, and the
   tick never returns. For the same reason a tick over budget that handled the
   exception is reported as a success.
2. `ScriptAborts`. `tick()` "never throws" (`DlmScriptVm.h:108`), but it calls
   into the VM without an error frame: `be_getglobal()` (may allocate),
   `be_tostring()` in `captureError()`, and the collections (destructors). There
   a throw reaches `abort()`.
3. `StuckCollector`. A destructor left by an exception leaves `GC_HALT` set, and
   the collection after each later tick, which the comment in `tick()` relies
   on, does nothing.
4. `ProviderRetries`. The reference plugin means to "just try again next tick",
   but `RemoteDisconnected` and `ConnectionResetError` are not among the
   exceptions it catches.
5. `SmartcarLostAnswer`. A failed command is "not recorded as sent, so the next
   tick tries again"; if the headroom has changed back by then, the old
   `sent_charge` matches and nothing is sent, although the cloud took the
   command.
6. `BerryMiscompiles`, five errors of the compiler and the interpreter:
   `b = b + a` followed by `a = b` loses the sum (`be_code.c:94`);
   `(b || a) == true` compares `a` alone (`be_code.c:558`); `break` and
   `continue` leave a block without closing its upvalues (`be_parser.c:1356`);
   an exception does the same (`be_exec.c:480`), and so does a `return` coded
   before the closure that captures the variable (`be_code.c:816`).
   `BerryRuns` checks everything outside these: `RunsAsWritten` exempts exactly
   the runs in which `harmed` or `unclosed` recorded one of the first four; no
   program of the run has the fifth, which `Legal` excludes.

Seen while modelling, with no run of their own; the properties state what the
code does, or exempt the case by name:

- `DlmLogic.h:122-123` calls `lastSubmissionUs` the time "of the last submission
  of any kind", while `record()` leaves it alone on a refused one.
- `smartcar.be` never repeats a command while `epoch` stays 0; with an invalid
  headroom figure it sends no stop.
- `be_load_unicode()` writes U+007F with two bytes and U+07FF with three: the
  comparisons at `be_lexer.c:222` and `:225` are one short of the ranges their
  comments name (`AtRangeEnd`).
- The lexer reads `1..e5` as a range and an exponent without a number
  (`Plain`), and reads the blanks after a string literal with it, so that a
  parenthesis on the next line is a call, which `be_parser.c:914` means to tell
  apart.
- A destructor that stores a new or a dying object where it can be reached leaves
  a pointer to what `delete_white()` frees next (`lost` in `BerryHeap`).
- `newshortstr()` may collect when it resizes the table, before anyone holds the
  new string (`astray` in `BerryStrings`).
- `bytes.add()` with a bad argument, and a buffer appended to itself, leave the
  object with an old pointer; the base64 encoder writes its terminator past a
  buffer of the largest size (`spoilt` in `BerryBytes`).

## Not modelled, and why

- The firmware: not in the repository. Its route, script task and clock appear
  as external definitions with the behaviour the code here relies on.
- `log`, `secret`, `telemetry`: no state of the host changes.
- Language: reals, ranges as objects, strings in operators, operator methods of
  objects, named types and strict mode, named globals, unpacked imports. Reals
  are out of TLC's reach; the others add opcodes and no control.
- The limit of the value stack (`BE_STACK_TOTAL_MAX`): in `BerryVm` it grows as
  far as calls need; the growth of the other stacks is `BerryVector`.
- A constructor that is no function: `CallClass` takes `init` to be a closure.
- The string, math and other libraries, and the `tostring` of containers:
  functions without state. Floats and 24-bit integers in bytes objects count
  by their width.
- Bytecode saver and loader, solidify, debug and observability code: switched off
  in `berry_conf.h`, or without effect on the rest.
- `minimal.be` (one stateless call per tick), `SafetyTypes.h` (names), the
  command line, printing and curl of the runner, telemetry formatting.
- An instance created by a destructor, whose own `deinit` is never called, in
  `DlmScriptVm` (it is in `BerryHeap`).

## What is left to do

1. That the compiler's code is `Legal` for every program, short of such a `return`: an induction over programs, and therefore for the compiler written
   without RECURSIVE operators.
2. The limit of the value stack, with the `runtime_error` it raises in the
   middle of a call.
3. The runner's arena under the real allocator: `BerryPools` on `CxlRun`'s
   `Malloc`, `Realloc` and `Free`.
