------------------------------- MODULE CxlRun --------------------------------
(***************************************************************************)
(* src/runner/main.cpp: the desktop runner.  It is the caller of one       *)
(* DlmScriptVm, seen here through what the slot promises (DlmScriptSlot),  *)
(* the arena that VM allocates from, and the host that answers its         *)
(* requests from a responses file.  Printing, options and telemetry are    *)
(* left out.                                                               *)
(***************************************************************************)
EXTENDS Integers, Sequences, FiniteSets, SequencesExt, FiniteSetsExt

CONSTANTS
    Vm, NoVm, Interval, DefaultInterval, MaxHttp,     \* of the slot
    Ticks,               \* --ticks
    Files,               \* responses files: sequences of lines
    Requests,            \* <<method, url>> of a request
    Pointers, AllocSizes,
    HOST_ARENA_CAP, ARENA_BYTES,
    MaxArenaOps          \* bound on the allocations of one call

RunConstants ==
    /\ Ticks \in Nat /\ ARENA_BYTES \in Nat /\ HOST_ARENA_CAP \in Nat
    /\ \A n \in AllocSizes : n \in Nat
    /\ \A lines \in Files : Len(lines) \in Nat /\ lines = [i \in 1 .. Len(lines) |-> lines[i]]

VARIABLES
    loaded, interval, op, self, result,               \* the slot
    stage,               \* where main() is
    tick, exitCode, worstPeak, epoch,
    blocks, used, peak,  \* the arena: size by pointer, g_used, g_peak
    canned, answered,    \* the responses, and <<request, block>> so far
    arenaOps, failed, highest

slotVars  == <<loaded, interval, op, self, result>>
mainVars  == <<stage, tick, exitCode, worstPeak, epoch>>
arenaVars == <<blocks, used, peak, arenaOps, highest>>
runVars   == <<slotVars, mainVars, arenaVars, canned, answered, failed>>

Slot == INSTANCE DlmScriptSlot WITH Vms <- {Vm}

-----------------------------------------------------------------------------
(* readResponses().  A line is a request, a status or some other text.       *)

NewBlock(line) == [for |-> line.for, status |-> 0, body |-> <<>>, used |-> FALSE]

ReadLine(file, line) ==
    LET n == Len(file.canned)
        hasStatus == n > 0 /\ file.canned[n].status # 0
    IN  CASE line.is = "request" ->
               [file EXCEPT !.canned = Append(@, NewBlock(line))]
          [] line.is = "status" /\ n > 0 /\ ~hasStatus ->
               [file EXCEPT !.canned[n].status = line.status]
          [] line.is # "request" /\ hasStatus ->
               [file EXCEPT !.canned[n].body = Append(@, line)]
          [] line.is = "blank" /\ ~hasStatus -> file
          [] OTHER -> [file EXCEPT !.ok = FALSE]

ReadResponses(lines) ==
    LET read[n \in 0 .. Len(lines)] ==
          IF n = 0 THEN [canned |-> <<>>, ok |-> TRUE]
          ELSE LET file == read[n - 1]
               IN  IF file.ok THEN ReadLine(file, lines[n]) ELSE file
    IN  read[Len(lines)]

(* cannedHttp(): the first unused block that matches, else the last one.     *)
Matches(block, request) ==
    block.for[1] = request[1] /\ IsPrefix(block.for[2], request[2])

Matching(request) == {k \in 1..Len(canned) : Matches(canned[k], request)}
Unused(request)   == {k \in Matching(request) : ~canned[k].used}

Pick_FirstAlways(request) ==         \* Mutant: the first repeats, not the last
    IF Unused(request) # {} THEN Min(Unused(request)) ELSE Min(Matching(request))

Pick(request) ==
    IF Unused(request) # {} THEN Min(Unused(request)) ELSE Max(Matching(request))

CannedHttp(request) ==
    IF Matching(request) = {}
    THEN canned' = canned /\ answered' = Append(answered, <<request, 0>>)
    ELSE LET k == Pick(request)
         IN  /\ canned' = [canned EXCEPT ![k].used = TRUE]
             /\ answered' = Append(answered, <<request, k>>)

-----------------------------------------------------------------------------
(* The arena.                                                                *)

Without(p) == [q \in DOMAIN blocks \ {p} |-> blocks[q]]
With(f, p, n) == [q \in DOMAIN f \cup {p} |-> IF q = p THEN n ELSE f[q]]
Larger(a, b) == IF a > b THEN a ELSE b

ArenaUse(f, now, top) ==
    /\ op # "none" /\ arenaOps < MaxArenaOps /\ arenaOps' = arenaOps + 1
    /\ blocks' = f /\ used' = now /\ peak' = top
    /\ highest' = IF op = "unload" THEN highest ELSE Larger(highest, top)
    /\ UNCHANGED <<slotVars, mainVars, canned, answered, failed>>

Malloc(p, n) ==
    /\ p \notin DOMAIN blocks /\ used + n <= HOST_ARENA_CAP
    /\ ArenaUse(With(blocks, p, n), used + n, Larger(peak, used + n))

Free(p) ==
    p \in DOMAIN blocks /\ ArenaUse(Without(p), used - blocks[p], peak)

(* A block that is resized exists twice for a moment: that is what the peak  *)
(* counts, and what must fit.  q is where the new one is.                    *)

Realloc(p, q, n) ==
    /\ p \in DOMAIN blocks /\ q \notin DOMAIN blocks
    /\ used - blocks[p] + n <= HOST_ARENA_CAP
    /\ used + n <= HOST_ARENA_CAP
    /\ ArenaUse(With(Without(p), q, n), used + n - blocks[p], Larger(peak, used + n))

-----------------------------------------------------------------------------
(* main(): the loop over the ticks.                                          *)

(* MaxHttp bounds the requests of the whole run, and so those of a tick.     *)
Results(o) == [op : {o}, ok : BOOLEAN, advisory : [present : BOOLEAN],
               httpCalls : {Len(answered)}]

RunInit ==
    /\ \E lines \in Files :
         LET file == ReadResponses(lines)
         IN  /\ canned = file.canned
             /\ stage = IF file.ok THEN "loop" ELSE "exited"
             /\ exitCode = IF file.ok THEN 0 ELSE 1
             /\ failed = ~file.ok
    /\ loaded = {} /\ interval = [v \in {Vm} |-> DefaultInterval]
    /\ op = "none" /\ self = NoVm /\ result = [op |-> "none"]
    /\ tick = 1 /\ worstPeak = 0 /\ epoch = 0
    /\ blocks = <<>> /\ used = 0 /\ peak = 0 /\ arenaOps = 0 /\ highest = 0
    /\ answered = <<>>

CallVm(o) == result' = [op |-> "none"] /\ Slot!Call(Vm, o) /\ arenaOps' = 0

StartLoad ==
    /\ stage = "loop" /\ op = "none" /\ tick <= Ticks /\ loaded = {}
    /\ CallVm("load") /\ peak' = used
    /\ UNCHANGED <<mainVars, blocks, used, highest, canned, answered, failed>>

InsideLoad ==
    /\ Slot!Replace \/ Slot!Acquire
    /\ UNCHANGED <<mainVars, arenaVars, canned, answered, failed>>

LoadReturns_NoPeak ==                \* Mutant: the load's peak is forgotten
    /\ op = "load" /\ result' \in Results("load") /\ Slot!LoadReturns
    /\ IF result'.ok THEN UNCHANGED <<stage, exitCode, failed>>
       ELSE stage' = "end" /\ exitCode' = 1 /\ failed' = TRUE
    /\ UNCHANGED <<tick, worstPeak, epoch, arenaVars, canned, answered>>

LoadReturns ==
    /\ op = "load" /\ result' \in Results("load") /\ Slot!LoadReturns
    /\ IF result'.ok
       THEN worstPeak' = Larger(worstPeak, peak) /\ UNCHANGED <<stage, exitCode, failed>>
       ELSE stage' = "end" /\ exitCode' = 1 /\ failed' = TRUE /\ UNCHANGED worstPeak
    /\ UNCHANGED <<tick, epoch, arenaVars, canned, answered>>

StartTick ==
    /\ stage = "loop" /\ op = "none" /\ tick <= Ticks /\ loaded # {}
    /\ CallVm("tick") /\ peak' = used
    /\ UNCHANGED <<mainVars, blocks, used, highest, canned, answered, failed>>

Request ==
    /\ op = "tick" /\ Len(answered) < MaxHttp
    /\ \E r \in Requests : CannedHttp(r)
    /\ UNCHANGED <<slotVars, mainVars, arenaVars, failed>>

(* A tick that fails is followed by unload(); the next round loads again.    *)
TickReturns ==
    /\ op = "tick" /\ result' \in Results("tick") /\ Slot!TickReturns
    /\ worstPeak' = Larger(worstPeak, peak)
    /\ IF result'.ok
       THEN /\ tick' = tick + 1 /\ epoch' = epoch + interval[Vm]
            /\ UNCHANGED <<stage, failed>>
       ELSE stage' = "unload" /\ failed' = TRUE /\ UNCHANGED <<tick, epoch>>
    /\ UNCHANGED <<exitCode, arenaVars, canned, answered>>

StartUnload ==
    /\ op = "none" /\ loaded # {}
    /\ stage = "unload" \/ stage = "end"
    /\ CallVm("unload")
    /\ UNCHANGED <<mainVars, blocks, used, peak, highest, canned, answered, failed>>

UnloadReturns ==
    /\ result' \in Results("unload") /\ Slot!UnloadReturns
    /\ IF stage = "unload"
       THEN /\ exitCode' = 1 /\ tick' = tick + 1 /\ stage' = "loop"
            /\ epoch' = epoch + DefaultInterval
       ELSE UNCHANGED <<exitCode, tick, stage, epoch>>
    /\ UNCHANGED <<worstPeak, arenaVars, canned, answered, failed>>

LoopEnds ==
    /\ stage = "loop" /\ op = "none" /\ tick > Ticks
    /\ stage' = "end"
    /\ UNCHANGED <<slotVars, tick, exitCode, worstPeak, epoch, arenaVars, canned, answered, failed>>

Exit ==
    /\ stage = "end" /\ op = "none" /\ loaded = {}
    /\ stage' = "exited"
    /\ exitCode' = IF worstPeak > ARENA_BYTES /\ exitCode = 0 THEN 2 ELSE exitCode
    /\ UNCHANGED <<slotVars, tick, worstPeak, epoch, arenaVars, canned, answered, failed>>

RunNext ==
    \/ StartLoad \/ InsideLoad \/ LoadReturns
    \/ StartTick \/ Request \/ TickReturns
    \/ StartUnload \/ UnloadReturns \/ LoopEnds \/ Exit
    \/ \E p \in Pointers, n \in AllocSizes :
         Malloc(p, n) \/ \E q \in Pointers : Realloc(p, q, n)
    \/ \E p \in Pointers : Free(p)

RunSpec == RunInit /\ [][RunNext]_runVars

-----------------------------------------------------------------------------
(* main.cpp:15: "Exit status: 0 all good, 1 the script failed to load or a   *)
(* tick errored, 2 it ran but its memory peak is over what the unit          *)
(* guarantees".  A run of exit status 0 or 2 made every tick it was asked    *)
(* for, and a peak above the unit's arena is never passed over in silence,   *)
(* whichever call it was reached in and however the script was reloaded.     *)
ExitStatusTells ==
    stage = "exited" =>
        /\ exitCode = 1 <=> failed
        /\ exitCode = 2 <=> ~failed /\ highest > ARENA_BYTES
        /\ ~failed => tick = Ticks + 1

(* The arena counts what is allocated, block by block, and never lets more   *)
(* than its cap be in use, whatever is resized, freed or left behind by a    *)
(* script that failed.                                                       *)
ArenaCounted ==
    /\ used = MapThenSumSet(LAMBDA p : blocks[p], DOMAIN blocks)
    /\ used <= peak /\ peak <= HOST_ARENA_CAP

(* main.cpp:258: "A request takes the first unused block whose method        *)
(* matches and whose prefix starts its URL; once all matching blocks are     *)
(* used, the last repeats."  For requests that are all alike, the n-th is    *)
(* answered by the n-th block that matches it, or by the last.               *)
CannedInTurn ==
    \A n \in 1..Len(answered) :
        LET mine == answered[n][1]
            all  == Matching(mine)
            upTo == {k \in all : k <= answered[n][2]}
        IN  (\A k \in 1..n : answered[k][1] = mine) =>
                IF all = {} THEN answered[n][2] = 0
                ELSE /\ answered[n][2] \in all
                     /\ Cardinality(upTo) = Min({n, Cardinality(all)})
=============================================================================
