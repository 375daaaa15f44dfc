-------------------------------- MODULE Parts --------------------------------
(***************************************************************************)
(* The parts of Berry that have a module of their own, the runner and the  *)
(* script epiccharging.be, side by side.  They share no variable, so one   *)
(* of them runs while the others stay where they begin.                    *)
(***************************************************************************)
EXTENDS Integers, Sequences, FiniteSets

CONSTANTS
    Objects, BytesMax, BYTES_DEFAULT_SIZE, BYTES_HEADROOM, MinSize, KeepSize, Unwritten,
    Numbers, Widths, Offsets, Counts, Texts, MaxCalls,
    Nodes, MaxStack, MaxSteps, MaxInDestructor,
    Blocks, Sizes, POOL16_SLOTS, POOL32_SLOTS, PoolHead, HeapBytes,
    ShortTexts, LongTexts, Hash, Consts, MaxStrings, MinTable, LoadFactor,
    Items, MaxStk, MaxBlocks, Zero, Lies,
    Lists, Elements, NilItem, Junk, Unsaid, IndexError, Indexes, Contents, MaxListCalls,
    Keys, NoKey, HashOf, MapValues, NoValue, MaxMapCalls,
    Vm, NoVm, Interval, DefaultInterval, MaxHttp, Ticks, Files, Requests,
    Pointers, AllocSizes, HOST_ARENA_CAP, ARENA_BYTES, MaxArenaOps,
    Ports, MaxPower, Nameless, Headrooms, Unlimited, PageSize, MaxHttpCalls,
    MaxTicks

VARIABLES
    part,                   \* the one that runs
    mem, obj, want, spoilt, calls,
    type, refs, gcList, marked, fixed, gray, stack, globals, halted, forced,
    phase, newborn, cursor, steps, inner, destructed, lost, live,
    pool16, pool32, hostSize, usage, held, garbage,
    strTable, strCount, strs, isLong, strHeld, strFixed, astray,
    stk, saved, pushed,
    vec, meant, loop, listCalls,
    map, put, walk, mapCalls,
    loaded, interval, op, self, result, stage, tick, exitCode, worstPeak, epoch,
    blocks, used, peak, canned, answered, arenaOps, failed, highest,
    wait, ports, share, sent, listed, httpCalls, ticksMade, figure, said, limit

bytesVars  == <<mem, obj, want, spoilt, calls>>
heapVars   == <<type, refs, gcList, marked, fixed, gray, stack, globals, halted, forced,
                phase, newborn, cursor, steps, inner, destructed, lost, live>>
poolVars   == <<pool16, pool32, hostSize, usage, held, garbage>>
strVars    == <<strTable, strCount, strs, isLong, strHeld, strFixed, astray>>
vectorVars == <<stk, saved, pushed>>
listVars   == <<vec, meant, loop, listCalls>>
mapVars    == <<map, put, walk, mapCalls>>
runVars    == <<loaded, interval, op, self, result, stage, tick, exitCode, worstPeak,
                epoch, blocks, used, peak, canned, answered, arenaOps, failed, highest>>
epicVars   == <<wait, ports, share, sent, listed, httpCalls, ticksMade, figure, said,
                limit>>
partsVars == <<part, bytesVars, heapVars, poolVars, strVars, vectorVars, listVars,
               mapVars, runVars, epicVars>>

Heap     == INSTANCE BerryHeap_proofs
Storage  == INSTANCE BerryStorage_proofs
Runner   == INSTANCE Runner_proofs

\* What the parts take for granted of their constants.
ASSUME PartsConstants ==
    /\ Heap!NodesAreNumbered /\ Heap!StringsConstants /\ Heap!PoolsConstants
    /\ Storage!VectorConstants /\ Storage!ListConstants /\ Storage!MapConstants
    /\ Storage!BytesConstants
    /\ Runner!RunConstants /\ Runner!SharesAreWhole

\* (MCParts adds "json" and "lexer".)
PartNames == {"bytes", "heap", "pools", "strings", "vector", "list", "map", "json",
              "lexer", "run", "epic"}

\* Of the several initial states of a part that does not run, one.
PartsInit ==
    /\ part \in PartNames
    /\ Storage!BytesInit /\ Heap!Init /\ Heap!StringsInit /\ Heap!PoolsInit
    /\ Storage!VectorInit /\ Storage!MapInit
    /\ Storage!ListInit /\ (part # "list" => meant[1] = <<>>)
    /\ Runner!RunInit   /\ (part # "run" => canned = <<>> /\ stage = "loop")
    /\ Runner!EpicInit

\* One part runs, the others stay.
Only(name) ==
    /\ part = name /\ UNCHANGED part
    /\ IF name = "bytes" THEN TRUE ELSE UNCHANGED bytesVars
    /\ IF name = "heap" THEN TRUE ELSE UNCHANGED heapVars
    /\ IF name = "pools" THEN TRUE ELSE UNCHANGED poolVars
    /\ IF name = "strings" THEN TRUE ELSE UNCHANGED strVars
    /\ IF name = "vector" THEN TRUE ELSE UNCHANGED vectorVars
    /\ IF name = "list" THEN TRUE ELSE UNCHANGED listVars
    /\ IF name = "map" THEN TRUE ELSE UNCHANGED mapVars
    /\ IF name = "run" THEN TRUE ELSE UNCHANGED runVars
    /\ IF name = "epic" THEN TRUE ELSE UNCHANGED epicVars

PartsNext ==
    \/ Only("bytes")   /\ Storage!BytesNext
    \/ Only("heap")    /\ Heap!Next
    \/ Only("pools")   /\ Heap!PoolsNext
    \/ Only("strings") /\ Heap!StringsNext
    \/ Only("vector")  /\ Storage!VectorNext
    \/ Only("list")    /\ Storage!ListNext
    \/ Only("map")     /\ Storage!MapNext
    \/ Only("run")     /\ Runner!RunNext
    \/ Only("epic")    /\ Runner!EpicNext

PartsSpec == PartsInit /\ [][PartsNext]_partsVars

-----------------------------------------------------------------------------
(* Properties: what the modules state, part by part.                       *)

\* Bytes objects: a buffer has one owner and is there while it is used, and each
\* object holds what the calls on it made of it.
BytesAsWanted == part = "bytes" => Storage!BuffersOwned /\ Storage!BytesAsWanted

\* Bytes objects: hex and base64 texts read back as what was written, and a
\* number from the field or the bits it was set in, its neighbours untouched.
ReadsBackAsWritten == part = "bytes" => Storage!TextsReadBack /\ Storage!NumbersReadBack

\* The collector: nothing the script or a destructor can reach is freed, and
\* lists and marks are in order between two collections.
NothingFreedEarly ==
    part = "heap" => Heap!ReachableIsKept /\ Heap!DestructorsSeeAll /\ Heap!HeapInOrder

\* The collector: a collection that no destructor disturbs leaves no garbage.
CollectsAllGarbage == Heap!CollectsAllGarbage

\* Memory: no two blocks overlap, no slot of a pool leaks, whichever allocation
\* fails, and gc.usage counts what is in use.
BlocksApart == part = "pools" => Heap!BlocksApart /\ Heap!UsageIsInUse

\* Strings: the interpreter's == is equality of texts; each short text is in the
\* table once, where it is looked for.
EqualMeansSameText ==
    part = "strings" => Heap!EqualMeansSameText /\ Heap!TableInOrder

\* Vectors: the stack of error frames holds what was pushed, also after an
\* allocation has failed and was handled.
StackAsPushed == part = "vector" => Storage!StackAsPushed

\* Lists: each is the sequence the calls made of it, items, ranges and searches
\* read what is there, and a loop over an unchanged list sees all of it.
ListAsMeant ==
    part = "list" => Storage!ListAsMeant /\ Storage!ReadsAsMeant /\ Storage!LoopSeesAll

\* Maps: a key finds the value last put under it, on the chain of its main slot;
\* no chain is a circle; a loop over an unchanged map sees every key.
MapAsMeant ==
    part = "map" => /\ Storage!FindsWhatWasPut /\ Storage!ChainsInOrder
                    /\ Storage!WalksEnd /\ Storage!WalkSeesAll

\* Runner: the exit status tells of failed ticks and of the peak of the arena,
\* which counts what is allocated.
ExitStatusTells == part = "run" => Runner!ExitStatusTells /\ Runner!ArenaCounted

\* Runner: responses are given in turn.
CannedInTurn == part = "run" => Runner!CannedInTurn

\* epiccharging.be: ports that are reported as sent have their share.
SentPortsHaveShare == part = "epic" => Runner!SentPortsHaveShare
=============================================================================
