---------------------------- MODULE Runner_proofs ----------------------------
(***************************************************************************)
(* The runner, for any script, arena, responses file and number of ticks;  *)
(* and epiccharging.be, for any cloud.                                     *)
(***************************************************************************)
EXTENDS CxlRun, EpicCharging, Inductions, SequenceTheorems, TLAPS

RunNumbers ==
    /\ tick \in Int /\ worstPeak \in Int /\ highest \in Int
    /\ used \in Int /\ peak \in Int
    /\ \A p \in DOMAIN blocks : blocks[p] \in Nat

\* Which call main() can be in, and what a failure leaves behind: the exit
\* status, or a script that is still to be unloaded.
Control ==
    /\ failed \in BOOLEAN
    /\ op \in {"none", "load", "tick", "unload"}
    /\ stage \in {"loop", "unload", "end", "exited"}
    /\ op \in {"load", "tick"} => stage = "loop"
    /\ op = "unload" => stage \in {"unload", "end"}
    /\ stage = "unload" => failed
    /\ failed => exitCode = 1 \/ stage = "unload"
    /\ ~failed /\ stage # "exited" => exitCode = 0

\* As long as nothing failed, the worst peak of the calls that have returned,
\* together with that of the call under way, is the highest the arena has been.
PeakKnown ==
    ~failed =>
        /\ op \in {"none", "unload"} => highest = worstPeak
        /\ op \in {"load", "tick"} => highest = Larger(worstPeak, peak)
        /\ stage = "loop" => used <= highest

\* And every tick before this one was made.
TicksMade ==
    ~failed =>
        /\ tick <= Ticks + 1
        /\ op = "tick" => tick <= Ticks
        /\ stage \in {"end", "exited"} => tick = Ticks + 1

\* The exit status, once it is final.
StatusFinal ==
    stage = "exited" =>
        /\ op = "none"
        /\ failed => exitCode = 1
        /\ ~failed => exitCode = IF worstPeak > ARENA_BYTES THEN 2 ELSE 0

RunInv == RunNumbers /\ Control /\ PeakKnown /\ TicksMade /\ StatusFinal

-----------------------------------------------------------------------------
\* The actions that allocate.
Arena ==
    \/ \E p \in Pointers, n \in AllocSizes :
         Malloc(p, n) \/ \E q \in Pointers : Realloc(p, q, n)
    \/ \E p \in Pointers : Free(p)

\* What an allocation does to the numbers: the use may only grow to the top
\* that is recorded.
LEMMA ArenaStep ==
    ASSUME RunConstants, RunNumbers, Arena
    PROVE  /\ op # "none"
           /\ \A p \in DOMAIN blocks' : blocks'[p] \in Nat
           /\ used' \in Int /\ peak' \in Int /\ peak <= peak'
           /\ used' <= used \/ used' <= peak'
           /\ highest' = IF op = "unload" THEN highest ELSE Larger(highest, peak')
           /\ UNCHANGED <<op, stage, tick, exitCode, worstPeak, failed>>
<1> USE DEF slotVars, mainVars
<1>1. ASSUME NEW p \in Pointers, NEW n \in AllocSizes, Malloc(p, n)
      PROVE  /\ \A q \in DOMAIN blocks' : blocks'[q] \in Nat
             /\ used' \in Int /\ peak' \in Int /\ peak <= peak' /\ used' <= peak'
  <2>1. /\ blocks' = With(blocks, p, n) /\ used' = used + n /\ peak' = Larger(peak, used + n)
        /\ n \in Nat /\ used \in Int /\ peak \in Int
    BY <1>1 DEF Malloc, ArenaUse, RunConstants, RunNumbers
  <2>2. \A q \in DOMAIN blocks' : blocks'[q] \in Nat
    BY <2>1 DEF With, RunNumbers
  <2> QED
    BY <2>1, <2>2 DEF Larger
<1>2. ASSUME NEW p \in Pointers, NEW n \in AllocSizes, NEW q \in Pointers, Realloc(p, q, n)
      PROVE  /\ \A r \in DOMAIN blocks' : blocks'[r] \in Nat
             /\ used' \in Int /\ peak' \in Int /\ peak <= peak' /\ used' <= peak'
  <2>1. /\ blocks' = With(Without(p), q, n) /\ used' = used + n - blocks[p]
        /\ peak' = Larger(peak, used + n)
        /\ n \in Nat /\ used \in Int /\ peak \in Int /\ blocks[p] \in Nat
    BY <1>2 DEF Realloc, ArenaUse, RunConstants, RunNumbers
  <2>2. \A r \in DOMAIN blocks' : blocks'[r] \in Nat
    BY <2>1 DEF With, Without, RunNumbers
  <2> QED
    BY <2>1, <2>2 DEF Larger
<1>3. ASSUME NEW p \in Pointers, Free(p)
      PROVE  /\ \A r \in DOMAIN blocks' : blocks'[r] \in Nat
             /\ used' \in Int /\ peak' \in Int /\ peak <= peak' /\ used' <= used
  <2>1. /\ blocks' = Without(p) /\ used' = used - blocks[p] /\ peak' = peak
        /\ used \in Int /\ peak \in Int /\ blocks[p] \in Nat
    BY <1>3 DEF Free, ArenaUse, RunNumbers
  <2>2. \A r \in DOMAIN blocks' : blocks'[r] \in Nat
    BY <2>1 DEF Without, RunNumbers
  <2> QED
    BY <2>1, <2>2
<1>4. /\ op # "none"
      /\ highest' = IF op = "unload" THEN highest ELSE Larger(highest, peak')
      /\ UNCHANGED <<op, stage, tick, exitCode, worstPeak, failed>>
  BY DEF Arena, Malloc, Realloc, Free, ArenaUse
<1> QED
  BY <1>1, <1>2, <1>3, <1>4 DEF Arena
\* An allocation keeps the invariant: the highest use of the arena follows the
\* peak of the call, except in unload(), after which nothing is loaded.
LEMMA ArenaKeeps ==
    ASSUME RunConstants, RunInv, Arena
    PROVE  RunInv'
<1>1. /\ op # "none"
      /\ \A p \in DOMAIN blocks' : blocks'[p] \in Nat
      /\ used' \in Int /\ peak' \in Int /\ peak <= peak'
      /\ used' <= used \/ used' <= peak'
      /\ highest' = IF op = "unload" THEN highest ELSE Larger(highest, peak')
      /\ op' = op /\ stage' = stage /\ tick' = tick /\ exitCode' = exitCode
      /\ worstPeak' = worstPeak /\ failed' = failed
  BY ArenaStep DEF RunInv
<1>2. RunNumbers'
  BY <1>1 DEF RunInv, RunNumbers, Larger
<1>3. Control' /\ TicksMade' /\ StatusFinal'
  BY <1>1 DEF RunInv, Control, TicksMade, StatusFinal
<1>4. PeakKnown'
  <2> SUFFICES ASSUME ~failed'
               PROVE  /\ op' \in {"none", "unload"} => highest' = worstPeak'
                      /\ op' \in {"load", "tick"} => highest' = Larger(worstPeak', peak')
                      /\ stage' = "loop" => used' <= highest'
    BY DEF PeakKnown
  <2>1. ~failed
    BY <1>1
  <2>2. worstPeak \in Int /\ peak \in Int /\ highest \in Int /\ used \in Int
    BY DEF RunInv, RunNumbers
  <2>3. CASE op = "unload"
    <3>1. stage # "loop" /\ highest = worstPeak
      BY <2>1, <2>3 DEF RunInv, Control, PeakKnown
    <3> QED
      BY <1>1, <2>3, <3>1
  <2>4. CASE op \in {"load", "tick"}
    <3>1. highest = Larger(worstPeak, peak) /\ used <= highest
      BY <2>1, <2>4 DEF RunInv, Control, PeakKnown
    <3>2. highest' = Larger(highest, peak') /\ peak <= peak' /\ peak' \in Int /\ used' \in Int
          /\ (used' <= used \/ used' <= peak')
      BY <1>1, <2>4
    <3>3. highest' = Larger(worstPeak, peak')
      BY <2>2, <3>1, <3>2 DEF Larger
    <3>4. used' <= highest'
      BY <2>2, <3>1, <3>2 DEF Larger
    <3> QED
      BY <1>1, <2>4, <3>3, <3>4
  <2> QED
    BY <1>1, <2>3, <2>4 DEF RunInv, Control
<1> QED
  BY <1>2, <1>3, <1>4 DEF RunInv

\* A call begins: the peak is counted from what is in use.
LEMMA CallKeeps ==
    ASSUME RunConstants, RunInv, StartLoad \/ StartTick
    PROVE  RunInv'
<1>1. /\ stage = "loop" /\ op = "none" /\ tick <= Ticks /\ op' \in {"load", "tick"}
      /\ peak' = used
      /\ UNCHANGED <<stage, tick, exitCode, worstPeak, blocks, used, highest, failed>>
  BY DEF StartLoad, StartTick, CallVm, Slot!Call, mainVars
<1>2. RunNumbers'
  BY <1>1 DEF RunInv, RunNumbers
<1>3. Control' /\ StatusFinal'
  BY <1>1 DEF RunInv, Control, StatusFinal
<1>4. TicksMade'
  BY <1>1 DEF RunInv, TicksMade
<1>5. PeakKnown'
  <2>1. ~failed => highest = worstPeak /\ used <= highest
    BY <1>1 DEF RunInv, PeakKnown
  <2>2. worstPeak \in Int /\ highest \in Int /\ used \in Int
    BY DEF RunInv, RunNumbers
  <2>3. ~failed => highest = Larger(worstPeak, used)
    BY <2>1, <2>2 DEF Larger
  <2> QED
    BY <1>1, <2>1, <2>3 DEF PeakKnown
<1> QED
  BY <1>2, <1>3, <1>4, <1>5 DEF RunInv

\* load() returns.
LEMMA LoadKeeps ==
    ASSUME RunConstants, RunInv, LoadReturns
    PROVE  RunInv'
<1>1. /\ op = "load" /\ op' = "none" /\ stage = "loop"
      /\ UNCHANGED <<tick, blocks, used, peak, highest>>
  BY DEF LoadReturns, Slot!LoadReturns, Slot!Return, arenaVars, RunInv, Control
<1>2. \/ worstPeak' = Larger(worstPeak, peak) /\ UNCHANGED <<stage, exitCode, failed>>
      \/ stage' = "end" /\ exitCode' = 1 /\ failed' = TRUE /\ UNCHANGED worstPeak
  BY DEF LoadReturns
<1>3. CASE worstPeak' = Larger(worstPeak, peak) /\ UNCHANGED <<stage, exitCode, failed>>
  <2>1. RunNumbers'
    BY <1>1, <1>3 DEF RunInv, RunNumbers, Larger
  <2>2. Control' /\ TicksMade' /\ StatusFinal'
    BY <1>1, <1>3 DEF RunInv, Control, TicksMade, StatusFinal
  <2>3. PeakKnown'
    BY <1>1, <1>3 DEF RunInv, PeakKnown
  <2> QED
    BY <2>1, <2>2, <2>3 DEF RunInv
<1>4. CASE stage' = "end" /\ exitCode' = 1 /\ failed' = TRUE /\ UNCHANGED worstPeak
  <2>1. RunNumbers'
    BY <1>1, <1>4 DEF RunInv, RunNumbers
  <2>2. Control' /\ TicksMade' /\ StatusFinal' /\ PeakKnown'
    BY <1>1, <1>4 DEF RunInv, Control, TicksMade, StatusFinal, PeakKnown
  <2> QED
    BY <2>1, <2>2 DEF RunInv
<1> QED
  BY <1>2, <1>3, <1>4

\* tick() returns.
LEMMA TickKeeps ==
    ASSUME RunConstants, RunInv, TickReturns
    PROVE  RunInv'
<1>1. /\ op = "tick" /\ op' = "none" /\ stage = "loop"
      /\ worstPeak' = Larger(worstPeak, peak)
      /\ UNCHANGED <<exitCode, blocks, used, peak, highest>>
  BY DEF TickReturns, Slot!TickReturns, Slot!Return, arenaVars, RunInv, Control
<1>2. \/ tick' = tick + 1 /\ UNCHANGED <<stage, failed>>
      \/ stage' = "unload" /\ failed' = TRUE /\ UNCHANGED tick
  BY DEF TickReturns
<1>3. worstPeak' \in Int /\ tick \in Int
  BY <1>1 DEF RunInv, RunNumbers, Larger
<1>4. CASE tick' = tick + 1 /\ UNCHANGED <<stage, failed>>
  <2>1. RunNumbers'
    BY <1>1, <1>3, <1>4 DEF RunInv, RunNumbers
  <2>2. Control' /\ StatusFinal'
    BY <1>1, <1>4 DEF RunInv, Control, StatusFinal
  <2>3. PeakKnown'
    BY <1>1, <1>4 DEF RunInv, PeakKnown
  <2>4. TicksMade'
    <3>1. ~failed => tick <= Ticks
      BY <1>1 DEF RunInv, TicksMade
    <3>2. ~failed => tick' <= Ticks + 1
      BY <1>3, <1>4, <3>1 DEF RunConstants
    <3> QED
      BY <1>1, <1>4, <3>2 DEF TicksMade
  <2> QED
    BY <2>1, <2>2, <2>3, <2>4 DEF RunInv
<1>5. CASE stage' = "unload" /\ failed' = TRUE /\ UNCHANGED tick
  <2>1. RunNumbers'
    BY <1>1, <1>3, <1>5 DEF RunInv, RunNumbers
  <2>2. Control' /\ TicksMade' /\ StatusFinal' /\ PeakKnown'
    BY <1>1, <1>5 DEF RunInv, Control, TicksMade, StatusFinal, PeakKnown
  <2> QED
    BY <2>1, <2>2 DEF RunInv
<1> QED
  BY <1>2, <1>4, <1>5

\* unload() begins, and returns: after a failed tick it is what sets the exit
\* status.
LEMMA UnloadKeeps ==
    ASSUME RunConstants, RunInv, StartUnload \/ UnloadReturns
    PROVE  RunInv'
<1>1. /\ UNCHANGED <<worstPeak, blocks, used, peak, highest, failed>>
      /\ stage \in {"unload", "end"}
  BY DEF StartUnload, UnloadReturns, Slot!UnloadReturns, arenaVars, mainVars, RunInv, Control
<1>2. CASE StartUnload
  <2>1. op = "none" /\ op' = "unload" /\ UNCHANGED <<stage, tick, exitCode>>
    BY <1>2 DEF StartUnload, CallVm, Slot!Call, mainVars
  <2> QED
    BY <1>1, <2>1 DEF RunInv, RunNumbers, Control, TicksMade, StatusFinal, PeakKnown
<1>3. CASE UnloadReturns /\ stage = "unload"
  <2>1. /\ op = "unload" /\ op' = "none" /\ failed
        /\ exitCode' = 1 /\ tick' = tick + 1 /\ stage' = "loop"
    BY <1>3 DEF UnloadReturns, Slot!UnloadReturns, Slot!Return, RunInv, Control
  <2>2. RunNumbers'
    BY <1>1, <2>1 DEF RunInv, RunNumbers
  <2>3. Control' /\ TicksMade' /\ StatusFinal' /\ PeakKnown'
    BY <1>1, <2>1 DEF RunInv, Control, TicksMade, StatusFinal, PeakKnown
  <2> QED
    BY <2>2, <2>3 DEF RunInv
<1>4. CASE UnloadReturns /\ stage # "unload"
  <2>1. op = "unload" /\ op' = "none" /\ UNCHANGED <<exitCode, tick, stage>>
    BY <1>4 DEF UnloadReturns, Slot!UnloadReturns, Slot!Return
  <2> QED
    BY <1>1, <2>1 DEF RunInv, RunNumbers, Control, TicksMade, StatusFinal, PeakKnown
<1> QED
  BY <1>2, <1>3, <1>4

\* The loop ends when it has made its ticks; the peak decides the exit status
\* of a run that has none yet.
LEMMA EndKeeps ==
    ASSUME RunConstants, RunInv, LoopEnds \/ Exit
    PROVE  RunInv'
<1>1. op = "none" /\ op' = "none"
      /\ UNCHANGED <<tick, worstPeak, blocks, used, peak, highest, failed>>
  BY DEF LoopEnds, Exit, slotVars, arenaVars
<1>2. RunNumbers'
  BY <1>1 DEF RunInv, RunNumbers
<1>3. CASE LoopEnds
  <2>1. stage = "loop" /\ stage' = "end" /\ tick > Ticks /\ UNCHANGED exitCode
    BY <1>3 DEF LoopEnds
  <2>2. Control' /\ StatusFinal' /\ PeakKnown'
    BY <1>1, <2>1 DEF RunInv, Control, StatusFinal, PeakKnown
  <2>3. ~failed => tick = Ticks + 1
    <3>1. tick \in Int /\ Ticks \in Nat /\ tick > Ticks
      BY <2>1 DEF RunInv, RunNumbers, RunConstants
    <3>2. ~failed => tick <= Ticks + 1
      BY DEF RunInv, TicksMade
    <3> QED
      BY <3>1, <3>2
  <2>4. ~failed => tick <= Ticks + 1
    BY DEF RunInv, TicksMade
  <2>5. TicksMade'
    BY <1>1, <2>1, <2>3, <2>4 DEF TicksMade
  <2> QED
    BY <1>2, <2>2, <2>5 DEF RunInv
<1>4. CASE Exit
  <2>1. /\ stage = "end" /\ stage' = "exited"
        /\ exitCode' = IF worstPeak > ARENA_BYTES /\ exitCode = 0 THEN 2 ELSE exitCode
    BY <1>4 DEF Exit
  <2>2. failed => exitCode = 1
    BY <2>1 DEF RunInv, Control
  <2>3. ~failed => exitCode = 0
    BY <2>1 DEF RunInv, Control
  <2>4. failed => exitCode' = 1
    BY <2>1, <2>2
  <2>5. ~failed => exitCode' = IF worstPeak > ARENA_BYTES THEN 2 ELSE 0
    BY <2>1, <2>3
  <2>6. Control' /\ TicksMade' /\ PeakKnown'
    BY <1>1, <2>1, <2>4 DEF RunInv, Control, TicksMade, PeakKnown
  <2>7. StatusFinal'
    BY <1>1, <2>4, <2>5 DEF StatusFinal
  <2> QED
    BY <1>2, <2>6, <2>7 DEF RunInv
<1> QED
  BY <1>3, <1>4

\* What leaves the runner's own variables alone.
LEMMA OthersKeep ==
    ASSUME RunInv, InsideLoad \/ Request \/ UNCHANGED runVars
    PROVE  RunInv'
<1>1. UNCHANGED <<op, stage, tick, exitCode, worstPeak, blocks, used, peak, highest, failed>>
  BY DEF InsideLoad, Request, Slot!Replace, Slot!Acquire, runVars, slotVars, mainVars, arenaVars
<1> QED
  BY <1>1 DEF RunInv, RunNumbers, Control, TicksMade, StatusFinal, PeakKnown

-----------------------------------------------------------------------------
\* Exit status 0 and 2 are those of a run that made every tick it was asked
\* for, and 2 says exactly that the arena was, at some time before the last
\* unload(), fuller than the unit's.
THEOREM StatusCorrect ==
    ASSUME RunConstants PROVE RunSpec => []ExitStatusTells
<1>1. RunInit => RunInv
  <2> SUFFICES ASSUME RunInit PROVE RunInv
    OBVIOUS
  <2>1. /\ op = "none" /\ tick = 1 /\ worstPeak = 0 /\ blocks = <<>> /\ used = 0 /\ peak = 0
        /\ highest = 0
    BY DEF RunInit
  <2>2. \/ stage = "loop" /\ exitCode = 0 /\ failed = FALSE
        \/ stage = "exited" /\ exitCode = 1 /\ failed = TRUE
    BY DEF RunInit
  <2>3. RunNumbers
    BY <2>1 DEF RunNumbers
  <2>4. 1 <= Ticks + 1
    BY DEF RunConstants
  <2>5. CASE stage = "loop" /\ exitCode = 0 /\ failed = FALSE
    <3>1. Control /\ StatusFinal
      BY <2>1, <2>5 DEF Control, StatusFinal
    <3>2. PeakKnown
      BY <2>1, <2>5 DEF PeakKnown
    <3>3. TicksMade
      <4>1. tick <= Ticks + 1
        BY <2>1, <2>4
      <4> QED
        BY <2>1, <2>5, <4>1 DEF TicksMade
    <3> QED
      BY <2>3, <3>1, <3>2, <3>3 DEF RunInv
  <2>6. CASE stage = "exited" /\ exitCode = 1 /\ failed = TRUE
    BY <2>1, <2>3, <2>6 DEF RunInv, Control, TicksMade, StatusFinal, PeakKnown
  <2> QED
    BY <2>2, <2>5, <2>6
<1>2. RunInv /\ [RunNext]_runVars => RunInv'
  BY ArenaKeeps, CallKeeps, LoadKeeps, TickKeeps, UnloadKeeps, EndKeeps, OthersKeep
     DEF RunNext, Arena
<1>3. RunInv => ExitStatusTells
  <2> SUFFICES ASSUME RunInv, stage = "exited"
               PROVE  /\ exitCode = 1 <=> failed
                      /\ exitCode = 2 <=> ~failed /\ highest > ARENA_BYTES
                      /\ ~failed => tick = Ticks + 1
    BY DEF ExitStatusTells
  <2>1. op = "none" /\ failed \in BOOLEAN
    BY DEF RunInv, StatusFinal, Control
  <2>2. CASE failed
    BY <2>2 DEF RunInv, StatusFinal
  <2>3. CASE ~failed
    <3>1. exitCode = (IF worstPeak > ARENA_BYTES THEN 2 ELSE 0) /\ tick = Ticks + 1
      BY <2>3 DEF RunInv, StatusFinal, TicksMade
    <3>2. highest = worstPeak
      BY <2>1, <2>3 DEF RunInv, PeakKnown
    <3> QED
      BY <2>3, <3>1, <3>2
  <2> QED
    BY <2>2, <2>3
<1> QED
  BY <1>1, <1>2, <1>3, PTL DEF RunSpec

-----------------------------------------------------------------------------
(* The arena counts what is allocated.                                     *)

\* ArenaCounted, of blocks that are finitely many numbers.
ArenaInv ==
    /\ IsFiniteSet(DOMAIN blocks) /\ \A p \in DOMAIN blocks : blocks[p] \in Nat
    /\ used = SumOf(blocks, DOMAIN blocks)
    /\ peak \in Int /\ used <= peak /\ peak <= HOST_ARENA_CAP

\* The sum over the blocks with one block more.
LEMMA SumWith ==
    ASSUME NEW f, IsFiniteSet(DOMAIN f), \A q \in DOMAIN f : f[q] \in Nat,
           NEW p, p \notin DOMAIN f, NEW n \in Nat
    PROVE  /\ DOMAIN With(f, p, n) = DOMAIN f \cup {p}
           /\ IsFiniteSet(DOMAIN f \cup {p})
           /\ \A q \in DOMAIN f \cup {p} : With(f, p, n)[q] \in Nat
           /\ SumOf(With(f, p, n), DOMAIN f \cup {p}) = SumOf(f, DOMAIN f) + n
<1> DEFINE g == With(f, p, n)
           D == DOMAIN f
<1>1. DOMAIN g = D \cup {p}
  BY DEF With
<1>2. g[p] = n /\ \A q \in D : g[q] = f[q]
  BY DEF With
<1>3. IsFiniteSet(D \cup {p})
  BY FS_AddElement
<1>4. \A q \in D \cup {p} : g[q] \in Nat
  BY <1>2
<1>5. (D \cup {p}) \ {p} = D
  OBVIOUS
<1> HIDE DEF g, D
<1>6. SumOf(g, D \cup {p}) = g[p] + SumOf(g, (D \cup {p}) \ {p})
  BY <1>3, <1>4, SumWithout
<1>7. SumOf(g, D) = SumOf(f, D)
  BY <1>2, SumOfSame DEF D
<1>8. SumOf(f, D) \in Int
  BY SumIsNumber DEF D
<1>9. SumOf(g, D \cup {p}) = SumOf(f, D) + n
  BY <1>2, <1>5, <1>6, <1>7, <1>8
<1> QED
  BY <1>1, <1>3, <1>4, <1>9 DEF g, D

\* The sum over the blocks with one block less.
LEMMA SumLess ==
    ASSUME ArenaInv, NEW p \in DOMAIN blocks
    PROVE  /\ DOMAIN Without(p) = DOMAIN blocks \ {p}
           /\ IsFiniteSet(DOMAIN blocks \ {p})
           /\ \A q \in DOMAIN blocks \ {p} : Without(p)[q] \in Nat
           /\ SumOf(Without(p), DOMAIN blocks \ {p}) = used - blocks[p]
           /\ used - blocks[p] <= used /\ used \in Int
<1> DEFINE D == DOMAIN blocks
<1>1. DOMAIN Without(p) = D \ {p} /\ \A q \in D \ {p} : Without(p)[q] = blocks[q]
  BY DEF Without
<1>2. IsFiniteSet(D) /\ IsFiniteSet(D \ {p}) /\ \A q \in D : blocks[q] \in Nat
  BY FS_RemoveElement DEF ArenaInv
<1>3. used = SumOf(blocks, D)
  BY DEF ArenaInv
<1>4. p \in D
  OBVIOUS
<1> HIDE DEF D
<1>5. SumOf(blocks, D) = blocks[p] + SumOf(blocks, D \ {p})
  BY <1>2, <1>4, SumWithout
<1>6. SumOf(Without(p), D \ {p}) = SumOf(blocks, D \ {p})
  BY <1>1, <1>2, SumOfSame
<1>7. SumOf(blocks, D \ {p}) \in Int /\ blocks[p] \in Nat
  BY <1>2, <1>4, SumIsNumber
<1>8. /\ SumOf(Without(p), D \ {p}) = used - blocks[p]
      /\ used - blocks[p] <= used /\ used \in Int
  BY <1>3, <1>5, <1>6, <1>7
<1>9. \A q \in D \ {p} : Without(p)[q] \in Nat
  BY <1>1, <1>2
<1> QED
  BY <1>1, <1>2, <1>8, <1>9 DEF D

\* Every allocation keeps the count.
LEMMA ArenaCounts ==
    ASSUME RunConstants, ArenaInv, Arena
    PROVE  ArenaInv'
<1>0. used \in Int /\ peak \in Int /\ used <= peak /\ peak <= HOST_ARENA_CAP
      /\ HOST_ARENA_CAP \in Nat
  BY SumIsNumber DEF ArenaInv, RunConstants
<1>1. ASSUME NEW p \in Pointers, NEW n \in AllocSizes, Malloc(p, n)
      PROVE  ArenaInv'
  <2>1. /\ blocks' = With(blocks, p, n) /\ used' = used + n /\ peak' = Larger(peak, used + n)
        /\ n \in Nat /\ p \notin DOMAIN blocks /\ used + n <= HOST_ARENA_CAP
    BY <1>1 DEF Malloc, ArenaUse, RunConstants
  <2>2. /\ DOMAIN blocks' = DOMAIN blocks \cup {p} /\ IsFiniteSet(DOMAIN blocks \cup {p})
        /\ \A q \in DOMAIN blocks \cup {p} : blocks'[q] \in Nat
        /\ SumOf(blocks', DOMAIN blocks \cup {p}) = used + n
    BY <2>1, SumWith DEF ArenaInv
  <2>3. peak' \in Int /\ used' <= peak' /\ peak' <= HOST_ARENA_CAP
    BY <1>0, <2>1 DEF Larger
  <2> QED
    BY <2>1, <2>2, <2>3 DEF ArenaInv
<1>2. ASSUME NEW p \in Pointers, Free(p)
      PROVE  ArenaInv'
  <2>1. blocks' = Without(p) /\ used' = used - blocks[p] /\ peak' = peak /\ p \in DOMAIN blocks
    BY <1>2 DEF Free, ArenaUse
  <2>2. /\ DOMAIN blocks' = DOMAIN blocks \ {p} /\ IsFiniteSet(DOMAIN blocks \ {p})
        /\ \A q \in DOMAIN blocks \ {p} : blocks'[q] \in Nat
        /\ SumOf(blocks', DOMAIN blocks \ {p}) = used - blocks[p]
        /\ used - blocks[p] <= used /\ blocks[p] \in Nat
    BY <2>1, SumLess DEF ArenaInv
  <2>3. peak' \in Int /\ used' <= peak' /\ peak' <= HOST_ARENA_CAP
    BY <1>0, <2>1, <2>2
  <2> QED
    BY <2>1, <2>2, <2>3 DEF ArenaInv
<1>3. ASSUME NEW p \in Pointers, NEW q \in Pointers, NEW n \in AllocSizes, Realloc(p, q, n)
      PROVE  ArenaInv'
  <2>1. /\ blocks' = With(Without(p), q, n) /\ used' = used + n - blocks[p]
        /\ peak' = Larger(peak, used + n) /\ used + n <= HOST_ARENA_CAP
        /\ n \in Nat /\ p \in DOMAIN blocks /\ q \notin DOMAIN blocks
    BY <1>3 DEF Realloc, ArenaUse, RunConstants
  <2>2. /\ DOMAIN Without(p) = DOMAIN blocks \ {p} /\ IsFiniteSet(DOMAIN Without(p))
        /\ \A r \in DOMAIN Without(p) : Without(p)[r] \in Nat
        /\ SumOf(Without(p), DOMAIN Without(p)) = used - blocks[p]
        /\ blocks[p] \in Nat
    BY <2>1, SumLess DEF ArenaInv
  <2>3. /\ DOMAIN blocks' = DOMAIN Without(p) \cup {q}
        /\ IsFiniteSet(DOMAIN Without(p) \cup {q})
        /\ \A r \in DOMAIN Without(p) \cup {q} : blocks'[r] \in Nat
        /\ SumOf(blocks', DOMAIN Without(p) \cup {q}) = SumOf(Without(p), DOMAIN Without(p)) + n
    <3>1. q \notin DOMAIN Without(p)
      BY <2>1, <2>2
    <3> QED
      BY <2>1, <2>2, <3>1, SumWith
  <2>4. SumOf(blocks', DOMAIN blocks') = used'
    BY <1>0, <2>1, <2>2, <2>3
  <2>5. peak' \in Int /\ used' <= peak' /\ peak' <= HOST_ARENA_CAP
    BY <1>0, <2>1, <2>2 DEF Larger
  <2> QED
    BY <2>3, <2>4, <2>5 DEF ArenaInv
<1> QED
  BY <1>1, <1>2, <1>3 DEF Arena

\* The arena's count is the sum of what is allocated, and the peak is between
\* it and the cap.
THEOREM ArenaCorrect ==
    ASSUME RunConstants PROVE RunSpec => []ArenaCounted
<1>1. RunInit => ArenaInv
  <2> SUFFICES ASSUME RunInit PROVE ArenaInv
    OBVIOUS
  <2>1. blocks = <<>> /\ used = 0 /\ peak = 0
    BY DEF RunInit
  <2>2. DOMAIN blocks = {}
    BY <2>1
  <2>3. IsFiniteSet({}) /\ SumOf(blocks, {}) = 0
    BY FS_EmptySet, SumFirst
  <2> QED
    BY <2>1, <2>2, <2>3 DEF ArenaInv, RunConstants
<1>2. ArenaInv /\ [RunNext]_runVars => ArenaInv'
  <2> SUFFICES ASSUME ArenaInv, [RunNext]_runVars PROVE ArenaInv'
    OBVIOUS
  <2>1. CASE Arena
    BY <2>1, ArenaCounts
  <2>2. CASE StartLoad \/ StartTick
    <3>1. UNCHANGED <<blocks, used>> /\ peak' = used
      BY <2>2 DEF StartLoad, StartTick
    <3>2. used \in Int
      BY SumIsNumber DEF ArenaInv
    <3> QED
      BY <3>1, <3>2 DEF ArenaInv, RunConstants
  <2>3. CASE ~(Arena \/ StartLoad \/ StartTick)
    <3>1. UNCHANGED <<blocks, used, peak>>
      BY <2>3 DEF RunNext, Arena, InsideLoad, LoadReturns, Request, TickReturns, StartUnload,
         UnloadReturns, LoopEnds, Exit, runVars, arenaVars
    <3> QED
      BY <3>1 DEF ArenaInv
  <2> QED
    BY <2>1, <2>2, <2>3
<1>3. ArenaInv => ArenaCounted
  <2>1. MapThenSumSet(LAMBDA p : blocks[p], DOMAIN blocks) = SumOf(blocks, DOMAIN blocks)
    BY SumOfSet
  <2> QED
    BY <2>1, Zenon DEF ArenaInv, ArenaCounted
<1> QED
  BY <1>1, <1>2, <1>3, PTL DEF RunSpec

-----------------------------------------------------------------------------
(* The responses are given in turn.                                        *)

Lines == UNION {{lines[i] : i \in 1 .. Len(lines)} : lines \in Files}
Block == [for : {l.for : l \in Lines}, status : {0} \cup {l.status : l \in Lines},
          body : Seq(Lines), used : BOOLEAN]
File  == [canned : Seq(Block), ok : BOOLEAN]
Fresh == {file \in File : \A k \in 1 .. Len(file.canned) : ~file.canned[k].used}

\* A line more leaves every block unused.
LEMMA LineKeepsFresh ==
    ASSUME NEW file \in Fresh, NEW line \in Lines
    PROVE  ReadLine(file, line) \in Fresh
<1> DEFINE n == Len(file.canned)
           c == file.canned
<1>1. /\ file \in File /\ c \in Seq(Block) /\ n \in Nat
      /\ \A k \in 1 .. n : c[k] \in Block /\ ~c[k].used
  BY LenProperties, ElementOfSeq DEF Fresh, File
<1>2. ASSUME NEW d \in Seq(Block), \A k \in 1 .. Len(d) : ~d[k].used
      PROVE  [file EXCEPT !.canned = d] \in Fresh
  BY <1>1, <1>2 DEF Fresh, File
<1>3. [file EXCEPT !.canned = Append(@, NewBlock(line))] \in Fresh
  <2> DEFINE d == Append(c, NewBlock(line))
  <2>1. NewBlock(line) \in Block /\ ~NewBlock(line).used
    BY DEF NewBlock, Block
  <2>2. d \in Seq(Block) /\ \A k \in 1 .. Len(d) : ~d[k].used
    BY <1>1, <2>1, AppendProperties
  <2> HIDE DEF d
  <2>3. [file EXCEPT !.canned = d] \in Fresh
    BY <1>2, <2>2
  <2> QED
    BY <2>3 DEF d
<1>4. ASSUME n > 0, NEW e \in Block, ~e.used
      PROVE  [file EXCEPT !.canned = [@ EXCEPT ![n] = e]] \in Fresh
  <2> DEFINE d == [c EXCEPT ![n] = e]
  <2>1. n \in 1 .. Len(c)
    BY <1>1, <1>4
  <2>2. d \in Seq(Block) /\ Len(d) = n /\ \A k \in 1 .. n : d[k] = IF k = n THEN e ELSE c[k]
    BY <1>1, <1>4, <2>1, ExceptSeq
  <2>3. \A k \in 1 .. Len(d) : ~d[k].used
    BY <1>1, <1>4, <2>2
  <2> HIDE DEF d
  <2>4. [file EXCEPT !.canned = d] \in Fresh
    BY <1>2, <2>2, <2>3
  <2> QED
    BY <2>4 DEF d
<1>5. n > 0 => [file EXCEPT !.canned[n].status = line.status] \in Fresh
  <2> SUFFICES ASSUME n > 0 PROVE [file EXCEPT !.canned[n].status = line.status] \in Fresh
    OBVIOUS
  <2> DEFINE e == [c[n] EXCEPT !.status = line.status]
  <2>1. e \in Block /\ ~e.used
    <3>1. c[n] \in Block /\ ~c[n].used
      <4>1. n \in 1 .. n
        BY <1>1
      <4> QED
        BY <1>1, <4>1
    <3>2. line.status \in {0} \cup {l.status : l \in Lines}
      OBVIOUS
    <3> QED
      BY <3>1, <3>2 DEF Block
  <2>2. [file EXCEPT !.canned = [@ EXCEPT ![n] = e]] \in Fresh
    BY <1>4, <2>1
  <2> QED
    BY <2>2
<1>6. n > 0 => [file EXCEPT !.canned[n].body = Append(@, line)] \in Fresh
  <2> SUFFICES ASSUME n > 0 PROVE [file EXCEPT !.canned[n].body = Append(@, line)] \in Fresh
    OBVIOUS
  <2> DEFINE e == [c[n] EXCEPT !.body = Append(@, line)]
  <2>0. c[n] \in Block /\ ~c[n].used
    <3>1. n \in 1 .. n
      BY <1>1
    <3> QED
      BY <1>1, <3>1
  <2>1. Append(c[n].body, line) \in Seq(Lines)
    BY <2>0 DEF Block
  <2>2. e \in Block /\ ~e.used
    BY <2>0, <2>1 DEF Block
  <2>3. [file EXCEPT !.canned = [@ EXCEPT ![n] = e]] \in Fresh
    BY <1>4, <2>2
  <2> QED
    BY <2>3
<1>7. [file EXCEPT !.ok = FALSE] \in Fresh
  BY DEF Fresh, File
<1> QED
  BY <1>3, <1>5, <1>6, <1>7 DEF ReadLine

\* What a file is read to: blocks none of which is used.
LEMMA ReadIsFresh ==
    ASSUME RunConstants, NEW lines \in Files
    PROVE  ReadResponses(lines) \in Fresh
<1> DEFINE n == Len(lines)
           begin == [canned |-> <<>>, ok |-> TRUE]
           After(file, i) == IF file.ok THEN ReadLine(file, lines[i]) ELSE file
           step == [x \in Fresh \X (1 .. n) |-> After(x[1], x[2])]
           Reads(f) == f = [i \in 0 .. n |-> IF i = 0 THEN begin ELSE After(f[i - 1], i)]
<1>1. n \in Nat /\ \A i \in 1 .. n : lines[i] \in Lines
  <2>1. n \in Nat /\ lines = [i \in 1 .. n |-> lines[i]]
    BY DEF RunConstants
  <2>2. n \in Nat
    BY <2>1
  <2> QED
    BY <2>2 DEF Lines
<1>2. begin \in Fresh
  <2>1. <<>> \in Seq(Block) /\ Len(<<>>) = 0
    OBVIOUS
  <2>2. begin \in File
    BY <2>1 DEF File
  <2> QED
    BY <2>1, <2>2 DEF Fresh
<1>3. \A file \in Fresh, i \in 1 .. n : After(file, i) \in Fresh
  BY <1>1, LineKeepsFresh
<1>4. step \in [Fresh \X (1 .. n) -> Fresh]
  <2> HIDE DEF After
  <2> QED
    BY <1>3
<1>5. \E f : Reads(f)
  <2>1. PICK f : IsRecursion(f, Fresh, n, begin, step)
    <3> HIDE DEF step, begin, n
    <3> QED
      BY <1>1, <1>2, <1>4, RecursionExists
  <2>2. /\ f \in [0 .. n -> Fresh] /\ f[0] = begin
        /\ \A i \in 1 .. n : f[i] = step[<<f[i - 1], i>>]
    BY <2>1 DEF IsRecursion
  <2>3. ASSUME NEW i \in 1 .. n PROVE f[i] = After(f[i - 1], i)
    <3>1. f[i - 1] \in Fresh
      BY <1>1, <2>2
    <3>2. <<f[i - 1], i>> \in Fresh \X (1 .. n)
      BY <3>1
    <3> HIDE DEF After
    <3>3. step[<<f[i - 1], i>>] = After(f[i - 1], i)
      BY <3>2
    <3> QED
      BY <2>2, <3>3
  <2>4. \A i \in 0 .. n : f[i] = IF i = 0 THEN begin ELSE After(f[i - 1], i)
    <3> HIDE DEF After, begin, step
    <3> QED
      BY <1>1, <2>2, <2>3
  <2>5. f = [i \in 0 .. n |-> f[i]]
    BY <2>2
  <2>6. Reads(f)
    <3> HIDE DEF After, begin, n
    <3> QED
      BY <2>4, <2>5
  <2> QED
    <3> HIDE DEF Reads
    <3> QED
      BY <2>6
<1> DEFINE read == CHOOSE f : Reads(f)
<1>6. Reads(read)
  <2> HIDE DEF Reads
  <2> QED
    BY <1>5, Zenon
<1>7. ReadResponses(lines) = read[n]
  BY Zenon DEF ReadResponses
<1> HIDE DEF read
<1>8. \A i \in 0 .. n : read[i] = IF i = 0 THEN begin ELSE After(read[i - 1], i)
  BY <1>6, Zenon
<1> DEFINE T == {i \in 0 .. n : read[i] \in Fresh}
<1>9. 0 .. n \subseteq T
  <2>1. 0 \in T
    <3> HIDE DEF After
    <3> QED
      BY <1>1, <1>2, <1>8
  <2>2. \A i \in 1 .. n : i - 1 \in T => i \in T
    <3> SUFFICES ASSUME NEW i \in 1 .. n, read[i - 1] \in Fresh PROVE i \in T
      OBVIOUS
    <3> HIDE DEF After
    <3>1. i \in 0 .. n /\ i # 0
      BY <1>1
    <3>2. read[i] = After(read[i - 1], i)
      BY <1>8, <3>1
    <3> QED
      BY <1>3, <3>1, <3>2
  <2> HIDE DEF T, n
  <2> QED
    BY <1>1, <2>1, <2>2, AlongPositions
<1>10. n \in T
  BY <1>1, <1>9
<1> QED
  BY <1>7, <1>10

\* Of requests that are all alike, so many blocks are used as there were
\* requests, from the first matching one on, or all of them.
AllAlike(r, n) == \A k \in 1 .. n : answered[k][1] = r
UsedOf(r) == {k \in Matching(r) : canned[k].used}
UsedInTurn(r, n) ==
    /\ \A j \in UsedOf(r), k \in Matching(r) : k < j => k \in UsedOf(r)
    /\ Cardinality(UsedOf(r)) = Min({n, Cardinality(Matching(r))})

InTurn(n) ==
    LET mine == answered[n][1]
        upTo == {k \in Matching(mine) : k <= answered[n][2]}
    IN  AllAlike(mine, n) =>
          IF Matching(mine) = {} THEN answered[n][2] = 0
          ELSE /\ answered[n][2] \in Matching(mine)
               /\ Cardinality(upTo) = Min({n, Cardinality(Matching(mine))})

CannedInv ==
    /\ canned \in Seq(Block) /\ answered \in Seq(Requests \X Nat)
    /\ \A r \in Requests : AllAlike(r, Len(answered)) => UsedInTurn(r, Len(answered))
    /\ \A n \in 1 .. Len(answered) : InTurn(n)

\* The lesser of two numbers.
LEMMA MinOfTwo ==
    ASSUME NEW a \in Int, NEW b \in Int
    PROVE  Min({a, b}) = IF a <= b THEN a ELSE b
<1>1. IsFiniteSet({a, b}) /\ {a, b} \subseteq Int /\ {a, b} # {}
  <2>1. IsFiniteSet({a})
    BY FS_Singleton
  <2>2. IsFiniteSet({a} \cup {b}) /\ {a} \cup {b} = {a, b}
    BY <2>1, FS_AddElement
  <2> QED
    BY <2>2
<1>2. Min({a, b}) \in {a, b} /\ Min({a, b}) <= a /\ Min({a, b}) <= b
  BY <1>1, Extremes
<1> QED
  BY <1>2

\* The matching blocks, and those of them that are used, are finitely many.
LEMMA MatchingFinite ==
    ASSUME canned \in Seq(Block), NEW r
    PROVE  /\ Matching(r) \subseteq 1 .. Len(canned) /\ Len(canned) \in Nat
           /\ IsFiniteSet(Matching(r)) /\ Cardinality(Matching(r)) \in Nat
           /\ \A S \in SUBSET Matching(r) :
                 IsFiniteSet(S) /\ Cardinality(S) \in Nat
                 /\ Cardinality(S) <= Cardinality(Matching(r))
                 /\ (Cardinality(S) = Cardinality(Matching(r)) => S = Matching(r))
<1>1. Len(canned) \in Nat /\ Matching(r) \subseteq 1 .. Len(canned)
  BY LenProperties DEF Matching
<1>2. IsFiniteSet(1 .. Len(canned))
  BY <1>1, FS_Interval
<1>3. IsFiniteSet(Matching(r))
  BY <1>1, <1>2, FS_Subset
<1> QED
  BY <1>1, <1>3, FS_Subset, FS_CardinalityType

\* What an answer does to the blocks: at most one more is used.
LEMMA AnswerDoes ==
    ASSUME canned \in Seq(Block), NEW r \in Requests, CannedHttp(r)
    PROVE  /\ canned' \in Seq(Block) /\ \A q : Matching(q)' = Matching(q)
           /\ IF Matching(r) = {}
              THEN answered' = Append(answered, <<r, 0>>)
              ELSE /\ Pick(r) \in Matching(r)
                   /\ answered' = Append(answered, <<r, Pick(r)>>)
                   /\ UsedOf(r)' = UsedOf(r) \cup {Pick(r)}
<1>1. CASE Matching(r) = {}
  <2>1. canned' = canned /\ answered' = Append(answered, <<r, 0>>)
    BY <1>1 DEF CannedHttp
  <2> QED
    BY <1>1, <2>1 DEF Matching
<1>2. CASE Matching(r) # {}
  <2> DEFINE k == Pick(r)
             e == [canned[k] EXCEPT !.used = TRUE]
  <2>1. /\ canned' = [canned EXCEPT ![k].used = TRUE]
        /\ answered' = Append(answered, <<r, k>>)
    BY <1>2 DEF CannedHttp
  <2>2. k \in Matching(r)
    <3>1. Unused(r) \in SUBSET Matching(r)
      BY DEF Unused
    <3>2. /\ IsFiniteSet(Matching(r)) /\ Matching(r) \subseteq Int
          /\ IsFiniteSet(Unused(r)) /\ Unused(r) \subseteq Int
      BY <3>1, MatchingFinite
    <3>3. Unused(r) # {} => Min(Unused(r)) \in Unused(r)
      BY <3>2, Extremes
    <3>4. Max(Matching(r)) \in Matching(r)
      BY <1>2, <3>2, Extremes
    <3> QED
      BY <3>1, <3>3, <3>4 DEF Pick
  <2> HIDE DEF k
  <2>3. k \in 1 .. Len(canned) /\ Len(canned) \in Nat
    BY <2>2, MatchingFinite
  <2>4. canned[k] \in Block
    BY <2>3, ElementOfSeq
  <2>5. e \in Block /\ e.used = TRUE /\ e.for = canned[k].for
    BY <2>4 DEF Block
  <2>6. canned' = [canned EXCEPT ![k] = e]
    BY <2>1
  <2> HIDE DEF e
  <2>7. /\ canned' \in Seq(Block) /\ Len(canned') = Len(canned)
        /\ \A j \in 1 .. Len(canned) : canned'[j] = IF j = k THEN e ELSE canned[j]
    BY <2>3, <2>5, <2>6, ExceptSeq
  <2>8. \A j \in 1 .. Len(canned) : canned'[j].for = canned[j].for
    BY <2>5, <2>7
  <2>9. ASSUME NEW q PROVE Matching(q)' = Matching(q)
    BY <2>7, <2>8 DEF Matching, Matches
  <2>10. UsedOf(r)' = UsedOf(r) \cup {k}
    <3>1. \A j \in Matching(r) : canned'[j].used <=> canned[j].used \/ j = k
      <4>1. \A j \in Matching(r) : j \in 1 .. Len(canned)
        BY DEF Matching
      <4>2. canned'[k].used
        BY <2>3, <2>5, <2>7
      <4> QED
        BY <2>7, <4>1, <4>2
    <3> QED
      BY <2>2, <2>9, <3>1 DEF UsedOf
  <2> QED
    BY <1>2, <2>1, <2>2, <2>7, <2>9, <2>10 DEF k
<1> QED
  BY <1>1, <1>2

\* One block more is used, the next, as long as there is one.
LEMMA NextInTurn ==
    ASSUME canned \in Seq(Block), NEW r \in Requests, NEW n \in Nat, Matching(r) # {},
           UsedInTurn(r, n), CannedHttp(r)
    PROVE  /\ UsedInTurn(r, n + 1)'
           /\ Cardinality({k \in Matching(r) : k <= Pick(r)})
                = Min({n + 1, Cardinality(Matching(r))})
<1> DEFINE M == Matching(r)
           U == UsedOf(r)
           k == Pick(r)
           upTo == {j \in M : j <= k}
<1>1. /\ k \in M /\ UsedOf(r)' = U \cup {k} /\ Matching(r)' = M
  BY AnswerDoes
<1>2. U \in SUBSET M /\ upTo \in SUBSET M /\ U \cup {k} \in SUBSET M
  BY <1>1 DEF UsedOf
<1>3. M \subseteq 1 .. Len(canned) /\ Len(canned) \in Nat
  BY MatchingFinite
<1>4. /\ IsFiniteSet(U) /\ IsFiniteSet(M) /\ Cardinality(U) \in Nat /\ Cardinality(M) \in Nat
      /\ Cardinality(U) <= Cardinality(M) /\ (Cardinality(U) = Cardinality(M) => U = M)
  BY <1>2, MatchingFinite
<1>5. /\ \A j \in U, i \in M : i < j => i \in U
      /\ Cardinality(U) = IF n <= Cardinality(M) THEN n ELSE Cardinality(M)
  BY <1>4, MinOfTwo DEF UsedInTurn
<1>6. M \subseteq Int /\ Unused(r) = M \ U
  BY <1>3 DEF Unused, UsedOf
<1>7. CASE M \ U # {}
  <2>1. k = Min(M \ U)
    BY <1>6, <1>7 DEF Pick
  <2>2. IsFiniteSet(M \ U) /\ M \ U \subseteq Int
    BY <1>4, <1>6, FS_Subset
  <2> HIDE DEF k, M, U
  <2>3. k \in M \ U /\ \A j \in M \ U : k <= j
    BY <1>7, <2>1, <2>2, Extremes
  <2>4. upTo = U \cup {k}
    <3>1. \A j \in U : j < k
      BY <1>2, <1>5, <1>6, <2>3
    <3>2. \A j \in M : j <= k => j \in U \cup {k}
      BY <1>6, <2>3
    <3>3. \A j \in U \cup {k} : j \in M /\ j <= k
      <4>1. k \in Int /\ k <= k
        BY <1>6, <2>3
      <4>2. \A j \in U : j \in Int /\ j \in M
        BY <1>2, <1>6
      <4> QED
        BY <2>3, <3>1, <4>1, <4>2
    <3> QED
      BY <3>2, <3>3
  <2>5. Cardinality(U \cup {k}) = Cardinality(U) + 1
    BY <1>4, <2>3, FS_AddElement
  <2>6. Cardinality(U) # Cardinality(M)
    BY <1>4, <1>7
  <2>7. Cardinality(U) = n /\ n + 1 <= Cardinality(M)
    BY <1>4, <1>5, <2>6
  <2>8. Cardinality(U \cup {k}) = Min({n + 1, Cardinality(M)})
    BY <1>4, <2>5, <2>7, MinOfTwo
  <2>9. \A j \in U \cup {k}, i \in M : i < j => i \in U \cup {k}
    BY <1>2, <1>5, <1>6, <2>3
  <2> QED
    BY <1>1, <2>4, <2>8, <2>9 DEF UsedInTurn, M, U, k
<1>8. CASE M \ U = {}
  <2>1. U = M
    BY <1>2, <1>8
  <2>2. k = Max(M)
    BY <1>6, <1>8 DEF Pick
  <2> HIDE DEF k, M, U
  <2>3. \A j \in M : j <= k
    BY <1>1, <1>4, <1>6, <2>2, Extremes
  <2>4. upTo = M /\ U \cup {k} = M
    BY <1>1, <2>1, <2>3
  <2>5. Cardinality(M) <= n
    BY <1>4, <1>5, <2>1
  <2>6. Cardinality(M) = Min({n + 1, Cardinality(M)})
    BY <1>4, <2>5, MinOfTwo
  <2> QED
    BY <1>1, <2>1, <2>4, <2>6 DEF UsedInTurn, M, U, k
<1> QED
  BY <1>7, <1>8

\* An answer keeps the order; what was answered before stays.
LEMMA AnswerKeeps ==
    ASSUME CannedInv, NEW r \in Requests, CannedHttp(r)
    PROVE  CannedInv'
<1>0. PICK n \in Nat : n = Len(answered)
  BY LenProperties DEF CannedInv
<1>1. /\ canned \in Seq(Block) /\ answered \in Seq(Requests \X Nat)
      /\ \A q \in Requests : AllAlike(q, n) => UsedInTurn(q, n)
      /\ \A i \in 1 .. n : InTurn(i)
  BY <1>0 DEF CannedInv
<1>2. /\ canned' \in Seq(Block) /\ \A q : Matching(q)' = Matching(q)
  BY <1>1, AnswerDoes
<1>3. PICK b \in Nat :
        /\ answered' = Append(answered, <<r, b>>)
        /\ Matching(r) = {} => b = 0
        /\ Matching(r) # {} => b = Pick(r) /\ b \in Matching(r)
  <2>1. CASE Matching(r) = {}
    BY <1>1, <2>1, AnswerDoes
  <2>2. CASE Matching(r) # {}
    <3>1. Pick(r) \in Matching(r) /\ answered' = Append(answered, <<r, Pick(r)>>)
      BY <1>1, <2>2, AnswerDoes
    <3>2. Pick(r) \in Nat
      BY <1>1, <3>1, MatchingFinite
    <3> QED
      BY <2>2, <3>1, <3>2
  <2> QED
    BY <2>1, <2>2
<1>4. /\ answered' \in Seq(Requests \X Nat) /\ Len(answered') = n + 1
      /\ answered'[n + 1] = <<r, b>> /\ \A i \in 1 .. n : answered'[i] = answered[i]
  <2>1. <<r, b>> \in Requests \X Nat
    OBVIOUS
  <2> QED
    BY <1>0, <1>1, <1>3, <2>1, AppendProperties
<1>5. ASSUME NEW i \in 1 .. n, NEW q
      PROVE  AllAlike(q, i)' <=> AllAlike(q, i)
  <2>1. \A j \in 1 .. i : answered'[j] = answered[j]
    BY <1>1, <1>4
  <2> QED
    BY <2>1 DEF AllAlike
<1>6. ASSUME NEW i \in 1 .. n PROVE InTurn(i)'
  <2>1. InTurn(i)
    BY <1>1
  <2>2. answered'[i] = answered[i]
    BY <1>4
  <2>3. PICK q : q = answered[i][1]
    OBVIOUS
  <2>4. (AllAlike(q, i)' <=> AllAlike(q, i)) /\ Matching(q)' = Matching(q)
    BY <1>2, <1>5
  <2>5. /\ InTurn(i) <=> (AllAlike(q, i) =>
             IF Matching(q) = {} THEN answered[i][2] = 0
             ELSE /\ answered[i][2] \in Matching(q)
                  /\ Cardinality({k \in Matching(q) : k <= answered[i][2]})
                       = Min({i, Cardinality(Matching(q))}))
        /\ InTurn(i)' <=> (AllAlike(q, i)' =>
             IF Matching(q)' = {} THEN answered'[i][2] = 0
             ELSE /\ answered'[i][2] \in Matching(q)'
                  /\ Cardinality({k \in Matching(q)' : k <= answered'[i][2]})
                       = Min({i, Cardinality(Matching(q)')}))
    BY <2>2, <2>3, Zenon DEF InTurn
  <2> QED
    BY <2>1, <2>2, <2>4, <2>5, Zenon
<1>7. ASSUME NEW q \in Requests, AllAlike(q, n + 1)'
      PROVE  q = r /\ AllAlike(q, n)
  <2>1. n + 1 \in 1 .. n + 1 /\ \A i \in 1 .. n : i \in 1 .. n + 1
    BY <1>1
  <2>2. \A i \in 1 .. n + 1 : answered'[i][1] = q
    BY <1>7, Zenon DEF AllAlike
  <2>3. answered'[n + 1][1] = q /\ \A i \in 1 .. n : answered'[i][1] = q
    BY <2>1, <2>2
  <2> QED
    BY <1>4, <2>3 DEF AllAlike
<1>8. ASSUME NEW q \in Requests, AllAlike(q, n + 1)'
      PROVE  UsedInTurn(q, n + 1)'
  <2>1. q = r /\ AllAlike(r, n) /\ UsedInTurn(r, n)
    BY <1>1, <1>7, <1>8
  <2>2. CASE Matching(r) # {}
    <3>1. UsedInTurn(r, n + 1)'
      BY <1>1, <2>1, <2>2, NextInTurn
    <3> QED
      BY <2>1, <3>1
  <2>3. CASE Matching(r) = {}
    <3>1. Matching(r)' = {} /\ UsedOf(r)' = {}
      BY <1>2, <2>3 DEF UsedOf
    <3>2. Cardinality({}) = 0 /\ Min({n + 1, 0}) = 0
      BY <1>1, FS_EmptySet, MinOfTwo
    <3>3. UsedInTurn(r, n + 1)'
      BY <3>1, <3>2 DEF UsedInTurn
    <3> QED
      BY <2>1, <3>3
  <2> QED
    BY <2>2, <2>3
<1>9. InTurn(n + 1)'
  <2>1. answered'[n + 1][1] = r /\ answered'[n + 1][2] = b
    BY <1>4
  <2> SUFFICES ASSUME AllAlike(r, n + 1)'
               PROVE  IF Matching(r) = {} THEN b = 0
                      ELSE /\ b \in Matching(r)
                           /\ Cardinality({k \in Matching(r) : k <= b})
                                = Min({n + 1, Cardinality(Matching(r))})
    <3>1. Matching(r)' = Matching(r)
      BY <1>2
    <3> QED
      BY <2>1, <3>1, Zenon DEF InTurn
  <2>2. AllAlike(r, n) /\ UsedInTurn(r, n)
    BY <1>1, <1>7
  <2>3. CASE Matching(r) = {}
    BY <1>3, <2>3
  <2>4. CASE Matching(r) # {}
    BY <1>1, <1>3, <2>2, <2>4, NextInTurn
  <2> QED
    BY <2>3, <2>4
<1>10. \A i \in 1 .. n + 1 : InTurn(i)'
  <2>1. \A i \in 1 .. n + 1 : i \in 1 .. n \/ i = n + 1
    BY <1>1
  <2> QED
    BY <1>6, <1>9, <2>1
<1> QED
  BY <1>2, <1>4, <1>8, <1>10 DEF CannedInv

\* Responses are given in turn, to requests that are all alike.
THEOREM AnsweredInTurn ==
    ASSUME RunConstants PROVE RunSpec => []CannedInTurn
<1>1. RunInit => CannedInv
  <2> SUFFICES ASSUME RunInit PROVE CannedInv
    OBVIOUS
  <2>1. PICK lines \in Files : canned = ReadResponses(lines).canned
    BY DEF RunInit
  <2>2. canned \in Seq(Block) /\ \A k \in 1 .. Len(canned) : ~canned[k].used
    BY <2>1, ReadIsFresh DEF Fresh, File
  <2>3. answered = <<>> /\ Len(answered) = 0 /\ answered \in Seq(Requests \X Nat)
    BY DEF RunInit
  <2>4. ASSUME NEW r \in Requests PROVE UsedInTurn(r, 0)
    <3>1. UsedOf(r) = {}
      BY <2>2, MatchingFinite DEF UsedOf
    <3>2. Cardinality({}) = 0
      BY FS_EmptySet
    <3>3. Min({0, Cardinality(Matching(r))}) = 0
      BY <2>2, MatchingFinite, MinOfTwo
    <3> QED
      BY <3>1, <3>2, <3>3 DEF UsedInTurn
  <2>5. \A n \in 1 .. 0 : InTurn(n)
    OBVIOUS
  <2> QED
    BY <2>2, <2>3, <2>4, <2>5 DEF CannedInv
<1>2. CannedInv /\ [RunNext]_runVars => CannedInv'
  <2> SUFFICES ASSUME CannedInv, [RunNext]_runVars PROVE CannedInv'
    OBVIOUS
  <2>1. CASE Request
    BY <2>1, AnswerKeeps DEF Request
  <2>2. CASE ~Request
    <3>1. UNCHANGED <<canned, answered>>
      BY <2>2 DEF RunNext, Malloc, Realloc, Free, ArenaUse, InsideLoad, LoadReturns, StartLoad,
         StartTick, TickReturns, StartUnload, UnloadReturns, LoopEnds, Exit, runVars
    <3>2. canned' = canned /\ answered' = answered
      BY <3>1
    <3>3. ASSUME NEW r \in Requests, NEW n
          PROVE  (AllAlike(r, n) => UsedInTurn(r, n))' <=> (AllAlike(r, n) => UsedInTurn(r, n))
      BY <3>2, Zenon DEF AllAlike, UsedInTurn, UsedOf, Matching
    <3>4. PICK m : m = Len(answered)
      OBVIOUS
    <3>5. \A r \in Requests : AllAlike(r, m)' => UsedInTurn(r, m)'
      BY <3>3, <3>4 DEF CannedInv
    <3>6. \A n \in 1 .. m : InTurn(n)'
      <4> SUFFICES ASSUME NEW n \in 1 .. m PROVE InTurn(n)'
        OBVIOUS
      <4>1. InTurn(n)
        BY <3>4 DEF CannedInv
      <4> QED
        BY <3>2, <4>1, Zenon DEF InTurn, AllAlike, Matching
    <3> QED
      BY <3>2, <3>4, <3>5, <3>6 DEF CannedInv
  <2> QED
    BY <2>1, <2>2
<1>3. CannedInv => CannedInTurn
  BY Zenon DEF CannedInv, CannedInTurn, InTurn, AllAlike
<1> QED
  BY <1>1, <1>2, <1>3, PTL DEF RunSpec

-----------------------------------------------------------------------------
(* Sequences.                                                              *)

Members(s) == {s[i] : i \in 1 .. Len(s)}
Distinct(s) == \A i, j \in 1 .. Len(s) : s[i] = s[j] => i = j

\* A piece of a sequence without duplicates has none.
LEMMA PieceDistinct ==
    ASSUME NEW S, NEW s \in Seq(S), Distinct(s), NEW m \in 1 .. Len(s)
    PROVE  /\ SubSeq(s, m, Len(s)) \in Seq(S) /\ Distinct(SubSeq(s, m, Len(s)))
           /\ Len(SubSeq(s, m, Len(s))) > 0
           /\ Members(SubSeq(s, m, Len(s))) \subseteq Members(s)
<1> DEFINE n == Len(s)
           p == SubSeq(s, m, n)
<1>1. n \in Nat /\ \A i \in 1 .. n : s[i] \in S
  BY LenProperties, ElementOfSeq
<1>2. m \in Nat /\ n - m + 1 \in Nat /\ n - m + 1 > 0
  BY <1>1
<1>3. p \in Seq(S) /\ Len(p) = n - m + 1 /\ \A i \in 1 .. n - m + 1 : p[i] = s[m + i - 1]
  <2>1. \A i \in m .. n : s[i] \in S
    BY <1>1
  <2> QED
    BY <1>1, <1>2, <2>1, SubSeqProperties
<1>4. ASSUME NEW i \in 1 .. n - m + 1 PROVE m + i - 1 \in 1 .. n
  BY <1>1, <1>2
<1> HIDE DEF n, p
<1>5. Distinct(p)
  <2> SUFFICES ASSUME NEW i \in 1 .. n - m + 1, NEW j \in 1 .. n - m + 1, p[i] = p[j]
               PROVE  i = j
    BY <1>3 DEF Distinct
  <2>1. s[m + i - 1] = s[m + j - 1]
    BY <1>3
  <2>2. m + i - 1 = m + j - 1
    BY <1>4, <2>1 DEF Distinct, n
  <2> QED
    BY <1>1, <1>2, <2>2
<1>6. Members(p) \subseteq Members(s)
  BY <1>3, <1>4 DEF Members, n
<1> QED
  BY <1>2, <1>3, <1>5, <1>6 DEF n, p

-----------------------------------------------------------------------------
(* epiccharging.be.                                                        *)

\* The listed ports that have been dealt with and have their share.
Settled == {p \in listed \ Members(ports) : limit[p] = Clamped(p)}

\* While requests are answered, the ports to come are listed ones, each once,
\* and as many as were sent are settled; a report says no more than that.
EpicInv ==
    /\ listed \in SUBSET Ports /\ share \in Nat /\ figure \in Nat
    /\ listed # {} => share * Cardinality(listed) = figure
    /\ limit \in [Ports -> {Unlimited} \cup Nat]
    /\ wait = "get" => figure \in Headrooms /\ sent = 0
    /\ wait = "patch" =>
          /\ ports \in Seq(listed) /\ Len(ports) > 0 /\ Distinct(ports)
          /\ sent \in Nat /\ sent <= Cardinality(Settled)
    /\ wait = "idle" /\ said[1] = "sent" =>
          /\ said[3] = Cardinality(listed)
          /\ said[2] \in Nat
          /\ said[2] <= Cardinality({p \in listed : limit[p] = Clamped(p)})

\* The loop ends with a report, or goes on with some of the rest.
LEMMA OnWithGoes ==
    ASSUME NEW S, NEW rest \in Seq(S), Distinct(rest), NEW done, NEW size,
           OnWith(rest, done, size)
    PROVE  \/ wait' = "idle" /\ said' = <<"sent", done, size>>
           \/ /\ wait' \in {"patch", "failed"} /\ said' = said
              /\ ports' \in Seq(S) /\ Len(ports') > 0 /\ Distinct(ports')
              /\ Members(ports') \subseteq Members(rest)
<1> DEFINE named == {i \in DOMAIN rest : rest[i] \notin Nameless}
<1>1. DOMAIN rest = 1 .. Len(rest) /\ Len(rest) \in Nat
  BY LenProperties
<1>2. CASE named = {}
  BY <1>2 DEF OnWith, Say
<1>3. CASE named # {}
  <2>1. /\ wait' \in {"patch", "failed"} /\ said' = said
        /\ ports' = SubSeq(rest, Min(named), Len(rest))
    BY <1>3 DEF OnWith, Ask
  <2>2. Min(named) \in 1 .. Len(rest)
    <3>1. IsFiniteSet(1 .. Len(rest)) /\ named \subseteq 1 .. Len(rest)
      BY <1>1, FS_Interval
    <3>2. IsFiniteSet(named) /\ named \subseteq Int
      BY <3>1, FS_Subset
    <3> HIDE DEF named
    <3>3. Min(named) \in named
      BY <1>3, <3>2, Extremes
    <3> QED
      BY <3>1, <3>3
  <2> HIDE DEF named
  <2> QED
    BY <2>1, <2>2, PieceDistinct
<1> QED
  BY <1>2, <1>3

\* The sets that are counted are finite.
LEMMA ListedFinite ==
    ASSUME SharesAreWhole, EpicInv
    PROVE  /\ IsFiniteSet(listed) /\ Cardinality(listed) \in Nat
           /\ \A S \in SUBSET listed :
                 /\ IsFiniteSet(S) /\ Cardinality(S) \in Nat
                 /\ Cardinality(S) <= Cardinality(listed)
                 /\ Cardinality(S) = Cardinality(listed) => S = listed
<1>1. IsFiniteSet(listed)
  BY FS_Subset DEF SharesAreWhole, EpicInv
<1> QED
  BY <1>1, FS_Subset, FS_CardinalityType

\* A clamped share is a number, no greater than the share.
LEMMA ClampedIs ==
    ASSUME SharesAreWhole, EpicInv, NEW p \in Ports
    PROVE  Clamped(p) \in Nat /\ Clamped(p) <= share
<1>1. MaxPower[p] \in Nat /\ share \in Nat
  BY DEF SharesAreWhole, EpicInv
<1> QED
  BY <1>1 DEF Clamped

\* A PATCH: the first port may now have its share, and is counted as sent only
\* if it has.
LEMMA PatchKeeps ==
    ASSUME SharesAreWhole, EpicInv, wait = "patch", UNCHANGED <<share, listed, figure>>, sent' \in {sent, sent + 1},
           \/ sent' = sent /\ limit' = limit
           \/ limit' = [limit EXCEPT ![Head(ports)] = Clamped(Head(ports))],
           OnWith(Tail(ports), sent', Cardinality(listed))
    PROVE  EpicInv'
<1> DEFINE p == Head(ports)
           rest == Tail(ports)
           Has == {q \in listed : limit'[q] = Clamped(q)}
<1>1. /\ listed \in SUBSET Ports /\ share \in Nat /\ figure \in Nat
      /\ ports \in Seq(listed) /\ Len(ports) > 0 /\ Distinct(ports)
      /\ sent \in Nat /\ sent <= Cardinality(Settled)
      /\ limit \in [Ports -> {Unlimited} \cup Nat]
      /\ listed # {} => share * Cardinality(listed) = figure
  BY DEF EpicInv
<1>2. /\ rest \in Seq(listed) /\ Distinct(rest) /\ Members(rest) \subseteq Members(ports)
      /\ p \in listed /\ p \in Members(ports) /\ p \notin Members(rest)
  <2>1. /\ p = ports[1] /\ p \in listed /\ rest \in Seq(listed) /\ Len(rest) = Len(ports) - 1
        /\ \A i \in 1 .. Len(rest) : rest[i] = ports[i + 1]
    <3>1. ports # <<>>
      BY <1>1
    <3> QED
      BY <1>1, <3>1, HeadTailProperties
  <2>2. Len(ports) \in Nat /\ 1 \in 1 .. Len(ports)
    BY <1>1, LenProperties
  <2>3. \A i \in 1 .. Len(rest) : i + 1 \in 1 .. Len(ports) /\ i + 1 # 1
    BY <2>1, <2>2
  <2> HIDE DEF p, rest
  <2>4. Distinct(rest)
    BY <1>1, <2>1, <2>3 DEF Distinct
  <2>5. Members(rest) \subseteq Members(ports) /\ p \in Members(ports)
    BY <2>1, <2>2, <2>3 DEF Members
  <2>6. p \notin Members(rest)
    <3> SUFFICES ASSUME NEW i \in 1 .. Len(rest), p = rest[i] PROVE FALSE
      BY DEF Members
    <3>1. ports[i + 1] = ports[1] /\ i + 1 \in 1 .. Len(ports) /\ i + 1 # 1
      BY <2>1, <2>3
    <3> QED
      BY <1>1, <2>2, <3>1 DEF Distinct
  <2> QED
    BY <2>1, <2>4, <2>5, <2>6
<1>3. limit' \in [Ports -> {Unlimited} \cup Nat] /\ \A q \in Ports : q # p => limit'[q] = limit[q]
  <2>1. Clamped(p) \in Nat
    BY <1>1, <1>2, ClampedIs
  <2> HIDE DEF p
  <2>2. limit' = limit \/ limit' = [limit EXCEPT ![p] = Clamped(p)]
    BY DEF p
  <2> QED
    BY <1>1, <2>1, <2>2
<1>4. \A q : Clamped(q)' = Clamped(q)
  BY DEF Clamped
<1>5. /\ IsFiniteSet(listed) /\ Cardinality(listed) \in Nat
      /\ \A S \in SUBSET listed : IsFiniteSet(S) /\ Cardinality(S) \in Nat
  BY ListedFinite
<1> HIDE DEF p, rest
<1>6. Settled \subseteq listed /\ p \notin Settled /\ \A q \in Settled : q \notin Members(ports)
  BY <1>2 DEF Settled
<1>7. ASSUME NEW R, R \subseteq Members(rest)
      PROVE  /\ {q \in listed \ R : limit'[q] = Clamped(q)} \in SUBSET listed
             /\ Cardinality({q \in listed \ R : limit'[q] = Clamped(q)}) \in Nat
             /\ sent' \in Nat
             /\ sent' <= Cardinality({q \in listed \ R : limit'[q] = Clamped(q)})
  <2> DEFINE X == {q \in listed \ R : limit'[q] = Clamped(q)}
  <2>1. X \in SUBSET listed /\ IsFiniteSet(X) /\ Cardinality(X) \in Nat
    BY <1>5
  <2>2. Settled \subseteq X
    <3>1. \A q \in Settled : q \in Ports /\ q # p /\ q \notin R /\ q \in listed
      BY <1>1, <1>2, <1>6, <1>7
    <3> QED
      BY <1>3, <3>1 DEF Settled
  <2>3. Cardinality(Settled) \in Nat /\ IsFiniteSet(Settled)
    BY <1>5, <1>6
  <2>4. CASE sent' = sent
    <3>1. Cardinality(Settled) <= Cardinality(X)
      BY <2>1, <2>2, FS_Subset
    <3> HIDE DEF X
    <3> QED
      BY <1>1, <2>1, <2>3, <2>4, <3>1 DEF X
  <2>5. CASE sent' = sent + 1
    <3>1. limit' = [limit EXCEPT ![p] = Clamped(p)]
      BY <1>1, <2>5 DEF p
    <3>2. p \in X
      BY <1>1, <1>2, <1>7, <3>1
    <3>3. Settled \cup {p} \subseteq X
      BY <2>2, <3>2
    <3>4. IsFiniteSet(Settled \cup {p}) /\ Cardinality(Settled \cup {p}) = Cardinality(Settled) + 1
      BY <1>6, <2>3, FS_AddElement
    <3>5. Cardinality(Settled \cup {p}) <= Cardinality(X)
      BY <2>1, <3>3, FS_Subset
    <3> HIDE DEF X
    <3> QED
      BY <1>1, <2>1, <2>3, <2>5, <3>4, <3>5 DEF X
  <2> QED
    BY <2>1, <2>4, <2>5
<1>8. \/ wait' = "idle" /\ said' = <<"sent", sent', Cardinality(listed)>>
      \/ /\ wait' \in {"patch", "failed"} /\ said' = said
         /\ ports' \in Seq(listed) /\ Len(ports') > 0 /\ Distinct(ports')
         /\ Members(ports') \subseteq Members(rest)
  BY <1>2, OnWithGoes DEF rest
<1>9. /\ listed' \in SUBSET Ports /\ share' \in Nat /\ figure' \in Nat
      /\ limit' \in [Ports -> {Unlimited} \cup Nat] /\ wait' # "get"
      /\ listed' # {} => share' * Cardinality(listed') = figure'
  BY <1>1, <1>3, <1>8
<1>10. wait' = "patch" =>
          /\ ports' \in Seq(listed') /\ Len(ports') > 0 /\ Distinct(ports')
          /\ sent' \in Nat /\ sent' <= Cardinality(Settled')
  <2> SUFFICES ASSUME wait' = "patch"
               PROVE  /\ ports' \in Seq(listed') /\ Len(ports') > 0 /\ Distinct(ports')
                      /\ sent' \in Nat /\ sent' <= Cardinality(Settled')
    OBVIOUS
  <2>1. /\ ports' \in Seq(listed) /\ Len(ports') > 0 /\ Distinct(ports')
        /\ Members(ports') \subseteq Members(rest)
    BY <1>8
  <2>2. Settled' = {q \in listed \ Members(ports') : limit'[q] = Clamped(q)}
    BY <1>4 DEF Settled, Members
  <2>3. /\ sent' \in Nat
        /\ sent' <= Cardinality({q \in listed \ Members(ports') : limit'[q] = Clamped(q)})
    BY <1>7, <2>1
  <2> QED
    BY <2>1, <2>2, <2>3
<1>11. wait' = "idle" /\ said'[1] = "sent" =>
          /\ said'[3] = Cardinality(listed')
          /\ said'[2] \in Nat
          /\ said'[2] <= Cardinality({q \in listed : limit'[q] = Clamped(q)})
  <2> SUFFICES ASSUME wait' = "idle"
               PROVE  /\ said'[3] = Cardinality(listed')
                      /\ said'[2] \in Nat
                      /\ said'[2] <= Cardinality({q \in listed : limit'[q] = Clamped(q)})
    OBVIOUS
  <2>1. said' = <<"sent", sent', Cardinality(listed)>>
    BY <1>8
  <2>2. sent' \in Nat /\ sent' <= Cardinality({q \in listed \ {} : limit'[q] = Clamped(q)})
    BY <1>7
  <2>3. listed \ {} = listed
    OBVIOUS
  <2> QED
    BY <2>1, <2>2, <2>3
<1>12. {q \in listed : limit[q] = Clamped(q)}' = {q \in listed : limit'[q] = Clamped(q)}
  BY <1>4
<1> QED
  BY <1>9, <1>10, <1>11, <1>12, Zenon DEF EpicInv

\* The list: its shares are those of the figure that was read.
LEMMA ListKeeps ==
    ASSUME SharesAreWhole, EpicInv, Listed
    PROVE  EpicInv'
<1>0. PICK page \in SUBSET Ports :
        /\ wait = "get" /\ Cardinality(page) \in 1 .. PageSize
        /\ listed' = page /\ share' = figure \div Cardinality(page)
        /\ \E order \in Injection(1 .. Cardinality(page), page) :
              OnWith(order, 0, Cardinality(page))
        /\ UNCHANGED <<sent, figure, limit>>
  BY DEF Listed
<1>1. PICK order \in Injection(1 .. Cardinality(page), page) :
        /\ wait = "get" /\ Cardinality(page) \in 1 .. PageSize
        /\ listed' = page /\ share' = figure \div Cardinality(page)
        /\ OnWith(order, 0, Cardinality(page))
        /\ sent' = sent /\ figure' = figure /\ limit' = limit
  BY <1>0
<1> DEFINE n == Cardinality(page)
<1>2. n \in 1 .. PageSize /\ n \in Nat /\ PageSize \in Nat
  BY <1>1 DEF SharesAreWhole
<1>3. order \in Seq(page) /\ Distinct(order)
  <2>1. /\ order \in [1 .. n -> page]
        /\ \A i, j \in 1 .. n : order[i] = order[j] => i = j
    BY <1>1 DEF Injection, IsInjective
  <2> HIDE DEF n
  <2>2. order \in Seq(page) /\ Len(order) = n
    BY <1>2, <2>1
  <2> QED
    BY <2>1, <2>2 DEF Distinct
<1>4. /\ limit \in [Ports -> {Unlimited} \cup Nat] /\ figure \in Nat /\ figure \in Headrooms
      /\ sent = 0
  BY <1>1 DEF EpicInv
<1>5. share' * n = figure /\ share' \in Nat
  <2>1. (figure \div n) * n = figure /\ figure \div n \in Nat
    BY <1>2, <1>4 DEF SharesAreWhole
  <2> QED
    BY <1>1, <2>1
<1>6. \/ wait' = "idle" /\ said' = <<"sent", 0, n>>
      \/ /\ wait' \in {"patch", "failed"} /\ said' = said
         /\ ports' \in Seq(page) /\ Len(ports') > 0 /\ Distinct(ports')
  BY <1>1, <1>3, OnWithGoes
<1>7. \A S : S \subseteq page => Cardinality(S) \in Nat /\ 0 <= Cardinality(S)
  <2>1. IsFiniteSet(page)
    BY FS_Subset DEF SharesAreWhole
  <2> QED
    BY <2>1, FS_Subset, FS_CardinalityType
<1> HIDE DEF n
<1>8. Cardinality(Settled') \in Nat /\ 0 <= Cardinality(Settled')
  <2>1. Settled' \subseteq page
    BY <1>1 DEF Settled
  <2> QED
    BY <1>7, <2>1
<1>9. /\ Cardinality({q \in listed : limit[q] = Clamped(q)}') \in Nat
      /\ 0 <= Cardinality({q \in listed : limit[q] = Clamped(q)}')
  <2>1. {q \in listed : limit[q] = Clamped(q)}' \subseteq page
    BY <1>1
  <2> QED
    BY <1>7, <2>1
<1>10. /\ listed' \in SUBSET Ports /\ figure' \in Nat /\ wait' # "get"
       /\ limit' \in [Ports -> {Unlimited} \cup Nat]
       /\ share' * Cardinality(listed') = figure'
  BY <1>1, <1>4, <1>5, <1>6 DEF n
<1>11. wait' = "patch" =>
          /\ ports' \in Seq(listed') /\ Len(ports') > 0 /\ Distinct(ports')
          /\ sent' \in Nat /\ sent' <= Cardinality(Settled')
  BY <1>1, <1>4, <1>6, <1>8
<1>12. wait' = "idle" => said' = <<"sent", 0, Cardinality(listed')>>
  BY <1>1, <1>6 DEF n
<1> QED
  BY <1>5, <1>9, <1>10, <1>11, <1>12 DEF EpicInv

\* Every step of a tick, and between two.
LEMMA EpicStep ==
    ASSUME SharesAreWhole, EpicInv, [EpicNext]_epicVars
    PROVE  EpicInv'
<1>0. USE DEF tickVars
<1>1. CASE Listed
  BY <1>1, ListKeeps
<1>2. CASE PatchTaken
  <2>1. /\ wait = "patch" /\ UNCHANGED <<share, listed, figure>> /\ sent' = sent + 1
        /\ limit' = [limit EXCEPT ![Head(ports)] = Clamped(Head(ports))]
        /\ OnWith(Tail(ports), sent + 1, Cardinality(listed))
    BY <1>2 DEF PatchTaken
  <2>2. OnWith(Tail(ports), sent', Cardinality(listed)) /\ sent' \in {sent, sent + 1}
    BY <2>1
  <2> QED
    BY <2>1, <2>2, PatchKeeps
<1>3. CASE PatchFails
  <2>1. /\ wait = "patch" /\ UNCHANGED <<share, listed, figure>> /\ sent' = sent
        /\ \/ limit' = limit
           \/ limit' = [limit EXCEPT ![Head(ports)] = Clamped(Head(ports))]
        /\ OnWith(Tail(ports), sent, Cardinality(listed))
    BY <1>3 DEF PatchFails
  <2>2. OnWith(Tail(ports), sent', Cardinality(listed)) /\ sent' \in {sent, sent + 1}
    BY <2>1
  <2> QED
    BY <2>1, <2>2, PatchKeeps
<1>4. CASE EpicTick
  <2>1. /\ figure' \in Headrooms /\ sent' = 0 /\ listed' = {} /\ share' = 0 /\ limit' = limit
        /\ \/ wait' = "get"
           \/ wait' = "idle" /\ said' = <<"not asked">>
    BY <1>4 DEF EpicTick
  <2>2. figure' \in Nat /\ listed' \in SUBSET Ports
    BY <2>1 DEF SharesAreWhole
  <2>3. wait' = "idle" => said'[1] # "sent"
    <3>1. wait' = "idle" => said' = <<"not asked">>
      BY <2>1
    <3>2. <<"not asked">>[1] = "not asked"
      OBVIOUS
    <3> QED
      BY <3>1, <3>2
  <2> QED
    BY <2>1, <2>2, <2>3 DEF EpicInv
<1>5. CASE NotListed \/ EpicReload
  <2>1. /\ UNCHANGED <<ports, share, sent, listed, figure, limit>> /\ wait' = "idle"
        /\ said' \in {<<"no port charging">>, <<"api GET">>, <<"failed">>}
    BY <1>5 DEF NotListed, EpicReload, Say
  <2>2. said'[1] # "sent"
    <3>1. /\ <<"no port charging">>[1] = "no port charging" /\ <<"api GET">>[1] = "api GET"
          /\ <<"failed">>[1] = "failed"
      OBVIOUS
    <3> QED
      BY <2>1, <3>1
  <2> QED
    BY <2>1, <2>2 DEF EpicInv
<1>6. CASE EpicFails
  <2>1. /\ UNCHANGED <<share, listed, figure>> /\ wait' = "failed"
        /\ \/ limit' = limit
           \/ wait = "patch" /\ limit' = [limit EXCEPT ![Head(ports)] = Clamped(Head(ports))]
    BY <1>6 DEF EpicFails
  <2>2. limit' \in [Ports -> {Unlimited} \cup Nat]
    <3>1. CASE limit' = limit
      BY <3>1 DEF EpicInv
    <3>2. CASE wait = "patch" /\ limit' = [limit EXCEPT ![Head(ports)] = Clamped(Head(ports))]
      <4>1. ports \in Seq(listed) /\ ports # <<>> /\ listed \in SUBSET Ports
        BY <3>2 DEF EpicInv
      <4>2. Head(ports) \in Ports
        BY <4>1, HeadTailProperties
      <4>3. Clamped(Head(ports)) \in Nat
        BY <4>2, ClampedIs
      <4> QED
        BY <3>2, <4>2, <4>3 DEF EpicInv
    <3> QED
      BY <2>1, <3>1, <3>2
  <2> QED
    BY <2>1, <2>2 DEF EpicInv
<1>7. CASE UNCHANGED epicVars
  <2>1. UNCHANGED <<ports, share, sent, listed, figure, limit, wait, said>>
    BY <1>7 DEF epicVars
  <2>2. Settled' = Settled
    BY <2>1 DEF Settled, Members, Clamped
  <2>3. {q \in listed : limit[q] = Clamped(q)}' = {q \in listed : limit[q] = Clamped(q)}
    BY <2>1 DEF Clamped
  <2> QED
    BY <2>1, <2>2, <2>3 DEF EpicInv, Distinct
<1> QED
  BY <1>1, <1>2, <1>3, <1>4, <1>5, <1>6, <1>7 DEF EpicNext

\* Of any tenant's ports, a tick never reports one as sent that has not its
\* share, and a headroom that all have a share of is not exceeded.
THEOREM SharesAreSent ==
    ASSUME SharesAreWhole PROVE EpicSpec => []SentPortsHaveShare
<1>1. EpicInit => EpicInv
  <2> SUFFICES ASSUME EpicInit PROVE EpicInv
    OBVIOUS
  <2>1. /\ wait = "idle" /\ share = 0 /\ listed = {} /\ figure = 0 /\ said = <<"none">>
        /\ limit = [p \in Ports |-> Unlimited]
    BY DEF EpicInit
  <2>2. said[1] # "sent" /\ limit \in [Ports -> {Unlimited} \cup Nat]
    BY <2>1
  <2> QED
    BY <2>1, <2>2 DEF EpicInv
<1>2. EpicInv /\ [EpicNext]_epicVars => EpicInv'
  BY EpicStep
<1>3. EpicInv => SentPortsHaveShare
  <2> SUFFICES ASSUME EpicInv, wait = "idle", said[1] = "sent"
               PROVE  /\ said[3] = Cardinality(listed)
                      /\ said[2] <= Cardinality({p \in listed : HasShare(p)})
                      /\ said[2] = said[3] =>
                           MapThenSumSet(LAMBDA p : limit[p], listed) <= figure
    BY Zenon DEF SentPortsHaveShare
  <2> DEFINE Has == {p \in listed : limit[p] = Clamped(p)}
             n == Cardinality(listed)
  <2>1. /\ said[3] = n /\ said[2] \in Nat /\ said[2] <= Cardinality(Has)
        /\ listed \in SUBSET Ports /\ share \in Nat /\ figure \in Nat
        /\ listed # {} => share * n = figure
    BY DEF EpicInv
  <2>2. n \in Nat /\ IsFiniteSet(listed) /\ Has \in SUBSET listed
        /\ IsFiniteSet(Has) /\ Cardinality(Has) \in Nat
    BY ListedFinite
  <2>3. said[2] <= Cardinality({p \in listed : HasShare(p)})
    <3>1. ASSUME NEW p \in Has PROVE HasShare(p)
      <4>1. share * n = figure /\ limit[p] = Clamped(p)
        BY <2>1
      <4> HIDE DEF n, Has
      <4>2. limit[p] = share \/ limit[p] = MaxPower[p]
        BY <4>1 DEF Clamped
      <4> QED
        BY <4>1, <4>2, Zenon DEF HasShare, n
    <3> DEFINE Share == {p \in listed : HasShare(p)}
    <3>2. Has \subseteq Share /\ IsFiniteSet(Share) /\ Cardinality(Share) \in Nat
      BY <3>1, ListedFinite
    <3> HIDE DEF Share, Has
    <3>3. Cardinality(Has) <= Cardinality(Share)
      BY <3>2, FS_Subset
    <3> QED
      BY <2>1, <2>2, <3>2, <3>3 DEF Share
  <2>4. ASSUME said[2] = said[3]
        PROVE  MapThenSumSet(LAMBDA p : limit[p], listed) <= figure
    <3>1. MapThenSumSet(LAMBDA p : limit[p], listed) = SumOf(limit, listed)
      BY Zenon DEF MapThenSumSet, MapThenFoldSet, SumOf, Sums, IsSum
    <3>2. Cardinality(Has) = n
      <4>1. Cardinality(Has) <= n
        BY <2>2, ListedFinite
      <4> HIDE DEF Has
      <4> QED
        BY <2>1, <2>2, <2>4, <4>1
    <3>3. Has = listed
      BY <2>2, <3>2, ListedFinite
    <3>4. \A p \in listed : limit[p] \in Int /\ limit[p] <= share
      BY <2>1, <3>3, ClampedIs
    <3>5. SumOf(limit, listed) <= share * n
      BY <2>1, <2>2, <3>4, SumAtMost
    <3>6. CASE listed # {}
      BY <2>1, <3>1, <3>5, <3>6
    <3>7. CASE listed = {}
      <4>1. SumOf(limit, listed) = 0
        BY <2>2, <3>7, SumFirst
      <4> QED
        BY <2>1, <3>1, <4>1
    <3> QED
      BY <3>6, <3>7
  <2> QED
    BY <2>1, <2>3, <2>4
<1> QED
  BY <1>1, <1>2, <1>3, PTL DEF EpicSpec
=============================================================================
