----------------------------- MODULE Parts_proofs -----------------------------
(***************************************************************************)
(* What is proved of the parts holds of them side by side: each behaviour  *)
(* of Parts is one of every part, which moves or stutters.                 *)
(***************************************************************************)
EXTENDS Parts, TLAPS

-----------------------------------------------------------------------------
(* The collector.                                                          *)

\* Seen from the collector, the parts are the collector.
LEMMA HeapRuns == PartsSpec => Heap!Spec
<1>1. PartsInit => Heap!Init
  BY DEF PartsInit
<1>2. [PartsNext]_partsVars => [Heap!Next]_Heap!heapVars
  BY Zenon DEF PartsNext, Only, partsVars, heapVars, Heap!heapVars
<1> QED
  BY <1>1, <1>2, PTL DEF PartsSpec, Heap!Spec

\* However large the heap and however long the script runs: what can be reached
\* exists, and so does all a destructor is about to see.
THEOREM HeapCorrect == PartsSpec => []NothingFreedEarly
<1>0. Heap!NodesAreNumbered
  BY PartsConstants
<1>1. Heap!Spec => [](Heap!ReachableIsKept /\ Heap!DestructorsSeeAll /\ Heap!HeapInOrder)
  BY <1>0, Heap!ReachableKept, Heap!DestructorsSee, Heap!ListInOrder, PTL
<1>2. Heap!ReachableIsKept /\ Heap!DestructorsSeeAll /\ Heap!HeapInOrder => NothingFreedEarly
  BY DEF NothingFreedEarly
<1> QED
  BY <1>1, <1>2, HeapRuns, PTL

\* A collection that no destructor disturbs frees all that cannot be reached.
THEOREM AllGarbageGoes == PartsSpec => CollectsAllGarbage
<1>1. Heap!Spec => CollectsAllGarbage
  BY PartsConstants, Heap!GarbageCollected DEF CollectsAllGarbage
<1> QED
  BY <1>1, HeapRuns

-----------------------------------------------------------------------------
(* Strings.                                                                *)

\* Seen from the strings, the parts are the strings.
LEMMA StringsRun == PartsSpec => Heap!StringsSpec
<1>1. PartsInit => Heap!StringsInit
  BY DEF PartsInit
<1>2. [PartsNext]_partsVars => [Heap!StringsNext]_Heap!strVars
  BY Zenon DEF PartsNext, Only, partsVars, strVars, Heap!strVars
<1> QED
  BY <1>1, <1>2, PTL DEF PartsSpec, Heap!StringsSpec

\* Two strings the program holds are equal to the interpreter exactly when they
\* read the same, and each short one is in the table once, where its hash says,
\* for any texts, hashes, constants and sizes of the table.
THEOREM StringsAreTheirTexts == PartsSpec => []EqualMeansSameText
<1>1. Heap!StringsSpec => [](Heap!EqualMeansSameText /\ Heap!TableInOrder)
  BY PartsConstants, Heap!StringsCorrect
<1>2. Heap!EqualMeansSameText /\ Heap!TableInOrder => EqualMeansSameText
  BY DEF EqualMeansSameText
<1> QED
  BY <1>1, <1>2, StringsRun, PTL

-----------------------------------------------------------------------------
(* Memory.                                                                 *)

\* Seen from the pools, the parts are the pools.
LEMMA PoolsRun == PartsSpec => Heap!PoolsSpec
<1>1. PartsInit => Heap!PoolsInit
  BY DEF PartsInit
<1>2. [PartsNext]_partsVars => [Heap!PoolsNext]_Heap!poolVars
  BY Zenon DEF PartsNext, Only, partsVars, poolVars, Heap!poolVars
<1> QED
  BY <1>1, <1>2, PTL DEF PartsSpec, Heap!PoolsSpec

\* Blocks never overlap, no slot of a pool is lost, and gc.usage is what is in
\* use, for any blocks, sizes and pools, and whichever allocation fails.
THEOREM MemoryCorrect == PartsSpec => []BlocksApart
<1>1. Heap!PoolsSpec => [](Heap!BlocksApart /\ Heap!UsageIsInUse)
  BY PartsConstants, Heap!PoolsCorrect
<1>2. Heap!BlocksApart /\ Heap!UsageIsInUse => BlocksApart
  BY DEF BlocksApart
<1> QED
  BY <1>1, <1>2, PoolsRun, PTL

-----------------------------------------------------------------------------
(* Vectors.                                                                *)

\* Seen from the vectors, the parts are the vectors.
LEMMA VectorRuns == PartsSpec => Storage!VectorSpec
<1>1. PartsInit => Storage!VectorInit
  BY DEF PartsInit
<1>2. [PartsNext]_partsVars => [Storage!VectorNext]_Storage!vectorVars
  BY Zenon DEF PartsNext, Only, partsVars, vectorVars, Storage!vectorVars
<1> QED
  BY <1>1, <1>2, PTL DEF PartsSpec, Storage!VectorSpec

\* The stack of error frames holds what was pushed, for stacks of any size.
THEOREM FramesAsPushed == PartsSpec => []StackAsPushed
<1>1. Storage!VectorSpec => []Storage!StackAsPushed
  BY PartsConstants, Storage!StackCorrect
<1>2. Storage!StackAsPushed => StackAsPushed
  BY DEF StackAsPushed
<1> QED
  BY <1>1, <1>2, VectorRuns, PTL

-----------------------------------------------------------------------------
(* Lists.                                                                  *)

\* Seen from the lists, the parts are the lists.
LEMMA ListRuns == PartsSpec => Storage!ListSpec
<1>1. PartsInit => Storage!ListInit
  BY DEF PartsInit
<1>2. [PartsNext]_partsVars => [Storage!ListNext]_Storage!listVars
  BY Zenon DEF PartsNext, Only, partsVars, listVars, Storage!listVars
<1> QED
  BY <1>1, <1>2, PTL DEF PartsSpec, Storage!ListSpec

\* Each list is the sequence the program made of it, reads as that sequence, and
\* a loop over one that only grows at its end sees all of it, for any items,
\* positions and numbers of calls.
THEOREM ListsAsMeant == PartsSpec => []ListAsMeant
<1>1. Storage!ListSpec => [](Storage!ListAsMeant /\ Storage!ReadsAsMeant /\ Storage!LoopSeesAll)
  BY PartsConstants, Storage!ListsCorrect
<1>2. Storage!ListAsMeant /\ Storage!ReadsAsMeant /\ Storage!LoopSeesAll => ListAsMeant
  BY DEF ListAsMeant
<1> QED
  BY <1>1, <1>2, ListRuns, PTL

-----------------------------------------------------------------------------
(* Maps.                                                                   *)

\* Seen from the maps, the parts are the maps.
LEMMA MapRuns == PartsSpec => Storage!MapSpec
<1>1. PartsInit => Storage!MapInit
  BY DEF PartsInit
<1>2. [PartsNext]_partsVars => [Storage!MapNext]_Storage!mapVars
  BY Zenon DEF PartsNext, Only, partsVars, mapVars, Storage!mapVars
<1> QED
  BY <1>1, <1>2, PTL DEF PartsSpec, Storage!MapSpec

\* Under each key there is what was last put there, on the chain of its main
\* slot, no chain is a circle, and a loop under which no key comes or goes sees
\* every key, for any keys, hash codes and values, however the map has grown.
THEOREM MapsAsPut == PartsSpec => []MapAsMeant
<1>1. Storage!MapSpec => [](Storage!FindsWhatWasPut /\ Storage!ChainsInOrder /\
                            Storage!WalksEnd /\ Storage!WalkSeesAll)
  BY PartsConstants, Storage!MapsCorrect
<1>2. (/\ Storage!FindsWhatWasPut /\ Storage!ChainsInOrder
       /\ Storage!WalksEnd /\ Storage!WalkSeesAll) => MapAsMeant
  BY DEF MapAsMeant
<1> QED
  BY <1>1, <1>2, MapRuns, PTL

-----------------------------------------------------------------------------
(* Bytes.                                                                  *)

\* Seen from the bytes objects, the parts are the bytes objects.
LEMMA BytesRun == PartsSpec => Storage!BytesSpec
<1>1. PartsInit => Storage!BytesInit
  BY DEF PartsInit
<1>2. [PartsNext]_partsVars => [Storage!BytesNext]_Storage!bytesVars
  BY Zenon DEF PartsNext, Only, partsVars, bytesVars, Storage!bytesVars
<1> QED
  BY <1>1, <1>2, PTL DEF PartsSpec, Storage!BytesSpec

\* Each bytes object has a buffer of its own, or is the view of another's, and
\* holds the bytes that the calls on it made, for any texts, numbers, sizes and
\* numbers of calls: no block is lost, freed twice or used when it is gone,
\* other than by the objects of which the code itself loses track.
THEOREM BytesAreWanted == PartsSpec => []BytesAsWanted
<1>1. Storage!BytesSpec => [](Storage!BuffersOwned /\ Storage!BytesAsWanted)
  BY PartsConstants, Storage!BytesCorrect
<1>2. Storage!BuffersOwned /\ Storage!BytesAsWanted => BytesAsWanted
  BY DEF BytesAsWanted
<1> QED
  BY <1>1, <1>2, BytesRun, PTL

-----------------------------------------------------------------------------
(* The runner.                                                             *)

\* Seen from the runner, the parts are the runner.
LEMMA RunnerRuns == PartsSpec => Runner!RunSpec
<1>1. PartsInit => Runner!RunInit
  BY DEF PartsInit
<1>2. [PartsNext]_partsVars => [Runner!RunNext]_Runner!runVars
  BY Zenon DEF PartsNext, Only, partsVars, runVars, Runner!runVars, Runner!slotVars, Runner!mainVars,
     Runner!arenaVars
<1> QED
  BY <1>1, <1>2, PTL DEF PartsSpec, Runner!RunSpec

\* The exit status is that of what happened, and the arena counts what is in
\* use, for any script, arena and number of ticks.
THEOREM StatusAndArena == PartsSpec => []ExitStatusTells
<1>0. Runner!RunConstants
  BY PartsConstants
<1>1. Runner!RunSpec => [](Runner!ExitStatusTells /\ Runner!ArenaCounted)
  BY <1>0, Runner!StatusCorrect, Runner!ArenaCorrect, PTL
<1>2. Runner!ExitStatusTells /\ Runner!ArenaCounted => ExitStatusTells
  BY DEF ExitStatusTells
<1> QED
  BY <1>1, <1>2, RunnerRuns, PTL

\* The n-th of requests that are all alike is answered by the n-th response
\* that matches, or by the last, for any responses file.
THEOREM ResponsesInTurn == PartsSpec => []CannedInTurn
<1>1. Runner!RunSpec => []Runner!CannedInTurn
  BY PartsConstants, Runner!AnsweredInTurn
<1>2. Runner!CannedInTurn => CannedInTurn
  BY DEF CannedInTurn
<1> QED
  BY <1>1, <1>2, RunnerRuns, PTL

-----------------------------------------------------------------------------
(* epiccharging.be.                                                        *)

\* Seen from the script, the parts are the script.
LEMMA EpicRuns == PartsSpec => Runner!EpicSpec
<1>1. PartsInit => Runner!EpicInit
  BY DEF PartsInit
<1>2. [PartsNext]_partsVars => [Runner!EpicNext]_Runner!epicVars
  BY Zenon DEF PartsNext, Only, partsVars, epicVars, Runner!epicVars, Runner!tickVars
<1> QED
  BY <1>1, <1>2, PTL DEF PartsSpec, Runner!EpicSpec

\* Of any tenant's ports, a tick never reports one as sent that has not its
\* share, and a headroom that all have a share of is not exceeded.
THEOREM PortsHaveShare == PartsSpec => []SentPortsHaveShare
<1>1. Runner!EpicSpec => []Runner!SentPortsHaveShare
  BY PartsConstants, Runner!SharesAreSent
<1>2. Runner!SentPortsHaveShare => SentPortsHaveShare
  BY DEF SentPortsHaveShare
<1> QED
  BY <1>1, <1>2, EpicRuns, PTL
=============================================================================
