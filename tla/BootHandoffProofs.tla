-------------------------- MODULE BootHandoffProofs --------------------------
(***************************************************************************)
(* Proofs about BootHandoff, for every size of map, number of runtime      *)
(* descriptors, page size and number of firmware events.                   *)
(***************************************************************************)
EXTENDS BootHandoff, TLAPS

Fetching == {"query", "realloc", "get"}
Fetched == {"exit", "adjust", "done"}

\* How far the firmware's map can have grown since the buffer's size was chosen: at
\* most one page of tags was taken for both allocations.
GrowthInv ==
    /\ pc = "alloc_runtime" => mapCount <= base + 2 + 2 * events
    /\ pc = "alloc_map" => mapCount <= base + (IF freeTags = 0 THEN 4 ELSE 6) + 2 * events
    /\ pc \in Fetching => mapCount <= base + 8 + 2 * events
    /\ pc = "realloc" => mapCount <= currentSize + 2 * events
    /\ pc \in Fetched => got <= base + 8 + 2 * events

\* What the code's idea of the buffer has to do with the buffer.
BufferInv ==
    /\ pc \in {"alloc_runtime", "alloc_map"} => memoryMapSize = base
    /\ pc \in Fetching /\ buffer # NULL => memoryMapSize = capacity
    /\ pc = "get" => currentSize <= memoryMapSize
    /\ pc \in Fetching \cup Fetched /\ buffer # NULL =>
         capacity >= base + runtimeMemoryDescriptors + Slack
    /\ pc \in Fetched => buffer # NULL /\ got <= capacity
    /\ pc \in {"exit", "adjust"} => memoryMapSize = got
    /\ pc = "done" => memoryMapSize <= got + 2 + parts

\* The map in the buffer is the firmware's map whenever the keys still agree.
KeyInv ==
    /\ gotKey <= mapKey
    /\ pc \in Fetched => memoryMapKey = gotKey
    /\ pc \in Fetched /\ gotKey = mapKey => got = mapCount
    /\ pc \in {"adjust", "done"} => gotKey = mapKey

\* The counter of either loop has not reached its limit while the loop runs.
LoopInv == pc \notin Fetched \cup {"failed"} => i < Retries

IInv == TypeOK /\ LoopInv /\ GrowthInv /\ BufferInv /\ KeyInv

\* The boot starts with nothing handed over.
LEMMA InitIInv == Init => IInv
  BY BoundsAssumption DEF Init, IInv, TypeOK, LoopInv, GrowthInv, BufferInv, KeyInv, Fetching,
                          Fetched, Retries, NULL, Allocated

\* Every action of the loader and of the firmware keeps the invariant.
LEMMA NextIInv == IInv /\ [Next]_vars => IInv'
<1> SUFFICES ASSUME IInv, [Next]_vars PROVE IInv'
  OBVIOUS
<1> USE BoundsAssumption DEF IInv, TypeOK, LoopInv, GrowthInv, BufferInv, KeyInv, Fetching,
        Fetched, Goto, fw, local, out, Retries, NULL, Allocated
<1>1. CASE MeasureSize
  BY <1>1 DEF MeasureSize
<1>2. CASE MeasureAlloc
  BY <1>2 DEF MeasureAlloc, Allocate, Free, FreeAndAllocate, MapChanges
<1>3. CASE MeasureGet
  BY <1>3 DEF MeasureGet, Free, MapChanges
<1>4. CASE AllocRuntimeArea
  BY <1>4 DEF AllocRuntimeArea, Allocate, Free, FreeAndAllocate, MapChanges
<1>5. CASE AllocMap
  BY <1>5 DEF AllocMap, Allocate, Free, FreeAndAllocate, MapChanges, BufferOf
<1>6. CASE Query
  BY <1>6 DEF Query
<1>7. CASE Realloc
  BY <1>7 DEF Realloc, Allocate, Free, FreeAndAllocate, MapChanges, BufferOf
<1>8. CASE Get
  BY <1>8 DEF Get
<1>9. CASE ExitBootServices
  BY <1>9 DEF ExitBootServices
<1>10. CASE ReworkMap
  BY <1>10 DEF ReworkMap
<1>11. CASE FirmwareEvent
  BY <1>11 DEF FirmwareEvent, MapChanges
<1>12. CASE UNCHANGED vars
  BY <1>12 DEF vars
<1> QED
  BY <1>1, <1>2, <1>3, <1>4, <1>5, <1>6, <1>7, <1>8, <1>9, <1>10, <1>11, <1>12
     DEF Next, LoaderStep

\* IInv holds in every reachable state of the handoff.
LEMMA HandoffInvariant == Spec => []IInv
  BY InitIInv, NextIInv, PTL DEF Spec

(* The locals of BlFinalizeBootArgs keep their types: sizes never go below *)
(* zero and the retry counter stays within its limit.                      *)
THEOREM HandoffTypeOK == Spec => []TypeOK
<1>1. IInv => TypeOK
  BY DEF IInv
<1> QED
  BY <1>1, HandoffInvariant, PTL

(* The kernel gets the firmware's final map, whatever the firmware did     *)
(* between the calls of BlFinalizeBootArgs and however often it retried.   *)
THEOREM HandoffIsCurrent == Spec => []HandoffMapIsCurrent
<1>1. IInv => HandoffMapIsCurrent
  BY DEF IInv, BufferInv, KeyInv, Fetched, HandoffMapIsCurrent, NULL
<1> QED
  BY <1>1, HandoffInvariant, PTL

(* Neither the firmware nor the rework of the map writes past the buffer   *)
(* that BlFinalizeBootArgs allocated, for every number of runtime          *)
(* descriptors and every rounding.                                         *)
THEOREM HandoffMapFits == Spec => []MapFitsBuffer
<1>1. IInv => MapFitsBuffer
  BY BoundsAssumption DEF IInv, TypeOK, GrowthInv, BufferInv, Fetching, Fetched, MapFitsBuffer
<1> QED
  BY <1>1, HandoffInvariant, PTL
=============================================================================
