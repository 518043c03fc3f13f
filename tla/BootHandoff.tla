----------------------------- MODULE BootHandoff -----------------------------
(***************************************************************************)
(* The end of BlFinalizeBootArgs (BootArgs.c): measure the memory map,     *)
(* allocate the runtime area and a buffer for the map, fetch the map with  *)
(* up to five attempts, leave boot services with its key, and rework the   *)
(* map in place.  The firmware's map changes under the loader: by the      *)
(* loader's own allocations and by timer events of the firmware.           *)
(*                                                                         *)
(* Sizes are counted in descriptors.  The 512 spare bytes are Slack        *)
(* descriptors and rounding a buffer up to pages adds at most PageExtra.   *)
(***************************************************************************)
EXTENDS Integers

CONSTANTS Slack,        \* 512 \div descriptorSize
          PageExtra,    \* descriptors that rounding up to a page can add
          TagsPerPage,  \* memory tags that one more page of them gives
          MaxCount,     \* bound: descriptors of the firmware's first map
          MaxRuntime,   \* bound: descriptors with EFI_MEMORY_RUNTIME
          MaxEvents     \* bound: firmware events that change the map

Retries == 5
NULL == 0
Allocated == 1

ASSUME BoundsAssumption ==
    /\ Slack \in Nat /\ PageExtra \in Nat /\ MaxRuntime \in Nat /\ MaxEvents \in Nat
    /\ MaxCount \in Nat \ {0}
    /\ TagsPerPage \in Nat \ {0, 1}

VARIABLES
    pc, i,
    mapCount, mapKey, events,   \* external: the firmware's map, its key, its events so far
    freeTags,       \* the length of MmpNextFreeMemoryTag
    currentSize, allocatedSize, \* locals of MmGetMemoryMap and of the loop
    memoryMapSize, memoryMapKey,
    runtimeMemoryDescriptors,   \* one more than there are
    buffer,         \* memoryMapPhysicalAddress, as far as it is 0 or not
    capacity,       \* what the buffer really has room for
    base,           \* history: mapCount when the buffer's size was computed
    got, gotKey,    \* the map in the buffer, and the firmware's key when it was written
    parts           \* descriptors that the rework of the map appends

fw == <<mapCount, mapKey, events, freeTags>>
local == <<currentSize, allocatedSize>>
out == <<got, gotKey, parts>>
vars == <<pc, i, fw, local, memoryMapSize, memoryMapKey, runtimeMemoryDescriptors,
          buffer, capacity, base, out>>

Goto(label) == pc' = label

-----------------------------------------------------------------------------
(* The firmware.                                                           *)

\* n allocations, frees or events: each of them may split one descriptor in three
\* or merge two, and makes older keys invalid.
MapChanges(n) ==
    \E g \in -n .. 2 * n :
      /\ mapCount + g >= 1
      /\ mapCount' = mapCount + g
      /\ mapKey' = mapKey + 1

FirmwareEvent ==
    /\ pc \notin {"adjust", "done", "failed"}
    /\ events < MaxEvents
    /\ events' = events + 1
    /\ MapChanges(1)
    /\ UNCHANGED <<pc, i, freeTags, local, memoryMapSize, memoryMapKey, runtimeMemoryDescriptors,
                   buffer, capacity, base, out>>

\* An allocation of the memory manager after `freed` blocks without a tag were freed;
\* each is a change of the map. The tag of the new block may take another page from
\* the pool, and the firmware may refuse that page; the block then has no tag.
Allocate(freed) ==
    /\ \/ /\ freeTags > 0
          /\ freeTags' = freeTags - 1
          /\ MapChanges(freed + 1)
       \/ /\ freeTags = 0
          /\ freeTags' = TagsPerPage - 1
          /\ MapChanges(freed + 2)
       \/ /\ freeTags = 0
          /\ freeTags' = 0
          /\ MapChanges(freed + 1)
    /\ UNCHANGED events

\* A block that is freed gives its tag back, if it has one.
Free ==
    /\ freeTags' \in {freeTags, freeTags + 1}
    /\ MapChanges(1)
    /\ UNCHANGED events

\* A block is freed and another one allocated, which takes the tag of the first. Pool
\* memory without a tag is freed as well (freed = 1), kernel memory is not (0).
FreeAndAllocate(freed) ==
    \/ Allocate(freed)
    \/ /\ MapChanges(2)
       /\ UNCHANGED <<events, freeTags>>

-----------------------------------------------------------------------------
(* MmGetMemoryMap.                                                         *)

\* GetMemoryMap with no buffer only tells the size (and the key), or fails.
MeasureSize ==
    /\ pc = "measure"
    /\ \/ /\ currentSize' = mapCount
          /\ memoryMapKey' = mapKey
          /\ Goto("measure_alloc")
       \/ /\ Goto("failed")
          /\ UNCHANGED <<currentSize, memoryMapKey>>
    /\ UNCHANGED <<i, fw, allocatedSize, memoryMapSize, runtimeMemoryDescriptors,
                   buffer, capacity, base, out>>

\* The pool buffer is replaced when it has become too small.
MeasureAlloc ==
    /\ pc = "measure_alloc"
    /\ \/ /\ currentSize <= allocatedSize
          /\ Goto("measure_get")
          /\ UNCHANGED <<fw, local>>
       \/ /\ currentSize > allocatedSize
          /\ allocatedSize' = currentSize + Slack
          /\ currentSize' = currentSize + Slack
          /\ FreeAndAllocate(1)
          /\ Goto("measure_get")
       \/ /\ currentSize > allocatedSize
          /\ Free
          /\ Goto("failed")
          /\ UNCHANGED local
    /\ UNCHANGED <<i, memoryMapSize, memoryMapKey, runtimeMemoryDescriptors,
                   buffer, capacity, base, out>>

\* On success BlFinalizeBootArgs counts the runtime descriptors and frees the pool.
MeasureGet ==
    /\ pc = "measure_get"
    /\ memoryMapKey' = mapKey
    /\ \/ /\ mapCount <= currentSize
          /\ memoryMapSize' = mapCount
          /\ base' = mapCount
          /\ \E r \in 0 .. MaxRuntime :
                /\ r <= mapCount
                /\ runtimeMemoryDescriptors' = r + 1
          /\ Free
          /\ i' = 0
          /\ Goto("alloc_runtime")
       \/ /\ mapCount > currentSize
          /\ i' = i + 1
          /\ Goto(IF i + 1 < Retries THEN "measure" ELSE "failed")
          /\ UNCHANGED <<fw, memoryMapSize, base, runtimeMemoryDescriptors>>
    /\ UNCHANGED <<local, buffer, capacity, out>>

-----------------------------------------------------------------------------
(* The runtime area and the buffer for the map.                            *)

AllocRuntimeArea ==
    /\ pc = "alloc_runtime"
    /\ \/ /\ Allocate(0)
          /\ Goto("alloc_map")
       \/ /\ Goto("failed")
          /\ UNCHANGED fw
    /\ UNCHANGED <<i, local, memoryMapSize, memoryMapKey, runtimeMemoryDescriptors,
                   buffer, capacity, base, out>>

\* MmAllocateKernelMemory rounds the length it is given up to whole pages.
BufferOf(size) ==
    \E extra \in 0 .. PageExtra :
      /\ memoryMapSize' = size + extra
      /\ capacity' = size + extra
      /\ buffer' = Allocated

\* Mutant: the spare 512 bytes are not asked for.
AllocMap_NoSlack ==
    /\ pc = "alloc_map"
    /\ \/ /\ BufferOf(memoryMapSize + runtimeMemoryDescriptors)
          /\ Allocate(0)
          /\ Goto("query")
       \/ /\ Goto("failed")
          /\ UNCHANGED <<fw, memoryMapSize, capacity, buffer>>
    /\ UNCHANGED <<i, local, memoryMapKey, runtimeMemoryDescriptors, base, out>>

AllocMap ==
    /\ pc = "alloc_map"
    /\ \/ /\ BufferOf(memoryMapSize + runtimeMemoryDescriptors + Slack)
          /\ Allocate(0)
          /\ Goto("query")
       \/ /\ Goto("failed")
          /\ UNCHANGED <<fw, memoryMapSize, capacity, buffer>>
    /\ UNCHANGED <<i, local, memoryMapKey, runtimeMemoryDescriptors, base, out>>

-----------------------------------------------------------------------------
(* The loop that fetches the map.                                          *)

Query ==
    /\ pc = "query"
    /\ \/ /\ currentSize' = mapCount
          /\ memoryMapKey' = mapKey
          /\ Goto("realloc")
       \/ /\ Goto("failed")
          /\ UNCHANGED <<currentSize, memoryMapKey>>
    /\ UNCHANGED <<i, fw, allocatedSize, memoryMapSize, runtimeMemoryDescriptors,
                   buffer, capacity, base, out>>

\* A buffer that has become too small is freed and a larger one allocated.  The
\* result is not tested: after a failure the address is 0 and the size is the
\* one that was asked for.
Realloc ==
    /\ pc = "realloc"
    /\ \/ /\ currentSize <= memoryMapSize
          /\ UNCHANGED <<fw, currentSize, memoryMapSize, buffer, capacity, base>>
       \/ /\ currentSize > memoryMapSize
          /\ base' = currentSize
          /\ BufferOf(currentSize + runtimeMemoryDescriptors + 2 + Slack)
          /\ currentSize' = memoryMapSize'
          /\ FreeAndAllocate(0)
       \/ /\ currentSize > memoryMapSize
          /\ base' = currentSize
          /\ memoryMapSize' = currentSize + runtimeMemoryDescriptors + 2 + Slack
          /\ currentSize' = memoryMapSize'
          /\ buffer' = NULL
          /\ capacity' = 0
          /\ Free
    /\ Goto("get")
    /\ UNCHANGED <<i, allocatedSize, memoryMapKey, runtimeMemoryDescriptors, out>>

\* Mutant: the loop's counter is not advanced by a failure.
Get_NotCounted ==
    /\ pc = "get"
    /\ memoryMapKey' = mapKey
    /\ IF buffer # NULL /\ mapCount <= currentSize
       THEN /\ memoryMapSize' = mapCount
            /\ got' = mapCount
            /\ gotKey' = mapKey
            /\ Goto("exit")
            /\ UNCHANGED parts
       ELSE /\ Goto("query")
            /\ UNCHANGED <<memoryMapSize, out>>
    /\ UNCHANGED <<i, fw, local, runtimeMemoryDescriptors, buffer, capacity, base>>

\* The firmware refuses a null buffer, and one that is smaller than the map.
Get ==
    /\ pc = "get"
    /\ memoryMapKey' = mapKey
    /\ \/ /\ buffer # NULL
          /\ mapCount <= currentSize
          /\ memoryMapSize' = mapCount
          /\ got' = mapCount
          /\ gotKey' = mapKey
          /\ Goto("exit")
          /\ UNCHANGED <<i, parts>>
       \/ /\ buffer = NULL \/ mapCount > currentSize
          /\ i' = i + 1
          /\ Goto(IF i + 1 < Retries THEN "query" ELSE "failed")
          /\ UNCHANGED <<memoryMapSize, out>>
    /\ UNCHANGED <<fw, local, runtimeMemoryDescriptors, buffer, capacity, base>>

\* Mutant: a refused call is followed by the rest of the handoff.
ExitBootServices_IgnoresError ==
    /\ pc = "exit"
    /\ Goto("adjust")
    /\ UNCHANGED <<i, fw, local, memoryMapSize, memoryMapKey, runtimeMemoryDescriptors,
                   buffer, capacity, base, out>>

\* The firmware refuses a key that is not the current one; there is no retry.
ExitBootServices ==
    /\ pc = "exit"
    /\ Goto(IF memoryMapKey = mapKey THEN "adjust" ELSE "failed")
    /\ UNCHANGED <<i, fw, local, memoryMapSize, memoryMapKey, runtimeMemoryDescriptors,
                   buffer, capacity, base, out>>

\* AcpiAdjustMemoryMap appends up to two descriptors, MmpCreateSubRegion up to two
\* for each runtime descriptor.
ReworkMap ==
    /\ pc = "adjust"
    /\ \E a \in 0 .. 2, c \in 0 .. 2 * (runtimeMemoryDescriptors - 1) :
          /\ parts' = c
          /\ memoryMapSize' = memoryMapSize + a + c
    /\ Goto("done")
    /\ UNCHANGED <<i, fw, local, memoryMapKey, runtimeMemoryDescriptors,
                   buffer, capacity, base, got, gotKey>>

-----------------------------------------------------------------------------
Init ==
    /\ pc = "measure"
    /\ i = 0
    /\ mapCount \in 1 .. MaxCount
    /\ mapKey = 0
    /\ events = 0
    /\ freeTags \in 0 .. TagsPerPage
    /\ currentSize = 0
    /\ allocatedSize = 0
    /\ memoryMapSize = 0
    /\ memoryMapKey = 0
    /\ runtimeMemoryDescriptors = 0
    /\ buffer = NULL
    /\ capacity = 0
    /\ base = 0
    /\ got = 0
    /\ gotKey = 0
    /\ parts = 0

LoaderStep ==
    \/ MeasureSize \/ MeasureAlloc \/ MeasureGet
    \/ AllocRuntimeArea \/ AllocMap
    \/ Query \/ Realloc \/ Get
    \/ ExitBootServices \/ ReworkMap

Next == LoaderStep \/ FirmwareEvent

Spec == Init /\ [][Next]_vars /\ WF_vars(LoaderStep)

-----------------------------------------------------------------------------
(* Type invariant of the locals of BlFinalizeBootArgs and of the firmware. *)
TypeOK ==
    /\ pc \in {"measure", "measure_alloc", "measure_get", "alloc_runtime", "alloc_map",
              "query", "realloc", "get", "exit", "adjust", "done", "failed"}
    /\ i \in 0 .. Retries
    /\ mapCount \in Nat \ {0}
    /\ events \in 0 .. MaxEvents /\ freeTags \in Nat
    /\ mapKey \in Nat /\ currentSize \in Nat /\ allocatedSize \in Nat
    /\ memoryMapSize \in Nat /\ memoryMapKey \in Nat
    /\ runtimeMemoryDescriptors \in Nat /\ capacity \in Nat /\ base \in Nat
    /\ got \in Nat /\ gotKey \in Nat /\ parts \in Nat
    /\ buffer \in {NULL, Allocated}

(* The map that the kernel gets is the firmware's map at the moment boot   *)
(* services ended, in a real buffer: not one that was fetched before an    *)
(* event, although each size query overwrites memoryMapKey with a newer    *)
(* key, and not the null buffer of a failed reallocation.                  *)
HandoffMapIsCurrent ==
    pc \in {"adjust", "done"} => /\ buffer # NULL
                                /\ got = mapCount
                                /\ gotKey = mapKey

(* The firmware never writes past the buffer, and neither does the rework  *)
(* of the map after boot services, when nothing can be allocated any more: *)
(* with the spare bytes covering ten descriptors and two for each event of *)
(* the firmware, whatever the number of runtime descriptors is, as long as *)
(* cutting them out appends at most one descriptor each and one more.  The *)
(* ten are two for the NVS data and two each for the map that is freed     *)
(* after it was measured, the two allocations that follow, and one page of *)
(* memory tags.                                                            *)
MapFitsBuffer ==
    /\ pc \in {"exit", "adjust"} => got <= capacity
    /\ pc = "done" /\ parts <= runtimeMemoryDescriptors /\ 10 + 2 * events <= Slack =>
         memoryMapSize <= capacity

(* The retries are bounded: BlFinalizeBootArgs returns, whatever the       *)
(* firmware does between its calls.                                        *)
HandoffTerminates == <>(pc \in {"done", "failed"})
=============================================================================
