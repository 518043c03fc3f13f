------------------------------ MODULE MemoryMap ------------------------------
(***************************************************************************)
(* What the loader does to the firmware's memory map between its last      *)
(* GetMemoryMap and the jump to the kernel (MemoryMap.c, AcpiUtils.c): the *)
(* ACPI NVS data gets a descriptor of its own, the map is sorted, and the  *)
(* runtime services are moved into the kernel's virtual window.            *)
(*                                                                         *)
(* Addresses are page numbers.  A map is a sequence of descriptors, in     *)
(* the order of the buffer; a new descriptor goes at its end.  A step is   *)
(* one turn of a loop over the map.                                        *)
(***************************************************************************)
EXTENDS Integers, Sequences, FiniteSets

CONSTANTS Machines,     \* the situations to start from, see Machine
          KernelBase,   \* virtual minus physical address in the kernel's window
          Window,       \* 1GB, in pages
          HeadPages,    \* 16 * 1024, in pages
          TailPages,    \* 32 * 1024, in pages
          Wrap          \* unsigned page counts are computed modulo this

AcpiAllowedTypes == {"LoaderCode", "LoaderData", "BootServicesCode", "BootServicesData",
                     "Conventional"}
RuntimeTypes == {"RuntimeServicesCode", "RuntimeServicesData"}
MemoryTypes == AcpiAllowedTypes \cup RuntimeTypes
               \cup {"Reserved", "ACPIMemoryNVS", "MemoryMappedIO"}

Descriptor == [Type : MemoryTypes, PhysicalStart : Nat, NumberOfPages : Nat,
               VirtualStart : Nat, Runtime : BOOLEAN]

\* A situation: the first map a boot reads, to count the runtime pages, and the last
\* one; nvs, the page of AcpipNVSMemoryAddress (-1 for none), and nvsOffset, 1 when
\* it is inside the page; the runtime area that was allocated for the kernel between
\* the two; the pages of the system table, of the configuration table and of what
\* one entry of it points to; createRegion, which tells a boot from a resume; and
\* setupThunkCode, TRUE on 32-bit firmware.
Machine == [first : Seq(Descriptor), map : Seq(Descriptor), nvs : Nat \cup {-1}, nvsOffset : {0, 1},
            rtPhysical : Nat, runtimePages : Nat, EfiSystemTable : Nat,
            ConfigurationTable : Nat, VendorTable : Nat,
            createRegion : BOOLEAN, setupThunkCode : BOOLEAN]

Pages(d) == d.PhysicalStart .. d.PhysicalStart + d.NumberOfPages - 1
Area(m) == m.rtPhysical .. m.rtPhysical + m.runtimePages - 1
NvsPages(m) == m.nvs .. m.nvs + HeadPages + m.nvsOffset - 1

Descriptors(map) == {map[k] : k \in DOMAIN map}
Covered(map) == UNION {Pages(map[k]) : k \in DOMAIN map}
Apart(d, e) == \A p \in Pages(d) : p \notin Pages(e)
Disjoint(map) == \A j, k \in DOMAIN map : j # k => Apart(map[j], map[k])

IsRuntimeType(d) == d.Type \in RuntimeTypes
RuntimePages(map) == UNION {Pages(d) : d \in {e \in Descriptors(map) : e.Runtime}}
MmGetRuntimeMemoryInfo(map) == Cardinality(RuntimePages(map))

\* A map of the firmware describes each page at most once, and the attribute
\* EFI_MEMORY_RUNTIME is on runtime services, reserved memory and I/O only.
FirmwareMap(map) ==
    /\ Disjoint(map)
    /\ \A d \in Descriptors(map) :
         /\ d.NumberOfPages \in 1 .. Wrap - 1
         /\ d.PhysicalStart + d.NumberOfPages <= KernelBase
         /\ IsRuntimeType(d) => d.Runtime
         /\ d.Type \in AcpiAllowedTypes => ~ d.Runtime

\* The runtime area is one allocation of the loader in the kernel's window; neither
\* the tables are in it, nor the NVS data when both are in one descriptor.
AreaIsAllocated(m) ==
    /\ \E d \in Descriptors(m.map) :
         /\ ~ d.Runtime /\ Area(m) \subseteq Pages(d)
         /\ m.nvs \in Pages(d) => \A p \in NvsPages(m) : p \notin Area(m)
    /\ m.rtPhysical + m.runtimePages < Window
    /\ \A p \in {m.EfiSystemTable, m.ConfigurationTable, m.VendorTable} : p \notin Area(m)

\* BlFinalizeBootArgs asks for one page more than its first map marks for runtime;
\* what the last map marks is the firmware's choice. A resume uses the count in the
\* image. MmConvertPointers compares the end of a region modulo the window, and no
\* region is so long that it would pass by that.
AreaIsCounted(m) ==
    /\ m.createRegion => /\ FirmwareMap(m.first)
                         /\ m.runtimePages = MmGetRuntimeMemoryInfo(m.first) + 1
    /\ \A d \in Descriptors(m.map) :
         d.Runtime => m.rtPhysical + m.runtimePages + d.NumberOfPages < Window

ASSUME SizesAssumption ==
    /\ Window \in Nat \ {0} /\ KernelBase \in Nat \ {0} /\ KernelBase % Window = 0
    /\ HeadPages \in Nat \ {0} /\ TailPages \in Nat /\ Wrap \in Nat \ {0}

ASSUME MachinesAssumption ==
    \A m \in Machines :
      /\ m \in Machine
      /\ FirmwareMap(m.map)
      /\ AreaIsAllocated(m)
      /\ AreaIsCounted(m)
      /\ {m.EfiSystemTable, m.ConfigurationTable, m.VendorTable} \subseteq Covered(m.map)

VARIABLES mapPc,     \* the loop or call that runs
          machine,   \* the situation, which does not change
          memoryMap,
          cursor,        \* the descriptor that the loop looks at
          writePosition, \* of MmRemoveNonRuntimeDescriptors
          curVirtualAddress,
          contents,  \* page -> the page its bytes came from, -1 once cleared
          EfiSystemTable,
          ConfigurationTable,
          VendorTable,
          status     \* what MmConvertPointers returned

tables == <<EfiSystemTable, ConfigurationTable, VendorTable>>
mapVars == <<mapPc, machine, memoryMap, cursor, writePosition, curVirtualAddress,
             contents, tables, status>>

Minus(a, b) == (a - b) % Wrap
LdrStaticVirtualToPhysical(v) == v % Window

First(S) == CHOOSE k \in S : \A j \in S : k <= j

-----------------------------------------------------------------------------
(* Map algorithms.                                                         *)

\* The three cases: the NVS data is near the begin, near the end, or inside.
SplitForNvs(map, k, nvs, offset) ==
    LET d == map[k]
        begin == d.PhysicalStart
        end == begin + d.NumberOfPages
        head == nvs - begin + HeadPages + offset
        tail == end - nvs
        middle == HeadPages + offset
        Piece(type, start, n) == [Type |-> type, PhysicalStart |-> start,
                                  NumberOfPages |-> n, VirtualStart |-> 0,
                                  Runtime |-> d.Runtime]
    IN  IF nvs < begin + HeadPages
        THEN Append([map EXCEPT ![k] = [d EXCEPT !.Type = "ACPIMemoryNVS",
                                                 !.NumberOfPages = head]],
                    Piece(d.Type, begin + head, Minus(d.NumberOfPages, head)))
        ELSE IF nvs >= end - TailPages
        THEN Append([map EXCEPT ![k] = [d EXCEPT !.NumberOfPages = @ - tail]],
                    Piece("ACPIMemoryNVS", nvs, tail))
        ELSE Append(Append([map EXCEPT ![k] = [d EXCEPT !.NumberOfPages = nvs - begin]],
                           Piece("ACPIMemoryNVS", nvs, middle)),
                    Piece(d.Type, nvs + middle,
                          Minus(d.NumberOfPages, nvs + middle - begin)))

HoldsNvs(map, nvs) ==
    {k \in DOMAIN map : nvs \in Pages(map[k]) /\ map[k].Type \in AcpiAllowedTypes}

\* Mutant: the last piece of a three-way split is not appended.
AcpiAdjustMemoryMap_TwoPieces(map, nvs, offset) ==
    LET holds == HoldsNvs(map, nvs)
    IN  IF holds = {} THEN map
        ELSE SubSeq(SplitForNvs(map, First(holds), nvs, offset), 1, Len(map) + 1)

AcpiAdjustMemoryMap(map, nvs, offset) ==
    LET holds == HoldsNvs(map, nvs)
    IN  IF holds = {} THEN map ELSE SplitForNvs(map, First(holds), nvs, offset)

\* One turn of the insertion sort: descriptor k moves before the first one that
\* starts above it.
MmSortMemoryMap(map, k) ==
    LET above == {j \in 1 .. k - 1 : map[j].PhysicalStart > map[k].PhysicalStart}
        to == First(above)
    IN  IF above = {} THEN map
        ELSE [j \in DOMAIN map |-> IF j < to \/ j > k THEN map[j]
                                   ELSE IF j = to THEN map[k] ELSE map[j - 1]]

\* What MmRemoveNonRuntimeDescriptors keeps.
Kept(d) == d.Type # "Reserved" /\ d.Runtime

\* Mutant: the created region keeps the pages of the part after it.
MmpCreateSubRegion_KeepsTail(map, newPhysicalAddress, pagesCount) ==
    LET holds == {k \in DOMAIN map : newPhysicalAddress \in Pages(map[k])}
        k == First(holds)
        before == newPhysicalAddress - map[k].PhysicalStart
        tail == [map[k] EXCEPT !.PhysicalStart = @ + before + pagesCount,
                               !.NumberOfPages = @ - before - pagesCount]
    IN  IF holds = {} THEN [map |-> map, created |-> 0]
        ELSE [map |-> Append([map EXCEPT ![k].PhysicalStart = @ + before], tail),
              created |-> k]

\* Returns the map and the index of the region that was created, 0 for NULL.
\* When the region does not start its descriptor, length becomes the length of
\* the part before it, and that is also added to the start of the part after it.
MmpCreateSubRegion(map, newPhysicalAddress, pagesCount) ==
    LET holds == {k \in DOMAIN map : newPhysicalAddress \in Pages(map[k])}
        k == First(holds)
        d == map[k]
        before == newPhysicalAddress - d.PhysicalStart
        length == IF before > 0 THEN before ELSE pagesCount
        Up(v, n) == IF v = 0 THEN 0 ELSE v + n
        cur == [d EXCEPT !.PhysicalStart = @ + before, !.NumberOfPages = @ - before,
                         !.VirtualStart = Up(@, before)]
        WithPartBefore(m) == IF before > 0 THEN Append(m, [d EXCEPT !.NumberOfPages = before])
                             ELSE m
    IN  IF holds = {} THEN [map |-> map, created |-> 0]
        ELSE IF cur.NumberOfPages > pagesCount
        THEN [map |-> Append(WithPartBefore(
                               [map EXCEPT ![k] = [cur EXCEPT !.NumberOfPages = pagesCount]]),
                             [cur EXCEPT !.NumberOfPages = @ - pagesCount,
                                         !.PhysicalStart = @ + length,
                                         !.VirtualStart = Up(@, length)]),
              created |-> k]
        ELSE [map |-> WithPartBefore([map EXCEPT ![k] = cur]), created |-> k]

\* "fix physical address" for descriptor k of a boot: its old pages become free
\* memory, and the pages it moved to are cut out of the descriptor they are in.
\* With no such descriptor the three assignments go through a null pointer, to
\* page 0, and the map keeps no trace of the runtime region.
MoveDescriptor(map, k) ==
    LET saved == map[k]
        sub == MmpCreateSubRegion(
                 [map EXCEPT ![k] = [saved EXCEPT !.VirtualStart = 0, !.Runtime = FALSE,
                                                  !.Type = "Conventional"]],
                 LdrStaticVirtualToPhysical(saved.VirtualStart), saved.NumberOfPages)
    IN  IF sub.created = 0 THEN sub.map
        ELSE [sub.map EXCEPT ![sub.created] = [@ EXCEPT !.Runtime = TRUE,
                                                        !.VirtualStart = saved.VirtualStart,
                                                        !.Type = saved.Type]]

-----------------------------------------------------------------------------
(* The steps of BlFinalizeBootArgs, of the resume and of MmConvertPointers.*)

MapInit ==
    /\ machine \in Machines
    /\ mapPc = IF machine.createRegion THEN "adjust" ELSE "remove"
    /\ memoryMap = machine.map
    /\ cursor = 1
    /\ writePosition = 1
    /\ curVirtualAddress = KernelBase + machine.rtPhysical
    /\ contents = [p \in Covered(machine.map) |-> p]
    /\ EfiSystemTable = machine.EfiSystemTable
    /\ ConfigurationTable = machine.ConfigurationTable
    /\ VendorTable = machine.VendorTable
    /\ status = "none"

AdjustMap ==
    /\ mapPc = "adjust"
    /\ memoryMap' = AcpiAdjustMemoryMap(memoryMap, machine.nvs, machine.nvsOffset)
    /\ mapPc' = "sort"
    /\ UNCHANGED <<machine, cursor, writePosition, curVirtualAddress, contents, tables, status>>

\* One turn of a loop over the map.
Turn(loop) ==
    /\ mapPc = loop
    /\ cursor <= Len(memoryMap)
    /\ cursor' = cursor + 1
    /\ UNCHANGED <<mapPc, machine, status>>

\* The code starts its loop with the second descriptor; the first one stays anyway.
SortMap ==
    /\ Turn("sort") \/ Turn("sortAgain")
    /\ memoryMap' = MmSortMemoryMap(memoryMap, cursor)
    /\ UNCHANGED <<writePosition, curVirtualAddress, contents, tables>>

RemoveFromMap ==
    LET d == memoryMap[cursor]
    IN  /\ Turn("remove")
        /\ memoryMap' = IF Kept(d) THEN [memoryMap EXCEPT ![writePosition] = d] ELSE memoryMap
        /\ writePosition' = IF Kept(d) THEN writePosition + 1 ELSE writePosition
        /\ UNCHANGED <<curVirtualAddress, contents, tables>>

RemoveEnds ==
    /\ mapPc = "remove"
    /\ cursor > Len(memoryMap)
    /\ memoryMap' = SubSeq(memoryMap, 1, writePosition - 1)
    /\ mapPc' = "assign"
    /\ cursor' = 1
    /\ UNCHANGED <<machine, writePosition, curVirtualAddress, contents, tables, status>>

\* BlFinalizeBootArgs does not look at the result; the resume stops on an error.
Return(result) ==
    /\ status' = result
    /\ mapPc' = IF machine.createRegion THEN "sortAgain"
                ELSE IF result = "success" THEN "done" ELSE "stopped"
    /\ cursor' = 1
    /\ UNCHANGED <<machine, writePosition, curVirtualAddress, contents, tables>>

\* Whether n pages from curVirtualAddress on are outside the runtime area.
Outside(n) ==
    \/ LdrStaticVirtualToPhysical(curVirtualAddress) < machine.rtPhysical
    \/ LdrStaticVirtualToPhysical(curVirtualAddress + n)
         > machine.rtPhysical + machine.runtimePages

\* "setup virtual address": runtime descriptors follow each other in the runtime
\* area. 32-bit firmware gets physical addresses for the time being.
AssignVirtual ==
    LET d == memoryMap[cursor]
        virtual == IF machine.setupThunkCode THEN LdrStaticVirtualToPhysical(curVirtualAddress)
                   ELSE curVirtualAddress
    IN  /\ Turn("assign")
        /\ Kept(d) => ~ Outside(d.NumberOfPages)
        /\ memoryMap' = [memoryMap EXCEPT ![cursor] =
                           IF Kept(d) THEN [d EXCEPT !.VirtualStart = virtual]
                           ELSE [d EXCEPT !.Runtime = FALSE]]
        /\ curVirtualAddress' = IF Kept(d) THEN curVirtualAddress + d.NumberOfPages
                                ELSE curVirtualAddress
        /\ UNCHANGED <<writePosition, contents, tables>>

\* The first descriptor that would run past the area stops MmConvertPointers, and
\* those after it are left as they were.
NoMapping ==
    /\ mapPc = "assign"
    /\ cursor <= Len(memoryMap)
    /\ Kept(memoryMap[cursor])
    /\ Outside(memoryMap[cursor].NumberOfPages)
    /\ Return("noMapping")
    /\ UNCHANGED memoryMap

mappedRuntimePages == curVirtualAddress - (KernelBase + machine.rtPhysical)

\* SetVirtualAddressMap is not called when nothing is mapped. After it 32-bit
\* firmware gets virtual addresses, too.
SetVirtualAddressMap ==
    /\ mapPc = "remap"
    /\ memoryMap' = [k \in DOMAIN memoryMap |->
                       IF mappedRuntimePages > 0 /\ machine.setupThunkCode /\ memoryMap[k].Runtime
                       THEN [memoryMap[k] EXCEPT !.VirtualStart = @ + KernelBase]
                       ELSE memoryMap[k]]
    /\ mapPc' = "move"
    /\ cursor' = 1
    /\ UNCHANGED <<machine, writePosition, curVirtualAddress, contents, tables, status>>

\* The firmware may also refuse.
SetVirtualAddressMapFails ==
    /\ mapPc = "remap"
    /\ mappedRuntimePages > 0
    /\ Return("noMapping")
    /\ UNCHANGED memoryMap

\* Where a descriptor is moved to, kernelPhysical in the code.
Target(d) == LdrStaticVirtualToPhysical(d.VirtualStart)

\* Mutant: the source is cleared before it is copied.
MoveMemory_ClearsFirst ==
    LET d == memoryMap[cursor]
        to == Target(d)
    IN  /\ Turn("move")
        /\ contents' = IF ~ IsRuntimeType(d) \/ to = d.PhysicalStart THEN contents
                       ELSE [p \in DOMAIN contents |->
                               IF p \in Pages(d) \/ p \in to .. to + d.NumberOfPages - 1
                               THEN -1 ELSE contents[p]]
        /\ UNCHANGED <<memoryMap, writePosition, curVirtualAddress, tables>>

\* "move memory": each runtime descriptor's pages are copied and then cleared.
MoveMemory ==
    LET d == memoryMap[cursor]
        to == Target(d)
    IN  /\ Turn("move")
        /\ contents' = IF ~ IsRuntimeType(d) \/ to = d.PhysicalStart THEN contents
                       ELSE [p \in DOMAIN contents |->
                               IF p \in Pages(d) THEN -1
                               ELSE IF p \in to .. to + d.NumberOfPages - 1
                               THEN contents[p - to + d.PhysicalStart]
                               ELSE contents[p]]
        /\ UNCHANGED <<memoryMap, writePosition, curVirtualAddress, tables>>

\* Whether a table is in the memory that descriptor d had before the move, and the
\* virtual address it has after it.
InRuntime(t, d) == IsRuntimeType(d) /\ t \in Pages(d)
Relocated(t, d) == t + d.VirtualStart - d.PhysicalStart

\* "relocate system table": the first runtime descriptor that holds it decides.
RelocateSystemTable ==
    LET d == memoryMap[cursor]
    IN  /\ Turn("system")
        /\ ~ InRuntime(EfiSystemTable, d)
        /\ UNCHANGED <<memoryMap, writePosition, curVirtualAddress, contents, tables>>

SystemTableFound ==
    LET d == memoryMap[cursor]
    IN  /\ mapPc = "system"
        /\ cursor <= Len(memoryMap)
        /\ InRuntime(EfiSystemTable, d)
        /\ EfiSystemTable' = LdrStaticVirtualToPhysical(Relocated(EfiSystemTable, d))
        /\ mapPc' = "configuration"
        /\ cursor' = 1
        /\ UNCHANGED <<machine, memoryMap, writePosition, curVirtualAddress, contents,
                       ConfigurationTable, VendorTable, status>>

\* The configuration table and its entries: every runtime descriptor is tried, also
\* after one has matched, and 64-bit firmware keeps the virtual address.
TryRelocate(t, d) ==
    IF ~ InRuntime(t, d) THEN t
    ELSE IF machine.setupThunkCode THEN LdrStaticVirtualToPhysical(Relocated(t, d))
    ELSE Relocated(t, d)

RelocateConfigurationTable ==
    /\ Turn("configuration")
    /\ ConfigurationTable' = TryRelocate(ConfigurationTable, memoryMap[cursor])
    /\ UNCHANGED <<memoryMap, writePosition, curVirtualAddress, contents, EfiSystemTable,
                   VendorTable>>

RelocateVendorTable ==
    /\ Turn("vendor")
    /\ VendorTable' = TryRelocate(VendorTable, memoryMap[cursor])
    /\ UNCHANGED <<memoryMap, writePosition, curVirtualAddress, contents, EfiSystemTable,
                   ConfigurationTable>>

\* Mutant: the address of a resumed descriptor is left as the firmware gave it.
FixPhysical_LeavesAddress ==
    /\ Turn("fix")
    /\ UNCHANGED <<memoryMap, writePosition, curVirtualAddress, contents, tables>>

\* "fix physical address". The loop reads *memoryMapSize again each time round, so
\* it also visits the descriptors it appends.
FixPhysical ==
    LET d == memoryMap[cursor]
    IN  /\ Turn("fix")
        /\ memoryMap' = IF ~ IsRuntimeType(d) \/ Target(d) = d.PhysicalStart THEN memoryMap
                        ELSE IF machine.createRegion THEN MoveDescriptor(memoryMap, cursor)
                        ELSE [memoryMap EXCEPT ![cursor] = [d EXCEPT !.PhysicalStart = Target(d)]]
        /\ UNCHANGED <<writePosition, curVirtualAddress, contents, tables>>

FixEnds ==
    /\ mapPc = "fix"
    /\ cursor > Len(memoryMap)
    /\ Return("success")
    /\ UNCHANGED memoryMap

\* The other loops go on to what follows them.
LoopEnds(loop, next) == mapPc = loop /\ mapPc' = next

NextLoop ==
    /\ cursor > Len(memoryMap)
    /\ \/ LoopEnds("sort", "assign")
       \/ LoopEnds("assign", "remap")
       \/ LoopEnds("move", "system")
       \/ LoopEnds("system", "configuration")
       \/ LoopEnds("configuration", "vendor")
       \/ LoopEnds("vendor", "fix")
       \/ LoopEnds("sortAgain", "done")
    /\ cursor' = 1
    /\ UNCHANGED <<machine, memoryMap, writePosition, curVirtualAddress, contents, tables,
                   status>>

MapNext ==
    \/ AdjustMap \/ SortMap \/ RemoveFromMap \/ RemoveEnds
    \/ AssignVirtual \/ NoMapping \/ SetVirtualAddressMap \/ SetVirtualAddressMapFails
    \/ MoveMemory \/ RelocateSystemTable \/ SystemTableFound
    \/ RelocateConfigurationTable \/ RelocateVendorTable
    \/ FixPhysical \/ FixEnds \/ NextLoop

MapSpec == MapInit /\ [][MapNext]_mapVars

-----------------------------------------------------------------------------
(* Properties.                                                             *)

\* The NVS data has its own descriptor and no region was moved yet.
Adjusted == machine.createRegion /\ mapPc \notin {"adjust", "fix", "sortAgain", "done"}

\* The descriptor that holds the NVS data reaches to the end of the data.
RoomForNvs(m) ==
    \A d \in Descriptors(m.map) :
      m.nvs \in Pages(d) =>
        m.nvs + HeadPages + m.nvsOffset <= d.PhysicalStart + d.NumberOfPages

\* Where NVS data was found, a descriptor of its own describes all of it.
NvsIsDescribed(m, map) ==
    \A d \in Descriptors(m.map) :
      m.nvs \in Pages(d) /\ d.Type \in AcpiAllowedTypes =>
        \E e \in Descriptors(map) : e.Type = "ACPIMemoryNVS" /\ NvsPages(m) \subseteq Pages(e)

(* AcpiAdjustMemoryMap only renames memory: where the descriptor is long   *)
(* enough for the 16KB that it reserves, the same pages are described,     *)
(* each once, and all pages of the NVS data are described as NVS; sorting  *)
(* and the first loops of MmConvertPointers leave that so.                 *)
NvsIsCutOutOfLongRegion ==
    Adjusted /\ RoomForNvs(machine) =>
      /\ Covered(memoryMap) = Covered(machine.map)
      /\ Disjoint(memoryMap)
      /\ NvsIsDescribed(machine, memoryMap)

Converted == mapPc = "done" /\ status = "success"
Moved(m) == {e \in Descriptors(m.map) : IsRuntimeType(e)}

\* Every runtime page was copied to exactly one page of the runtime area.
CopiedOnce(m, bytes) ==
    \A e \in Moved(m) : \A p \in Pages(e) :
      \E q \in Area(m) :
        bytes[q] = p /\ \A r \in DOMAIN bytes : bytes[r] = p => r = q

\* What the kernel finds at a physical or virtual address.
Found(t, bytes) == IF t >= KernelBase THEN bytes[LdrStaticVirtualToPhysical(t)] ELSE bytes[t]

\* The runtime pages of the last map are at most one more than those of the first.
GrownByAPage(m) ==
    m.createRegion /\ MmGetRuntimeMemoryInfo(m.map) <= MmGetRuntimeMemoryInfo(m.first) + 1

(* The runtime services follow the kernel, or stay where they are. The     *)
(* runtime area was counted in an earlier map than the one it is filled    *)
(* from; while the firmware has marked at most one page more since,        *)
(* MmConvertPointers never runs past the area (BootArgs.c, MemoryMap.c).   *)
(* When it succeeds every runtime page was copied to exactly one page of   *)
(* the area before its source was cleared, and the system table and the    *)
(* configuration tables point into the copies. When it does not, which a   *)
(* boot ignores, every byte and every table is still in its old place.     *)
RuntimeServicesFollow ==
    /\ GrownByAPage(machine) /\ mapPc = "assign" /\ cursor <= Len(memoryMap)
         /\ Kept(memoryMap[cursor])
       => ~ Outside(memoryMap[cursor].NumberOfPages)
    /\ Converted =>
         /\ CopiedOnce(machine, contents)
         /\ contents[EfiSystemTable] = machine.EfiSystemTable
         /\ Found(ConfigurationTable, contents) = machine.ConfigurationTable
         /\ Found(VendorTable, contents) = machine.VendorTable
    /\ status = "noMapping" =>
         /\ \A p \in DOMAIN contents : contents[p] = p
         /\ EfiSystemTable = machine.EfiSystemTable
         /\ ConfigurationTable = machine.ConfigurationTable
         /\ VendorTable = machine.VendorTable

\* d describes the place to which the runtime region e was moved.
Follows(d, e, bytes) ==
    /\ d.Type = e.Type
    /\ d.NumberOfPages = e.NumberOfPages
    /\ d.PhysicalStart = Target(d)
    /\ \A n \in 0 .. e.NumberOfPages - 1 : bytes[d.PhysicalStart + n] = e.PhysicalStart + n

RegionsFollow(m, map, bytes) ==
    /\ \A d \in Descriptors(map) : IsRuntimeType(d) => \E e \in Moved(m) : Follows(d, e, bytes)
    /\ \A e \in Moved(m) :
         \E k \in DOMAIN map :
           Follows(map[k], e, bytes) /\ \A j \in DOMAIN map : Follows(map[j], e, bytes) => j = k

(* The map a resumed kernel gets lists every runtime region exactly once,  *)
(* with its type and length, at the address where its bytes now are, and   *)
(* no other runtime region: removing descriptors, moving the memory and    *)
(* "fix physical address" agree on where each region went.                 *)
ResumeMapFollows ==
    Converted /\ ~ machine.createRegion =>
      Disjoint(memoryMap) /\ RegionsFollow(machine, memoryMap, contents)

\* The descriptors before n are in ascending order.
SortedBefore(map, n) ==
    \A j, k \in DOMAIN map : j < k /\ k < n => map[j].PhysicalStart <= map[k].PhysicalStart

(* The map the kernel gets still describes every page once, in ascending   *)
(* order, and its runtime regions are those that were moved, at their new  *)
(* place (MmpCreateSubRegion, MmSortMemoryMap).                            *)
FinalMapDescribesMemory ==
    Converted /\ machine.createRegion =>
      /\ Disjoint(memoryMap)
      /\ Covered(memoryMap) = Covered(machine.map)
      /\ SortedBefore(memoryMap, Len(memoryMap) + 1)
      /\ RegionsFollow(machine, memoryMap, contents)

\* The runtime area starts its descriptor and nothing but runtime services is
\* mapped in it, so MmpCreateSubRegion never has a part before to cut off.
NoPartBefore(m) ==
    /\ \E d \in Descriptors(m.map) : d.PhysicalStart = m.rtPhysical
    /\ \A d \in Descriptors(m.map) : Kept(d) => IsRuntimeType(d)

(* FinalMapDescribesMemory when every moved region starts the descriptor   *)
(* it is cut out of (MmpCreateSubRegion then computes the right lengths),  *)
(* and the NVS data was cut out of a long enough region.                   *)
FinalMapWithoutPartBefore ==
    RoomForNvs(machine) /\ NoPartBefore(machine) => FinalMapDescribesMemory
=============================================================================
