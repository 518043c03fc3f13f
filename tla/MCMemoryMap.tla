----------------------------- MODULE MCMemoryMap -----------------------------
(* Machines with free memory of several lengths, one region of the loader, *)
(* two runtime regions, and either memory-mapped I/O or reserved memory    *)
(* marked for runtime; the firmware's order is ascending or not.           *)
EXTENDS MemoryMap, SequencesExt

\* The descriptors that result from giving these regions consecutive addresses.
Lay(regions) ==
    [i \in DOMAIN regions |->
       [Type |-> regions[i].type, NumberOfPages |-> regions[i].n, VirtualStart |-> 0,
        PhysicalStart |-> 1 + FoldLeft(LAMBDA sum, g : sum + g.n, 0,
                                       SubSeq(regions, 1, i - 1)),
        Runtime |-> regions[i].type \notin AcpiAllowedTypes]]

Region(type, n) == [type |-> type, n |-> n]

Regions(free, own, code, other) ==
    <<Region("BootServicesData", free), Region("RuntimeServicesCode", code),
      Region("LoaderData", own), Region(other, 1), Region("RuntimeServicesData", 2),
      Region("Conventional", 1)>>

\* The map before the firmware marked the last n pages of its code for runtime.
Before(map, n) ==
    [map EXCEPT ![2].NumberOfPages = @ - n,
                ![3].PhysicalStart = @ - n, ![3].NumberOfPages = @ + n]

MachineOf(map, grown, nvs, offset, lead, resume, thunk) ==
    [first |-> Before(map, grown), map |-> IF thunk THEN Reverse(map) ELSE map,
     nvs |-> nvs, nvsOffset |-> offset, rtPhysical |-> map[3].PhysicalStart + lead,
     runtimePages |-> IF resume THEN MmGetRuntimeMemoryInfo(map) - 1
                      ELSE MmGetRuntimeMemoryInfo(Before(map, grown)) + 1,
     EfiSystemTable |-> map[5].PhysicalStart + 1,
     ConfigurationTable |-> map[IF lead = 0 THEN 6 ELSE 5].PhysicalStart,
     VendorTable |-> map[2].PhysicalStart,
     createRegion |-> ~ resume, setupThunkCode |-> thunk]

\* The NVS address only matters to a boot; it is in the free memory or follows the
\* runtime area in the loader's own region. The firmware marks up to two pages more
\* for runtime while the loader runs.
MCMachines ==
    UNION {LET map == Lay(Regions(free, 12, code, other))
               behind == map[3].PhysicalStart + Cardinality(RuntimePages(map)) + 1
           IN  {MachineOf(map, 0, nvs, offset, lead, FALSE, thunk)
                : nvs \in {-1} \cup 1 .. free, offset \in {0, 1}, lead \in {0, 2},
                  thunk \in BOOLEAN}
               \cup {MachineOf(map, 0, behind, offset, 0, FALSE, thunk)
                     : offset \in {0, 1}, thunk \in BOOLEAN}
               \cup {MachineOf(map, grown, -1, 0, lead, FALSE, thunk)
                     : grown \in {n \in 1 .. 2 : n < code}, lead \in {0, 2},
                       thunk \in BOOLEAN}
               \cup {MachineOf(map, 0, -1, 0, lead, TRUE, thunk)
                     : lead \in {0, 2}, thunk \in BOOLEAN}
           : free \in {1, 4, 5, 14}, code \in {1, 3}, other \in {"MemoryMappedIO", "Reserved"}}
=============================================================================
