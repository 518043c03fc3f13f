---------------------------- MODULE LoadDrivers -----------------------------
(***************************************************************************)
(* What EfiMain puts behind the kernel: the boot arguments                 *)
(* (BlInitializeBootArgs), the drivers when no cache was used              *)
(* (LoadDrivers.c, over the parser of Config.c) and the ramdisk            *)
(* (LdrLoadRamDisk). It continues LoadKernel; the blocks come from         *)
(* KernelMemory.                                                           *)
(*                                                                         *)
(* Directory entries are chosen as they are read. A bundle is named by the *)
(* order in which it is met, a path is the sequence of names on it.        *)
(***************************************************************************)
EXTENDS LoadKernel, Config

CONSTANTS Plists,       \* property lists a bundle can have: document and its tree
          MaxBundles,   \* bundles on the volume
          FileSizes     \* pages a driver or the ramdisk can take

ASSUME FileSizesAssumption == FileSizes \subseteq Nat \ {0}

VARIABLES
    bootArgs,      \* where they are, and the displacement they pass on
    walk,          \* calls of LdrpLoadDrivers: the open directory, isPluginModule
    pluginBuffer,  \* the static buffer of the plugin directory
    bundles,
    bundle,        \* the one LdrpLoadDriverPList looks at
    modules,       \* LdrpExtensionModulesHead and its successors
    cursor,        \* theModule in LdrpLoadMatchedModules
    ranges         \* nodes of the device tree's memory-map

walkVars == <<walk, pluginBuffer, bundles, bundle>>
driverVars == <<walkVars, modules, cursor, ranges>>
kernelVars == <<boot, candidate, accepted, displacement, source, image, next,
                readLength, segments, adjusted, entry>>
allVars == <<vars, configVars, bootArgs, driverVars>>

NoBundle == [path |-> <<>>, at |-> <<>>, plist |-> None]
NoBootArgs == [va |-> 0, displacement |-> 0]

-----------------------------------------------------------------------------
(* Boot arguments. What the kernel's loader leaves behind is not read any   *)
(* more from here on; it is set back to its first value.                    *)

\* The function fails when there are no pages, or the device tree takes no more.
BlInitializeBootArgs ==
    /\ pc = "loaded"
    /\ \/ /\ KM!Allocate(1, 0)
          /\ bootArgs' = [va |-> end, displacement |-> displacement]
          /\ pc' = IF source = "cache" THEN "ramdisk" ELSE "system"
       \/ pc' = "noargs" /\ UNCHANGED <<bootArgs, memory>>
    /\ image' = NoImage /\ next' = 0 /\ readLength' = 0 /\ segments' = {}
    /\ adjusted' = Unadjusted /\ candidate' = 0 /\ entry' = NoEntry /\ faults' = 0
    /\ boot' = [b \in DOMAIN boot |-> FALSE]
    /\ UNCHANGED <<accepted, displacement, source, configVars, driverVars>>

-----------------------------------------------------------------------------
(* The walk over the extension folders.                                    *)

\* LdrLoadDrivers: the system's folder, when it can be opened. The library's is
\* looked for with an empty name, which IoOpenFile never finds.
OpenFolder ==
    /\ pc = "system"
    /\ \/ /\ pc' = "walk"
          /\ walk' = <<[path |-> <<pc>>, plugin |-> FALSE]>>
       \/ /\ pc' = "match"
          /\ UNCHANGED walk
    /\ UNCHANGED <<kernelVars, faults, memory, configVars, bootArgs, pluginBuffer, bundles,
                   bundle, modules, cursor, ranges>>

Frame == walk[Len(walk)]

\* The directory is read to its end, or an entry cannot be read or its name not
\* converted; the call returns.
LeaveFolder ==
    /\ pc = "walk"
    /\ walk' = SubSeq(walk, 1, Len(walk) - 1)
    /\ pc' = IF Len(walk) > 1 THEN "walk" ELSE "match"
    /\ UNCHANGED <<kernelVars, faults, memory, configVars, bootArgs, pluginBuffer, bundles,
                   bundle, modules, cursor, ranges>>

\* Mutant: the call for the plugins builds a plugin directory, too.
PluginDirectory_Always(name) ==
    Append(IF Frame.plugin THEN pluginBuffer ELSE Frame.path, name)

\* pluginBuffer, rewritten for each bundle of an extension folder.
PluginDirectory(name) == IF Frame.plugin THEN pluginBuffer ELSE Append(Frame.path, name)

\* A bundle is met and its Info.plist read. For a plugin the path begins with the
\* directory LdrpLoadDrivers was called with, which is pluginBuffer.
LoadBundle ==
    /\ pc = "walk"
    /\ bundles < MaxBundles
    /\ bundles' = bundles + 1
    /\ pluginBuffer' = PluginDirectory(bundles')
    /\ \E plist \in Plists :
         /\ bundle' = [path |-> Append(IF Frame.plugin THEN pluginBuffer' ELSE Frame.path,
                                       bundles'),
                       at |-> Append(Frame.path, bundles'),
                       plist |-> plist]
         /\ document' = plist.document
    /\ rootTag' = NULL
    /\ pc' = "parse"
    /\ UNCHANGED <<kernelVars, faults, memory, heap, calls, returned, refusals, bootArgs, walk,
                   modules, cursor, ranges>>

\* After the bundle its plugins are looked for; there may be none.
Plugins ==
    /\ pc' = "walk"
    /\ bundle' = NoBundle
    /\ \/ UNCHANGED walk
       \/ /\ ~Frame.plugin
          /\ walk' = Append(walk, [path |-> pluginBuffer', plugin |-> TRUE])

\* The Info.plist cannot be opened, read or held in memory.
BundleFaults ==
    /\ pc = "walk"
    /\ bundles < MaxBundles
    /\ Fault
    /\ bundles' = bundles + 1
    /\ pluginBuffer' = PluginDirectory(bundles')
    /\ Plugins
    /\ UNCHANGED <<kernelVars, memory, configVars, bootArgs, modules, cursor, ranges>>

ParsePlist ==
    /\ pc = "parse"
    /\ Parse
    /\ UNCHANGED <<pc, kernelVars, faults, memory, bootArgs, driverVars>>

\* OSBundleRequired is a string other than "Safe Boot".
Required ==
    LET t == CmGetTagValueForKey(heap, rootTag, "OSBundleRequired")
    IN  t # NULL /\ heap.tags[t].Type = "string" /\ heap.tags[t].StringValue # "Safe Boot"

\* LdrpParseDriverInfoPlist and LdrpLoadDriverPList end: a module that is required
\* joins the list, otherwise its dictionary is freed, as it is when there is no
\* memory for the module. The parser may have left the free list in a loop.
BundleParsed ==
    /\ pc = "parse"
    /\ rootTag # NULL
    /\ rootTag' = Failed
    /\ UNCHANGED pluginBuffer
    /\ \/ /\ rootTag = Failed /\ Cyclic(heap)
          /\ pc' = "corrupt"
          /\ UNCHANGED <<heap, refusals, modules, bundle, walk>>
       \/ /\ rootTag = Failed /\ ~Cyclic(heap)
          /\ Plugins
          /\ UNCHANGED <<heap, refusals, modules>>
       \/ /\ rootTag # Failed /\ Required
          /\ modules' = Append(modules, [DriverPath |-> bundle.path, at |-> bundle.at,
                                plist |-> bundle.plist, InfoPlistTag |-> rootTag, WillLoad |-> 1])
          /\ Plugins
          /\ UNCHANGED <<heap, refusals>>
       \/ /\ rootTag # Failed
          /\ IF Required THEN NoMemory ELSE UNCHANGED refusals
          /\ heap' = CmFreeTag(heap, rootTag)
          /\ Plugins
          /\ UNCHANGED modules
    /\ UNCHANGED <<kernelVars, faults, memory, document, calls, returned, bootArgs, bundles,
                   cursor, ranges>>

-----------------------------------------------------------------------------
(* Loading what was found.                                                 *)

\* Every module is to be loaded from the start (WillLoad = 1), so that the
\* libraries they name add none. Nothing has set NextModule of the last module:
\* the list ends there, or goes on into whatever the pool held.
LdrpMatchLibraries ==
    /\ pc = "match"
    /\ \/ /\ pc' = "modules"
          /\ cursor' = 1
          /\ modules' = [m \in 1 .. Len(modules) |->
               IF modules[m].WillLoad = 1 THEN [modules[m] EXCEPT !.WillLoad = 2]
               ELSE modules[m]]
       \/ modules # <<>> /\ pc' = "wild" /\ UNCHANGED <<modules, cursor>>
    /\ UNCHANGED <<kernelVars, faults, memory, configVars, bootArgs, walkVars, ranges>>

HasExecutable(m) == CmGetTagValueForKey(heap, m.InfoPlistTag, "CFBundleExecutable") # NULL

\* A driver is its record, property list and path and its executable, if any. Its
\* range is all of that, however much of the executable was read.
AddRange(name, n) == ranges' = ranges \cup {[name |-> name, pa |-> end - KernelBase, n |-> n]}

AtModule == pc = "modules" /\ cursor <= Len(modules) /\ modules[cursor].WillLoad # 0

\* One module in LdrpLoadMatchedModules: loaded and entered into the memory map.
LoadModule ==
    /\ AtModule
    /\ \E n \in FileSizes : KM!Allocate(n, 0) /\ AddRange("Driver", n)
    /\ cursor' = cursor + 1
    /\ UNCHANGED <<pc, kernelVars, faults, configVars, bootArgs, walkVars, modules>>

\* Mutant: the block stays allocated.
ModuleWithoutRange_KeepsBlock ==
    /\ AtModule
    /\ Fault
    /\ \E n \in FileSizes : KM!Allocate(n, 0)
    /\ cursor' = cursor + 1
    /\ UNCHANGED <<pc, kernelVars, configVars, bootArgs, walkVars, modules, ranges>>

\* The memory map takes no more: the block is given back, the next module follows.
ModuleWithoutRange ==
    /\ AtModule
    /\ Fault
    /\ \E n \in FileSizes : KM!CanAllocate(n, 0)
    /\ cursor' = cursor + 1
    /\ UNCHANGED <<pc, kernelVars, memory, configVars, bootArgs, walkVars, modules, ranges>>

\* All are loaded, there are no pages for this one, or its executable cannot be
\* opened or read, in which case its block is given back: the function returns
\* EFI_SUCCESS and the modules that are left are not loaded.
LeaveModules ==
    /\ pc = "modules"
    /\ \/ cursor > Len(modules) /\ UNCHANGED faults
       \/ /\ AtModule
          /\ \E n \in FileSizes : ~KM!CanAllocate(n, 0)
          /\ UNCHANGED faults
       \/ AtModule /\ HasExecutable(modules[cursor]) /\ Fault
    /\ pc' = "ramdisk"
    /\ UNCHANGED <<kernelVars, memory, configVars, bootArgs, driverVars>>

\* LdrLoadRamDisk; its status is not looked at. A short read is not an error, and
\* the range is what was read. A file that cannot be opened or measured takes no
\* pages, one that cannot be read or entered gives them back.
LdrLoadRamDisk ==
    /\ pc = "ramdisk"
    /\ pc' = "done"
    /\ \/ \E n \in FileSizes : \E read \in 0 .. n :
            KM!Allocate(n, 0) /\ AddRange("RAMDisk", read)
       \/ UNCHANGED <<memory, ranges>>
    /\ UNCHANGED <<kernelVars, faults, configVars, bootArgs, walkVars, modules, cursor>>

-----------------------------------------------------------------------------
Init ==
    /\ LdrInit
    /\ ParseInit
    /\ bootArgs = NoBootArgs
    /\ walk = <<>> /\ pluginBuffer = <<>> /\ bundles = 0 /\ bundle = NoBundle
    /\ modules = <<>> /\ cursor = 0 /\ ranges = {}

Next ==
    \/ LdrNext /\ UNCHANGED <<configVars, bootArgs, driverVars>>
    \/ BlInitializeBootArgs
    \/ OpenFolder \/ LeaveFolder \/ LoadBundle \/ BundleFaults
    \/ ParsePlist \/ BundleParsed
    \/ LdrpMatchLibraries \/ LoadModule \/ ModuleWithoutRange \/ LeaveModules
    \/ LdrLoadRamDisk

Spec == Init /\ [][Next]_allVars

-----------------------------------------------------------------------------
\* The lists of tags somebody holds: modules, the open calls of the parser, what
\* is being returned and the result.
Held ==
    {modules[m].InfoPlistTag : m \in 1 .. Len(modules)}
    \cup {calls[c].tagList : c \in 1 .. Len(calls)}
    \cup {t \in {returned, rootTag} : t > 0}

TagsBelow(t) == {FreeOrder(heap, t)[i] : i \in 1 .. Len(FreeOrder(heap, t))}

\* At every step of the parser every tag is in one place of one list that somebody
\* holds or on the free list, and a symbol counts the tags that use it, whatever
\* was parsed, given up half way or freed before (Config.c:328, :402, :781). The
\* one way to lose this is an allocation that failed: the tag freed at
\* Config.c:535 or :586 takes the free list with it.
TagsAreConserved ==
    IF Cyclic(heap) THEN refusals > 0
    ELSE /\ \A t \in Held : Len(FreeOrder(heap, t)) = Cardinality(TagsBelow(t))
         /\ \A s, t \in Held : s # t => TagsBelow(s) \cap TagsBelow(t) = {}
         /\ 1 .. Len(heap.tags) =
              FreeTags(heap) \cup UNION {TagsBelow(t) : t \in Held}
         /\ \A t \in Held : TagsBelow(t) \cap FreeTags(heap) = {}
         /\ heap.symbols = References(heap, 1 .. Len(heap.tags))

\* What a module holds is its own bundle's property list, as written, though the
\* tags of lists that were given up are used again and symbols are shared, and
\* the module is required for booting (CmParseXmlFile, LdrpParseDriverInfoPlist).
PlistsAreExact ==
    \A m \in {modules[i] : i \in 1 .. Len(modules)} :
      /\ Forest(heap, m.InfoPlistTag) = <<m.plist.tree>>
      /\ \E k \in {m.plist.tree.below[i] : i \in 1 .. Len(m.plist.tree.below)} :
           k.text = "OSBundleRequired" /\ k.below[1].text # "Safe Boot"

\* Each driver is handed over with the path of the directory it was found in,
\* although the calls for folders and plugins share the static pluginBuffer, which
\* is the inner call's directory (LoadDrivers.c:526).
PathsAreTrue == \A i \in 1 .. Len(modules) : modules[i].DriverPath = modules[i].at

\* A module is what its bundle says it is, and says where it is from
\* (LdrpLoadMatchedModules, LoadDrivers.c:603-716).
ModulesAreTrue == PlistsAreExact /\ PathsAreTrue

\* What lies behind the boot arguments is what the memory map describes: each block
\* has one range, which begins where it does and does not leave it, and a driver's
\* range is its whole block; only a ramdisk that was read short has a range that
\* ends before its block. A driver or ramdisk that was not entered is given back,
\* and what was entered is neither freed nor overlapped later
\* (LoadDrivers.c:698-706, LoadKernel.c:1218-1233).
RangesAreAllocated ==
    LET behind == {b \in blocks : b.va > bootArgs.va}
    IN  bootArgs.va # 0 =>
          /\ \A b \in behind : \E r \in ranges : r.pa = b.pa
          /\ \A r \in ranges : \E b \in behind :
               r.pa = b.pa /\ r.n <= b.n /\ (r.name = "Driver" => r.n = b.n)
          /\ \A q, r \in ranges : q.pa = r.pa => q = r
=============================================================================
