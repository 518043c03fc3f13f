# Formal models of the OS X boot loader

This directory holds TLA+ models of `boot.efi` (`src/src/boot`), the loader
that starts OS X on Macs with 32-bit or 64-bit EFI. The loader runs on one
processor and without threads, but it is not alone: the firmware changes its
memory map between two calls, a disk delivers reads later, a remote debugger
reads and writes the loader's memory, power fails, and every allocation may be
refused. Those are the behaviours the models are about.

TLC checks the models on small instances. TLAPS proves the most important
properties for every value of the constants.

## 1. The system

`EfiMain` (`Main.c`) runs the parts in this order: debugger, console, device
tree, platform expert, test for a hibernation image, hot keys, boot volume,
options, panic dialog, FileVault unlock, second test for an image (now with the
volume's key), kernel, boot arguments, drivers, ramdisk, SIP state, end of boot
services, end of the debugger, kernel start.

| Part | Source | State | Interacts with |
|---|---|---|---|
| Memory manager | `Memory.c` | tag lists, kernel range | everything |
| Device tree | `DeviceTree.c` | slabs, links, counters | platform expert, FileVault, boot arguments, hibernation |
| Memory map | `MemoryMap.c`, `AcpiUtils.c` | the map, the runtime area | boot arguments, hibernation |
| End of boot services | `BootArgs.c` | map buffer, key, attempts | firmware |
| Debugger | `BootDebugger.c`, `x64/DebuggerUtilsX64.c` | breakpoint table, wait loop | transports, host |
| Debugger transports | `DebugUsb.c`, `Debug1394.c` | packet ids, retries, shared buffers | host |
| Hibernation | `Hibernate.c` | image pipeline, NVRAM variables, handoff records | disk, NVRAM, memory map |
| Options and boot mode | `Options.c`, `Main.c` | boot mode bits | hibernation, kernel loader |
| Configuration | `Config.c` | symbols, tags | kernel, driver and FileVault code |
| Kernel and drivers | `LoadKernel.c`, `MachO.c`, `LoadDrivers.c` | module list, segments | memory manager, device tree, files |
| Files | `FileIo.c`, `NetBoot.c` | file handles | firmware protocols |
| FileVault 2 | `FileVault.c` | key store, unlock dialog | device tree, hibernation |
| Panic dialog | `PanicDialog.c` | log in NVRAM | NVRAM |
| Algorithms | `MiscUtils.c`, `Base64.c`, `Crc32.c`, `MD5.c`, `SHA256.c` | none | callers |
| Architecture | `x86/`, `x64/` | thunks | firmware, kernel |

`PROJECT.json` lists every part with its status, and every hazard with the line
where it bites.

## 2. Modules and how they correspond to the code

Every operation of the code is one action, or one operator that an action
uses; names follow the source. Definitions ending in `_Something` (for example
`NextVector_Late`) are deliberately wrong variants of a definition. They are
used only to confirm that a property notices the mistake.

**Memory.** Addresses and lengths count pages. The two linked tag lists are a
set of free slots and a function from used slots to contents. The firmware may
refuse any request and may return any free page. `ExitBootServices` makes
`EfiBootServices` NULL, after which frees do nothing.

**DeviceTree.** The globals and the slab memory are one record. Each operation
maps it to the set of its outcomes, one for each answer of `MmAllocatePool`.
The free list runs through the same `Next` field as the children, as in the
code. `Unflatten` is the kernel's parser, which is external.

**MemoryMap.** A map is a sequence of descriptors, and a step is one turn of
one of the code's loops over it: cutting out the NVS data, sorting, removing
descriptors, assigning virtual addresses, moving the memory, correcting
physical addresses, cutting out the new regions. `contents` records which page
the bytes of a page came from, so "moved", "cleared" and "overwritten" can be
told apart. Page counts wrap modulo `Wrap`, and a virtual address belongs to the
physical one modulo `Window`. A `Machine` holds two maps: the first, in which
the runtime pages are counted, and the last, which the firmware may have changed
by then. `createRegion` tells a boot (`BlFinalizeBootArgs`) from a resume
(`Hibernate.c`). The configuration table and one table it points to are moved
along with the runtime services.

**BootHandoff.** The five attempts of `BlFinalizeBootArgs` to fetch the map,
leave boot services and rework the map. Sizes count descriptors. Between any
two calls `FirmwareEvent` may change the map and its key, and so does each
allocation of the loader itself, which may take one more page for memory tags.

**Breakpoints.** `code` is the program as loaded and `memory` what is there
now. The host adds, deletes and restores breakpoints, unmaps and maps pages,
and gets reports. `BdFinalize` suspends one breakpoint per step.

**KdLink** is the abstract specification of a debugger link: each message and
each request exactly once and in order, until a message is given up or the
host leaves the dialogue (a break-in, a reset, a command out of turn), or the
target believes so.
**KdUsb** (packets over a lossy cable) and **Kd1394** (two shared buffers)
implement it. The mapping is `LinkSpec` in each module. The host is external
and follows what the target's code expects of it. A USB device that fails while
it is read is `DeviceFails`; a failed send is a lost packet.

**HibernateImage.** The loop of `HbpContinueResumeFromHibernate` that reads
and decrypts the image. Lengths count AES blocks. A cell of the buffer records
the disk place it came from and whether, and with which vector, it was
decrypted. **HibernateHandoff** places the handoff records in the pages
allocated for them; a FileVault 2 configuration without a key store is a record
of no words, none at all is `NoKeyStore`. `ResumeFails` is each error return from
the last memory map on. **HibernateResume** composes the two into the whole
function: the records follow the loop, and the record of crypt variables takes
the vector the loop left.

**HibernateBoot.** The NVRAM variables over many boots, with hibernation,
shutdown and power cuts at every step. `used` says whether a system ran since
the image was written, and if not, whether the image has a key of its own.
**BootModes** adds to it what else a
boot decides, in the order of `EfiMain`: hot keys and firmware password, the
boot volume, the options and the command line (`Options.c`), the panic dialog
with its log (`PanicDialog.c`), the recovery system, unlocking. The boot mode
is one set of bits, `mode` of HibernateBoot and `flags` together; a command
line is the set of its options. Every step of BootModes is a step of
HibernateBoot or leaves its variables alone.

**KernelMemory** is the abstract specification of the window in which kernel,
drivers and ramdisk are placed: blocks that do not overlap, a range, and a free
that takes back only the last block. Memory implements it (`KernelMemorySpec`).

**LoadKernel** is written over KernelMemory: `LdrLoadKernelCache`,
`LdrLoadKernel` and `MachLoadMachO`. A file is a record of what its header says
and its load commands. An I/O error, a short read or refused memory is a fault;
a cache that does not decompress or has another checksum is `CorruptCache`.
Symbols are adjusted (`AdjustSymbols`) after the last load command.
**Config** is the property list parser with its heap; the open calls of the
recursion are a sequence. **LoadDrivers** continues LoadKernel with the boot
arguments, the walk over extension folders and plugins, each `Info.plist` parsed
by Config, the modules and the ramdisk, of which less may be read than its file
said. Where the code uses memory it never set
(the end of the module list, symbols without `__LINKEDIT`, a negative length to
clear) the model goes to `"wild"` and claims nothing more.

The `MC*` modules only define constants; the `*Proofs` modules hold the
theorems.

## 3. What the runs check

| Run | Result |
|---|---|
| `memory` | The tag list is exactly the live allocations. The kernel range covers the kernel's blocks in both address spaces, and held blocks stay allocated. The manager implements KernelMemory. |
| `device_tree` | The links form a tree, the counters size the flattened buffer and the kernel reads back the tree, and creating a path disturbs no other path. |
| `memory_map` | The NVS data is cut out of a long enough region, all its pages. The runtime area, counted in the first map, holds the regions of the last one while that marks at most one page more. The runtime services and the tables end up, whole, where the kernel looks, or stay where they were if there is no room. A resumed kernel's map lists each runtime region exactly once. |
| `boot_handoff` | The kernel gets the current map in a buffer that holds it, also while it is reworked if the spare bytes hold ten descriptors and two for each event, and the retries end. |
| `breakpoints` | No byte of code is lost, `BdFinalize` restores the code, a report hides a single breakpoint. |
| `kd_usb`, `kd_1394` | Both transports implement `KdLink`. A stopped target waits, no message is torn, no USB request runs twice before a give-up. Sends end: an absent debugger is declared absent, and reports reach an attached one; on USB unless turns do not count, or the device drops the host's answers, for ever. |
| `hibernate_resume` | The image is exact, reads stay in bounds, extent entries and preview are used only when ready, the loop ends, the records fit their pages, and the kernel is handed the vector with which it can go on. |
| `boot` | Over many boots with hot keys, options, a panic and power cuts: a stale image is never resumed, a failed resume causes no reset loop, and the kernel is told the modes the loader decided on. |
| `loader` | A loaded kernel has every segment in place and one displacement throughout. A cache is used only when fresh. The fall back to the kernel loads unless an abandoned cache occupies its pages. The parser loses no tag or symbol, modules hold their own property list and path, and the memory map describes exactly what lies behind the boot arguments. |

### Where the code falls short of its comments

Two runs end with a counterexample. `PROJECT.json` quotes the comments.

* `memory_map_region`: a range cut out of the middle of a descriptor. The
  variable `length` is reused, and the part after the range is placed with the
  length of the part before it (`MemoryMap.c:152`).
* `panic_loop`: six panics in three minutes. The loop over the pieces of a
  report asks for sizes only and never ends with success, so the test before
  `BlpDetectPanicLoop` never lets it run (`PanicDialog.c:303`). The rest of the
  detection is modelled: with a status of success the property holds.

Other places where the code does less than one would expect were met while
modelling. The models follow the code, and the properties name the condition
under which they hold:

| Code | What happens | Condition in the model |
|---|---|---|
| `DeviceTree.c:255` | A node whose naming failed is freed and stays linked. | `unnamed`: nothing is said of the tree after it |
| `AcpiUtils.c:186` | A page count wraps for a short region. | `RoomForNvs` |
| `BootDebugger.c:1356` | Deleting a range stops after its first breakpoint. | `OneBreakpointIsHidden` |
| `DebugUsb.c:2326` | A header that was never filled in decides whether a timeout counts; a print to an absent debugger need not end. | `SendsEnd` of `kd_usb` excepts that this goes on for ever (`Uncounted`); in `kd_1394` the byte may mislead any number of times |
| `DebugUsb.c:2257` | A break-in that meets a receive is dropped. | the promise ends at a break-in |
| `DebugUsb.c:2146` | After a give-up an acknowledged report does not stop the target, and a repeated request can be carried out again. | the promise ends at a give-up (`ghost.gaveUp`) |
| `Debug1394.c:966` | A command written early completes an unread send. | the promise is for a patient host |
| `Main.c:744` | Safe mode is tested before it can be set. | none: the branch is never taken |
| `Hibernate.c:813` | The next record overwrites the end of a key store. | `RecordsBesideKeyStore` |
| `Config.c:535`, `:586` | A tag without a string is freed together with the free list, which becomes a cycle. | `TagsAreConserved` allows it after a refused allocation |
| `MachO.c:1347` | Segments of an abandoned cache keep their pages. | `FallBackLoads` |
| `MachO.c:1384` | A segment with nothing in the file is cleared from where an earlier read ended. | `SegmentsAreExact` allows what was there before in the first pages of such a segment |
| `LoadDrivers.c:648` | One driver that cannot be read ends the loading, with success. | nothing claims that all modules load |

### Bounds

* `memory`: five pages, three pool buffers, tag pools of two. Tag pools run
  out and are extended, and blocks meet, overlap in request and are reused.
  The pool addresses are symmetric: nothing compares them.
* `device_tree`: two slabs of two nodes and three properties each, so both
  kinds run out in the middle of an operation.
* `memory_map`: maps of six regions in either order, chosen in `MCMemoryMap` to
  put the NVS data and the runtime area at the begin, the middle and the end of
  a descriptor, in one descriptor and in two. The first map has up to two
  runtime pages fewer than the last, so the area is just large enough, or not.
* `boot_handoff`: three events, so the map changes both while it is measured
  and while it is fetched. `Slack` is 512 bytes in descriptors of 40 bytes,
  enough for the loader's own changes and one event. Tag pages of two tags
  run out.
* `breakpoints`: a table of two, so it fills, and reports of two bytes.
* `kd_usb`: three messages and two requests, so the one-bit packet id comes
  round, and one trouble of any kind: a lost or damaged packet, a repetition,
  a break-in, a resynchronisation, a device that fails with a packet on its way.
  Timeouts, device failures with nothing on its way and misleading headers are
  not bounded. The host may be detached at any time. The proofs have no bound.
* `kd_1394`: five messages, two requests and one stray command.
* Both scale the retry counts from 5 and 20 to 1 and 2, with a wrap at 3 and 4.
* `hibernate_resume`: images of up to ten blocks in up to four extents, so
  that extent entries lie in the header and in the image; record sizes 0, 1, 3
  and 6, without a FileVault 2 configuration or with a key store of 0, 3 or 4
  words, around pages of 8 words.
* `boot`: two hibernations and one power cut, so a second image meets leftovers
  of the first, with and without a key; one panic; the key and option sets of `MCBootModes`, which hold
  each key and option the loader treats differently. The proofs have no bounds.
* `panic_loop`: six panics 30 seconds apart, one more than the log holds.
* `loader`: a window of ten pages, eight caches and three kernels, of which
  some are refused early, some late, some after their segments were placed; one
  fault and one refused allocation anywhere; drivers and ramdisks of one or two
  pages; two bundles with five kinds of
  property list over tag blocks of four, so that tags are used again; seven
  times around the end of a day, of February in and out of a leap year, and of
  a year.

Deadlock checking is off where the program stops by itself (the kernel runs,
the loop is over) or where a bound ends the behaviour. `boot` and `panic_loop`
have it on.

### Fairness

* `boot_handoff`, `boot`: weak fairness of the loader's own step. It
  is one sequential program and goes on while there is power.
* `hibernate_resume`: weak fairness of the loop, and strong fairness of
  `Account`, meaning a disk does not fail every flush for ever. The code
  repeats a failed flush without limit, so without this assumption the loop
  need not end.
* `kd_usb`, `kd_1394`: weak fairness of the target's send and
  receive loops and of an attached host that takes what was delivered. On USB
  the host also answers a reset again.

## 4. What is proved

The theorems hold for all constants that satisfy the named assumptions of the
component's module. Each proof follows one pattern: an inductive invariant,
one step per action.

| Module | Theorems | Inductive invariant, and why it is needed |
|---|---|---|
| `BootProofs` | `MemoryTypeOK`, `TagListIsExact`, `KernelRangeIsSafe`, `MemoryImplementsKernelMemory` | About Memory: `MemoryTypes`, the tags name live memory, allocated page ranges are disjoint, kernel blocks lie in the range. Disjointness is what lets a free of one block leave the others alone, and what makes an allocation one of KernelMemory. |
| `BootHandoffProofs` | `HandoffTypeOK`, `HandoffIsCurrent`, `HandoffMapFits` | `TypeOK`, the loop's counter, how far the map can have grown since the buffer was sized (for each tag page, each allocation and each event), what the buffer holds, and that a fetched map is current while its key is. The size query overwrites the key, so key and content must be tied together. |
| `BreakpointProofs` | `BreakpointTypeOK`, `CodeRecoverable`, `CodeRestored`, `OneBreakpointHidden` | `BreakpointTypes`, the table is sane (every entry has a possible shape, and a byte that differs from the code is kept by an entry), and the entries below the finalisation index are suspended. |
| `HibernateResumeProofs` | `ImageTypeOK`, `ReadsAlwaysFit`, `ImageExact`, `ExtentEntriesRead`, `PreviewReady` | About HibernateImage: `TypeOK`, the cursor agrees with the extents, outstanding requests, how far decryption came with which vector, decryption stays behind reading, and what holds at the end. |
| | `ResumeImplementsImage`, `KernelGetsLastVector`, `RecordsFitPages` | The resume refines the loop, which brings the loop's invariant with it. `LastVector` (the vector when decryption is over) and `Handed` (records come after the loop). `RecordInv`: from `handoffHeader` on there is room for all that is still to be written, and what is written lies before it. |
| `BootProofs` | `HibernateTypeOK`, `NoStaleResume` | About HibernateBoot: `TypeOK`, what the variables in NVRAM permit (`Permission`), and that none is left once the loader is past reading them (`Spent`). |
| | `BootImplementsHibernateBoot`, `NoStaleResumeAtBoot`, `KernelIsToldTheModes` | The refinement is step by step, and carries `NoStaleResume` over. `LineInv`: the two halves of the boot mode stay apart, single user implies verbose, and once the options were processed line and modes agree. The second look at the hot keys adds modes before the line is rebuilt from the old line, so the line's options have to be in the modes already. |
| `Kd1394Proofs` | `Kd1394LinkSpec`, `Kd1394NoTornMessage` | `Dialogue`, which holds until the host is impatient: what lies in each buffer follows from whose turn it is, and the target does not touch the send buffer between the two reads of the host. |
| `KdUsbLinkProofs` | `KdUsbLinkSpec`, `KdUsbStoppedTargetWaits` | `Dialogue`: each side is at most one message behind the other and its bit says so (`Counts`); a request is on its way only to a target that waits for one (`Turns`); and each channel is in order (`InOrder`), old packets before the ones in question before the answers to them, so that a packet with the expected bit is never an old one. |
| `KdUsbProofs` | `KdUsbRequestsRunOnce` | `RunOnce` goes on where `Dialogue` ends. `OnceOrder` says what a channel holds in which order across break-ins and RESETs of both sides: behind a RESET no request that was carried out has the bit the target will expect then. |
| `LoaderProofs` | `LoaderCacheIsFresh` | No more than the property itself at the one step that accepts a cache. The work is in the calendar: `BlAddOneSecond` adds one to a count of seconds from any year on (`Epoch`) and `BlCompareTime` orders as that count does, through months of all lengths and leap years. |
| | `LoaderSegmentsAreExact`, `LoaderSlideIsUniform`, `LoaderFallBackLoads` | `LoadTypes` (blocks in the window, apart from each other; the command number in its range) and `LoadInv`: what the commands up to `next` have left, which is each segment in a block of its own, moved by the current displacement and filled as its command says, and the tables adjusted if there were any. A kernel that starts in an empty window has room for the segments still to come. |
| | `LoaderRangesAreAllocated`, `DriverPathsAreTrue` | `RangesInv`: blocks behind the boot arguments and ranges correspond, and the next block comes after all of them. `PathInv`: at most two directories are open, and the static buffer is used only by the inner one. |

Assumptions, beside sizes and counts being numbers: at least one attempt to
connect over USB (`AttemptsAssumption`). A file to boot from has a `__TEXT`
segment and a thread command, neither of which `MachLoadMachO` asks for
(`FilesAssumption`). The kernel itself, which is what a fall back loads, lies in
the window with segments that are apart (`KernelsAssumption`). File times are
times of the calendar (`TimesAssumption`). Drivers and ramdisks have at least a
page (`FileSizesAssumption`). A page of memory tags holds more than one
(`BoundsAssumption` of BootHandoff). For MemoryMap, which TLC evaluates: the
firmware's map describes each page at most once, and the runtime area was
allocated in it and is as large as counted (`MachinesAssumption`).

`RequestsRunOnce` ends at a give-up. The target then sets the packet id it
expects back to its first value without a word to the host
(`DebugUsb.c:2112`), so nothing keeps a request that the host repeats from
being carried out again.

Only model-checked:

* all liveness (`HandoffTerminates`, `LoopEnds`, `NoResetLoop`, `SendsEnd`),
  which needs fairness and is out of the prover's reach;
* `TagsAreConserved` and the property lists in `ModulesAreTrue`: what the
  parser leaves is defined by recursion over trees and lists of tags, and the
  prover has no induction over data (the paths in `ModulesAreTrue` are proved);
* DeviceTree, whose operations are recursive operators;
* MemoryMap, whose properties are about all descriptors of a map after loops
  that swap, remove and append them.

The type invariants are proved and not run.

## 5. Not modelled

* Firmware, disk, host debugger and kernel are external. They are modelled by
  what the loader's code relies on, with every answer the code handles.
* `MmFinalize` has no caller. In DeviceTree, path components of 32 and more
  characters are left out, and so are the values' own buffers.
* In the debugger: requests for memory, registers, ports and PCI space, which
  keep no state in the loader; `BdPromptString`; the reboot request; the USB
  controller's registers and control transfers, whose correctness depends on a
  controller the source does not describe.
* In hibernation: errors of deleting a variable, which the code ignores and
  which would allow both a stale resume and a reset loop.
* After a give-up, a late USB acknowledgement can match the next packet. The
  promise of `KdLink` ends there, so nothing is claimed.
* In the boot sequence: the set-up of the console and the platform expert, and
  the bits of the SIP state, which no later step reads. In the options: the
  paths of kernel, cache and ramdisk and the lookup of the configuration file.
  FileVault is reduced to whether a volume key is found.
* In the loaders: decompression, checksums, kernel patches, fat headers and the
  lookup of symbols. `CmSerializeValueForKey`, whose `CmpEmitString` has no exit
  at the end of the string, and the readers of numbers and data.
* `FileIo.c` and `NetBoot.c` wrap firmware protocols; their failures are faults
  in the models of their callers.
* LZSS, LZVN, Adler, UTF-8, UUID and Base64 work on long byte strings; the
  strings TLC can enumerate are too short to reach their boundaries, and the
  prover has no induction over data.
* Cryptography, digests, drawing, assembler and device register set-up.
