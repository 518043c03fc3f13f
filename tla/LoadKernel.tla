----------------------------- MODULE LoadKernel -----------------------------
(***************************************************************************)
(* How the kernel gets into memory: LdrLoadKernelCache searches the        *)
(* prelinked kernels and kernel caches, LdrLoadKernel is the fall back     *)
(* (LoadKernel.c, called by EfiMain), and both end in MachLoadMachO        *)
(* (MachO.c), which places segments in the kernel's window.                *)
(*                                                                         *)
(* A file is a record: what its header says and its load commands. Sizes   *)
(* and addresses are pages. A fault is an I/O error, a short read or       *)
(* memory the firmware refuses.                                            *)
(***************************************************************************)
EXTENDS Integers, Sequences, FiniteSets

CONSTANTS Window, KernelBase,
          Times,        \* modification times (EFI_TIME) files can have
          Epoch,        \* a year that seconds are counted from
          Caches,       \* files a cache path can name
          Kernels,      \* files the kernel path can name
          Slides,       \* displacements LdrpComputeASLRDisplacement can return
          CommandPages, \* pages of a file's load commands
          MaxFaults

VARIABLES
    pc,
    boot,         \* net boot, cache path configured, cache override, other kernel
    candidate,    \* i, the cache path that is looked at
    accepted,     \* file information that made the cache valid
    displacement, \* LdrpASLRDisplacement, 0 when ASLR is off
    source,       \* the file being loaded is the "cache" or the "kernel"
    image,        \* that file
    next,         \* its next load command
    readLength,   \* pages the last read returned
    segments,     \* what MachLoadMachO has put in memory, of either file
    adjusted,     \* displacement added to the loaded header, data and symbols
    entry,        \* kernelInfo's entry point: the file it is of, its displacement
    faults,
    blocks, begin, end   \* the kernel's window: KernelMemory

memory == <<blocks, begin, end>>
vars == <<pc, boot, candidate, accepted, displacement, source, image, next,
          readLength, segments, adjusted, entry, faults, memory>>
local == <<image, next, readLength>>

KM == INSTANCE KernelMemory

None == "none"
NoFile == [kind |-> "missing", time |-> None]
FileInfo == {NoFile} \cup [kind : {"noinfo", "file", "directory"}, time : Times]

\* Load commands; a segment's first page, its pages in memory and in the file.
SegmentCommands ==
    [kind : {"segment"}, name : STRING, va : Nat \ {0}, vsize : Nat, fsize : Nat]
LoadCommands ==
    SegmentCommands \cup [kind : {"symtab"}]
    \cup [kind : {"dysymtab"}, relocations : {"none", "good", "bad"}]
    \cup [kind : {"thread"}, x64 : BOOLEAN]

\* Command number j of f is a segment that takes pages.
TakesPages(f, j) == f.commands[j].kind = "segment" /\ f.commands[j].vsize # 0

\* The loader does not ask for it: a file to boot from has a __TEXT segment and
\* says where it starts.
IsKernel(f) ==
    /\ f.pie \in BOOLEAN
    /\ f.commands \in Seq(LoadCommands)
    /\ \E j \in 1 .. Len(f.commands) : TakesPages(f, j) /\ f.commands[j].name = "__TEXT"
    /\ \E j \in 1 .. Len(f.commands) : f.commands[j].kind = "thread"

\* A kernel that was built for this window: its segments lie in it, displaced or
\* not, and apart from each other, and nothing in it is refused.
IsLoadable(f) ==
    LET c == f.commands
    IN  /\ \A j \in 1 .. Len(c), d \in Slides \cup {0} :
             TakesPages(f, j) => /\ c[j].va + d > KernelBase
                                 /\ c[j].va + d + c[j].vsize <= KernelBase + Window
        /\ \A i, j \in 1 .. Len(c) :
             i < j /\ TakesPages(f, i) /\ TakesPages(f, j) =>
               c[i].va + c[i].vsize <= c[j].va \/ c[j].va + c[j].vsize <= c[i].va
        /\ \A j \in 1 .. Len(c) :
             c[j].kind = "dysymtab" /\ c[j].relocations # "none" =>
               /\ c[j].relocations = "good"
               /\ \A name \in {"__DATA", "__LINKEDIT"} :
                    \E i \in 1 .. j - 1 : TakesPages(f, i) /\ c[i].name = name
        /\ \A j \in 1 .. Len(c) : c[j].kind = "thread" => c[j].x64

ASSUME SizesAssumption ==
    /\ Window \in Nat /\ KernelBase \in Nat /\ CommandPages \in Nat /\ MaxFaults \in Nat
    /\ Slides \subseteq Nat
ASSUME FilesAssumption == \A f \in Caches \cup Kernels : IsKernel(f)
ASSUME KernelsAssumption == \A f \in Kernels : IsLoadable(f)

-----------------------------------------------------------------------------
(* Modification times.                                                     *)

TimeFields(t) == <<t.Year, t.Month, t.Day, t.Hour, t.Minute, t.Second>>

\* Negative when s is earlier: the first field that differs decides.
BlCompareTime(s, t) ==
    LET a == TimeFields(s)
        b == TimeFields(t)
        differ == {f \in 1 .. 6 : a[f] # b[f]}
    IN  IF differ = {} THEN 0
        ELSE LET f == CHOOSE f \in differ : \A g \in differ : f <= g
             IN  IF a[f] < b[f] THEN -1 ELSE 1

IsLeapYear(y) == (y % 4 = 0 /\ y % 100 # 0) \/ y % 400 = 0

DaysOfMonth(t) ==
    IF t.Month = 2 THEN IF IsLeapYear(t.Year) THEN 29 ELSE 28
    ELSE IF t.Month \in {1, 3, 5, 7, 8, 10, 12} THEN 31 ELSE 30

ValidTimes == {t \in [Year : Nat, Month : 1 .. 12, Day : 1 .. 31, Hour : 0 .. 23,
                      Minute : 0 .. 59, Second : 0 .. 59] : t.Day <= DaysOfMonth(t)}

ASSUME TimesAssumption == Epoch \in Nat /\ Times \subseteq ValidTimes

\* Mutant: a day follows the 28th of February only in the next month.
BlAddOneSecond_NoLeapYear(t) ==
    IF t.Second < 59 THEN [t EXCEPT !.Second = t.Second + 1]
    ELSE IF t.Minute < 59 THEN [t EXCEPT !.Second = 0, !.Minute = t.Minute + 1]
    ELSE IF t.Hour < 23
      THEN [t EXCEPT !.Second = 0, !.Minute = 0, !.Hour = t.Hour + 1]
    ELSE LET d == [t EXCEPT !.Second = 0, !.Minute = 0, !.Hour = 0]
         IN  IF t.Day < (IF t.Month = 2 THEN 28 ELSE DaysOfMonth(t))
               THEN [d EXCEPT !.Day = t.Day + 1]
             ELSE IF t.Month < 12 THEN [d EXCEPT !.Day = 1, !.Month = t.Month + 1]
             ELSE [d EXCEPT !.Day = 1, !.Month = 1, !.Year = t.Year + 1]

BlAddOneSecond(t) ==
    IF t.Second < 59 THEN [t EXCEPT !.Second = t.Second + 1]
    ELSE IF t.Minute < 59 THEN [t EXCEPT !.Second = 0, !.Minute = t.Minute + 1]
    ELSE IF t.Hour < 23
      THEN [t EXCEPT !.Second = 0, !.Minute = 0, !.Hour = t.Hour + 1]
    ELSE LET d == [t EXCEPT !.Second = 0, !.Minute = 0, !.Hour = 0]
         IN  IF t.Day < DaysOfMonth(t) THEN [d EXCEPT !.Day = t.Day + 1]
             ELSE IF t.Month < 12 THEN [d EXCEPT !.Day = 1, !.Month = t.Month + 1]
             ELSE [d EXCEPT !.Day = 1, !.Month = 1, !.Year = t.Year + 1]

\* checkerInfo: the later one of the kernel file and the extensions directory,
\* among those that exist.
Newer(kernel, extensions) ==
    IF kernel.kind = "missing" THEN extensions
    ELSE IF extensions.kind = "missing" THEN kernel
    ELSE IF BlCompareTime(kernel.time, extensions.time) < 0 THEN extensions
    ELSE kernel

\* LdrpKernelCacheValid: "error" ends the search, "invalid" tries the next path.
LdrpKernelCacheValid(cache, kernel, extensions) ==
    CASE cache.kind = "missing" -> IF boot.configured THEN "error" ELSE "invalid"
      [] cache.kind \in {"noinfo", "directory"} -> "error"
      [] cache.kind = "file" /\ boot.override -> "valid"
      [] OTHER ->
           IF \/ kernel.kind \in {"noinfo", "directory"}
              \/ extensions.kind \in {"noinfo", "file"}
             THEN "error"
           ELSE IF Newer(kernel, extensions).kind = "missing" THEN "valid"
           ELSE IF cache.time = BlAddOneSecond(Newer(kernel, extensions).time)
             THEN "valid" ELSE "error"

-----------------------------------------------------------------------------
NoImage == [commands |-> <<>>, pie |-> FALSE]
Unadjusted == [header |-> 0, data |-> 0, symbols |-> 0]

\* Mutant: EfiMain asks whether a cache path is configured, not whether it must
\* be used.
LoadFails_WhenConfigured ==
    /\ pc' = IF source = "cache" /\ ~boot.configured THEN "kernel" ELSE "failed"
    /\ image' = NoImage /\ next' = 0 /\ readLength' = 0
    /\ accepted' = None
    /\ UNCHANGED <<boot, candidate, source, segments, adjusted, entry>>

\* MachLoadMachO or what came before it returned an error. EfiMain goes on from
\* the cache to the kernel unless a cache was asked for. Segments that were
\* placed stay placed.
LoadFails ==
    /\ pc' = IF source = "cache" /\ ~boot.override THEN "kernel" ELSE "failed"
    /\ image' = NoImage /\ next' = 0 /\ readLength' = 0
    /\ accepted' = None
    /\ UNCHANGED <<boot, candidate, source, segments, adjusted, entry>>

Fault == faults < MaxFaults /\ faults' = faults + 1

\* LdrLoadKernelCache, up to the cache path: another kernel was asked for.
AltKernel ==
    /\ pc = "cache"
    /\ boot.altKernel
    /\ LoadFails
    /\ UNCHANGED <<displacement, faults, memory>>

\* One turn of the loop over the cache paths; path 0 is the configured one, the
\* last turn has no path. The files looked at are those of this turn.
TryCandidate ==
    /\ pc = "cache"
    /\ ~boot.altKernel /\ ~boot.net
    /\ \/ /\ candidate = 0 /\ ~boot.configured
          /\ candidate' = 1
          /\ UNCHANGED <<pc, boot, accepted, source, local, segments, adjusted, entry>>
       \/ /\ candidate = 4
          /\ LoadFails
       \/ /\ candidate < 4 /\ (candidate = 0 => boot.configured)
          /\ \E cache, kernel, extensions \in FileInfo :
               CASE LdrpKernelCacheValid(cache, kernel, extensions) = "valid" ->
                      /\ accepted' = <<cache, kernel, extensions>>
                      /\ pc' = "open"
                      /\ UNCHANGED <<boot, candidate, source, local, segments,
                                     adjusted, entry>>
                 [] LdrpKernelCacheValid(cache, kernel, extensions) = "invalid" ->
                      /\ candidate' = candidate + 1
                      /\ UNCHANGED <<pc, boot, accepted, source, local, segments,
                                     adjusted, entry>>
                 [] OTHER -> LoadFails
    /\ UNCHANGED <<displacement, faults, memory>>

\* A net boot takes the configured path as it is.
NetBoot ==
    /\ pc = "cache"
    /\ ~boot.altKernel /\ boot.net
    /\ IF boot.configured
         THEN /\ pc' = "open"
              /\ UNCHANGED <<boot, candidate, accepted, source, local, segments,
                             adjusted, entry>>
         ELSE LoadFails
    /\ UNCHANGED <<displacement, faults, memory>>

-----------------------------------------------------------------------------
(* The cache file: its header decides on ASLR before it is refused.        *)

Refused(f) == f.compressed = "other" \/ (f.compressed = "lz" /\ ~f.thisMachine)

\* Mutant: LdrSetupASLR(FALSE, 0) clears the mode and leaves the displacement.
WithoutASLR_KeepsDisplacement(off) == displacement

\* LdrSetupASLR(FALSE, 0), when it is called.
WithoutASLR(off) == IF off THEN 0 ELSE displacement

OpenCache ==
    /\ pc = "open"
    /\ \E f \in Caches :
         /\ displacement' = WithoutASLR(f.compressed = "lz" /\ ~f.supportASLR)
         /\ IF Refused(f)
              THEN LoadFails
              ELSE /\ pc' = "header"
                   /\ image' = f
                   /\ accepted' = None
                   /\ UNCHANGED <<boot, candidate, source, next, readLength,
                                  segments, adjusted, entry>>
    /\ UNCHANGED <<faults, memory>>

\* The file is none for this machine or too short for a header, or what it holds
\* does not decompress, has another length or another checksum.
CorruptCache ==
    /\ pc = "open"
    /\ \/ UNCHANGED displacement
       \/ \E f \in Caches : f.compressed = "lz" /\ displacement' = WithoutASLR(~f.supportASLR)
    /\ LoadFails
    /\ UNCHANGED <<faults, memory>>

\* Open, read or allocate fails, before the header is seen or after it.
OpenCacheFaults ==
    /\ pc = "open"
    /\ Fault
    /\ \E f \in Caches, seen \in BOOLEAN :
         displacement' = WithoutASLR(seen /\ f.compressed = "lz" /\ ~f.supportASLR)
    /\ LoadFails
    /\ UNCHANGED memory

\* LdrLoadKernel opens the kernel file.
LdrLoadKernel ==
    /\ pc = "kernel"
    /\ source' = "kernel"
    /\ \/ /\ pc' = "header"
          /\ image' \in Kernels
          /\ UNCHANGED faults
       \/ /\ Fault
          /\ pc' = "failed"
          /\ UNCHANGED image
    /\ UNCHANGED <<boot, candidate, accepted, displacement, next, readLength,
                   segments, adjusted, entry, memory>>

-----------------------------------------------------------------------------
(* MachLoadMachO.                                                          *)

\* The headers are read; a file that is not position independent ends ASLR.
MachHeader ==
    /\ pc = "header"
    /\ displacement' = WithoutASLR(~image.pie)
    /\ adjusted' = Unadjusted
    /\ next' = 1
    /\ readLength' = CommandPages
    /\ pc' = "command"
    /\ UNCHANGED <<boot, candidate, accepted, source, image, segments, entry,
                   faults, memory>>

\* A header cannot be read or is not a 64-bit one, or the load commands cannot. In
\* a cache that is no fault: any file can lie where a cache is looked for.
MachHeaderFaults ==
    /\ pc = "header"
    /\ Fault \/ (source = "cache" /\ UNCHANGED faults)
    /\ \E seen \in BOOLEAN : displacement' = WithoutASLR(seen /\ ~image.pie)
    /\ LoadFails
    /\ UNCHANGED memory

Command == image.commands[next]
AtCommand(kind) ==
    pc = "command" /\ next <= Len(image.commands) /\ Command.kind = kind

Advance == next' = next + 1 /\ UNCHANGED <<pc, boot, candidate, accepted, source, image>>

FileLength(c) == IF c.vsize > c.fsize THEN c.fsize ELSE c.vsize

\* Mutant: nothing is cleared.
Contents_NotCleared(c, r) ==
    [p \in 1 .. c.vsize |-> IF p <= r /\ FileLength(c) # 0 THEN "file" ELSE "old"]

\* What the pages hold after r pages were read and the others cleared. With
\* nothing to read, r is left over from an earlier read.
Contents(c, r) ==
    [p \in 1 .. c.vsize |-> IF p > r THEN "zero"
                            ELSE IF FileLength(c) # 0 THEN "file" ELSE "old"]

\* readLength after the read of a segment: nothing is read when the file has
\* none of it, and a short read is not an error.
ReadLength(c, short) == IF FileLength(c) = 0 THEN readLength ELSE FileLength(c) - short

\* A segment: the file is positioned, pages are taken at its own address, read
\* and cleared. When more was read before than the segment has pages the count
\* to clear is negative, which SetMem takes for nearly all of memory.
LoadSegment ==
    /\ AtCommand("segment")
    /\ \/ /\ Command.vsize = 0
          /\ Advance
          /\ UNCHANGED <<readLength, segments, adjusted, faults, memory>>
       \/ /\ Command.vsize # 0
          /\ KM!Allocate(Command.vsize, Command.va + displacement)
          /\ \E short \in 0 .. FileLength(Command) :
               /\ readLength' = ReadLength(Command, short)
               /\ IF short = 0 THEN UNCHANGED faults ELSE Fault
          /\ segments' = segments \cup
                {[of |-> source, command |-> Command, va |-> Command.va + displacement,
                  contents |-> Contents(Command, readLength')]}
          /\ adjusted' = IF Command.name = "__TEXT"
                           THEN [adjusted EXCEPT !.header = displacement] ELSE adjusted
          /\ IF readLength' > Command.vsize
               THEN pc' = "wild" /\ UNCHANGED <<next, boot, candidate, accepted, source, image>>
               ELSE Advance
    /\ UNCHANGED <<displacement, entry>>

\* The pages are taken: by a segment of the cache, or the segment lies outside.
NoRoom ==
    /\ AtCommand("segment")
    /\ Command.vsize # 0
    /\ ~KM!CanAllocate(Command.vsize, Command.va + displacement)
    /\ LoadFails
    /\ UNCHANGED <<displacement, faults, memory>>

\* The seek fails, the firmware refuses the pages, or the read fails after they
\* were taken; nothing gives them back.
SegmentFaults ==
    /\ AtCommand("segment")
    /\ Command.vsize # 0
    /\ Fault
    /\ LoadFails
    /\ \/ UNCHANGED memory
       \/ FileLength(Command) # 0 /\ KM!Allocate(Command.vsize, Command.va + displacement)
    /\ UNCHANGED displacement

Placed(name) == \E s \in segments : s.of = source /\ s.command.name = name

\* Local relocations, when there are some and the kernel is displaced.
Relocate ==
    /\ AtCommand("dysymtab")
    /\ IF Command.relocations = "none" \/ displacement = 0
         THEN Advance /\ UNCHANGED <<readLength, segments, adjusted, entry>>
         ELSE IF Command.relocations = "bad" \/ ~Placed("__DATA") \/ ~Placed("__LINKEDIT")
           THEN LoadFails
           ELSE /\ adjusted' = [adjusted EXCEPT !.data = displacement]
                /\ Advance
                /\ UNCHANGED <<readLength, segments, entry>>
    /\ UNCHANGED <<displacement, faults, memory>>

\* The symbols are adjusted where __LINKEDIT is. Without it they would be at
\* address 0, where symbols are written if there are any and they are displaced.
AdjustSymbols ==
    /\ AtCommand("symtab")
    /\ \/ adjusted' = [adjusted EXCEPT !.symbols = displacement] /\ Advance
       \/ /\ ~Placed("__LINKEDIT") /\ displacement # 0
          /\ pc' = "wild"
          /\ UNCHANGED <<next, boot, candidate, accepted, source, image, adjusted>>
    /\ UNCHANGED <<displacement, readLength, segments, entry, faults, memory>>

\* LC_UNIXTHREAD: the entry point, for the 64-bit flavour only.
SetEntry ==
    /\ AtCommand("thread")
    /\ IF Command.x64
         THEN /\ entry' = [of |-> source, displacement |-> displacement]
              /\ Advance
              /\ UNCHANGED <<readLength, segments, adjusted>>
         ELSE LoadFails
    /\ UNCHANGED <<displacement, faults, memory>>

MachLoaded ==
    /\ pc = "command"
    /\ next > Len(image.commands)
    /\ pc' = "loaded"
    /\ UNCHANGED <<boot, candidate, accepted, displacement, source, local, segments,
                   adjusted, entry, faults, memory>>

-----------------------------------------------------------------------------
NoEntry == [of |-> None, displacement |-> 0]

LdrInit ==
    /\ pc = "cache"
    /\ boot \in [net : BOOLEAN, configured : BOOLEAN, override : BOOLEAN,
                 altKernel : BOOLEAN]
    /\ boot.override => boot.configured
    /\ boot.net /\ boot.configured => boot.override
    /\ candidate = 0 /\ accepted = None
    /\ displacement \in Slides \cup {0}
    /\ source = "cache"
    /\ image = NoImage /\ next = 0 /\ readLength = 0
    /\ segments = {} /\ adjusted = Unadjusted /\ entry = NoEntry
    /\ faults = 0
    /\ KM!Init

LdrNext ==
    \/ AltKernel \/ TryCandidate \/ NetBoot
    \/ OpenCache \/ CorruptCache \/ OpenCacheFaults \/ LdrLoadKernel
    \/ MachHeader \/ MachHeaderFaults
    \/ LoadSegment \/ NoRoom \/ SegmentFaults
    \/ Relocate \/ AdjustSymbols \/ SetEntry \/ MachLoaded

LdrSpec == LdrInit /\ [][LdrNext]_vars

-----------------------------------------------------------------------------
Commands(kind) ==
    {c \in {image.commands[j] : j \in 1 .. Len(image.commands)} : c.kind = kind}

\* Every segment of the kernel that is about to run is in memory, at its own
\* address plus the displacement, and no segment in another's pages. One the file
\* has something of holds that, complete unless a read came back short, and then
\* zeros, nothing of what was in memory before (MachO.c:1312-1385). One the file
\* has nothing of is cleared only from where an earlier read ended: its first
\* pages may be what was there before, the others are zeros (MachO.c:1384).
SegmentsAreExact ==
    pc = "loaded" =>
      \A c \in {c \in Commands("segment") : c.vsize # 0} :
        \E s \in segments :
          /\ s.of = source /\ s.command = c /\ s.va = c.va + displacement
          /\ c.fsize # 0 =>
               \E r \in 0 .. FileLength(c) :
                 /\ s.contents = [p \in 1 .. c.vsize |-> IF p <= r THEN "file" ELSE "zero"]
                 /\ faults = 0 => r = FileLength(c)
          /\ c.fsize = 0 =>
               \E r \in 0 .. c.vsize :
                 s.contents = [p \in 1 .. c.vsize |-> IF p <= r THEN "old" ELSE "zero"]
          /\ \A t \in segments \ {s} :
               t.va + t.command.vsize <= s.va \/ s.va + c.vsize <= t.va

\* One displacement for everything: segments, the loaded header, relocated data,
\* symbols and the entry point move by LdrpASLRDisplacement, the value the boot
\* arguments pass on, and a kernel that is not position independent does not
\* move, whatever a cache that was given up had decided (MachO.c:1240,
\* LoadKernel.c:842).
SlideIsUniform ==
    pc = "loaded" =>
      /\ displacement # 0 => image.pie
      /\ \A s \in segments : s.of = source => s.va = s.command.va + displacement
      /\ entry = [of |-> source, displacement |-> displacement]
      /\ adjusted.header = displacement
      /\ adjusted.symbols = IF Commands("symtab") = {} THEN 0 ELSE displacement
      /\ adjusted.data = IF \E c \in Commands("dysymtab") : c.relocations # "none"
                         THEN displacement ELSE 0

\* Days of a common year before each month.
DaysBefore == <<0, 31, 59, 90, 120, 151, 181, 212, 243, 273, 304, 334>>

\* Leap years of the Gregorian calendar before the year y.
LeapYearsBefore(y) == (y - 1) \div 4 - (y - 1) \div 100 + (y - 1) \div 400

\* Seconds since some day before the year Epoch, the same for all times.
Seconds(t) ==
    LET leapDays == LeapYearsBefore(IF t.Month > 2 THEN t.Year + 1 ELSE t.Year)
        days == (t.Year - Epoch) * 365 + leapDays + DaysBefore[t.Month] + t.Day - 1
    IN  ((days * 24 + t.Hour) * 60 + t.Minute) * 60 + t.Second

\* A cache that nobody asked for by name is used only when it was stamped, as
\* kextcache does, exactly one second after the kernel and the extensions folder
\* were last changed, across the ends of minutes, days, months and leap years
\* (LoadKernel.c:425-475, BlAddOneSecond, BlCompareTime).
CacheIsFresh ==
    pc = "open" /\ ~boot.override =>
      \A f \in {accepted[2], accepted[3]} :
        f.kind # "missing" =>
          /\ Seconds(f.time) < Seconds(accepted[1].time)
          /\ \E g \in {accepted[2], accepted[3]} :
               /\ g.kind # "missing"
               /\ Seconds(accepted[1].time) = Seconds(g.time) + 1

\* The fall back works, whatever lies in the cache's place: without a fault, the
\* kernel itself is refused only when a cache was given up after some of its
\* segments had been placed, which keep their pages (MachO.c:1347, never freed), or
\* when the user asked for a cache.
FallBackLoads ==
    pc = "failed" /\ faults = 0 /\ ~boot.override =>
      \E s \in segments : s.of = "cache"
=============================================================================
