------------------------------- MODULE Memory -------------------------------
(***************************************************************************)
(* The loader's memory manager (Memory.c): a list of memory tags that      *)
(* remembers what was taken from the firmware, and the virtual/physical    *)
(* range that kernel allocations have grown.                               *)
(*                                                                         *)
(* Addresses and lengths are counted in pages.  A tag is a slot <<b, i>>   *)
(* of a tag pool b; the two singly linked lists are the set of free slots  *)
(* and the function from used slots to their contents, so a slot that is   *)
(* on both lists, or two tags for one buffer, can be expressed.            *)
(***************************************************************************)
EXTENDS Integers, FiniteSets

CONSTANTS PoolAddrs,     \* addresses AllocatePool may return, never NULL
          TagsPerPool,   \* usable tags of one tag pool (its first one is the header)
          Window,        \* pages below 1GB: what LdrStaticVirtualToPhysical keeps
          KernelBase,    \* first virtual page of the kernel's 1GB window
          MaxPages       \* largest number of pages a caller asks for

NULL == 0
MinusOne == KernelBase + 2 * Window      \* (UINT64)(-1), above every address

ASSUME PoolAssumption == NULL \notin PoolAddrs
ASSUME SizeAssumption == /\ Window \in Nat \ {0}
                         /\ TagsPerPool \in Nat \ {0}
                         /\ MaxPages \in Nat \ {0}
\* The kernel's window starts at a multiple of 1GB (0xffffff8000000000), so the
\* mask of StdAfx.h removes exactly KernelBase.
ASSUME WindowAssumption ==
    /\ KernelBase \in Nat \ {0}
    /\ \A o \in 0 .. Window : (KernelBase + o) % Window = IF o = Window THEN 0 ELSE o

VARIABLES
    bootServices,   \* EfiBootServices # NULL
    pools,          \* external: pool buffers the firmware has handed out
    pages,          \* external: first page -> page count the firmware has handed out
    tagPools,       \* MmpAllocatedMemoryTagPoolHead
    freeTags,       \* MmpNextFreeMemoryTag
    tags,           \* MmpAllocatedMemoryTagHead
    MmpKernelVirtualBegin, MmpKernelVirtualEnd,
    MmpKernelPhysicalBegin, MmpKernelPhysicalEnd,
    kernelBlocks    \* history: blocks MmAllocateKernelMemory returned, still held

kernelRange == <<MmpKernelVirtualBegin, MmpKernelVirtualEnd,
                 MmpKernelPhysicalBegin, MmpKernelPhysicalEnd>>
tagVars == <<tagPools, freeTags, tags>>
memoryVars == <<bootServices, pools, pages, tagVars, kernelRange, kernelBlocks>>

Slots(b) == {b} \X (1 .. TagsPerPool)
TagSlots == PoolAddrs \X (1 .. TagsPerPool)
PhysPages == 1 .. Window - 1
Tag == [VirtualAddress : PoolAddrs \cup {NULL}, PhysicalAddress : PhysPages \cup {0},
        BufferLength : Nat]
KernelBlock == [va : KernelBase .. KernelBase + Window, pa : PhysPages, n : 1 .. MaxPages]

LdrStaticVirtualToPhysical(v) == v % Window

-----------------------------------------------------------------------------
(* The firmware's allocator, as far as Memory.c relies on it: it never     *)
(* hands out memory that is already out, and it may refuse.                *)

Occupied == UNION {p .. p + pages[p] - 1 : p \in DOMAIN pages}

FwCanAllocatePages(p, n) ==
    /\ p \in PhysPages
    /\ p + n <= Window
    /\ p .. p + n - 1 \cap Occupied = {}

FwAllocatePages(p, n) ==
    pages' = [q \in DOMAIN pages \cup {p} |-> IF q = p THEN n ELSE pages[q]]

FwFreePages(p) == pages' = [q \in DOMAIN pages \ {p} |-> pages[q]]

-----------------------------------------------------------------------------
(* The tag list.                                                           *)

MmpFindMemoryTag(va, pa) ==
    {s \in DOMAIN tags : tags[s].VirtualAddress = va /\ tags[s].PhysicalAddress = pa}

\* Take tag s from the free list for a new buffer; ps are the pool buffers the
\* firmware holds out for the caller.
UseTag(s, free, t, ps) ==
    /\ s \in free
    /\ tags' = [x \in DOMAIN tags \cup {s} |-> IF x = s THEN t ELSE tags[x]]
    /\ freeTags' = free \ {s}
    /\ pools' = ps

\* MmpGetMemoryTag and what MmpInsertMemoryTag does with its result: pop a free
\* tag; with none, carve a new tag pool; when that fails the buffer goes untagged.
MmpInsertMemoryTag(t, ps) ==
    \/ /\ freeTags # {}
       /\ \E s \in freeTags : UseTag(s, freeTags, t, ps)
       /\ UNCHANGED tagPools
    \/ /\ freeTags = {}
       /\ \E b \in PoolAddrs \ ps :
            /\ \E s \in Slots(b) : UseTag(s, Slots(b), t, ps \cup {b})
            /\ tagPools' = tagPools \cup {b}
    \/ /\ freeTags = {}
       /\ pools' = ps
       /\ UNCHANGED tagVars

\* Mutant: the tag is pushed on the free list and stays on the allocated one.
MmpRemoveMemoryTag_StaysLinked(va, pa) ==
    /\ freeTags' = freeTags \cup MmpFindMemoryTag(va, pa)
    /\ UNCHANGED <<tagPools, tags>>

\* Unlink the first tag of that key, if there is one, and push it on the free list.
MmpRemoveMemoryTag(va, pa) ==
    /\ IF MmpFindMemoryTag(va, pa) = {}
       THEN UNCHANGED <<freeTags, tags>>
       ELSE \E s \in MmpFindMemoryTag(va, pa) :
              /\ tags' = [x \in DOMAIN tags \ {s} |-> tags[x]]
              /\ freeTags' = freeTags \cup {s}
    /\ UNCHANGED tagPools

PoolTag(b) == [VirtualAddress |-> b, PhysicalAddress |-> 0, BufferLength |-> 1]
PageTag(p, n) == [VirtualAddress |-> NULL, PhysicalAddress |-> p, BufferLength |-> n]

-----------------------------------------------------------------------------
(* Operations.  A call that returns NULL or 0 because boot services are    *)
(* gone or the firmware refuses changes nothing and is not a step.         *)

MmAllocatePool(b) ==
    /\ bootServices
    /\ b \notin pools
    /\ MmpInsertMemoryTag(PoolTag(b), pools \cup {b})
    /\ UNCHANGED <<bootServices, pages, kernelRange, kernelBlocks>>

\* LocateHandleBuffer and its like return pool memory that only MmFreePool sees.
FwReturnsBuffer(b) ==
    /\ bootServices
    /\ b \notin pools
    /\ pools' = pools \cup {b}
    /\ UNCHANGED <<bootServices, pages, tagVars, kernelRange, kernelBlocks>>

MmFreePool(b) ==
    /\ b \in pools \ tagPools
    /\ pools' = IF bootServices THEN pools \ {b} ELSE pools
    /\ MmpRemoveMemoryTag(b, 0)
    /\ UNCHANGED <<bootServices, pages, kernelRange, kernelBlocks>>

\* The whole of MmAllocatePages, once the firmware has agreed to pages p .. p+n-1.
GetPages(p, n) ==
    /\ bootServices
    /\ FwCanAllocatePages(p, n)
    /\ FwAllocatePages(p, n)
    /\ MmpInsertMemoryTag(PageTag(p, n), pools)
    /\ UNCHANGED bootServices

MmAllocatePages(p, n) ==
    /\ GetPages(p, n)
    /\ UNCHANGED <<kernelRange, kernelBlocks>>

\* The body of MmFreePages: nothing happens to memory that has no tag.
ReleasePages(p) ==
    IF MmpFindMemoryTag(NULL, p) = {}
    THEN UNCHANGED <<pages, tagVars>>
    ELSE /\ IF bootServices THEN FwFreePages(p) ELSE UNCHANGED pages
         /\ MmpRemoveMemoryTag(NULL, p)

\* MmFreePages and MmFreeLoaderData, for memory that is not the kernel's.
MmFreePages(p) ==
    /\ p \in DOMAIN pages
    /\ p \notin {k.pa : k \in kernelBlocks}
    /\ ReleasePages(p)
    /\ UNCHANGED <<bootServices, pools, kernelRange, kernelBlocks>>

MmAllocateLoaderData(va, n) ==
    /\ GetPages(LdrStaticVirtualToPhysical(va), n)
    /\ UNCHANGED <<kernelRange, kernelBlocks>>

Smaller(a, b) == IF a < b THEN a ELSE b
Larger(a, b) == IF a > b THEN a ELSE b

\* Mutant: the byte length is shifted down to pages without rounding up.
MmAllocateKernelMemory_RoundsDown(n, requested) ==
    LET va == IF requested = 0 THEN MmpKernelVirtualEnd ELSE requested
        pa == LdrStaticVirtualToPhysical(va)
    IN  /\ requested = 0 => MmpKernelVirtualBegin # MinusOne
        /\ GetPages(pa, Larger(n - 1, 1))
        /\ MmpKernelVirtualBegin' = Smaller(va, MmpKernelVirtualBegin)
        /\ MmpKernelVirtualEnd' = Larger(va + n, MmpKernelVirtualEnd)
        /\ MmpKernelPhysicalBegin' = Smaller(pa, MmpKernelPhysicalBegin)
        /\ MmpKernelPhysicalEnd' = Larger(pa + n, MmpKernelPhysicalEnd)
        /\ kernelBlocks' = kernelBlocks \cup {[va |-> va, pa |-> pa, n |-> n]}

\* requested is the caller's *virtualAddress, 0 for "after the last one".
MmAllocateKernelMemory(n, requested) ==
    LET va == IF requested = 0 THEN MmpKernelVirtualEnd ELSE requested
        pa == LdrStaticVirtualToPhysical(va)
    IN  /\ requested = 0 => MmpKernelVirtualBegin # MinusOne
        /\ GetPages(pa, n)
        /\ MmpKernelVirtualBegin' = Smaller(va, MmpKernelVirtualBegin)
        /\ MmpKernelVirtualEnd' = Larger(va + n, MmpKernelVirtualEnd)
        /\ MmpKernelPhysicalBegin' = Smaller(pa, MmpKernelPhysicalBegin)
        /\ MmpKernelPhysicalEnd' = Larger(pa + n, MmpKernelPhysicalEnd)
        /\ kernelBlocks' = kernelBlocks \cup {[va |-> va, pa |-> pa, n |-> n]}

\* Mutant: the test that the block is the last one is missing.
MmFreeKernelMemory_AnyBlock(k) ==
    /\ k \in kernelBlocks
    /\ \E s \in MmpFindMemoryTag(NULL, k.pa) :
          /\ MmpKernelPhysicalEnd' = MmpKernelPhysicalEnd - tags[s].BufferLength
          /\ MmpKernelVirtualEnd' = MmpKernelVirtualEnd - tags[s].BufferLength
    /\ ReleasePages(k.pa)
    /\ kernelBlocks' = kernelBlocks \ {k}
    /\ UNCHANGED <<bootServices, pools, MmpKernelVirtualBegin, MmpKernelPhysicalBegin>>

\* Only the block at the end of the range is given back: its tag's length is
\* taken off both ends.  Any other block stays allocated, and stays the kernel's.
MmFreeKernelMemory(k) ==
    LET found == MmpFindMemoryTag(NULL, k.pa)
    IN  /\ k \in kernelBlocks
        /\ \E s \in found :
             LET len == tags[s].BufferLength
             IN  /\ ~ (/\ k.va + len # MmpKernelVirtualEnd
                       /\ k.pa + len # MmpKernelPhysicalEnd)
                 /\ MmpKernelPhysicalEnd' = MmpKernelPhysicalEnd - len
                 /\ MmpKernelVirtualEnd' = MmpKernelVirtualEnd - len
        /\ ReleasePages(k.pa)
        /\ kernelBlocks' = kernelBlocks \ {k}
        /\ UNCHANGED <<bootServices, pools, MmpKernelVirtualBegin, MmpKernelPhysicalBegin>>

\* BlFinalizeBootArgs and HbpContinueResumeFromHibernate clear EfiBootServices.
ExitBootServices ==
    /\ bootServices
    /\ bootServices' = FALSE
    /\ UNCHANGED <<pools, pages, tagVars, kernelRange, kernelBlocks>>

-----------------------------------------------------------------------------
MemoryInit ==
    /\ bootServices = TRUE
    /\ pools = {}
    /\ pages = [p \in {} |-> 0]
    /\ tagPools = {}
    /\ freeTags = {}
    /\ tags = [s \in {} |-> PoolTag(NULL)]
    /\ MmpKernelVirtualBegin = MinusOne
    /\ MmpKernelVirtualEnd = 0
    /\ MmpKernelPhysicalBegin = MinusOne
    /\ MmpKernelPhysicalEnd = 0
    /\ kernelBlocks = {}

MemoryNext ==
    \/ \E b \in PoolAddrs : MmAllocatePool(b) \/ FwReturnsBuffer(b) \/ MmFreePool(b)
    \/ \E p \in PhysPages : MmFreePages(p)
    \/ \E p \in PhysPages, n \in 1 .. MaxPages :
          \/ MmAllocatePages(p, n)
          \/ MmAllocateLoaderData(KernelBase + p, n)
          \/ MmAllocateKernelMemory(n, KernelBase + p)
    \/ \E n \in 1 .. MaxPages : MmAllocateKernelMemory(n, 0)
    \/ \E k \in kernelBlocks : MmFreeKernelMemory(k)
    \/ ExitBootServices

MemorySpec == MemoryInit /\ [][MemoryNext]_memoryVars

-----------------------------------------------------------------------------
(* Type invariant of the memory manager's globals and of the firmware's books. *)
MemoryTypes ==
    /\ bootServices \in BOOLEAN
    /\ pools \subseteq PoolAddrs
    /\ DOMAIN pages \subseteq PhysPages
    /\ pages \in [DOMAIN pages -> 1 .. MaxPages]
    /\ tagPools \subseteq PoolAddrs
    /\ freeTags \subseteq TagSlots
    /\ DOMAIN tags \subseteq TagSlots
    /\ tags \in [DOMAIN tags -> Tag]
    /\ {MmpKernelVirtualBegin, MmpKernelVirtualEnd,
        MmpKernelPhysicalBegin, MmpKernelPhysicalEnd} \subseteq Nat
    /\ kernelBlocks \subseteq KernelBlock

\* The slots of the tag pools are exactly the free tags and the used ones.
TagConservation ==
    /\ freeTags \cap DOMAIN tags = {}
    /\ freeTags \cup DOMAIN tags = UNION {Slots(b) : b \in tagPools}

LiveTag(t) ==
    \/ /\ t.VirtualAddress \in pools \ tagPools
       /\ t.PhysicalAddress = 0
    \/ /\ t.VirtualAddress = NULL
       /\ t.PhysicalAddress \in DOMAIN pages
       /\ t.BufferLength = pages[t.PhysicalAddress]

SameKey(t, u) ==
    /\ t.VirtualAddress = u.VirtualAddress
    /\ t.PhysicalAddress = u.PhysicalAddress

\* A tag describes memory that is still out, and no memory has two tags.
TagsAreLive ==
    /\ \A s \in DOMAIN tags : LiveTag(tags[s])
    /\ \A s, u \in DOMAIN tags : SameKey(tags[s], tags[u]) => s = u

(* No tag is lost and none is on two lists, although tags are pushed and   *)
(* popped by MmpRemoveMemoryTag and MmpGetMemoryTag in any order; and a    *)
(* tag describes memory that is still out with the firmware, with its      *)
(* exact length, once: so MmFreePages never returns the wrong number of    *)
(* pages, and no buffer can be freed twice through its tags.               *)
TagsAreExact == TagConservation /\ TagsAreLive

(* What MmGetKernelPhysicalRange hands to the kernel (boot args            *)
(* KernelAddress/KernelSize) covers every kernel block that is still held, *)
(* whatever order segments, drivers, ramdisk and boot args were allocated  *)
(* and given back in.                                                      *)
KernelRangeCovers ==
    \A k \in kernelBlocks :
      /\ MmpKernelPhysicalBegin <= k.pa /\ k.pa + k.n <= MmpKernelPhysicalEnd
      /\ MmpKernelVirtualBegin <= k.va /\ k.va + k.n <= MmpKernelVirtualEnd

(* The two ranges stay images of each other: the next bump allocation, at  *)
(* MmpKernelVirtualEnd, lands at MmpKernelPhysicalEnd, and the either/or   *)
(* test of MmFreeKernelMemory can never be true on one side only.          *)
KernelRangesMatch ==
    MmpKernelVirtualBegin # MinusOne =>
      /\ MmpKernelVirtualBegin = MmpKernelPhysicalBegin + KernelBase
      /\ MmpKernelVirtualEnd = MmpKernelPhysicalEnd + KernelBase
      /\ MmpKernelVirtualBegin <= MmpKernelVirtualEnd

(* A kernel block that its owner still holds is still allocated with the   *)
(* firmware, at its full length: neither a free of a neighbour nor the     *)
(* allocation of an overlapping segment takes pages from under the kernel. *)
KernelBlocksStayAllocated ==
    \A k \in kernelBlocks : k.pa \in DOMAIN pages /\ pages[k.pa] = k.n

(* What the kernel is told of its memory is true: the range covers all of  *)
(* it, is the same seen from both sides, and none of it was given back.    *)
KernelBlocksAreSafe ==
    KernelRangeCovers /\ KernelRangesMatch /\ KernelBlocksStayAllocated

(* The tags, the firmware's books and the two ranges together implement    *)
(* the window the loaders are written over: kernel blocks never overlap    *)
(* each other, one without an address follows the last one, and freeing    *)
(* moves the end of the range back to exactly where the block began        *)
(* (MmAllocateKernelMemory, MmFreeKernelMemory).                           *)
KM == INSTANCE KernelMemory WITH
          blocks <- kernelBlocks, begin <- MmpKernelVirtualBegin, end <- MmpKernelVirtualEnd
KernelMemorySpec == KM!Spec
=============================================================================
