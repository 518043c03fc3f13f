----------------------------- MODULE BootProofs -----------------------------
(***************************************************************************)
(* Proofs about what the loader keeps while it runs: its memory (Memory)   *)
(* and its decisions (BootModes). Memory's invariants hold for every set   *)
(* of pool addresses, every size of tag pool and every size of the 1GB     *)
(* window.                                                                 *)
(***************************************************************************)
EXTENDS Memory, BootModes, TLAPS

\* A leaf is Zenon's unless it names the SMT solver, which is for arithmetic.
USE ZenonT(40), SMTT(15), Z3T(15)

\* The firmware never has one page out twice.
PagesDisjoint ==
    \A p, q \in DOMAIN pages : p # q => p + pages[p] <= q \/ q + pages[q] <= p

\* What the tag list alone guarantees.
TagInv ==
    /\ tagPools \subseteq pools
    /\ TagConservation
    /\ TagsAreLive

\* What the kernel range alone guarantees: nothing has been allocated yet, or
\* the range lies in the window and every block's addresses differ by KernelBase.
KernelInv ==
    /\ MmpKernelVirtualBegin = MinusOne =>
         /\ MmpKernelPhysicalBegin = MinusOne
         /\ MmpKernelVirtualEnd = 0
         /\ MmpKernelPhysicalEnd = 0
         /\ kernelBlocks = {}
    /\ MmpKernelVirtualBegin # MinusOne =>
         /\ KernelBase <= MmpKernelVirtualBegin
         /\ MmpKernelVirtualEnd <= KernelBase + Window
    /\ \A k \in kernelBlocks : k.va = k.pa + KernelBase
    /\ KernelRangesMatch
    /\ KernelRangeCovers
    /\ KernelBlocksStayAllocated

MemoryInv == MemoryTypes /\ TagInv /\ PagesDisjoint /\ KernelInv

-----------------------------------------------------------------------------
(* The mask of StdAfx.h inverts the addition of KernelBase, inside the     *)
(* window; at its very end it wraps to page 0, which is never allocated.   *)
LEMMA MaskInverts ==
    ASSUME NEW v \in Nat, KernelBase <= v, v <= KernelBase + Window,
           LdrStaticVirtualToPhysical(v) \in PhysPages
    PROVE  v = LdrStaticVirtualToPhysical(v) + KernelBase
<1> DEFINE o == v - KernelBase
<1>1. o \in 0 .. Window /\ v = KernelBase + o
  BY SizeAssumption, WindowAssumption, SMTT(20)
<1>2. (KernelBase + o) % Window = IF o = Window THEN 0 ELSE o
  BY <1>1, WindowAssumption
<1> QED
  BY <1>1, <1>2, SizeAssumption, WindowAssumption, SMTT(20)
     DEF LdrStaticVirtualToPhysical, PhysPages

(* Slots of different tag pools are different.                             *)
LEMMA SlotsDisjoint ==
    ASSUME NEW b, NEW c, NEW s \in Slots(b), s \in Slots(c)
    PROVE  b = c
BY DEF Slots

\* The slots of a block are slots of the tag array.
LEMMA SlotsFacts ==
    ASSUME NEW b \in PoolAddrs
    PROVE  Slots(b) \subseteq TagSlots
BY DEF Slots, TagSlots

-----------------------------------------------------------------------------
(* The tag list.                                                           *)

TagTypes ==
    /\ pools \subseteq PoolAddrs
    /\ tagPools \subseteq PoolAddrs
    /\ freeTags \subseteq TagSlots
    /\ DOMAIN tags \subseteq TagSlots
    /\ tags \in [DOMAIN tags -> Tag]

(* MmpInsertMemoryTag keeps the tag list well formed when the new tag      *)
(* describes memory that is out and has no tag yet, and the firmware has   *)
(* taken nothing back.                                                     *)
LEMMA InsertTag ==
    ASSUME TagTypes, TagInv,
           NEW t \in Tag, NEW ps \in SUBSET PoolAddrs, pools \subseteq ps,
           MmpInsertMemoryTag(t, ps),
           \A s \in DOMAIN tags : ~ SameKey(tags[s], t),
           \/ t.VirtualAddress \in ps \ tagPools /\ t.PhysicalAddress = 0
           \/ /\ t.VirtualAddress = NULL
              /\ t.PhysicalAddress \in DOMAIN pages'
              /\ t.BufferLength = pages'[t.PhysicalAddress],
           \A p \in DOMAIN pages : p \in DOMAIN pages' /\ pages'[p] = pages[p]
    PROVE  TagTypes' /\ TagInv'
<1>1. CASE /\ freeTags = {}
           /\ pools' = ps
           /\ UNCHANGED tagVars
  <2>1. TagTypes'
    BY <1>1 DEF TagTypes, tagVars
  <2>2. \A s \in DOMAIN tags' : LiveTag(tags[s])'
    BY <1>1 DEF TagInv, TagsAreLive, LiveTag, tagVars
  <2> QED
    BY <1>1, <2>1, <2>2 DEF TagInv, TagsAreLive, TagConservation, SameKey, tagVars
<1>2. ASSUME NEW s, NEW free \in SUBSET TagSlots, NEW qs \in SUBSET PoolAddrs,
             UseTag(s, free, t, qs), ps \subseteq qs,
             free \cap DOMAIN tags = {},
             tagPools' \subseteq qs, tagPools \subseteq tagPools',
             tagPools' \cap ps \subseteq tagPools,
             free \cup DOMAIN tags = UNION {Slots(b) : b \in tagPools'}
      PROVE  TagTypes' /\ TagInv'
  <2>1. /\ DOMAIN tags' = DOMAIN tags \cup {s}
        /\ tags'[s] = t
        /\ \A x \in DOMAIN tags : tags'[x] = tags[x]
        /\ s \in free /\ s \notin DOMAIN tags
    BY <1>2 DEF UseTag
  <2>2. TagTypes'
    <3>1. tags' \in [DOMAIN tags' -> Tag]
      BY <1>2, <2>1 DEF TagTypes, UseTag
    <3> QED
      BY <1>2, <2>1, <3>1 DEF TagTypes, UseTag
  <2>3. TagConservation'
    BY <1>2, <2>1 DEF TagConservation, UseTag
  <2>4. ASSUME NEW x \in DOMAIN tags
        PROVE  LiveTag(tags[x])'
    <3>1. LiveTag(tags[x])
      BY DEF TagInv, TagsAreLive
    <3>2. pools' = qs
      BY <1>2 DEF UseTag
    <3> QED
      BY <1>2, <2>1, <3>1, <3>2 DEF LiveTag, TagInv
  <2>5. LiveTag(t)'
    BY <1>2 DEF LiveTag, UseTag
  <2>6. \A x, y \in DOMAIN tags' : SameKey(tags'[x], tags'[y]) => x = y
    BY <2>1, SMTT(20) DEF TagInv, TagsAreLive, SameKey
  <2>7. TagsAreLive'
    BY <2>1, <2>4, <2>5, <2>6 DEF TagsAreLive, SameKey, LiveTag
  <2> QED
    BY <1>2, <2>2, <2>3, <2>7 DEF TagInv, UseTag
<1>3. CASE /\ freeTags # {}
           /\ \E s \in freeTags : UseTag(s, freeTags, t, ps)
           /\ UNCHANGED tagPools
  <2>1. PICK s \in freeTags : UseTag(s, freeTags, t, ps)
    BY <1>3
  <2>2. /\ freeTags \in SUBSET TagSlots
        /\ freeTags \cap DOMAIN tags = {}
        /\ tagPools' = tagPools /\ tagPools \subseteq ps
        /\ freeTags \cup DOMAIN tags = UNION {Slots(b) : b \in tagPools'}
    BY <1>3 DEF TagTypes, TagInv, TagConservation
  <2> QED
    BY <1>2, <2>1, <2>2
<1>4. CASE /\ freeTags = {}
           /\ \E b \in PoolAddrs \ ps :
                /\ \E s \in Slots(b) : UseTag(s, Slots(b), t, ps \cup {b})
                /\ tagPools' = tagPools \cup {b}
  <2>1. PICK b \in PoolAddrs \ ps :
                /\ \E s \in Slots(b) : UseTag(s, Slots(b), t, ps \cup {b})
                /\ tagPools' = tagPools \cup {b}
    BY <1>4
  <2>2. PICK s \in Slots(b) : UseTag(s, Slots(b), t, ps \cup {b})
    BY <2>1
  <2>3. Slots(b) \in SUBSET TagSlots
    BY SlotsFacts
  <2>4. DOMAIN tags = UNION {Slots(c) : c \in tagPools}
    BY <1>4 DEF TagInv, TagConservation
  <2>5. Slots(b) \cap DOMAIN tags = {}
    BY <2>1, <2>4, SlotsDisjoint DEF TagInv
  <2>6. Slots(b) \cup DOMAIN tags = UNION {Slots(c) : c \in tagPools'}
    BY <2>1, <2>4
  <2>7. /\ ps \cup {b} \in SUBSET PoolAddrs
        /\ tagPools' \subseteq ps \cup {b}
        /\ tagPools' \cap ps \subseteq tagPools
    BY <2>1 DEF TagInv
  <2> QED
    BY <1>2, <2>1, <2>2, <2>3, <2>5, <2>6, <2>7
<1> QED
  BY <1>1, <1>3, <1>4 DEF MmpInsertMemoryTag

(* MmpRemoveMemoryTag keeps the tag list well formed when the firmware     *)
(* takes back at most the memory of the tag that is removed.               *)
LEMMA RemoveTag ==
    ASSUME TagTypes, TagInv, NEW va, NEW pa,
           MmpRemoveMemoryTag(va, pa),
           pools' \subseteq pools, tagPools \subseteq pools',
           \A s \in DOMAIN tags \ MmpFindMemoryTag(va, pa) :
              \A t \in {tags[s]} : LiveTag(t)'
    PROVE  TagTypes' /\ TagInv'
<1>1. tagPools' = tagPools
  BY DEF MmpRemoveMemoryTag
<1>2. CASE MmpFindMemoryTag(va, pa) = {}
  <2>1. UNCHANGED <<freeTags, tags>>
    BY <1>2 DEF MmpRemoveMemoryTag
  <2>2. TagsAreLive'
    BY <1>1, <1>2, <2>1 DEF TagInv, TagsAreLive, LiveTag, SameKey
  <2> QED
    BY <1>1, <2>1, <2>2 DEF TagTypes, TagInv, TagConservation
<1>3. CASE MmpFindMemoryTag(va, pa) # {}
  <2>1. PICK s \in MmpFindMemoryTag(va, pa) :
              /\ tags' = [x \in DOMAIN tags \ {s} |-> tags[x]]
              /\ freeTags' = freeTags \cup {s}
    BY <1>3 DEF MmpRemoveMemoryTag
  <2>2. /\ s \in DOMAIN tags
        /\ DOMAIN tags' = DOMAIN tags \ {s}
        /\ \A x \in DOMAIN tags' : tags'[x] = tags[x]
    BY <2>1 DEF MmpFindMemoryTag
  <2>3. \A x \in DOMAIN tags' : x \notin MmpFindMemoryTag(va, pa)
    BY <2>1, <2>2 DEF MmpFindMemoryTag, TagInv, TagsAreLive, SameKey
  <2>4. TagTypes'
    <3>1. tags' \in [DOMAIN tags' -> Tag]
      BY <2>1, <2>2 DEF TagTypes
    <3> QED
      BY <1>1, <2>1, <2>2, <3>1 DEF TagTypes
  <2>5. TagConservation'
    BY <1>1, <2>1, <2>2 DEF TagInv, TagConservation
  <2>6. \A x \in DOMAIN tags' : LiveTag(tags[x])'
    BY <2>2, <2>3 DEF LiveTag
  <2>7. \A x, y \in DOMAIN tags' : SameKey(tags'[x], tags'[y]) => x = y
    BY <2>2 DEF TagInv, TagsAreLive, SameKey
  <2> QED
    BY <1>1, <2>2, <2>4, <2>5, <2>6, <2>7 DEF TagInv, TagsAreLive, SameKey
<1> QED
  BY <1>2, <1>3

-----------------------------------------------------------------------------
(* Pages.                                                                  *)

PageTypes ==
    /\ DOMAIN pages \subseteq PhysPages
    /\ pages \in [DOMAIN pages -> 1 .. MaxPages]

(* A successful MmAllocatePages adds one block that overlaps no other, and *)
(* its tag.                                                                *)
LEMMA GetPagesStep ==
    ASSUME TagTypes, TagInv, PageTypes, PagesDisjoint,
           NEW p, NEW n \in 1 .. MaxPages, GetPages(p, n)
    PROVE  /\ TagTypes' /\ TagInv' /\ PageTypes' /\ PagesDisjoint'
           /\ p \in PhysPages /\ p + n <= Window /\ p \notin DOMAIN pages
           /\ DOMAIN pages' = DOMAIN pages \cup {p} /\ pages'[p] = n
           /\ \A q \in DOMAIN pages : pages'[q] = pages[q]
           /\ bootServices' = bootServices
<1>1. /\ p \in PhysPages /\ p + n <= Window
      /\ \A q \in DOMAIN pages : (p .. p + n - 1) \cap (q .. q + pages[q] - 1) = {}
  BY DEF GetPages, FwCanAllocatePages, Occupied
<1>2. /\ \A q \in DOMAIN pages : q \in Nat /\ pages[q] \in 1 .. MaxPages
      /\ p \in Nat /\ n \in Nat /\ n >= 1
  BY <1>1, SizeAssumption, SMTT(20) DEF PageTypes, PhysPages
<1>3. ASSUME NEW q \in DOMAIN pages
      PROVE  p + n <= q \/ q + pages[q] <= p
  <2>1. CASE p <= q
    <3>1. q \in q .. q + pages[q] - 1
      BY <1>2, SizeAssumption, SMTT(20)
    <3>2. q \notin p .. p + n - 1
      BY <1>1, <3>1
    <3> QED
      BY <1>2, <2>1, <3>2, SMTT(20)
  <2>2. CASE q < p
    <3>1. p \in p .. p + n - 1
      BY <1>2, SMTT(20)
    <3>2. p \notin q .. q + pages[q] - 1
      BY <1>1, <3>1
    <3> QED
      BY <1>2, <2>2, <3>2, SizeAssumption, SMTT(20)
  <2> QED
    BY <1>2, <2>1, <2>2, SMTT(20)
<1>4. p \notin DOMAIN pages
  BY <1>2, <1>3, SizeAssumption, SMTT(20)
<1>5. /\ DOMAIN pages' = DOMAIN pages \cup {p}
      /\ pages'[p] = n
      /\ \A q \in DOMAIN pages : pages'[q] = pages[q]
  BY <1>4 DEF GetPages, FwAllocatePages
<1>6. PageTypes'
  BY <1>1, <1>5 DEF GetPages, FwAllocatePages, PageTypes
<1>7. PagesDisjoint'
  BY <1>3, <1>5, SMTT(20) DEF PagesDisjoint
<1>8. TagTypes' /\ TagInv'
  <2> DEFINE t == PageTag(p, n)
  <2>1. /\ t \in Tag
        /\ t.VirtualAddress = NULL /\ t.PhysicalAddress = p /\ t.BufferLength = n
    BY <1>1, <1>2 DEF PageTag, Tag
  <2>2. ASSUME NEW s \in DOMAIN tags, SameKey(tags[s], t)
        PROVE  FALSE
    <3>1. LiveTag(tags[s])
      BY DEF TagInv, TagsAreLive
    <3>2. tags[s].VirtualAddress = NULL /\ tags[s].PhysicalAddress = p
      BY <2>1, <2>2 DEF SameKey
    <3> QED
      BY <1>4, <3>1, <3>2, PoolAssumption DEF LiveTag, TagTypes
  <2>3. MmpInsertMemoryTag(t, pools) /\ pools \in SUBSET PoolAddrs
    BY DEF GetPages, TagTypes
  <2> HIDE DEF t
  <2> QED
    BY <1>5, <2>1, <2>2, <2>3, InsertTag
<1> QED
  BY <1>1, <1>4, <1>5, <1>6, <1>7, <1>8 DEF GetPages

(* The body of MmFreePages takes back at most the block it is given.       *)
LEMMA ReleasePagesStep ==
    ASSUME TagTypes, TagInv, PageTypes, PagesDisjoint,
           NEW p \in DOMAIN pages, ReleasePages(p), pools' = pools
    PROVE  /\ TagTypes' /\ TagInv' /\ PageTypes' /\ PagesDisjoint'
           /\ DOMAIN pages' \subseteq DOMAIN pages
           /\ \A q \in DOMAIN pages \ {p} : q \in DOMAIN pages' /\ pages'[q] = pages[q]
<1>1. CASE MmpFindMemoryTag(NULL, p) = {}
  <2>1. UNCHANGED <<pages, tagPools, freeTags, tags>>
    BY <1>1 DEF ReleasePages, tagVars
  <2> QED
    BY <2>1 DEF TagTypes, TagInv, TagConservation, TagsAreLive, LiveTag, SameKey,
                PageTypes, PagesDisjoint
<1>2. CASE MmpFindMemoryTag(NULL, p) # {}
  <2>1. /\ MmpRemoveMemoryTag(NULL, p)
        /\ FwFreePages(p) \/ UNCHANGED pages
    BY <1>2 DEF ReleasePages
  <2>2. /\ DOMAIN pages' \subseteq DOMAIN pages
        /\ \A q \in DOMAIN pages \ {p} : q \in DOMAIN pages' /\ pages'[q] = pages[q]
        /\ \A q \in DOMAIN pages' : pages'[q] = pages[q]
        /\ pages' \in [DOMAIN pages' -> 1 .. MaxPages]
    BY <2>1 DEF FwFreePages, PageTypes
  <2>3. PageTypes' /\ PagesDisjoint'
    BY <2>2 DEF PageTypes, PagesDisjoint
  <2>4. tagPools' = tagPools
    BY <2>1 DEF MmpRemoveMemoryTag
  <2>5. ASSUME NEW s \in DOMAIN tags \ MmpFindMemoryTag(NULL, p), NEW t \in {tags[s]}
        PROVE  LiveTag(t)'
    <3>1. LiveTag(t) /\ ~ (t.VirtualAddress = NULL /\ t.PhysicalAddress = p)
      BY DEF TagInv, TagsAreLive, MmpFindMemoryTag
    <3> QED
      BY <2>2, <2>4, <3>1 DEF LiveTag
  <2>6. pools' \subseteq pools /\ tagPools \subseteq pools'
    BY DEF TagInv
  <2> QED
    BY <2>1, <2>2, <2>3, <2>4, <2>5, <2>6, RemoveTag
<1> QED
  BY <1>1, <1>2

-----------------------------------------------------------------------------
(* The kernel range.                                                       *)

KernelTypes ==
    /\ MmpKernelVirtualBegin \in Nat /\ MmpKernelVirtualEnd \in Nat
    /\ MmpKernelPhysicalBegin \in Nat /\ MmpKernelPhysicalEnd \in Nat
    /\ kernelBlocks \subseteq KernelBlock

(* A step that leaves the range and its blocks' pages alone preserves it.  *)
LEMMA KernelFrame ==
    ASSUME KernelTypes, KernelInv, UNCHANGED <<kernelRange, kernelBlocks>>,
           \A k \in kernelBlocks : k.pa \in DOMAIN pages' /\ pages'[k.pa] = pages[k.pa]
    PROVE  KernelTypes' /\ KernelInv'
BY DEF KernelTypes, KernelInv, KernelRangesMatch, KernelRangeCovers,
       KernelBlocksStayAllocated, kernelRange

(* MmAllocateKernelMemory: the block it adds lies inside the grown range.  *)
LEMMA AllocateKernelStep ==
    ASSUME TagTypes, TagInv, PageTypes, PagesDisjoint, KernelTypes, KernelInv,
           NEW n \in 1 .. MaxPages, NEW requested \in Nat,
           requested # 0 => KernelBase <= requested /\ requested <= KernelBase + Window,
           MmAllocateKernelMemory(n, requested)
    PROVE  KernelTypes' /\ KernelInv'
<1> DEFINE va == IF requested = 0 THEN MmpKernelVirtualEnd ELSE requested
           pa == LdrStaticVirtualToPhysical(va)
           new == [va |-> va, pa |-> pa, n |-> n]
<1>1. /\ requested = 0 => MmpKernelVirtualBegin # MinusOne
      /\ GetPages(pa, n)
      /\ MmpKernelVirtualBegin' = Smaller(va, MmpKernelVirtualBegin)
      /\ MmpKernelVirtualEnd' = Larger(va + n, MmpKernelVirtualEnd)
      /\ MmpKernelPhysicalBegin' = Smaller(pa, MmpKernelPhysicalBegin)
      /\ MmpKernelPhysicalEnd' = Larger(pa + n, MmpKernelPhysicalEnd)
      /\ kernelBlocks' = kernelBlocks \cup {new}
  BY DEF MmAllocateKernelMemory
<1>2. va \in Nat /\ KernelBase <= va /\ va <= KernelBase + Window
  BY <1>1, WindowAssumption, SizeAssumption, SMTT(20)
     DEF KernelTypes, KernelInv, KernelRangesMatch
<1> HIDE DEF va
<1>3. /\ pa \in PhysPages /\ pa + n <= Window /\ pa \notin DOMAIN pages
      /\ DOMAIN pages' = DOMAIN pages \cup {pa} /\ pages'[pa] = n
      /\ \A q \in DOMAIN pages : pages'[q] = pages[q]
  BY <1>1, GetPagesStep
<1>4. va = pa + KernelBase
  BY <1>2, <1>3, MaskInverts
<1> HIDE DEF pa
<1>5. /\ n \in Nat /\ n >= 1 /\ pa \in Nat /\ pa >= 1 /\ pa < Window
      /\ KernelBase \in Nat /\ Window \in Nat /\ KernelBase > 0
  BY <1>3, WindowAssumption, SizeAssumption, SMTT(20) DEF PhysPages
<1>6. new \in KernelBlock
  BY <1>2, <1>3, <1>5, SMTT(20) DEF KernelBlock
<1>7. KernelTypes'
  BY <1>1, <1>2, <1>5, <1>6, SMTT(20) DEF KernelTypes, Smaller, Larger
<1>8. ASSUME NEW k \in kernelBlocks
      PROVE  /\ k.va = k.pa + KernelBase /\ k.va \in Nat /\ k.pa \in Nat /\ k.n \in Nat
             /\ MmpKernelVirtualBegin <= k.va /\ k.va + k.n <= MmpKernelVirtualEnd
             /\ MmpKernelPhysicalBegin <= k.pa /\ k.pa + k.n <= MmpKernelPhysicalEnd
             /\ k.pa \in DOMAIN pages /\ pages[k.pa] = k.n
  BY <1>5, SMTT(20) DEF KernelTypes, KernelInv, KernelRangeCovers, KernelBlocksStayAllocated,
              KernelBlock, PhysPages
<1>9. KernelRangeCovers'
  BY <1>1, <1>2, <1>5, <1>8, SMTT(20)
     DEF KernelRangeCovers, KernelTypes, Smaller, Larger
<1>10. KernelBlocksStayAllocated'
  BY <1>1, <1>3, <1>8, SMTT(20) DEF KernelBlocksStayAllocated
<1>11. MmpKernelVirtualBegin' # MinusOne
  BY <1>1, <1>2, <1>5, SMTT(20) DEF MinusOne, Smaller, KernelTypes
<1>12. /\ MmpKernelVirtualBegin' = MmpKernelPhysicalBegin' + KernelBase
       /\ MmpKernelVirtualEnd' = MmpKernelPhysicalEnd' + KernelBase
       /\ MmpKernelVirtualBegin' <= MmpKernelVirtualEnd'
       /\ KernelBase <= MmpKernelVirtualBegin'
       /\ MmpKernelVirtualEnd' <= KernelBase + Window
  <2>1. CASE MmpKernelVirtualBegin = MinusOne
    BY <1>1, <1>2, <1>3, <1>4, <1>5, <2>1, SMTT(20)
       DEF KernelTypes, KernelInv, MinusOne, Smaller, Larger
  <2>2. CASE MmpKernelVirtualBegin # MinusOne
    BY <1>1, <1>2, <1>3, <1>4, <1>5, <2>2, SMTT(20)
       DEF KernelTypes, KernelInv, KernelRangesMatch, Smaller, Larger
  <2> QED
    BY <2>1, <2>2
<1>13. \A k \in kernelBlocks' : k.va = k.pa + KernelBase
  BY <1>1, <1>4, <1>8, SMTT(20)
<1> QED
  BY <1>7, <1>9, <1>10, <1>11, <1>12, <1>13 DEF KernelInv, KernelRangesMatch, MinusOne

(* MmFreeKernelMemory: the tag's length is the block's, the block is the   *)
(* last one, and every other block ends before it starts.                  *)
LEMMA FreeKernelStep ==
    ASSUME TagTypes, TagInv, PageTypes, PagesDisjoint, KernelTypes, KernelInv,
           NEW k \in kernelBlocks, MmFreeKernelMemory(k)
    PROVE  KernelTypes' /\ KernelInv'
<1>1. PICK s \in MmpFindMemoryTag(NULL, k.pa) :
          /\ ~ (/\ k.va + tags[s].BufferLength # MmpKernelVirtualEnd
                /\ k.pa + tags[s].BufferLength # MmpKernelPhysicalEnd)
          /\ MmpKernelPhysicalEnd' = MmpKernelPhysicalEnd - tags[s].BufferLength
          /\ MmpKernelVirtualEnd' = MmpKernelVirtualEnd - tags[s].BufferLength
  BY DEF MmFreeKernelMemory
<1>2. /\ ReleasePages(k.pa) /\ pools' = pools
      /\ kernelBlocks' = kernelBlocks \ {k}
      /\ MmpKernelVirtualBegin' = MmpKernelVirtualBegin
      /\ MmpKernelPhysicalBegin' = MmpKernelPhysicalBegin
  BY DEF MmFreeKernelMemory
<1>3. ASSUME NEW j \in kernelBlocks
      PROVE  /\ j.va = j.pa + KernelBase
             /\ j.va \in Nat /\ j.pa \in Nat /\ j.n \in Nat /\ j.n >= 1
             /\ MmpKernelVirtualBegin <= j.va /\ j.va + j.n <= MmpKernelVirtualEnd
             /\ MmpKernelPhysicalBegin <= j.pa /\ j.pa + j.n <= MmpKernelPhysicalEnd
             /\ j.pa \in DOMAIN pages /\ pages[j.pa] = j.n
             /\ j \in KernelBlock
  BY SizeAssumption, WindowAssumption, SMTT(20)
     DEF KernelTypes, KernelInv, KernelRangeCovers, KernelBlocksStayAllocated,
         KernelBlock, PhysPages
<1>4. tags[s].BufferLength = k.n
  <2>1. /\ s \in DOMAIN tags
        /\ tags[s].VirtualAddress = NULL /\ tags[s].PhysicalAddress = k.pa
    BY DEF MmpFindMemoryTag
  <2>2. LiveTag(tags[s])
    BY <2>1 DEF TagInv, TagsAreLive
  <2> QED
    BY <1>3, <2>1, <2>2, PoolAssumption DEF LiveTag, TagTypes
<1>5. /\ MmpKernelVirtualBegin # MinusOne
      /\ MmpKernelVirtualBegin = MmpKernelPhysicalBegin + KernelBase
      /\ MmpKernelVirtualEnd = MmpKernelPhysicalEnd + KernelBase
      /\ KernelBase <= MmpKernelVirtualBegin
      /\ MmpKernelVirtualEnd <= KernelBase + Window
  BY DEF KernelInv, KernelRangesMatch
<1>6. k.va + k.n = MmpKernelVirtualEnd /\ k.pa + k.n = MmpKernelPhysicalEnd
  BY <1>1, <1>3, <1>4, <1>5, WindowAssumption, SMTT(20) DEF KernelTypes
<1>7. /\ MmpKernelVirtualEnd' = k.va /\ MmpKernelPhysicalEnd' = k.pa
  BY <1>1, <1>3, <1>4, <1>6, SMTT(20) DEF KernelTypes
<1>8. ASSUME NEW j \in kernelBlocks, j # k
      PROVE  j.pa # k.pa /\ j.pa + j.n <= k.pa /\ j.va + j.n <= k.va
  <2>1. j.pa # k.pa
    <3>1. j.pa = k.pa => j.va = k.va /\ j.n = k.n
      BY <1>3
    <3> QED
      BY <1>3, <1>8, <3>1, SMTT(20) DEF KernelBlock
  <2>2. j.pa + j.n <= k.pa \/ k.pa + k.n <= j.pa
    BY <1>3, <2>1 DEF PagesDisjoint
  <2> QED
    BY <1>3, <1>6, <2>1, <2>2, WindowAssumption, SMTT(20) DEF KernelTypes
<1>9. /\ \A q \in DOMAIN pages \ {k.pa} : q \in DOMAIN pages' /\ pages'[q] = pages[q]
  BY <1>2, <1>3, ReleasePagesStep
<1>10. KernelTypes'
  BY <1>2, <1>3, <1>7 DEF KernelTypes
<1>11. KernelRangeCovers'
  BY <1>2, <1>3, <1>7, <1>8 DEF KernelRangeCovers
<1>12. KernelBlocksStayAllocated'
  BY <1>2, <1>3, <1>8, <1>9 DEF KernelBlocksStayAllocated
<1>13. KernelRangesMatch'
  BY <1>2, <1>3, <1>5, <1>7 DEF KernelRangesMatch, MinusOne
<1> QED
  BY <1>2, <1>3, <1>5, <1>6, <1>7, <1>10, <1>11, <1>12, <1>13, WindowAssumption, SizeAssumption, SMTT(20)
     DEF KernelInv, KernelTypes, MinusOne

-----------------------------------------------------------------------------
(* The inductive invariant.                                                *)

\* The types of the three parts are the types of the whole.
LEMMA TypeParts ==
    MemoryTypes <=> bootServices \in BOOLEAN /\ TagTypes /\ PageTypes /\ KernelTypes
BY DEF MemoryTypes, TagTypes, PageTypes, KernelTypes

\* Nothing is allocated at first.
LEMMA InitMemoryInv == MemoryInit => MemoryInv
<1> SUFFICES ASSUME MemoryInit PROVE MemoryInv
  OBVIOUS
<1>1. MinusOne \in Nat
  BY SizeAssumption, WindowAssumption, SMTT(20) DEF MinusOne
<1>2. MemoryTypes
  BY <1>1, SMTT(20) DEF MemoryInit, MemoryTypes
<1>3. DOMAIN tags = {} /\ DOMAIN pages = {}
  BY DEF MemoryInit
<1>4. TagInv
  BY <1>3 DEF MemoryInit, TagInv, TagConservation, TagsAreLive
<1>5. PagesDisjoint
  BY <1>3 DEF PagesDisjoint
<1>6. KernelInv
  BY DEF MemoryInit, KernelInv, KernelRangesMatch, KernelRangeCovers, KernelBlocksStayAllocated
<1> QED
  BY <1>2, <1>4, <1>5, <1>6 DEF MemoryInv

(* A call that takes or returns a pool buffer.                             *)
LEMMA PoolStep ==
    ASSUME MemoryInv, NEW b \in PoolAddrs,
           MmAllocatePool(b) \/ FwReturnsBuffer(b) \/ MmFreePool(b)
    PROVE  MemoryInv'
<1> USE DEF MemoryInv
<1>1. TagTypes /\ TagInv /\ PageTypes /\ PagesDisjoint /\ KernelTypes /\ KernelInv
  BY TypeParts
<1>2. UNCHANGED <<bootServices, pages, kernelRange, kernelBlocks>>
  BY DEF MmAllocatePool, FwReturnsBuffer, MmFreePool
<1>3. PageTypes' /\ PagesDisjoint' /\ bootServices' \in BOOLEAN
  BY <1>2 DEF PageTypes, PagesDisjoint, MemoryTypes
<1>4. KernelTypes' /\ KernelInv'
  BY <1>1, <1>2, KernelFrame DEF KernelInv, KernelBlocksStayAllocated
<1>5. CASE MmAllocatePool(b)
  <2> DEFINE t == PoolTag(b)
             ps == pools \cup {b}
  <2>1. /\ MmpInsertMemoryTag(t, ps) /\ b \notin pools
        /\ ps \in SUBSET PoolAddrs /\ pools \subseteq ps /\ b \notin tagPools
    BY <1>1, <1>5 DEF MmAllocatePool, TagTypes, TagInv
  <2>2. /\ t \in Tag /\ t.VirtualAddress = b /\ t.PhysicalAddress = 0
        /\ t.VirtualAddress \in ps \ tagPools
    BY <2>1 DEF PoolTag, Tag
  <2>3. ASSUME NEW s \in DOMAIN tags, SameKey(tags[s], t)
        PROVE  FALSE
    <3>1. LiveTag(tags[s]) /\ tags[s].VirtualAddress = b
      BY <1>1, <2>2, <2>3 DEF TagInv, TagsAreLive, SameKey
    <3> QED
      BY <2>1, <3>1, PoolAssumption DEF LiveTag
  <2> HIDE DEF t, ps
  <2>4. TagTypes' /\ TagInv'
    BY <1>1, <1>2, <2>1, <2>2, <2>3, InsertTag
  <2> QED
    BY <1>3, <1>4, <2>4, TypeParts DEF MemoryTypes, TagTypes, PageTypes, KernelTypes
<1>6. CASE FwReturnsBuffer(b)
  <2>1. UNCHANGED <<tagPools, freeTags, tags>> /\ pools' = pools \cup {b} /\ b \notin pools
    BY <1>6 DEF FwReturnsBuffer, tagVars
  <2>2. TagTypes' /\ TagInv'
    BY <1>1, <1>2, <2>1 DEF TagTypes, TagInv, TagConservation, TagsAreLive, LiveTag, SameKey
  <2> QED
    BY <1>3, <1>4, <2>2 DEF MemoryTypes, TagTypes, PageTypes, KernelTypes
<1>7. CASE MmFreePool(b)
  <2>1. /\ MmpRemoveMemoryTag(b, 0) /\ b \in pools \ tagPools
        /\ pools' \subseteq pools /\ pools \ {b} \subseteq pools'
        /\ tagPools' = tagPools
    BY <1>7 DEF MmFreePool, MmpRemoveMemoryTag
  <2>2. ASSUME NEW s \in DOMAIN tags \ MmpFindMemoryTag(b, 0), NEW t \in {tags[s]}
        PROVE  LiveTag(t)'
    <3>1. LiveTag(t) /\ ~ (t.VirtualAddress = b /\ t.PhysicalAddress = 0)
      BY <1>1 DEF TagInv, TagsAreLive, MmpFindMemoryTag
    <3> QED
      BY <1>2, <2>1, <3>1 DEF LiveTag
  <2>3. TagTypes' /\ TagInv'
    <3>1. tagPools \subseteq pools'
      BY <1>1, <2>1 DEF TagInv
    <3> QED
      BY <1>1, <2>1, <2>2, <3>1, RemoveTag
  <2> QED
    BY <1>3, <1>4, <2>3 DEF MemoryTypes, TagTypes, PageTypes, KernelTypes
<1> QED
  BY <1>5, <1>6, <1>7

\* Every call keeps the inductive invariant.
LEMMA NextMemoryInv == MemoryInv /\ [MemoryNext]_memoryVars => MemoryInv'
<1> SUFFICES ASSUME MemoryInv, [MemoryNext]_memoryVars PROVE MemoryInv'
  OBVIOUS
<1> USE DEF MemoryInv
<1>1. TagTypes /\ TagInv /\ PageTypes /\ PagesDisjoint /\ KernelTypes /\ KernelInv
  BY TypeParts
<1>2. ASSUME NEW b \in PoolAddrs,
             MmAllocatePool(b) \/ FwReturnsBuffer(b) \/ MmFreePool(b)
      PROVE  MemoryInv'
  BY <1>2, PoolStep
<1>3. ASSUME TagTypes', TagInv', PageTypes', PagesDisjoint', KernelTypes', KernelInv',
             bootServices' \in BOOLEAN
      PROVE  MemoryInv'
  BY <1>3 DEF MemoryTypes, TagTypes, PageTypes, KernelTypes
<1>4. ASSUME NEW p \in PhysPages, MmFreePages(p)
      PROVE  MemoryInv'
  <2>1. /\ p \in DOMAIN pages /\ ReleasePages(p) /\ pools' = pools
        /\ bootServices' = bootServices
        /\ UNCHANGED <<kernelRange, kernelBlocks>>
        /\ \A k \in kernelBlocks : k.pa # p
    BY <1>4 DEF MmFreePages
  <2>2. /\ TagTypes' /\ TagInv' /\ PageTypes' /\ PagesDisjoint'
        /\ \A q \in DOMAIN pages \ {p} : q \in DOMAIN pages' /\ pages'[q] = pages[q]
    BY <1>1, <2>1, ReleasePagesStep
  <2>3. KernelTypes' /\ KernelInv'
    BY <1>1, <2>1, <2>2, KernelFrame DEF KernelInv, KernelBlocksStayAllocated
  <2> QED
    BY <1>3, <2>1, <2>2, <2>3 DEF MemoryTypes
<1>5. ASSUME NEW p, NEW n \in 1 .. MaxPages, GetPages(p, n),
             UNCHANGED <<kernelRange, kernelBlocks>>
      PROVE  MemoryInv'
  <2>1. /\ TagTypes' /\ TagInv' /\ PageTypes' /\ PagesDisjoint'
        /\ DOMAIN pages' = DOMAIN pages \cup {p}
        /\ \A q \in DOMAIN pages : pages'[q] = pages[q]
        /\ bootServices' = bootServices
    BY <1>1, <1>5, GetPagesStep
  <2>2. KernelTypes' /\ KernelInv'
    BY <1>1, <1>5, <2>1, KernelFrame DEF KernelInv, KernelBlocksStayAllocated
  <2> QED
    BY <1>3, <2>1, <2>2 DEF MemoryTypes
<1>6. ASSUME NEW p \in PhysPages, NEW n \in 1 .. MaxPages,
             MmAllocatePages(p, n) \/ MmAllocateLoaderData(KernelBase + p, n)
      PROVE  MemoryInv'
  BY <1>5, <1>6 DEF MmAllocatePages, MmAllocateLoaderData
<1>7. ASSUME NEW n \in 1 .. MaxPages, NEW requested \in Nat,
             requested # 0 => KernelBase <= requested /\ requested <= KernelBase + Window,
             MmAllocateKernelMemory(n, requested)
      PROVE  MemoryInv'
  <2>1. KernelTypes' /\ KernelInv'
    BY <1>1, <1>7, AllocateKernelStep
  <2>2. PICK pa : GetPages(pa, n)
    BY <1>7 DEF MmAllocateKernelMemory
  <2>3. /\ TagTypes' /\ TagInv' /\ PageTypes' /\ PagesDisjoint'
        /\ bootServices' = bootServices
    BY <1>1, <2>2, GetPagesStep
  <2> QED
    BY <1>3, <2>1, <2>3 DEF MemoryTypes
<1>8. ASSUME NEW p \in PhysPages, NEW n \in 1 .. MaxPages,
             MmAllocateKernelMemory(n, KernelBase + p)
      PROVE  MemoryInv'
  <2>1. /\ KernelBase + p \in Nat /\ KernelBase + p # 0
        /\ KernelBase <= KernelBase + p /\ KernelBase + p <= KernelBase + Window
    BY SizeAssumption, WindowAssumption, SMTT(20) DEF PhysPages
  <2> QED
    BY <1>7, <1>8, <2>1
<1>9. ASSUME NEW k \in kernelBlocks, MmFreeKernelMemory(k)
      PROVE  MemoryInv'
  <2>1. KernelTypes' /\ KernelInv'
    BY <1>1, <1>9, FreeKernelStep
  <2>2. k.pa \in DOMAIN pages
    BY <1>1 DEF KernelInv, KernelBlocksStayAllocated
  <2>3. TagTypes' /\ TagInv' /\ PageTypes' /\ PagesDisjoint'
    BY <1>1, <1>9, <2>2, ReleasePagesStep DEF MmFreeKernelMemory
  <2> QED
    BY <1>3, <1>9, <2>1, <2>3 DEF MemoryTypes, MmFreeKernelMemory
<1>10. CASE ExitBootServices \/ UNCHANGED memoryVars
  <2>1. /\ UNCHANGED <<pools, pages, tagPools, freeTags, tags>>
        /\ UNCHANGED <<kernelRange, kernelBlocks>>
        /\ bootServices' \in BOOLEAN
    BY <1>10 DEF ExitBootServices, memoryVars, tagVars, MemoryTypes
  <2>2. TagTypes' /\ TagInv' /\ PageTypes' /\ PagesDisjoint'
    BY <1>1, <2>1 DEF TagTypes, TagInv, TagConservation, TagsAreLive, LiveTag, SameKey,
                      PageTypes, PagesDisjoint
  <2>3. KernelTypes' /\ KernelInv'
    BY <1>1, <2>1, KernelFrame DEF KernelInv, KernelBlocksStayAllocated
  <2> QED
    BY <1>3, <2>1, <2>2, <2>3
<1>11. ASSUME NEW n \in 1 .. MaxPages, MmAllocateKernelMemory(n, 0)
       PROVE  MemoryInv'
  BY <1>7, <1>11
<1> QED
  BY <1>2, <1>4, <1>6, <1>8, <1>9, <1>10, <1>11 DEF MemoryNext

(* The memory manager's globals keep their types under every sequence of   *)
(* allocations and frees.                                                  *)
THEOREM MemoryTypeOK == MemorySpec => []MemoryTypes
<1>1. MemoryInv => MemoryTypes
  BY DEF MemoryInv
<1> QED
  BY InitMemoryInv, NextMemoryInv, <1>1, PTL DEF MemorySpec

(* No tag is lost or on two lists, and every tag describes memory that is  *)
(* out with the firmware, exactly once: the list of Memory.c is an exact   *)
(* record of what can be given back, although MmpInsertMemoryTag may drop  *)
(* a tag when no tag pool can be allocated.                                *)
THEOREM TagListIsExact == MemorySpec => []TagsAreExact
<1>1. MemoryInv => TagsAreExact
  BY DEF MemoryInv, TagInv, TagsAreExact
<1> QED
  BY InitMemoryInv, NextMemoryInv, <1>1, PTL DEF MemorySpec

(* The range of MmGetKernelPhysicalRange covers every kernel block still   *)
(* held, whatever the order of MmAllocateKernelMemory and                  *)
(* MmFreeKernelMemory calls; the virtual and the physical range stay       *)
(* images of each other, so the either/or test of MmFreeKernelMemory       *)
(* decides both sides alike; and the kernel's pages stay allocated until   *)
(* it gives them back.                                                     *)
THEOREM KernelRangeIsSafe == MemorySpec => []KernelBlocksAreSafe
<1>1. MemoryInv => KernelBlocksAreSafe
  BY DEF MemoryInv, KernelInv, KernelBlocksAreSafe
<1> QED
  BY InitMemoryInv, NextMemoryInv, <1>1, PTL DEF MemorySpec

-----------------------------------------------------------------------------
(* Memory implements KernelMemory.                                         *)

(* What the firmware agrees to does not touch a kernel block: the pages of *)
(* a held block are still out.                                             *)
LEMMA NewPagesAreApart ==
    ASSUME MemoryInv, NEW p, NEW n \in 1 .. MaxPages, FwCanAllocatePages(p, n),
           NEW k \in kernelBlocks
    PROVE  p + n <= k.pa \/ k.pa + k.n <= p
<1>1. k.pa \in DOMAIN pages /\ pages[k.pa] = k.n
  BY DEF MemoryInv, KernelInv, KernelBlocksStayAllocated
<1>2. k.pa \in Nat /\ k.n \in Nat /\ k.n # 0
  BY SMTT(20) DEF MemoryInv, MemoryTypes, KernelBlock, PhysPages
<1>3. k.pa .. k.pa + k.n - 1 \subseteq Occupied
  BY <1>1 DEF Occupied
<1>4. p \in Nat /\ n \in Nat /\ n # 0
  BY SizeAssumption, SMTT(20) DEF FwCanAllocatePages, PhysPages
<1>5. \A q \in p .. p + n - 1 : q \notin k.pa .. k.pa + k.n - 1
  BY <1>3 DEF FwCanAllocatePages
<1> HIDE DEF FwCanAllocatePages
<1>6. ASSUME k.pa < p + n, p < k.pa + k.n PROVE FALSE
  <2>1. CASE p <= k.pa
    <3>1. k.pa \in p .. p + n - 1 /\ k.pa \in k.pa .. k.pa + k.n - 1
      BY <1>2, <1>4, <1>6, <2>1, SMTT(20)
    <3> QED
      BY <3>1, <1>5
  <2>2. CASE k.pa < p
    <3>1. p \in p .. p + n - 1 /\ p \in k.pa .. k.pa + k.n - 1
      BY <1>2, <1>4, <1>6, <2>2, SMTT(20)
    <3> QED
      BY <3>1, <1>5
  <2> QED
    BY <1>2, <1>4, <2>1, <2>2, SMTT(20)
<1> QED
  BY <1>2, <1>4, <1>6, SMTT(20)

(* MmAllocateKernelMemory is an allocation of KernelMemory.                *)
LEMMA AllocateImplements ==
    ASSUME MemoryInv, NEW n \in 1 .. MaxPages, NEW requested \in Nat,
           requested # 0 => KernelBase <= requested /\ requested <= KernelBase + Window,
           MmAllocateKernelMemory(n, requested)
    PROVE  KM!Next
<1> DEFINE va == IF requested = 0 THEN MmpKernelVirtualEnd ELSE requested
           pa == LdrStaticVirtualToPhysical(va)
<1>1. /\ requested = 0 => MmpKernelVirtualBegin # MinusOne
      /\ GetPages(pa, n)
      /\ MmpKernelVirtualBegin' = Smaller(va, MmpKernelVirtualBegin)
      /\ MmpKernelVirtualEnd' = Larger(va + n, MmpKernelVirtualEnd)
      /\ kernelBlocks' = kernelBlocks \cup {[va |-> va, pa |-> pa, n |-> n]}
  BY DEF MmAllocateKernelMemory
<1>2. FwCanAllocatePages(pa, n) /\ pa \in PhysPages /\ pa + n <= Window
  BY <1>1 DEF GetPages, FwCanAllocatePages
<1>3. va \in Nat /\ KernelBase <= va /\ va <= KernelBase + Window
  BY <1>1, SizeAssumption, WindowAssumption, SMTT(20)
     DEF MemoryInv, MemoryTypes, KernelInv, KernelRangesMatch
<1>4. va = pa + KernelBase
  BY <1>2, <1>3, MaskInverts
<1>5. \A k \in kernelBlocks : va + n <= k.va \/ k.va + k.n <= va
  <2> TAKE k \in kernelBlocks
  <2>1. pa + n <= k.pa \/ k.pa + k.n <= pa
    BY <1>2, NewPagesAreApart
  <2>2. k.va = k.pa + KernelBase /\ k.pa \in Nat /\ k.n \in Nat
    BY SMTT(20) DEF MemoryInv, KernelInv, MemoryTypes, KernelBlock, PhysPages
  <2>3. pa \in Nat /\ n \in Nat /\ KernelBase \in Nat
    BY <1>2, SizeAssumption, WindowAssumption, SMTT(20) DEF PhysPages
  <2> HIDE DEF va, pa
  <2> QED
    BY <1>4, <2>1, <2>2, <2>3, SMTT(20)
<1>6. va > KernelBase /\ va + n <= KernelBase + Window /\ n \in 1 .. Window
  BY <1>2, <1>4, SizeAssumption, WindowAssumption, SMTT(20) DEF PhysPages
<1>7. KM!Place(requested) = va
  BY DEF KM!Place
<1>8. KM!CanAllocate(n, requested)
  BY <1>1, <1>5, <1>6, <1>7 DEF KM!CanAllocate, KM!Fits, KM!MinusOne, MinusOne
<1>9. KM!Block(va, n) = [va |-> va, pa |-> pa, n |-> n]
  <2>1. va - KernelBase = pa
    BY <1>2, <1>4, WindowAssumption, SMTT(20) DEF PhysPages
  <2> QED
    BY <2>1 DEF KM!Block
<1>10. KM!Allocate(n, requested)
  BY <1>1, <1>7, <1>8, <1>9 DEF KM!Allocate, Smaller, Larger
<1>11. requested \in {0} \cup KernelBase .. KernelBase + Window
  BY SizeAssumption, WindowAssumption, SMTT(20)
<1> QED
  BY <1>6, <1>10, <1>11 DEF KM!Next

(* MmFreeKernelMemory gives back exactly the block at the end.             *)
LEMMA FreeImplements ==
    ASSUME MemoryInv, NEW k \in kernelBlocks, MmFreeKernelMemory(k)
    PROVE  KM!Next
<1>1. PICK s \in MmpFindMemoryTag(NULL, k.pa) :
          /\ ~ (/\ k.va + tags[s].BufferLength # MmpKernelVirtualEnd
                /\ k.pa + tags[s].BufferLength # MmpKernelPhysicalEnd)
          /\ MmpKernelVirtualEnd' = MmpKernelVirtualEnd - tags[s].BufferLength
  BY DEF MmFreeKernelMemory
<1>2. /\ kernelBlocks' = kernelBlocks \ {k}
      /\ MmpKernelVirtualBegin' = MmpKernelVirtualBegin
  BY DEF MmFreeKernelMemory
<1>3. k.va \in Nat /\ k.pa \in PhysPages /\ k.n \in Nat /\ k.va = k.pa + KernelBase
  BY WindowAssumption, SizeAssumption, SMTT(20)
     DEF MemoryInv, MemoryTypes, KernelInv, KernelBlock
<1>4. tags[s].BufferLength = k.n
  <2>1. LiveTag(tags[s]) /\ tags[s].PhysicalAddress = k.pa
    BY DEF MemoryInv, TagInv, TagsAreLive, MmpFindMemoryTag
  <2>2. k.pa # 0
    BY <1>3, SMTT(20) DEF PhysPages
  <2> QED
    BY <2>1, <2>2 DEF LiveTag, MemoryInv, KernelInv, KernelBlocksStayAllocated
<1>5. /\ MmpKernelVirtualEnd = MmpKernelPhysicalEnd + KernelBase
      /\ MmpKernelVirtualEnd \in Nat /\ MmpKernelPhysicalEnd \in Nat
  BY DEF MemoryInv, MemoryTypes, KernelInv, KernelRangesMatch
<1>6. k.va + k.n = MmpKernelVirtualEnd
  BY <1>1, <1>3, <1>4, <1>5, WindowAssumption, SMTT(20) DEF PhysPages
<1>7. MmpKernelVirtualEnd' = k.va
  BY <1>1, <1>3, <1>4, <1>6, SMTT(20)
<1> QED
  BY <1>2, <1>6, <1>7 DEF KM!Next, KM!Free

(* The memory manager implements the window its callers rely on, for every *)
(* window, every size of tag pool and every sequence of calls, with tags   *)
(* that could not be made: kernel blocks are disjoint, an allocation       *)
(* without an address follows the last block, and only the last block is   *)
(* taken back.                                                             *)
THEOREM MemoryImplementsKernelMemory == MemorySpec => KernelMemorySpec
<1>1. MemoryInit => KM!Init
  BY DEF MemoryInit, KM!Init, MinusOne, KM!MinusOne
<1>2. MemoryInv /\ [MemoryNext]_memoryVars
        => [KM!Next]_<<kernelBlocks, MmpKernelVirtualBegin, MmpKernelVirtualEnd>>
  <2> SUFFICES ASSUME MemoryInv, [MemoryNext]_memoryVars
               PROVE  [KM!Next]_<<kernelBlocks, MmpKernelVirtualBegin, MmpKernelVirtualEnd>>
    OBVIOUS
  <2> DEFINE Kept == UNCHANGED <<kernelBlocks, MmpKernelVirtualBegin, MmpKernelVirtualEnd>>
  <2>1. ASSUME NEW b \in PoolAddrs,
               MmAllocatePool(b) \/ FwReturnsBuffer(b) \/ MmFreePool(b)
        PROVE  Kept
    BY <2>1 DEF MmAllocatePool, FwReturnsBuffer, MmFreePool, kernelRange
  <2>2. ASSUME NEW p \in PhysPages, MmFreePages(p)
        PROVE  Kept
    BY <2>2 DEF MmFreePages, kernelRange
  <2>3. ASSUME NEW p \in PhysPages, NEW n \in 1 .. MaxPages,
               MmAllocatePages(p, n) \/ MmAllocateLoaderData(KernelBase + p, n)
        PROVE  Kept
    BY <2>3 DEF MmAllocatePages, MmAllocateLoaderData, kernelRange
  <2>4. ASSUME NEW p \in PhysPages, NEW n \in 1 .. MaxPages,
               MmAllocateKernelMemory(n, KernelBase + p)
        PROVE  KM!Next
    <3>1. /\ KernelBase + p \in Nat
          /\ KernelBase <= KernelBase + p /\ KernelBase + p <= KernelBase + Window
      BY SizeAssumption, WindowAssumption, SMTT(20) DEF PhysPages
    <3> QED
      BY <2>4, <3>1, AllocateImplements
  <2>5. ASSUME NEW n \in 1 .. MaxPages, MmAllocateKernelMemory(n, 0)
        PROVE  KM!Next
    BY <2>5, AllocateImplements
  <2>6. ASSUME NEW k \in kernelBlocks, MmFreeKernelMemory(k)
        PROVE  KM!Next
    BY <2>6, FreeImplements
  <2>7. ASSUME ExitBootServices \/ UNCHANGED memoryVars
        PROVE  Kept
    BY <2>7 DEF ExitBootServices, memoryVars, kernelRange
  <2> HIDE DEF Kept
  <2>8. KM!Next \/ Kept
    BY <2>1, <2>2, <2>3, <2>4, <2>5, <2>6, <2>7 DEF MemoryNext
  <2> QED
    BY <2>8 DEF Kept
<1> QED
  BY <1>1, <1>2, InitMemoryInv, NextMemoryInv, PTL DEF MemorySpec, KernelMemorySpec, KM!Spec

-----------------------------------------------------------------------------
(***************************************************************************)
(* No stale image is resumed, for any number of hibernations, failed       *)
(* resumes and power cuts. The inductive invariant says where permission   *)
(* to resume may be: in the variables (before they are read), in the       *)
(* loader's hands (between their deletion and the resume), or nowhere; and *)
(* that while it is somewhere, no system has run since the image was       *)
(* written, and the key is the image's own if it was written with one. A   *)
(* running system finds no permission left.                                *)
(*                                                                         *)
(* The boot with its options, dialogs and recovery system takes only the   *)
(* steps of HibernateBoot, so that this holds whatever the keys, the       *)
(* options and the panics; and the command line always agrees with the     *)
(* boot mode. The first rests on one fact: hot keys and options add safe   *)
(* mode to the boot mode or leave alone what hibernation reads. The second *)
(* needs the agreement at every stage from the options on, and that single *)
(* user mode always comes with the verbose console.                        *)
(***************************************************************************)

-----------------------------------------------------------------------------
(* The variables and the image.                                            *)

Fresh == used # "yes"

\* The key is the image's own, if it was written with one.
Own(k) == used = "no" => k = disk

\* The loader is past the deletion and may still resume.
InHand ==
    \/ pc \in {"image", "resume"}
    \/ pc \in {"hotkey", "unlock"} /\ "hiberfromfv" \in mode

Permission ==
    /\ nvram.switchVars # Absent => Fresh /\ nvram.switchVars = disk
    /\ nvram.signature # Absent => Fresh /\ Own(nvram.imageKey)
    /\ pc = "imagekey" => Fresh /\ Own(nvram.imageKey)
    /\ InHand => Fresh /\ Own(key) /\ key # Absent
    /\ nvram.switchVars = Absent \/ nvram.signature = Absent

\* Past the check no variable is left: the safe mode bit is not set before.
Spent ==
    /\ pc \in {"vars", "imagekey"} => mode = {}
    /\ pc \in {"imagekey", "image", "resume", "hotkey", "unlock", "load"}
                \cup Running
         => nvram.switchVars = Absent /\ nvram.signature = Absent

IInv == TypeOK /\ Permission /\ Spent

-----------------------------------------------------------------------------
\* A machine that never hibernated has nothing to resume.
LEMMA InitIInv == Init => IInv
  BY BoundAssumption, SMTT(20)
  DEF Init, IInv, TypeOK, Permission, Spent, InHand, Fresh, Own, Images, Places,
      Loader, Running, Modes, Absent
\* A step that touches neither the variables nor the image and does not hand
\* out permission keeps the invariant.
LEMMA PassOnKeeps ==
    ASSUME IInv, UNCHANGED <<nvram, disk, key, shift, cuts>>,
           pc' \in Places, used' \in {"yes", "no", "unkeyed"}, mode' \subseteq Modes,
           used' = used \/ (/\ nvram.switchVars = Absent
                            /\ nvram.signature = Absent
                            /\ pc' \in Running),
           pc' \notin {"vars", "imagekey", "image"},
           InHand' => InHand,
           pc' \in {"resume", "hotkey", "unlock", "load"} \cup Running =>
             nvram.switchVars = Absent /\ nvram.signature = Absent
    PROVE  IInv'
  <1>1. TypeOK'
    BY DEF IInv, TypeOK, Permission, InHand, Absent
  <1>2. Permission'
    BY DEF IInv, Permission, Fresh, Own, InHand, Running
  <1>3. Spent' BY DEF Spent, Running
  <1> QED BY <1>1, <1>2, <1>3 DEF IInv

\* Every step keeps the invariant.
LEMMA NextIInv == IInv /\ [Next]_vars => IInv'
  <1> SUFFICES ASSUME IInv, [Next]_vars PROVE IInv' OBVIOUS
  <1> USE BoundAssumption
  <1>1. CASE PowerOn \/ ResetSystem
    <2>1. TypeOK'
      BY <1>1, SMTT(20) DEF IInv, TypeOK, PowerOn, ResetSystem, EfiMain, Images, Places,
                  Loader, Absent
    <2>2. Permission'
      BY <1>1 DEF IInv, Permission, Fresh, Own, InHand, PowerOn, ResetSystem,
                  EfiMain
    <2>3. Spent'
      BY <1>1 DEF Spent, PowerOn, ResetSystem, EfiMain, Running
    <2> QED BY <2>1, <2>2, <2>3 DEF IInv
  <1>2. CASE ReadVariables
    <2>1. mode = {} /\ pc = "vars" BY <1>2 DEF ReadVariables, IInv, Spent
    <2>2. CASE nvram.switchVars = Absent /\ nvram.signature = Absent
      <3>1. pc' = "hotkey" /\ UNCHANGED <<nvram, key, disk, used, shift, mode, cuts>>
        BY <1>2, <2>2 DEF ReadVariables
      <3> QED BY <2>1, <2>2, <3>1, PassOnKeeps
              DEF IInv, TypeOK, Places, Loader, InHand, Running
    <2>3. CASE nvram.switchVars # Absent
      <3>1. /\ pc' = "image" /\ key' = nvram.switchVars
            /\ nvram' = [nvram EXCEPT !["switchVars"] = Absent]
            /\ UNCHANGED <<disk, used, shift, mode, cuts>>
        BY <1>2, <2>1, <2>3 DEF ReadVariables, DeleteVariable
      <3>2. TypeOK'
        BY <2>3, <3>1, SMTT(20) DEF IInv, TypeOK, Images, Places, Loader, Absent
      <3>3. Permission'
        BY <2>3, <3>1 DEF IInv, TypeOK, Permission, Fresh, Own, InHand
      <3>4. Spent'
        BY <2>3, <3>1 DEF IInv, TypeOK, Permission, Spent
      <3> QED BY <3>2, <3>3, <3>4 DEF IInv
    <2>4. CASE nvram.switchVars = Absent /\ nvram.signature # Absent
      <3>1. /\ pc' = "imagekey"
            /\ nvram' = [nvram EXCEPT !["signature"] = Absent]
            /\ UNCHANGED <<key, disk, used, shift, mode, cuts>>
        BY <1>2, <2>1, <2>4 DEF ReadVariables, DeleteVariable
      <3>2. TypeOK'
        BY <3>1, SMTT(20) DEF IInv, TypeOK, Images, Places, Loader, Absent
      <3>3. Permission'
        BY <2>4, <3>1 DEF IInv, TypeOK, Permission, Fresh, Own, InHand
      <3>4. Spent'
        BY <2>1, <2>4, <3>1 DEF IInv, TypeOK, Spent
      <3> QED BY <3>2, <3>3, <3>4 DEF IInv
    <2> QED BY <2>2, <2>3, <2>4
  <1>3. CASE ReadImageKey
    <2>1. /\ pc = "imagekey" /\ Fresh /\ Own(nvram.imageKey)
          /\ nvram.switchVars = Absent /\ nvram.signature = Absent
      BY <1>3 DEF ReadImageKey, IInv, Permission, Spent
    <2>2. CASE nvram.imageKey = Absent
      <3>1. pc' = "hotkey" /\ UNCHANGED <<nvram, key, disk, used, shift, mode, cuts>>
        BY <1>3, <2>2 DEF ReadImageKey
      <3>2. TypeOK'
        BY <3>1 DEF IInv, TypeOK, Places, Loader
      <3>3. "hiberfromfv" \notin mode
        BY <2>1 DEF IInv, Spent
      <3>4. Permission'
        BY <2>1, <3>1, <3>3 DEF IInv, Permission, Fresh, Own, InHand
      <3>5. Spent' BY <2>1, <3>1 DEF Spent
      <3> QED BY <3>2, <3>4, <3>5 DEF IInv
    <2>3. CASE nvram.imageKey # Absent
      <3>1. /\ pc' = "image" /\ key' = nvram.imageKey
            /\ nvram' = [nvram EXCEPT !["imageKey"] = Absent]
            /\ UNCHANGED <<disk, used, shift, mode, cuts>>
        BY <1>3, <2>3 DEF ReadImageKey, DeleteVariable
      <3>2. TypeOK'
        BY <2>3, <3>1, SMTT(20) DEF IInv, TypeOK, Images, Places, Loader, Absent
      <3>3. Permission'
        BY <2>1, <2>3, <3>1 DEF IInv, TypeOK, Permission, Fresh, Own, InHand
      <3>4. Spent'
        BY <2>1, <3>1 DEF IInv, TypeOK, Spent
      <3> QED BY <3>2, <3>3, <3>4 DEF IInv
    <2> QED BY <2>2, <2>3
  <1>4. CASE ImageNotFound \/ ResumeFails \/ EfiMainFails \/ ShutDown
    BY <1>4, PassOnKeeps
    DEF ImageNotFound, ResumeFails, EfiMainFails, ShutDown, IInv, TypeOK,
        Places, Loader, Running, InHand
  <1>5. CASE ImageFound \/ FoundVolumeKey \/ NoVolumeKey
    BY <1>5, PassOnKeeps
    DEF ImageFound, FoundVolumeKey, NoVolumeKey, IInv, TypeOK, Spent, Places,
        Loader, Running, InHand
  <1>6. CASE ImageOnCoreStorage
    BY <1>6, PassOnKeeps
    DEF ImageOnCoreStorage, IInv, TypeOK, Spent, Places, Loader, Running,
        Modes, InHand
  <1>7. CASE BlDetectHotKey \/ SetSafeMode
    <2>1. /\ pc \in {"hotkey", "unlock"} /\ pc' = "unlock"
          /\ UNCHANGED <<nvram, disk, used, shift, key, cuts>>
          /\ mode' = mode \/ mode' = mode \cup {"safe"}
      BY <1>7 DEF BlDetectHotKey, SetSafeMode
    <2> QED BY <2>1, PassOnKeeps
            DEF IInv, TypeOK, Spent, Places, Loader, Running, Modes, InHand
  <1>8. CASE Resume \/ StartKernel
    BY <1>8, PassOnKeeps
    DEF Resume, StartKernel, IInv, TypeOK, Spent, Places, Loader, Running,
        InHand
  <1>9. CASE Hibernate
    <2>1. /\ pc \in Running /\ nvram.switchVars = Absent
          /\ nvram.signature = Absent
      BY <1>9 DEF Hibernate, IInv, Spent
    <2>2. /\ disk' = disk + 1 /\ disk' \in Images /\ disk' # Absent
          /\ pc' = "off"
          /\ UNCHANGED <<shift, mode, key, cuts>>
      BY <1>9, SMTT(20) DEF Hibernate, IInv, TypeOK, Images, Absent
    <2>3. \/ /\ nvram' = [nvram EXCEPT !.bootImage = disk',
                                         !.switchVars = disk']
             /\ used' = "no"
          \/ /\ nvram' = [nvram EXCEPT !.bootImage = disk',
                                         !.signature = disk',
                                         !.imageKey = disk']
             /\ used' = "no"
          \/ /\ nvram' = [nvram EXCEPT !.bootImage = disk',
                                         !.signature = disk']
             /\ used' = "unkeyed"
      BY <1>9 DEF Hibernate
    <2>4. TypeOK'
      <3>1. nvram' \in [switchVars : Images, signature : Images,
                        imageKey : Images, bootImage : Images]
        <4> DEFINE V == [switchVars : Images, signature : Images,
                         imageKey : Images, bootImage : Images]
        <4>1. nvram \in V BY DEF IInv, TypeOK
        <4> QED BY <2>2, <2>3, <4>1
      <3> QED BY <2>2, <2>3, <3>1 DEF IInv, TypeOK, Places
    <2>5. Permission'
      BY <2>1, <2>2, <2>3 DEF IInv, TypeOK, Permission, Fresh, Own, InHand
    <2>6. Spent' BY <2>2 DEF Spent, Running
    <2> QED BY <2>4, <2>5, <2>6 DEF IInv
  <1>10. CASE PowerCut
    <2>1. TypeOK'
      BY <1>10, SMTT(20) DEF PowerCut, IInv, TypeOK, Places
    <2>2. Permission'
      BY <1>10 DEF PowerCut, IInv, Permission, Fresh, Own, InHand
    <2>3. Spent' BY <1>10 DEF PowerCut, Spent, Running
    <2> QED BY <2>1, <2>2, <2>3 DEF IInv
  <1>11. CASE UNCHANGED vars
    BY <1>11 DEF vars, IInv, TypeOK, Permission, Spent, Fresh, Own,
        InHand
  <1> QED BY <1>1, <1>2, <1>3, <1>4, <1>5, <1>6, <1>7, <1>8, <1>9, <1>10,
             <1>11
          DEF Next, LoaderStep

\* The invariant holds at all times.
LEMMA AlwaysIInv == Spec => []IInv
  BY InitIInv, NextIInv, PTL DEF Spec

\* Variables and places stay in their range, and a resume is only attempted
\* with a key in hand (Hibernate.c:982-1039).
THEOREM HibernateTypeOK == Spec => []TypeOK
  <1>1. IInv => TypeOK BY DEF IInv
  <1> QED BY <1>1, AlwaysIInv, PTL

\* No image is resumed twice or after a system has run, through any history
\* of hibernations, failed resumes and power cuts (Hibernate.c:956-1014).
THEOREM NoStaleResume == Spec => StaleImageIsNotResumed
  <1>1. IInv /\ [Next]_vars =>
          [pc # "resumed" /\ pc' = "resumed" =>
             used # "yes" /\ (used = "no" => key = disk)]_vars
    <2> SUFFICES ASSUME IInv, Next, pc # "resumed", pc' = "resumed"
                 PROVE  used # "yes" /\ (used = "no" => key = disk)
      BY DEF vars
    <2>1. pc = "resume"
      BY DEF Next, LoaderStep, PowerOn, ResetSystem, EfiMain, ReadVariables,
             ReadImageKey, ImageNotFound, ImageFound, ImageOnCoreStorage,
             ResumeFails, Resume, BlDetectHotKey, SetSafeMode, FoundVolumeKey,
             NoVolumeKey, StartKernel, EfiMainFails, Hibernate, ShutDown, PowerCut
    <2> QED BY <2>1 DEF IInv, Permission, InHand, Fresh, Own, Own
  <1> QED BY <1>1, AlwaysIInv, PTL DEF Spec, StaleImageIsNotResumed

-----------------------------------------------------------------------------
(* The boot with its options and dialogs.                                  *)

\* The two parts of the boot mode are apart.
Apart == mode \subseteq Modes /\ flags \cap Modes = {}

\* Hot keys add safe mode or leave the modes hibernation reads alone.
LEMMA HotKeyAddsSafe ==
    ASSUME NEW bits, NEW keys, NEW locked \in BOOLEAN, NEW runs \in BOOLEAN
    PROVE  HotKey(bits, keys, locked, runs) \cap Modes
             \in {bits \cap Modes, (bits \cap Modes) \cup {"safe"}}
  <1> DEFINE found == bits \cup When(locked, {"password"})
             asked == found \cup When({"R", "Command"} \subseteq keys, {"recovery"})
  <1>1. asked \cap Modes = bits \cap Modes /\ found \cap Modes = bits \cap Modes
    BY DEF Modes, When
  <1>2. \A b : b \cap Modes = bits \cap Modes =>
          /\ (b \ When(~runs, {"recovery"})) \cap Modes = bits \cap Modes
          /\ ((b \cup {"safe"}) \ {"aslr"}) \cap Modes = (bits \cap Modes) \cup {"safe"}
          /\ CommandKeys(b, keys) \cap Modes = bits \cap Modes
    BY DEF CommandKeys, Modes, When
  <1> HIDE DEF found, asked
  <1>3. HotKey(bits, keys, locked, runs)
          \in {found, asked \ When(~runs, {"recovery"}),
               (asked \cup {"safe"}) \ {"aslr"}, CommandKeys(asked, keys), asked}
    BY DEF HotKey, BlpRunPasswordUIEfi, found, asked
  <1> QED BY <1>1, <1>2, <1>3

\* So do the options.
LEMMA OptionsAddSafe ==
    ASSUME NEW bits, NEW options
    PROVE  FromLine(bits, options) \cap Modes
             \in {bits \cap Modes, (bits \cap Modes) \cup {"safe"}}
  BY DEF FromLine, When, Modes

\* The two parts of the boot mode give it back.
LEMMA BootModeParts == Apart => BootMode \cap Modes = mode
  BY DEF Apart, BootMode

\* Reading the options is a step of HibernateBoot or leaves its state alone.
LEMMA OptionsImplement ==
    ASSUME Apart, BlProcessOptions
    PROVE  [Next]_vars
  <1>1. PICK bootOptions \in OptionSets, net \in BOOLEAN,
             recoveryVariable \in BOOLEAN :
          mode' = FromLine(BeforeLine(bootOptions, net, recoveryVariable), line')
                    \cap Modes
    BY DEF BlProcessOptions, BlSetBootMode
  <1>2. BeforeLine(bootOptions, net, recoveryVariable) \cap Modes
          \in {mode, mode \cup {"safe"}}
    BY BootModeParts DEF BeforeLine, When, Modes
  <1>3. mode' \in {mode, mode \cup {"safe"}}
    BY <1>1, <1>2, OptionsAddSafe
  <1>4. pc = "unlock" /\ UNCHANGED <<nvram, disk, used, shift, key, cuts, pc>>
    BY DEF BlProcessOptions, At, hibernateVars
  <1> QED BY <1>3, <1>4 DEF Next, LoaderStep, SetSafeMode, vars

\* So is the dialog, whose end may be the end of the boot.
LEMMA DialogImplements ==
    ASSUME Apart, BlShowPanicDialog
    PROVE  [Next]_vars
  <1>1. /\ pc = "unlock" /\ UNCHANGED <<nvram, disk, used, shift, key, cuts>>
        /\ pc' = IF DetectLoop.result = "shutdown" THEN "failed" ELSE pc
    BY DEF BlShowPanicDialog, At, hibernateVars
  <1>2. PICK bits \in IF DetectLoop.result = "none" THEN AfterDialog
                                                   ELSE {BootMode} :
          mode' = bits \cap Modes
    BY DEF BlShowPanicDialog, BlSetBootMode
  <1>3. CASE DetectLoop.result = "none"
    <2>1. bits \in AfterDialog BY <1>2, <1>3
    <2>2. bits \cap Modes \in {mode, mode \cup {"safe"}}
      BY <2>1, HotKeyAddsSafe, BootModeParts, SMTT(20) DEF AfterDialog
    <2> QED BY <1>1, <1>2, <1>3, <2>2 DEF Next, LoaderStep, SetSafeMode, vars
  <1>4. CASE DetectLoop.result # "none"
    <2>1. mode' = mode BY <1>2, <1>4, BootModeParts
    <2> QED BY <1>1, <2>1 DEF Next, LoaderStep, EfiMainFails, vars
  <1> QED BY <1>3, <1>4

\* Every step of the boot is a step of HibernateBoot or leaves its state alone.
LEMMA StepImplements == Apart /\ [BootNext]_bootVars => [Next]_vars
  <1> SUFFICES ASSUME Apart, [BootNext]_bootVars PROVE [Next]_vars OBVIOUS
  <1>1. CASE BlProcessOptions BY <1>1, OptionsImplement
  <1>2. CASE BlShowPanicDialog BY <1>2, DialogImplements
  <1>3. CASE HibernateStep \/ Reset \/ Fails \/ DetectHotKey \/ Unlock
    BY <1>3 DEF HibernateStep, Reset, Fails, DetectHotKey, Unlock, Next, LoaderStep
  <1>4. CASE IoDetectRoot \/ DetectRecoveryDirectory \/ NoPanicDialog
               \/ NoRecovery \/ TakePanicInfo
    BY <1>4 DEF IoDetectRoot, DetectRecoveryDirectory, NoPanicDialog, NoRecovery,
                TakePanicInfo
  <1>5. CASE BlpRunRecoveryEfi
    BY <1>5 DEF BlpRunRecoveryEfi, Fails, Next, LoaderStep
  <1>6. CASE Start \/ Stop \/ Panic
    BY <1>6 DEF Start, Stop, Panic, Next
  <1>7. CASE UNCHANGED bootVars BY <1>7 DEF bootVars
  <1> QED BY <1>1, <1>2, <1>3, <1>4, <1>5, <1>6, <1>7 DEF BootNext, BootLoaderStep

\* The two parts of the boot mode stay apart.
LEMMA StepKeepsApart == Apart /\ [BootNext]_bootVars => Apart'
  <1> SUFFICES ASSUME Apart, [BootNext]_bootVars PROVE Apart' OBVIOUS
  <1>1. ASSUME NEW bits, BlSetBootMode(bits) PROVE Apart'
    BY <1>1 DEF BlSetBootMode, Apart
  <1>2. CASE DetectHotKey BY <1>1, <1>2 DEF DetectHotKey
  <1>3. CASE BlProcessOptions BY <1>1, <1>3 DEF BlProcessOptions
  <1>4. CASE BlShowPanicDialog BY <1>1, <1>4 DEF BlShowPanicDialog
  <1>5. CASE IoDetectRoot \/ DetectRecoveryDirectory
    BY <1>5 DEF IoDetectRoot, DetectRecoveryDirectory, Apart, Modes, vars
  <1>6. CASE HibernateStep
    BY <1>6 DEF HibernateStep, modeVars, Apart, Modes, ReadVariables, ReadImageKey,
                ImageNotFound, ImageFound, ImageOnCoreStorage, ResumeFails, Resume,
                StartKernel
  <1>7. CASE Reset \/ Start
    BY <1>7 DEF Reset, Start, ResetSystem, PowerOn, EfiMain, Forget, Apart
  <1>8. CASE Fails \/ BlpRunRecoveryEfi
    BY <1>8 DEF Fails, BlpRunRecoveryEfi, EfiMainFails, Forget, Apart
  <1>9. CASE Stop \/ Panic
    BY <1>9 DEF Stop, Panic, Hibernate, ShutDown, PowerCut, Forget, Apart
  <1>10. CASE NoPanicDialog \/ NoRecovery \/ TakePanicInfo \/ UNCHANGED bootVars
    BY <1>10 DEF NoPanicDialog, NoRecovery, TakePanicInfo, bootVars, modeVars, vars,
                 Apart
  <1>11. CASE Unlock
    BY <1>11 DEF Unlock, NoVolumeKey, FoundVolumeKey, modeVars, Apart
  <1> QED BY <1>2, <1>3, <1>4, <1>5, <1>6, <1>7, <1>8, <1>9, <1>10, <1>11
          DEF BootNext, BootLoaderStep

\* Hot keys, options, dialogs and the recovery system do not change how
\* hibernation works: the boot implements HibernateBoot (Main.c:741-961).
THEOREM BootImplementsHibernateBoot == BootSpec => Spec
  <1>1. BootInit => Init /\ Apart
    BY DEF BootInit, Init, Apart, Modes
  <1> QED BY <1>1, StepImplements, StepKeepsApart, PTL DEF BootSpec, Spec

\* No stale image is resumed, whatever keys are held, whatever the options say
\* and however often the system panics (Main.c:741-961).
THEOREM NoStaleResumeAtBoot == BootSpec => StaleImageIsNotResumed
  BY BootImplementsHibernateBoot, NoStaleResume, PTL

-----------------------------------------------------------------------------
\* Single user mode comes with the verbose console.
VerboseWithSingle(bits) == "single" \in bits => "verbose" \in bits

\* The options have been read.
Decided ==
    \/ pc \in {"load", "os"}
    \/ pc = "unlock" /\ stage \in {"checks", "panic", "recovery", "ready"}

LineInv ==
    /\ Apart
    /\ VerboseWithSingle(BootMode)
    /\ Decided => line = NoLine \/ Agrees(BootMode, line)

\* What hot keys do to the modes on the command line.
LEMMA HotKeyEffect ==
    ASSUME NEW bits, NEW keys, NEW locked \in BOOLEAN, NEW runs \in BOOLEAN,
           NEW after, after = HotKey(bits, keys, locked, runs),
           VerboseWithSingle(bits)
    PROVE  /\ \A f \in {"safe", "single", "verbose", "net"} : f \in bits => f \in after
           /\ "net" \in after => "net" \in bits
           /\ "aslr" \in after => "aslr" \in bits
           /\ "aslr" \in after /\ "safe" \in after => "safe" \in bits
           /\ VerboseWithSingle(after)
  <1> DEFINE found == bits \cup When(locked, {"password"})
             asked == found \cup When({"R", "Command"} \subseteq keys, {"recovery"})
  <1>1. \A f \in {"safe", "single", "verbose", "net", "aslr"} :
          (f \in bits <=> f \in asked) /\ (f \in bits <=> f \in found)
    BY DEF When
  <1> HIDE DEF found, asked
  <1>2. after \in {found, asked \ When(~runs, {"recovery"}),
                   (asked \cup {"safe"}) \ {"aslr"}, CommandKeys(asked, keys), asked}
    BY DEF HotKey, BlpRunPasswordUIEfi, found, asked
  <1>3. CASE after \in {found, asked, asked \ When(~runs, {"recovery"}),
                        (asked \cup {"safe"}) \ {"aslr"}}
    BY <1>1, <1>3 DEF When, VerboseWithSingle
  <1>4. CASE after = CommandKeys(asked, keys)
    BY <1>1, <1>4 DEF When, VerboseWithSingle, CommandKeys
  <1> QED BY <1>2, <1>3, <1>4

\* What BlpCopyArgs puts on the line, for options that are their own key.
LEMMA CopyArgs ==
    ASSUME NEW dst, NEW src
    PROVE  /\ \A o : o \in BlpCopyArgs(dst, src) => o \in dst \/ o \in src
           /\ \A o \in dst : o \in BlpCopyArgs(dst, src)
           /\ \A o \in {"-x", "-s", "-v", "srv=1"} :
                o \in src => o \in BlpCopyArgs(dst, src)
  BY DEF BlpCopyArgs, Key

\* The command line has what was there and what the boot mode asks for.
LEMMA LineHas ==
    ASSUME NEW bits, NEW o, NEW a, NEW k, NEW built,
           built = BlSetupKernelCommandLine(bits, o, a, k)
    PROVE  /\ "safe" \in bits => "-x" \in built
           /\ "single" \in bits => "-s" \in built
           /\ "verbose" \in bits => "-v" \in built
           /\ "net" \in bits => "srv=1" \in built
           /\ a = {} /\ k = {} =>
                /\ o \subseteq built
                /\ "-x" \in built => "-x" \in o \/ "safe" \in bits
                /\ "-s" \in built => "-s" \in o \/ "single" \in bits
                /\ "-v" \in built => "-v" \in o \/ "verbose" \in bits
                /\ "slide=0" \in built => "slide=0" \in o
  <1> DEFINE first == BlpCopyArgs(BlpCopyArgs(o, a), k)
             asked == When("safe" \in bits, {"-x"}) \cup When("single" \in bits, {"-s"})
                        \cup When("verbose" \in bits, {"-v"})
                        \cup When("net" \in bits, {"srv=1"})
  <1>1. built = BlpCopyArgs(first, asked) BY DEF BlSetupKernelCommandLine
  <1>2. /\ "-x" \in asked <=> "safe" \in bits
        /\ "-s" \in asked <=> "single" \in bits
        /\ "-v" \in asked <=> "verbose" \in bits
        /\ "srv=1" \in asked <=> "net" \in bits
        /\ "slide=0" \notin asked
    BY DEF When
  <1>3. a = {} /\ k = {} => first = o
    BY DEF BlpCopyArgs
  <1> HIDE DEF first, asked
  <1> QED BY <1>1, <1>2, <1>3, CopyArgs

\* The line the options give agrees with the boot mode they give.
LEMMA OptionsAgree ==
    ASSUME NEW bits, NEW o, NEW a, NEW k, VerboseWithSingle(bits), NEW built,
           built = BlSetupKernelCommandLine(bits, o, a, k)
    PROVE  Agrees(FromLine(bits, built), built)
  <1>1. /\ "safe" \in bits => "-x" \in built
        /\ "single" \in bits => "-s" \in built
        /\ "verbose" \in bits => "-v" \in built
        /\ "net" \in bits => "srv=1" \in built
    BY LineHas, SMTT(20)
  <1> QED BY <1>1 DEF Agrees, FromLine, When, VerboseWithSingle

\* The line built again after the dialog agrees with the boot mode the hot keys
\* give.
LEMMA RebuiltAgrees ==
    ASSUME NEW bits, NEW keys, NEW locked \in BOOLEAN, NEW runs \in BOOLEAN,
           NEW after, after = HotKey(bits, keys, locked, runs),
           NEW old, Agrees(bits, old), VerboseWithSingle(bits),
           NEW built, built = BlSetupKernelCommandLine(after, old, {}, {})
    PROVE  Agrees(after, built)
  <1>1. /\ "safe" \in after => "-x" \in built
        /\ "single" \in after => "-s" \in built
        /\ "verbose" \in after => "-v" \in built
        /\ "net" \in after => "srv=1" \in built
        /\ "-x" \in built => "-x" \in old \/ "safe" \in after
        /\ "-s" \in built => "-s" \in old \/ "single" \in after
        /\ "-v" \in built => "-v" \in old \/ "verbose" \in after
        /\ "slide=0" \in built => "slide=0" \in old
    BY LineHas, Z3T(20)
  <1>2. /\ \A f \in {"safe", "single", "verbose", "net"} : f \in bits => f \in after
        /\ "aslr" \in after => "aslr" \in bits
        /\ "aslr" \in after /\ "safe" \in after => "safe" \in bits
        /\ VerboseWithSingle(after)
    BY HotKeyEffect, SMTT(20)
  <1> QED BY <1>1, <1>2 DEF Agrees, VerboseWithSingle

\* Setting the boot mode sets it.
LEMMA BootModeSet ==
    ASSUME NEW bits, BlSetBootMode(bits) PROVE BootMode' = bits
  BY DEF BlSetBootMode, BootMode

\* The options set up the agreement.
LEMMA OptionsLineInv ==
    ASSUME LineInv, BlProcessOptions PROVE LineInv'
  <1>0. PICK bootOptions \in OptionSets, net \in BOOLEAN,
             recoveryVariable \in BOOLEAN, allocated \in BOOLEAN :
          \E args, file :
             LET before == BeforeLine(bootOptions, net, recoveryVariable)
             IN /\ line' = IF allocated
                             THEN BlSetupKernelCommandLine(before, bootOptions,
                                                           args, file)
                             ELSE NoLine
                /\ BlSetBootMode(FromLine(before, line'))
    BY SMTT(20) DEF BlProcessOptions
  <1> DEFINE bits == BeforeLine(bootOptions, net, recoveryVariable)
  <1>1. PICK args, file :
          /\ line' = IF allocated
                       THEN BlSetupKernelCommandLine(bits, bootOptions, args,
                                                     file)
                       ELSE NoLine
          /\ BlSetBootMode(FromLine(bits, line'))
    BY <1>0
  <1>2. VerboseWithSingle(bits)
    BY DEF LineInv, VerboseWithSingle, BeforeLine, When
  <1> HIDE DEF bits
  <1>3. BootMode' = FromLine(bits, line') BY <1>1, BootModeSet DEF bits
  <1>4. line' = NoLine \/ Agrees(BootMode', line')
    BY <1>1, <1>2, <1>3, OptionsAgree DEF bits
  <1>5. VerboseWithSingle(BootMode')
    BY <1>2, <1>3 DEF VerboseWithSingle, FromLine, When
  <1>6. Apart' BY StepKeepsApart DEF LineInv, BootNext, BootLoaderStep
  <1>7. (VerboseWithSingle(BootMode))' /\ (Agrees(BootMode', line') => (Agrees(BootMode, line))')
    BY <1>5 DEF VerboseWithSingle, Agrees
  <1> QED BY <1>4, <1>6, <1>7 DEF LineInv

\* The dialog keeps it.
LEMMA DialogLineInv ==
    ASSUME LineInv, BlShowPanicDialog PROVE LineInv'
  <1>1. Decided BY DEF BlShowPanicDialog, At, Decided
  <1>2. PICK bits \in IF DetectLoop.result = "none" THEN AfterDialog
                                                   ELSE {BootMode} :
          /\ BlSetBootMode(bits)
          /\ line' \in IF DetectLoop.result = "none" THEN RebuiltLines(bits) ELSE {line}
    BY DEF BlShowPanicDialog
  <1>3. BootMode' = bits BY <1>2, BootModeSet
  <1>4. VerboseWithSingle(bits) /\ (line' = NoLine \/ Agrees(bits, line'))
    <2>1. CASE DetectLoop.result # "none"
      BY <1>1, <1>2, <2>1 DEF LineInv
    <2>2. CASE DetectLoop.result = "none"
      <3>1. PICK keys \in HotKeys, locked \in BOOLEAN, runs \in BOOLEAN :
              bits = HotKey(BootMode, keys, locked, runs)
        BY <1>2, <2>2, SMTT(20) DEF AfterDialog
      <3>2. line' \in RebuiltLines(bits) BY <1>2, <2>2
      <3>3. VerboseWithSingle(bits) BY <3>1, HotKeyEffect DEF LineInv
      <3>4. CASE line = NoLine BY <3>2, <3>3, <3>4 DEF RebuiltLines
      <3>5. CASE line # NoLine
        <4>1. Agrees(BootMode, line) BY <1>1, <3>5 DEF LineInv
        <4>2. Agrees(bits, BlSetupKernelCommandLine(bits, line, {}, {}))
          BY <3>1, <4>1, RebuiltAgrees DEF LineInv
        <4> QED BY <3>2, <3>3, <3>5, <4>2 DEF RebuiltLines
      <3> QED BY <3>4, <3>5
    <2> QED BY <2>1, <2>2
  <1>5. Apart' BY StepKeepsApart DEF LineInv, BootNext, BootLoaderStep
  <1>6. (VerboseWithSingle(BootMode))' /\ (Agrees(bits, line') => (Agrees(BootMode, line))')
    BY <1>3, <1>4 DEF VerboseWithSingle, Agrees
  <1> QED BY <1>4, <1>5, <1>6 DEF LineInv

\* A step that keeps the bits the command line is about, and the line, keeps
\* the agreement.
LEMMA SameLine ==
    ASSUME LineInv, Apart', line' = line, Decided' => Decided,
           \A f \in {"safe", "single", "verbose", "net", "aslr"} :
             f \in BootMode' <=> f \in BootMode
    PROVE  LineInv'
  <1>1. (VerboseWithSingle(BootMode))' BY DEF LineInv, VerboseWithSingle
  <1>2. Agrees(BootMode, line) => (Agrees(BootMode, line))' BY DEF Agrees
  <1> QED BY <1>1, <1>2 DEF LineInv, NoLine

\* Every step keeps the agreement.
LEMMA StepLineInv == LineInv /\ [BootNext]_bootVars => LineInv'
  <1> SUFFICES ASSUME LineInv, [BootNext]_bootVars PROVE LineInv' OBVIOUS
  <1>0. Apart' BY StepKeepsApart DEF LineInv
  <1>1. CASE BlProcessOptions BY <1>1, OptionsLineInv
  <1>2. CASE BlShowPanicDialog BY <1>2, DialogLineInv
  <1>3. CASE DetectHotKey
    <2>1. PICK keys \in HotKeys, locked \in BOOLEAN, runs \in BOOLEAN :
            BlSetBootMode(HotKey(BootMode \cup {"aslr"}, keys, locked, runs))
      BY <1>3 DEF DetectHotKey
    <2>2. BootMode' = HotKey(BootMode \cup {"aslr"}, keys, locked, runs)
      BY <2>1, BootModeSet
    <2>3. VerboseWithSingle(BootMode \cup {"aslr"})
      BY DEF LineInv, VerboseWithSingle
    <2>4. VerboseWithSingle(BootMode') BY <2>2, <2>3, HotKeyEffect, SMTT(20)
    <2>5. ~Decided' BY <1>3 DEF DetectHotKey, BlDetectHotKey, Decided
    <2> QED BY <1>0, <2>4, <2>5 DEF LineInv, VerboseWithSingle
  <1>4. CASE IoDetectRoot
    BY <1>0, <1>4, SameLine
    DEF IoDetectRoot, At, Decided, BootMode, vars
  <1>5. CASE DetectRecoveryDirectory
    BY <1>0, <1>5, SameLine
    DEF DetectRecoveryDirectory, At, Decided, BootMode, vars
  <1>6. CASE HibernateStep
    BY <1>0, <1>6, SameLine
    DEF HibernateStep, modeVars, Decided, BootMode, ReadVariables, ReadImageKey,
        ImageNotFound, ImageFound, ImageOnCoreStorage, ResumeFails, Resume,
        StartKernel
  <1>7. CASE Reset \/ Start
    <2>1. BootMode' = {} /\ ~Decided'
      BY <1>7 DEF Reset, Start, ResetSystem, PowerOn, EfiMain, Forget, BootMode,
                  Decided
    <2> QED BY <1>0, <2>1 DEF LineInv, VerboseWithSingle
  <1>8. CASE Fails \/ BlpRunRecoveryEfi \/ Stop \/ Panic
    <2>1. ~Decided' /\ mode' = mode /\ flags' = {}
      BY <1>8 DEF Fails, BlpRunRecoveryEfi, Stop, Panic, EfiMainFails, Hibernate,
                  ShutDown, PowerCut, Forget, Decided
    <2>2. "single" \notin BootMode'
      BY <2>1 DEF LineInv, Apart, BootMode, Modes
    <2> QED BY <1>0, <2>1, <2>2 DEF LineInv, VerboseWithSingle
  <1>9. CASE NoPanicDialog \/ NoRecovery \/ TakePanicInfo \/ UNCHANGED bootVars
    BY <1>0, <1>9, SameLine
    DEF NoPanicDialog, NoRecovery, TakePanicInfo, bootVars, modeVars, vars, At,
        Decided, BootMode
  <1>10. CASE Unlock
    BY <1>0, <1>10, SameLine
    DEF Unlock, NoVolumeKey, FoundVolumeKey, modeVars, At, Decided, BootMode
  <1> QED BY <1>1, <1>2, <1>3, <1>4, <1>5, <1>6, <1>7, <1>8, <1>9, <1>10
          DEF BootNext, BootLoaderStep

\* The kernel is told what the loader decided, for every set of hot keys and
\* every source of options, and through the second look at the hot keys after
\* a panic (Options.c:452-482, 793-846; PanicDialog.c:370-376).
THEOREM KernelIsToldTheModes == BootSpec => []CommandLineFollowsModes
  <1>1. BootInit => LineInv
    BY DEF BootInit, Init, LineInv, Apart, VerboseWithSingle, Decided, BootMode, Modes
  <1>2. LineInv => CommandLineFollowsModes
    BY DEF LineInv, Decided, CommandLineFollowsModes
  <1> QED BY <1>1, <1>2, StepLineInv, PTL DEF BootSpec
=============================================================================
