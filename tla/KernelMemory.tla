---------------------------- MODULE KernelMemory ----------------------------
(***************************************************************************)
(* What the memory manager promises those who place something in the       *)
(* kernel's window: segments, drivers, the ramdisk, the boot arguments.    *)
(* Blocks do not overlap, an allocation without an address follows the     *)
(* last one, and only the block at the end of the range comes back.        *)
(* Memory implements this; LoadKernel and LoadDrivers are written over it. *)
(* Addresses are page numbers.                                             *)
(***************************************************************************)
EXTENDS Integers

CONSTANTS Window,      \* pages of the window
          KernelBase   \* its first virtual page

VARIABLES blocks,      \* what is allocated: first virtual and physical page, pages
          begin, end   \* the virtual range the blocks have grown

MinusOne == KernelBase + 2 * Window

Fits(va, n) ==
    /\ va > KernelBase /\ va + n <= KernelBase + Window
    /\ \A k \in blocks : va + n <= k.va \/ k.va + k.n <= va

\* requested = 0 asks for the place after the last block.
Place(requested) == IF requested = 0 THEN end ELSE requested

CanAllocate(n, requested) ==
    /\ requested = 0 => begin # MinusOne
    /\ Fits(Place(requested), n)

Block(va, n) == [va |-> va, pa |-> va - KernelBase, n |-> n]

Allocate(n, requested) ==
    LET va == Place(requested)
    IN  /\ CanAllocate(n, requested)
        /\ blocks' = blocks \cup {Block(va, n)}
        /\ begin' = IF va < begin THEN va ELSE begin
        /\ end' = IF va + n > end THEN va + n ELSE end

\* Freeing a block that is not the last one changes nothing.
Free(k) ==
    /\ k \in blocks
    /\ k.va + k.n = end
    /\ blocks' = blocks \ {k}
    /\ end' = k.va
    /\ UNCHANGED begin

Init == blocks = {} /\ begin = MinusOne /\ end = 0

Next ==
    \/ \E n \in 1 .. Window, va \in {0} \cup KernelBase .. KernelBase + Window :
          Allocate(n, va)
    \/ \E k \in blocks : Free(k)

Spec == Init /\ [][Next]_<<blocks, begin, end>>
=============================================================================
