------------------------- MODULE MCHibernateResume --------------------------
(***************************************************************************)
(* Images of up to ten blocks in one to four extents, with and without     *)
(* encryption and preview, aligned to the medium's blocks or not; then a   *)
(* handoff of sizes around the end of a page, with every way the memory    *)
(* map may change between the two times it is taken.                       *)
(***************************************************************************)
EXTENDS HibernateResume

\* The lengths of the extents; the first holds the header.
Layouts == {<<10>>, <<2, 8>>, <<3, 3, 4>>, <<4, 2, 4>>, <<2, 2, 2, 6>>,
            <<2, 1, 1, 6>>}

\* Extents lie apart on the disk and not in the order of the file.
Placed(lengths) ==
    [k \in 1 .. Len(lengths) |->
       [offset |-> 200 - 20 * k, length |-> lengths[k],
        start |-> CASE k = 1 -> 0
                    [] k = 2 -> lengths[1]
                    [] k = 3 -> lengths[1] + lengths[2]
                    [] k = 4 -> lengths[1] + lengths[2] + lengths[3]]]

MCImages ==
    {[extents |-> Placed(l), size |-> s, encryptStart |-> a, encryptEnd |-> b,
      previewEnd |-> p] :
       l \in Layouts, s \in {9, 10}, a \in {0, 4, 5}, b \in {7, 8, 9, 10},
       p \in {0, 6, 8}}

\* The encrypted part ends in the image; without one its end is not used.
OnlyReal == {m \in MCImages : /\ m.encryptEnd <= m.size
                              /\ m.encryptStart = 0 => m.encryptEnd = m.size}

Sizes == {0, 1, 3, 6}
AnyKeyStore == {-1, 0, 3, 4}
=============================================================================
