-------------------------- MODULE HibernateResume ---------------------------
(***************************************************************************)
(* HbpContinueResumeFromHibernate (Hibernate.c) as a whole: the image is   *)
(* read and decrypted (HibernateImage), then pages for the handoff are     *)
(* allocated and its records are written (HibernateHandoff). The two parts *)
(* meet in the record of crypt variables: the loader decrypts the first    *)
(* part of the image only, and the kernel goes on with the vector it is    *)
(* handed.                                                                 *)
(***************************************************************************)
EXTENDS HibernateImage

CONSTANTS Graphics, CryptVars, PageSize, KeyStores, DataSizes

ASSUME HandoffAssumption ==
    /\ Graphics \in Nat /\ CryptVars \in Nat /\ PageSize \in Nat \ {0}
    /\ KeyStores \subseteq Nat \cup {-1} /\ DataSizes \subseteq Nat

VARIABLES keyStore, tree, memoryMapSize, words, handoffHeader, records,
          handoffPc,    \* "image" while the image is read, then the next record
          cryptVector   \* cryptVars->InitVector, None before it is written

handoffVars == <<keyStore, tree, memoryMapSize, words, handoffHeader, records>>
resumeVars == <<vars, handoffVars, handoffPc, cryptVector>>

Handoff == INSTANCE HibernateHandoff WITH pc <- handoffPc

ResumeInit ==
    /\ Init
    /\ keyStore = Handoff!NoKeyStore /\ tree = 0 /\ memoryMapSize = 0
    /\ words = <<>> /\ handoffHeader = 0 /\ records = <<>>
    /\ handoffPc = "image" /\ cryptVector = None

ReadImage ==
    /\ Next
    /\ UNCHANGED <<handoffVars, handoffPc, cryptVector>>

\* The size is computed and the pages are allocated, or there are none.
SetupHandoff ==
    /\ pc = "done" /\ handoffPc = "image"
    /\ \E store \in KeyStores, deviceTree \in DataSizes, map \in DataSizes :
         /\ keyStore' = store /\ tree' = deviceTree /\ memoryMapSize' = map
         /\ words' = Handoff!HandoffPages(store, deviceTree, map)
    /\ handoffPc' = "graphics"
    /\ UNCHANGED <<vars, handoffHeader, records, cryptVector>>

NoHandoffPages ==
    /\ pc = "done" /\ handoffPc = "image"
    /\ handoffPc' = "failed"
    /\ UNCHANGED <<vars, handoffVars, cryptVector>>

\* Mutant: the vector the decryption began with is handed over.
SavedVector_First == FirstVector
SavedVector == initVector

WriteRecords ==
    /\ Handoff!Next
    /\ cryptVector' = IF handoffPc = "crypt" THEN SavedVector ELSE cryptVector
    /\ UNCHANGED vars

ResumeNext == ReadImage \/ SetupHandoff \/ NoHandoffPages \/ WriteRecords

ResumeSpec ==
    /\ ResumeInit /\ [][ResumeNext]_resumeVars
    /\ WF_resumeVars(Step /\ ReadImage) /\ SF_resumeVars(Account /\ ReadImage)

-----------------------------------------------------------------------------
\* The records the kernel finds lie in the pages that were allocated for all of
\* them, END included, whatever became of the memory map since the size was
\* computed, and without a key store none is written over another
\* (Hibernate.c:724-754, :798-842).
HandoffIsWhole == Handoff!HandoffFits /\ Handoff!RecordsBesideKeyStore

\* The kernel can go on decrypting where the loader stopped: the vector it is
\* handed is the last ciphertext of the loader's part, as it was on the disk
\* before it was decrypted in place, although runs of decryption do not end with
\* reads (Hibernate.c:676-693, :802).
KernelContinuesCipher ==
    cryptVector # None /\ image.encryptStart > 0 => cryptVector = image.encryptEnd - 1
=============================================================================
