-------------------------- MODULE HibernateHandoff --------------------------
(***************************************************************************)
(* The records HbpContinueResumeFromHibernate (Hibernate.c) leaves for the *)
(* resumed kernel: a header with the type and the size of the data, the    *)
(* data, and so on to the record END, in pages allocated from a size that  *)
(* was computed before the records are written. Sizes are in 32-bit words. *)
(***************************************************************************)
EXTENDS Integers, Sequences

CONSTANTS
    Graphics, CryptVars,  \* sizes of the two fixed records
    PageSize,
    KeyStores,   \* sizes of the key store, or NoKeyStore
    DataSizes    \* sizes of the device tree and of the memory map

VARIABLES
    keyStore, tree,
    memoryMapSize,   \* of the runtime descriptors, first taken, then taken anew
    words,           \* the handoff pages: which record a word belongs to
    handoffHeader,   \* where the next record goes
    records,         \* the records written
    pc

vars == <<keyStore, tree, memoryMapSize, words, handoffHeader, records, pc>>

RecordHeader == 2  \* sizeof(HIBERNATE_HANDOFF)
NoKeyStore == -1   \* without BOOT_MODE_HAS_FILE_VAULT2_CONFIG

\* With a FileVault 2 config there is a record, be the key store empty.
KeyStoreWords(store) ==
    IF store # NoKeyStore THEN store + RecordHeader ELSE 0

\* Mutant: the header of the record END is not counted.
HandoffSize_NoEnd(store, deviceTree, map) ==
    Graphics + CryptVars + RecordHeader * 4
      + KeyStoreWords(store) + deviceTree + map

HandoffSize(store, deviceTree, map) ==
    Graphics + CryptVars + RecordHeader * 5
      + KeyStoreWords(store) + deviceTree + map

PageCount(store, deviceTree, map) == HandoffSize(store, deviceTree, map) \div PageSize + 1

\* The pages for records of these sizes.
HandoffPages(store, deviceTree, map) ==
    [w \in 0 .. PageCount(store, deviceTree, map) * PageSize - 1 |-> "free"]

Init ==
    /\ keyStore \in KeyStores
    /\ tree \in DataSizes
    /\ memoryMapSize \in DataSizes
    /\ words = HandoffPages(keyStore, tree, memoryMapSize)
    /\ handoffHeader = 0
    /\ records = <<>>
    /\ pc = "graphics"

-----------------------------------------------------------------------------
\* A header and its data are written; the next record goes to next.
WriteRecord(type, size, next) ==
    /\ words' = [w \in DOMAIN words |->
                   IF handoffHeader <= w /\ w < handoffHeader + RecordHeader + size
                     THEN type ELSE words[w]]
    /\ records' = Append(records, [type |-> type, at |-> handoffHeader,
                                   size |-> size])
    /\ handoffHeader' = next

After(size) == handoffHeader + RecordHeader + size

SetupGraphics ==
    /\ pc = "graphics"
    /\ WriteRecord("graphics", Graphics, After(Graphics))
    /\ pc' = "crypt"
    /\ UNCHANGED <<keyStore, tree, memoryMapSize>>

SetupCryptVars ==
    /\ pc = "crypt"
    /\ WriteRecord("crypt", CryptVars, After(CryptVars))
    /\ pc' = "keystore"
    /\ UNCHANGED <<keyStore, tree, memoryMapSize>>

\* The code adds the size of the key store to the address of its header: the
\* next record starts before the end of the key store.
SetupKeyStore ==
    /\ pc = "keystore"
    /\ IF keyStore # NoKeyStore
         THEN WriteRecord("keystore", keyStore, handoffHeader + keyStore)
         ELSE UNCHANGED <<words, records, handoffHeader>>
    /\ pc' = "tree"
    /\ UNCHANGED <<keyStore, tree, memoryMapSize>>

SetupDeviceTree ==
    /\ pc = "tree"
    /\ WriteRecord("tree", tree, After(tree))
    /\ pc' = "map"
    /\ UNCHANGED <<keyStore, tree, memoryMapSize>>

\* The map is taken anew. One that grew does not fit.
SetupMemoryMap ==
    /\ pc = "map"
    /\ \E size \in DataSizes :
         /\ size <= memoryMapSize
         /\ memoryMapSize' = size
         /\ WriteRecord("map", size, After(size))
    /\ pc' = "end"
    /\ UNCHANGED <<keyStore, tree>>

\* The resume is given up: the map cannot be taken anew or has grown, boot
\* services cannot be left, or the pointers cannot be converted.
ResumeFails ==
    /\ pc \in {"map", "end"}
    /\ pc' = "failed"
    /\ UNCHANGED <<keyStore, tree, memoryMapSize, words, handoffHeader,
                   records>>

SetupEnd ==
    /\ pc = "end"
    /\ WriteRecord("end", 0, handoffHeader)
    /\ pc' = "done"
    /\ UNCHANGED <<keyStore, tree, memoryMapSize>>

Next == \/ SetupGraphics \/ SetupCryptVars \/ SetupKeyStore \/ SetupDeviceTree
        \/ SetupMemoryMap \/ ResumeFails \/ SetupEnd

Spec == Init /\ [][Next]_vars

-----------------------------------------------------------------------------
\* The words of a record.
Extent(r) == r.at .. r.at + RecordHeader + r.size - 1

\* Every record lies in the pages that were allocated for all of them, the
\* END record included, whatever became of the memory map since the size was
\* computed (Hibernate.c:724-754, 836).
HandoffFits ==
    \A k \in 1 .. Len(records) : Extent(records[k]) \subseteq DOMAIN words

\* No record is written over another, so that the kernel, going from a header
\* over its size to the next, finds all of them and END.
RecordsAreWhole ==
    \A k \in 1 .. Len(records) :
        \A w \in Extent(records[k]) \cap DOMAIN words :
            words[w] = records[k].type

\* The same without a FileVault 2 config.
RecordsBesideKeyStore == keyStore = NoKeyStore => RecordsAreWhole
=============================================================================
