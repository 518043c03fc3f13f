--------------------------- MODULE HibernateImage ---------------------------
(***************************************************************************)
(* The loop of HbpContinueResumeFromHibernate (Hibernate.c) that brings    *)
(* the hibernation image into memory. It is a pipeline over one buffer:    *)
(* a read of the next piece of the file, extent by extent, is started;     *)
(* while the disk works, the piece before it is decrypted in place; the    *)
(* read is flushed; and so on until everything is read and decrypted.      *)
(*                                                                         *)
(* Lengths are in AES blocks (16 bytes, also the size of one entry of the  *)
(* extent map). A cell of the buffer records where on the disk its content *)
(* came from and whether it was decrypted, not the content itself.         *)
(***************************************************************************)
EXTENDS Integers, Sequences, FiniteSets

CONSTANTS
    Header,      \* sizeof(HIBERNATE_IMAGE_HEADER), two extents included
    MaxRead,     \* longest single read (1 MB in the code)
    MaxDecrypt,  \* longest single decryption (128 KB in the code)
    BlockSize,   \* block size of the medium
    Images       \* the images on disk: extents, size, encrypted part, preview

ASSUME SizeAssumption ==
    /\ Header \in Nat \ {0} /\ MaxRead \in Nat \ {0}
    /\ MaxDecrypt \in Nat \ {0} /\ BlockSize \in Nat \ {0}

\* What the kernel writes: the extents hold the image, the header lies in the
\* first, and the rest of the extent map precedes the encrypted part.
ASSUME ImagesAssumption == \A m \in Images :
    /\ m.size \in Nat /\ m.encryptStart \in Nat
    /\ m.encryptEnd \in Nat /\ m.previewEnd \in Nat
    /\ m.extents \in Seq([offset : Nat, length : Nat \ {0}, start : Nat])
    /\ Len(m.extents) > 0
    /\ m.extents[1].start = 0 /\ Header <= m.extents[1].length
    /\ \A k \in 1 .. Len(m.extents) - 1 :
          m.extents[k + 1].start = m.extents[k].start + m.extents[k].length
    /\ Header < m.size
    /\ m.size <= m.extents[Len(m.extents)].start
                   + m.extents[Len(m.extents)].length
    /\ m.encryptStart > 0 =>
          /\ Header <= m.encryptStart /\ m.encryptStart < m.encryptEnd
          /\ m.encryptEnd <= m.size
          /\ Header + Len(m.extents) - 2 <= m.encryptStart

VARIABLES
    image,          \* the header that was read
    apple,          \* HbpAppleDiskIoProtocol is there: reads are asynchronous
    buffer,         \* image1Buffer
    readBuffer,     \* where the next read goes
    readOffset, extentLength, nextExtent, leftLength,
    readSomething, needRead, needFlush, lengthThisRun,
    inFlight,       \* disk offset of the asynchronous read not yet flushed
    startOfEncryptBuffer,  \* next cell to decrypt, or None
    initVector,     \* the cell whose ciphertext is the vector, or a mark
    hasPreview,
    pc              \* "update", "read", "decrypt", "done" or "failed"

vars == <<image, apple, buffer, readBuffer, readOffset, extentLength,
          nextExtent, leftLength, readSomething, needRead, needFlush,
          lengthThisRun, inFlight, startOfEncryptBuffer, initVector,
          hasPreview, pc>>

fixed == <<image, apple>>
reader == <<readBuffer, readOffset, extentLength, leftLength>>
request == <<readSomething, needRead, needFlush, lengthThisRun, inFlight>>
cipher == <<startOfEncryptBuffer, initVector, hasPreview>>

None == -1
FirstVector == -2  \* firstInitVector
JunkVector == -3   \* bytes that are no ciphertext
NotRead == [from |-> None, form |-> "stored"]

Extent(k) == image.extents[k]
Smaller(a, b) == IF a < b THEN a ELSE b

\* The cells [a, b) of the buffer.
Cells(a, b) == {i \in 0 .. image.size - 1 : a <= i /\ i < b}

\* Type invariant of the locals of the read loop and of image1Buffer.
TypeOK ==
    /\ image \in Images /\ apple \in BOOLEAN
    /\ buffer \in [0 .. image.size - 1 ->
                     [from : {None} \cup Nat, form : {"stored", "clear"}]]
    /\ readBuffer \in Header .. image.size
    /\ leftLength \in 0 .. image.size
    /\ nextExtent \in 2 .. Len(image.extents) + 1
    /\ extentLength \in Nat /\ readOffset \in Nat
    /\ inFlight \in {None} \cup Nat
    /\ readSomething \in BOOLEAN /\ needRead \in BOOLEAN
    /\ needFlush \in BOOLEAN /\ hasPreview \in BOOLEAN
    /\ initVector \in {FirstVector, JunkVector} \cup Nat
    /\ lengthThisRun \in 0 .. MaxRead
    /\ startOfEncryptBuffer \in {None} \cup 0 .. image.size
    /\ pc \in {"update", "read", "decrypt", "done", "failed"}

\* The header is in place, copied from the block that was read first.
Init ==
    /\ image \in Images
    /\ apple \in BOOLEAN
    /\ buffer = [i \in 0 .. image.size - 1 |->
                   IF i < Header THEN [from |-> Extent(1).offset + i,
                                       form |-> "stored"]
                   ELSE NotRead]
    /\ readBuffer = Header
    /\ readOffset = Extent(1).offset + Header
    /\ extentLength = Extent(1).length - Header
    /\ nextExtent = 2
    /\ leftLength = image.size - Header
    /\ readSomething = FALSE /\ needRead = TRUE /\ needFlush = TRUE
    /\ lengthThisRun = 0
    /\ inFlight = None
    /\ startOfEncryptBuffer = IF image.encryptStart = 0 THEN None
                                                       ELSE image.encryptStart
    /\ initVector = FirstVector
    /\ hasPreview = (image.previewEnd > 0)
    /\ pc = "update"

-----------------------------------------------------------------------------
\* One part of the loop's body passes without effect.
Goto(next) ==
    /\ pc' = next
    /\ UNCHANGED <<fixed, buffer, reader, nextExtent, request, cipher>>

\* A read of n cells at the disk offset lands at the read pointer.
Landed(b, offset, n) ==
    [i \in DOMAIN b |->
        IF i \in Cells(readBuffer, readBuffer + n)
          THEN [from |-> offset + (i - readBuffer), form |-> "stored"]
          ELSE b[i]]

\* The head of the loop: leave it, or account for the last read. Only a
\* successful flush (asynchronous reads) moves the read pointer. A flush that
\* fails is tried again in the next turn.
Leave ==
    /\ pc = "update"
    /\ startOfEncryptBuffer = None /\ leftLength = 0
    /\ Goto("done")

InLoop == pc = "update" /\ ~(startOfEncryptBuffer = None /\ leftLength = 0)

\* A read is accounted for without waiting for the disk.
Account_NoFlush ==
    /\ InLoop
    /\ readSomething
    /\ readSomething' = FALSE
    /\ leftLength' = leftLength - lengthThisRun
    /\ extentLength' = extentLength - lengthThisRun
    /\ readBuffer' = readBuffer + lengthThisRun
    /\ readOffset' = readOffset + lengthThisRun
    /\ needRead' = (leftLength' # 0)
    /\ needFlush' = TRUE
    /\ pc' = "read"
    /\ UNCHANGED <<fixed, buffer, nextExtent, lengthThisRun, inFlight, cipher>>

Account ==
    /\ InLoop
    /\ readSomething
    /\ buffer' = IF needFlush THEN Landed(buffer, inFlight, lengthThisRun)
                              ELSE buffer
    /\ inFlight' = None
    /\ readSomething' = FALSE
    /\ leftLength' = leftLength - lengthThisRun
    /\ extentLength' = extentLength - lengthThisRun
    /\ readBuffer' = readBuffer + lengthThisRun
    /\ readOffset' = readOffset + lengthThisRun
    /\ needRead' = (leftLength' # 0)
    /\ needFlush' = TRUE
    /\ pc' = "read"
    /\ UNCHANGED <<fixed, nextExtent, lengthThisRun, cipher>>

FlushFails ==
    /\ InLoop
    /\ readSomething /\ needFlush
    /\ Goto("read")

NothingRead ==
    /\ InLoop
    /\ ~readSomething
    /\ Goto("read")

-----------------------------------------------------------------------------
\* The next extent is taken from the map when the current one is used up.
\* From the third on, the map entry is itself part of the image.
AtExtent ==
    IF extentLength = 0
      THEN [length |-> Extent(nextExtent).length,
            offset |-> Extent(nextExtent).offset, next |-> nextExtent + 1]
      ELSE [length |-> extentLength, offset |-> readOffset,
            next |-> nextExtent]

\* The length of a read ignores the end of the extent.
RunLength_PastExtent(extent) ==
    LET toPreview == IF readBuffer < image.previewEnd
                       THEN Smaller(leftLength, image.previewEnd - readBuffer)
                       ELSE leftLength
    IN  Smaller(toPreview, MaxRead)

\* A read ends with the extent, with the preview, or at the limit.
RunLength(extent) ==
    LET inExtent == Smaller(leftLength, extent.length)
        toPreview == IF readBuffer < image.previewEnd
                       THEN Smaller(inExtent, image.previewEnd - readBuffer)
                       ELSE inExtent
    IN  Smaller(toPreview, MaxRead)

SkipRead ==
    /\ pc = "read"
    /\ ~needRead
    /\ Goto("decrypt")

\* With the disk I/O protocol the data is there when the call returns; with
\* Apple's own, which counts from the start of the device (DeviceBase, a
\* multiple of BlockSize), it arrives until the flush. Any error gives the
\* resume up.
StartRead ==
    /\ pc = "read"
    /\ needRead
    /\ needRead' = FALSE
    /\ extentLength' = AtExtent.length
    /\ readOffset' = AtExtent.offset
    /\ nextExtent' = AtExtent.next
    /\ lengthThisRun' = RunLength(AtExtent)
    /\ readSomething' = TRUE
    /\ IF apple
         THEN /\ inFlight' = AtExtent.offset
              /\ UNCHANGED <<buffer, needFlush>>
              /\ pc' = IF AtExtent.offset % BlockSize # 0
                            \/ RunLength(AtExtent) % BlockSize # 0
                         THEN "failed" ELSE "decrypt"
         ELSE /\ buffer' = Landed(buffer, AtExtent.offset,
                                  RunLength(AtExtent))
              /\ needFlush' = FALSE
              /\ UNCHANGED inFlight
              /\ pc' = "decrypt"
    /\ UNCHANGED <<fixed, readBuffer, leftLength, cipher>>

ReadFails ==
    /\ pc = "read"
    /\ needRead
    /\ Goto("failed")

-----------------------------------------------------------------------------
\* What may be decrypted now: up to the read pointer, not past the end of
\* the encrypted part.
DecryptLength ==
    Smaller(Smaller(readBuffer, image.encryptEnd) - startOfEncryptBuffer,
            MaxDecrypt)

\* Cipher block chaining: a cell is recovered from its own ciphertext and
\* that of the cell before; for the first cell of a run this is initVector.
Decrypted(b, a, n) ==
    [i \in DOMAIN b |->
        IF i \in Cells(a, a + n)
          THEN [from |-> IF /\ initVector = IF a = image.encryptStart
                                              THEN FirstVector ELSE a - 1
                            /\ \A j \in Cells(a, a + n) : b[j].form = "stored"
                           THEN b[i].from ELSE None,
                form |-> "clear"]
          ELSE b[i]]

\* The vector is saved only after the run was decrypted in place.
NextVector_Late(b, a, n) == JunkVector

\* The last ciphertext of the run is saved before it is decrypted in place.
NextVector(b, a, n) ==
    IF b[a + n - 1].form = "stored" /\ b[a + n - 1].from # None
      THEN a + n - 1 ELSE JunkVector

\* The end of the encrypted part is missed when it is met exactly.
EncryptDone_Past(a) == a > image.encryptEnd
EncryptDone(a) == a >= image.encryptEnd

\* The preview is drawn one run too early.
PreviewDone_Read(a) == readBuffer >= image.previewEnd
PreviewDone(a) == a >= image.previewEnd

Decrypt ==
    /\ pc = "decrypt"
    /\ startOfEncryptBuffer # None
    /\ readBuffer > startOfEncryptBuffer
    /\ LET a == startOfEncryptBuffer
           n == DecryptLength
       IN  /\ initVector' = NextVector(buffer, a, n)
           /\ buffer' = Decrypted(buffer, a, n)
           /\ startOfEncryptBuffer' = IF EncryptDone(a + n) THEN None
                                                           ELSE a + n
           /\ hasPreview' = (hasPreview /\ ~PreviewDone(a + n))
    /\ pc' = "update"
    /\ UNCHANGED <<fixed, reader, nextExtent, request>>

SkipDecrypt ==
    /\ pc = "decrypt"
    /\ startOfEncryptBuffer = None \/ readBuffer <= startOfEncryptBuffer
    /\ Goto("update")

\* The file position where an extent begins is not on the disk: it is the
\* length of the extents before it, kept here to say where a cell belongs.
OnDisk(i, d) ==
    \E k \in 1 .. Len(image.extents) :
        /\ Extent(k).start <= i /\ i < Extent(k).start + Extent(k).length
        /\ d = Extent(k).offset + (i - Extent(k).start)

Encrypted(i) == image.encryptStart > 0 /\ image.encryptStart <= i
                                       /\ i < image.encryptEnd

\* The cell holds what the kernel wrote at this position of the file.
Recovered(i) == /\ OnDisk(i, buffer[i].from)
                /\ buffer[i].form = IF Encrypted(i) THEN "clear" ELSE "stored"

Step == \/ Leave \/ Account \/ NothingRead \/ SkipRead \/ StartRead
        \/ Decrypt \/ SkipDecrypt
Next == Step \/ FlushFails \/ ReadFails

Spec == Init /\ [][Next]_vars

\* The loop runs on, and a flush does not fail for ever.
FairSpec == Spec /\ WF_vars(Step) /\ SF_vars(Account)

-----------------------------------------------------------------------------
\* When the loop is over, image1Buffer holds the whole image: every cell read
\* from the place of the disk where the extent map has it, every cell of the
\* encrypted part decrypted once with the ciphertext before it, and no other
\* cell decrypted (Hibernate.c:575-719).
ImageIsExact ==
    pc = "done" => \A i \in DOMAIN buffer : Recovered(i)

\* A read asked for stays inside the current extent and inside image1Buffer.
ReadsFit ==
    readSomething => /\ lengthThisRun > 0
                     /\ lengthThisRun <= extentLength
                     /\ readBuffer + lengthThisRun <= image.size

\* The entries of the extent map from the third on come with the image. Each
\* is in memory, and not yet touched by the decryption, when the loop follows
\* it (Hibernate.c:602-604).
ExtentEntryIsRead ==
    pc = "read" /\ needRead /\ extentLength = 0 /\ nextExtent > 2 =>
        LET i == Header + nextExtent - 3
        IN  OnDisk(i, buffer[i].from) /\ buffer[i].form = "stored"

\* The preview is drawn only when all of it is read and decrypted, although
\* the rest of the image is still on its way (Hibernate.c:694-711).
PreviewIsReady ==
    [][hasPreview /\ ~hasPreview' =>
         \A i \in DOMAIN buffer' : i < image.previewEnd => Recovered(i)']_vars

\* The loop ends: with the image or giving up.
LoopEnds == <>(pc \in {"done", "failed"})
=============================================================================
