----------------------- MODULE HibernateResumeProofs ------------------------
(***************************************************************************)
(* The image is recovered exactly, for every image the kernel may have     *)
(* written and every limit on reads and decryptions; and the resume as a   *)
(* whole implements the read loop, so that everything proved of the loop   *)
(* holds in it, and the kernel is handed the vector it needs, for every    *)
(* size of the records.                                                    *)
(*                                                                         *)
(* The inductive invariant follows the three cursors of the loop: the      *)
(* extent cursor agrees with the read pointer, everything behind the read  *)
(* pointer is the file's content, and what lies behind the decryption      *)
(* pointer (and only that) is decrypted, with the vector of the next cell. *)
(***************************************************************************)
EXTENDS HibernateResume, TLAPS

\* A leaf is Zenon's unless it names the SMT solver, which is for arithmetic.
USE ZenonT(40), SMTT(15), Z3T(15)

-----------------------------------------------------------------------------
(* The read loop.                                                          *)

\* The extent the loop is in.
Current == Extent(nextExtent - 1)

\* Where the decryption is: the cells of the encrypted part before this.
Front == IF startOfEncryptBuffer = None THEN image.encryptEnd
                                        ELSE startOfEncryptBuffer

CellOK(i) == /\ OnDisk(i, buffer[i].from)
             /\ buffer[i].form = IF Encrypted(i) /\ i < Front
                                   THEN "clear" ELSE "stored"

Cursor ==
    /\ readBuffer + leftLength = image.size
    /\ Current.start <= readBuffer
    /\ readOffset = Current.offset + (readBuffer - Current.start)
    /\ extentLength = Current.start + Current.length - readBuffer
    /\ nextExtent > 2 => Current.start >= Header + nextExtent - 3

Requests ==
    /\ needRead = TRUE => leftLength > 0 /\ readSomething = FALSE
    /\ readSomething = FALSE => needFlush = TRUE
    /\ readSomething = TRUE /\ needFlush = TRUE => inFlight = readOffset
    /\ readSomething = TRUE /\ needFlush = FALSE =>
         \A i \in Cells(readBuffer, readBuffer + lengthThisRun) : CellOK(i)

Decryption ==
    /\ startOfEncryptBuffer # None =>
         /\ image.encryptStart > 0
         /\ image.encryptStart <= startOfEncryptBuffer
         /\ startOfEncryptBuffer < image.encryptEnd
         /\ startOfEncryptBuffer <= readBuffer
              \/ startOfEncryptBuffer = image.encryptStart
         /\ initVector = IF startOfEncryptBuffer = image.encryptStart
                           THEN FirstVector ELSE startOfEncryptBuffer - 1
    /\ startOfEncryptBuffer = None /\ image.encryptStart > 0 =>
         image.encryptEnd <= readBuffer

Behind == \A i \in DOMAIN buffer : i < readBuffer => CellOK(i)

AtEnd == pc = "done" => startOfEncryptBuffer = None /\ leftLength = 0

IInv == /\ TypeOK /\ Cursor /\ ReadsFit /\ Requests /\ Decryption
        /\ Behind /\ AtEnd

-----------------------------------------------------------------------------
\* What ImagesAssumption says of the image being read.
LEMMA ImageFacts ==
    ASSUME image \in Images
    PROVE  /\ image.size \in Nat /\ image.encryptStart \in Nat
           /\ image.encryptEnd \in Nat /\ image.previewEnd \in Nat
           /\ Len(image.extents) \in Nat \ {0}
           /\ \A k \in 1 .. Len(image.extents) :
                 /\ Extent(k).offset \in Nat /\ Extent(k).start \in Nat
                 /\ Extent(k).length \in Nat /\ Extent(k).length > 0
           /\ Extent(1).start = 0 /\ Header <= Extent(1).length
           /\ \A k \in 1 .. Len(image.extents) - 1 :
                 Extent(k + 1).start = Extent(k).start + Extent(k).length
           /\ Header < image.size
           /\ image.size <= Extent(Len(image.extents)).start
                              + Extent(Len(image.extents)).length
           /\ image.encryptStart > 0 =>
                 /\ Header <= image.encryptStart
                 /\ image.encryptStart < image.encryptEnd
                 /\ image.encryptEnd <= image.size
                 /\ Header + Len(image.extents) - 2 <= image.encryptStart
  <1> DEFINE E == image.extents
             X == [offset : Nat, length : Nat \ {0}, start : Nat]
  <1>1. E \in Seq(X) /\ Len(E) > 0 BY ImagesAssumption
  <1>2. Len(E) \in Nat \ {0} BY <1>1, SMTT(20)
  <1>3. \A k \in 1 .. Len(E) : E[k] \in X
    <2> HIDE DEF X, E
    <2> QED BY <1>1, SMTT(20)
  <1>4. \A k \in 1 .. Len(E) :
           /\ E[k].offset \in Nat /\ E[k].start \in Nat
           /\ E[k].length \in Nat /\ E[k].length > 0
    BY <1>3, SMTT(20)
  <1>5. \A k \in 1 .. Len(E) - 1 :
           E[k + 1].start = E[k].start + E[k].length
    BY ImagesAssumption
  <1> QED BY <1>2, <1>4, <1>5, ImagesAssumption, SizeAssumption DEF Extent

\* The current extent is an entry of the map.
LEMMA CurrentFacts ==
    ASSUME image \in Images, nextExtent \in 2 .. Len(image.extents) + 1
    PROVE  /\ Current.offset \in Nat /\ Current.start \in Nat
           /\ Current.length \in Nat /\ Current.length > 0
           /\ nextExtent - 1 \in 1 .. Len(image.extents)
  <1>1. nextExtent - 1 \in 1 .. Len(image.extents) BY ImageFacts, SMTT(20)
  <1> QED BY <1>1, ImageFacts DEF Current

\* While there is something left to read, a used-up extent has a successor in
\* the map (Hibernate.c:600-605): the map is never followed past its end.
LEMMA NextExtentExists ==
    ASSUME TypeOK, Cursor, leftLength > 0, extentLength = 0
    PROVE  nextExtent \in 2 .. Len(image.extents)
  <1>1. image \in Images /\ nextExtent \in 2 .. Len(image.extents) + 1
    BY DEF TypeOK
  <1>2. readBuffer \in Nat /\ readBuffer < image.size
    BY <1>1, ImageFacts, SizeAssumption, SMTT(20) DEF TypeOK, Cursor
  <1>3. ASSUME nextExtent = Len(image.extents) + 1 PROVE FALSE
    <2>1. nextExtent - 1 = Len(image.extents)
      BY <1>3, <1>1, ImageFacts, SMTT(20)
    <2>2. Current = Extent(Len(image.extents)) BY <2>1 DEF Current
    <2>3. readBuffer = Current.start + Current.length
      <3> DEFINE st == Current.start
                 ln == Current.length
      <3>1. st \in Nat /\ ln \in Nat BY <1>1, CurrentFacts
      <3>2. 0 = st + ln - readBuffer BY DEF Cursor
      <3> HIDE DEF st, ln
      <3>3. readBuffer = st + ln BY <1>2, <3>1, <3>2, SMTT(20)
      <3> QED BY <3>3 DEF st, ln
    <2> QED BY <2>2, <2>3, <1>1, <1>2, ImageFacts, SMTT(20)
  <1> QED BY <1>1, <1>3, ImageFacts, SMTT(20)

\* The loop starts with the header in place and nothing else.
LEMMA InitIInv == Init => IInv
  <1> SUFFICES ASSUME Init PROVE IInv OBVIOUS
  <1>0. image \in Images BY DEF Init
  <1>1. /\ Header \in Nat /\ Header > 0 /\ MaxRead \in Nat
    BY SizeAssumption, SMTT(20)
  <1>2. nextExtent - 1 = 1 BY SMTT(20) DEF Init
  <1>3. \A i \in DOMAIN buffer : i < Header =>
          /\ buffer[i].from = Extent(1).offset + i
          /\ buffer[i].form = "stored"
    BY DEF Init
  <1>4. DOMAIN buffer = 0 .. image.size - 1 BY DEF Init
  <1>12. /\ Extent(1).offset \in Nat /\ Extent(1).start = 0
         /\ Extent(1).length \in Nat /\ Header <= Extent(1).length
         /\ image.size \in Nat /\ Header < image.size
    BY <1>0, ImageFacts, SMTT(20)
  <1>13. /\ Len(image.extents) \in Nat \ {0} /\ Current = Extent(1)
         /\ readOffset = Extent(1).offset + Header
         /\ extentLength = Extent(1).length - Header
    BY <1>0, <1>2, ImageFacts DEF Init, Current
  <1>5. TypeOK
    <2>1. buffer \in [0 .. image.size - 1 ->
                        [from : {None} \cup Nat, form : {"stored", "clear"}]]
      <3>1. buffer = [i \in 0 .. image.size - 1 |->
                        IF i < Header THEN [from |-> Extent(1).offset + i,
                                            form |-> "stored"]
                        ELSE NotRead]
        BY DEF Init
      <3>2. \A i \in 0 .. image.size - 1 : Extent(1).offset + i \in Nat
        BY <1>12, SMTT(20)
      <3>3. NotRead \in [from : {None} \cup Nat, form : {"stored", "clear"}]
        BY DEF NotRead
      <3> QED BY <3>1, <3>2, <3>3
    <2>2. startOfEncryptBuffer \in {None} \cup 0 .. image.size
      BY <1>0, <1>1, ImageFacts, SMTT(20) DEF Init
    <2>3. /\ readBuffer \in Header .. image.size
          /\ leftLength \in 0 .. image.size
          /\ nextExtent \in 2 .. Len(image.extents) + 1
          /\ lengthThisRun \in 0 .. MaxRead
      <3>1. /\ readBuffer = Header /\ leftLength = image.size - Header
            /\ nextExtent = 2 /\ lengthThisRun = 0
        BY DEF Init
      <3>2. /\ readBuffer \in Header .. image.size
            /\ leftLength \in 0 .. image.size
        BY <1>1, <1>12, <3>1, SMTT(20)
      <3>3. nextExtent \in 2 .. Len(image.extents) + 1 BY <1>13, <3>1, SMTT(20)
      <3> QED BY <1>1, <3>1, <3>2, <3>3, SMTT(20)
    <2>7. extentLength \in Nat /\ readOffset \in Nat
      BY <1>1, <1>12, <1>13, SMTT(20)
    <2>4. /\ readSomething \in BOOLEAN /\ needRead \in BOOLEAN
          /\ needFlush \in BOOLEAN
          /\ apple \in BOOLEAN
      BY DEF Init
    <2>5. hasPreview \in BOOLEAN
      BY SMTT(20) DEF Init
    <2>6. /\ initVector \in {FirstVector, JunkVector} \cup Nat
          /\ inFlight \in {None} \cup Nat
          /\ pc \in {"update", "read", "decrypt", "done", "failed"}
      BY DEF Init
    <2> QED BY <1>0, <2>1, <2>2, <2>3, <2>4, <2>5, <2>6, <2>7 DEF TypeOK
  <1>6. Cursor
    BY <1>1, <1>12, <1>13, SMTT(30) DEF Init, Cursor
  <1>7. ReadsFit BY DEF Init, ReadsFit
  <1>8. Requests
    BY <1>0, <1>1, ImageFacts, SMTT(20) DEF Init, Requests
  <1>9. Decryption
    BY <1>0, <1>1, ImageFacts, SMTT(20) DEF Init, Decryption, None
  <1>10. Behind
    <2> SUFFICES ASSUME NEW i \in DOMAIN buffer, i < readBuffer
                 PROVE  CellOK(i)
      BY DEF Behind
    <2>1. i \in Nat /\ i < Header BY <1>0, <1>1, <1>4, ImageFacts, SMTT(20) DEF Init
    <2>2. OnDisk(i, buffer[i].from)
      BY <2>1, <1>0, <1>1, <1>3, ImageFacts, SMTT(30) DEF OnDisk
    <2>3. ~(Encrypted(i) /\ i < Front)
      BY <2>1, <1>0, <1>1, ImageFacts, SMTT(20) DEF Encrypted
    <2> QED BY <2>1, <2>2, <2>3, <1>3 DEF CellOK
  <1>11. AtEnd BY DEF Init, AtEnd
  <1> QED BY <1>5, <1>6, <1>7, <1>8, <1>9, <1>10, <1>11 DEF IInv

-----------------------------------------------------------------------------
\* The part of the state a step leaves alone keeps its invariants: what is
\* said of a cell depends on the image, the cell and the decryption pointer.
LEMMA CellOKKept ==
    ASSUME NEW i, CellOK(i), image' = image, buffer'[i] = buffer[i],
           startOfEncryptBuffer' = startOfEncryptBuffer
    PROVE  CellOK(i)'
  BY DEF CellOK, OnDisk, Extent, Encrypted, Front

\* A part of the loop that passes without effect keeps the invariant.
LEMMA GotoKeeps ==
    ASSUME IInv, NEW p \in {"update", "read", "decrypt", "done", "failed"},
           Goto(p),
           p = "done" => startOfEncryptBuffer = None /\ leftLength = 0
    PROVE  IInv'
  <1> USE DEF Goto, fixed, reader, request, cipher
  <1>1. TypeOK' BY SMTT(20) DEF IInv, TypeOK
  <1>2. Cursor' BY DEF IInv, Cursor, Current, Extent
  <1>3. ReadsFit' BY DEF IInv, ReadsFit
  <1>4. Requests'
    BY CellOKKept DEF IInv, Requests, Cells
  <1>5. Decryption' BY DEF IInv, Decryption
  <1>6. Behind' BY CellOKKept DEF IInv, Behind
  <1>7. AtEnd' BY DEF IInv, AtEnd
  <1> QED BY <1>1, <1>2, <1>3, <1>4, <1>5, <1>6, <1>7 DEF IInv

\* The decryption has not reached the read pointer.
LEMMA AheadIsStored ==
    ASSUME TypeOK, Decryption, NEW i \in Nat, readBuffer <= i
    PROVE  ~(Encrypted(i) /\ i < Front)
  <1>1. image \in Images /\ readBuffer \in Nat
    BY SizeAssumption, ImageFacts, SMTT(20) DEF TypeOK
  <1>2. CASE startOfEncryptBuffer = None
    BY <1>1, <1>2, ImageFacts, SMTT(20) DEF Decryption, Encrypted, Front
  <1>3. CASE startOfEncryptBuffer # None
    <2>1. startOfEncryptBuffer \in Nat
      BY <1>1, <1>3, ImageFacts, SMTT(20) DEF TypeOK
    <2> QED BY <1>1, <1>3, <2>1, ImageFacts, SMTT(20) DEF Decryption, Encrypted, Front
  <1> QED BY <1>2, <1>3

\* A read at the place of the extent map that belongs to the read pointer
\* brings the cells their content.
LEMMA LandedOK ==
    ASSUME TypeOK, Decryption, NEW k \in 1 .. Len(image.extents),
           NEW n \in Nat, NEW offset \in Nat,
           Extent(k).start <= readBuffer,
           readBuffer + n <= Extent(k).start + Extent(k).length,
           offset = Extent(k).offset + (readBuffer - Extent(k).start),
           NEW i \in Cells(readBuffer, readBuffer + n)
    PROVE  /\ i \in 0 .. image.size - 1 /\ readBuffer <= i
           /\ i < readBuffer + n
           /\ OnDisk(i, Landed(buffer, offset, n)[i].from)
           /\ Landed(buffer, offset, n)[i].form = "stored"
           /\ ~(Encrypted(i) /\ i < Front)
  <1>1. image \in Images /\ readBuffer \in Nat
    BY SizeAssumption, ImageFacts, SMTT(20) DEF TypeOK
  <1>2. /\ i \in 0 .. image.size - 1 /\ i \in Nat
        /\ readBuffer <= i /\ i < readBuffer + n
    BY <1>1, ImageFacts, SMTT(20) DEF Cells
  <1>3. i \in DOMAIN buffer BY <1>2 DEF TypeOK
  <1>4. Landed(buffer, offset, n)[i] = [from |-> offset + (i - readBuffer),
                                        form |-> "stored"]
    BY <1>3 DEF Landed
  <1>5. /\ Extent(k).offset \in Nat /\ Extent(k).start \in Nat
        /\ Extent(k).length \in Nat
    BY <1>1, ImageFacts
  <1>6. /\ Extent(k).start <= i /\ i < Extent(k).start + Extent(k).length
        /\ offset + (i - readBuffer) = Extent(k).offset + (i - Extent(k).start)
    <2> DEFINE st == Extent(k).start
               ln == Extent(k).length
               of == Extent(k).offset
    <2>1. /\ st \in Nat /\ ln \in Nat /\ of \in Nat /\ st <= readBuffer
          /\ readBuffer + n <= st + ln /\ offset = of + (readBuffer - st)
      BY <1>5
    <2> HIDE DEF st, ln, of
    <2>2. /\ st <= i /\ i < st + ln /\ offset + (i - readBuffer) = of + (i - st)
      BY <1>1, <1>2, <2>1, SMTT(20)
    <2> QED BY <2>2 DEF st, ln, of
  <1>7. OnDisk(i, offset + (i - readBuffer)) BY <1>6 DEF OnDisk
  <1>8. ~(Encrypted(i) /\ i < Front) BY <1>2, AheadIsStored
  <1> QED BY <1>2, <1>4, <1>7, <1>8, SMTT(20)

\* What landed is typed like the buffer, and the rest is not touched.
LEMMA LandedType ==
    ASSUME TypeOK, NEW n \in Nat, NEW offset \in Nat
    PROVE  /\ Landed(buffer, offset, n) \in
                [0 .. image.size - 1 ->
                   [from : {None} \cup Nat, form : {"stored", "clear"}]]
           /\ \A i \in DOMAIN buffer : i < readBuffer =>
                 Landed(buffer, offset, n)[i] = buffer[i]
  <1>1. image \in Images /\ readBuffer \in Nat
    BY SizeAssumption, ImageFacts, SMTT(20) DEF TypeOK
  <1>2. DOMAIN buffer = 0 .. image.size - 1 BY DEF TypeOK
  <1>3. ASSUME NEW i \in DOMAIN buffer
        PROVE  /\ Landed(buffer, offset, n)[i] \in
                    [from : {None} \cup Nat, form : {"stored", "clear"}]
               /\ i < readBuffer => Landed(buffer, offset, n)[i] = buffer[i]
    <2>1. CASE i \in Cells(readBuffer, readBuffer + n)
      <3>1. i \in Nat /\ readBuffer <= i BY <2>1, <1>1, ImageFacts, SMTT(20) DEF Cells
      <3>2. offset + (i - readBuffer) \in Nat BY <3>1, <1>1, SMTT(20)
      <3>3. Landed(buffer, offset, n)[i] =
              [from |-> offset + (i - readBuffer), form |-> "stored"]
        BY <2>1 DEF Landed
      <3> QED BY <3>1, <3>2, <3>3, <1>1, SMTT(20)
    <2>2. CASE i \notin Cells(readBuffer, readBuffer + n)
      <3>1. Landed(buffer, offset, n)[i] = buffer[i] BY <2>2 DEF Landed
      <3> QED BY <3>1 DEF TypeOK
    <2> QED BY <2>1, <2>2
  <1>4. Landed(buffer, offset, n) =
          [i \in DOMAIN buffer |-> Landed(buffer, offset, n)[i]]
    BY DEF Landed
  <1> QED BY <1>2, <1>3, <1>4

-----------------------------------------------------------------------------
\* A finished read is accounted for (Hibernate.c:580-592).
LEMMA AccountKeeps == IInv /\ Account => IInv'
  <1> SUFFICES ASSUME IInv, Account PROVE IInv' OBVIOUS
  <1> USE DEF fixed, reader, request, cipher
  <1> DEFINE n == lengthThisRun
  <1>1. /\ TypeOK /\ Cursor /\ ReadsFit /\ Requests /\ Decryption /\ Behind
        /\ readSomething = TRUE
    BY DEF IInv, Account, TypeOK
  <1>2. /\ image \in Images /\ image.size \in Nat /\ Header \in Nat
        /\ readBuffer \in Nat /\ Header <= readBuffer
        /\ leftLength \in Nat /\ extentLength \in Nat
        /\ readOffset \in Nat /\ n \in Nat /\ n > 0 /\ n <= MaxRead
        /\ n <= extentLength /\ readBuffer + n <= image.size
        /\ readBuffer + leftLength = image.size
        /\ MaxRead \in Nat
    BY <1>1, SizeAssumption, ImageFacts, SMTT(20) DEF TypeOK, ReadsFit, Cursor
  <1>3. /\ leftLength' = leftLength - n /\ extentLength' = extentLength - n
        /\ readBuffer' = readBuffer + n /\ readOffset' = readOffset + n
        /\ image' = image /\ nextExtent' = nextExtent
        /\ lengthThisRun' = lengthThisRun
        /\ startOfEncryptBuffer' = startOfEncryptBuffer
        /\ initVector' = initVector /\ inFlight' = None
        /\ readSomething' = FALSE /\ needFlush' = TRUE /\ pc' = "read"
        /\ hasPreview' = hasPreview /\ apple' = apple
    BY DEF Account
  <1>4. needRead' = TRUE => leftLength' # 0
    BY DEF Account
  <1>5. needRead' \in BOOLEAN BY DEF Account
  <1>6. /\ nextExtent - 1 \in 1 .. Len(image.extents)
        /\ Current.offset \in Nat /\ Current.start \in Nat
        /\ Current.length \in Nat
    BY <1>1, CurrentFacts DEF TypeOK
  <1>7. /\ Current.start <= readBuffer
        /\ readBuffer + n <= Current.start + Current.length
        /\ readOffset = Current.offset + (readBuffer - Current.start)
        /\ extentLength = Current.start + Current.length - readBuffer
    BY <1>1, <1>2, <1>6, SMTT(20) DEF Cursor
  <1>8. /\ buffer' \in [0 .. image.size - 1 ->
                          [from : {None} \cup Nat, form : {"stored", "clear"}]]
        /\ \A i \in DOMAIN buffer : i < readBuffer => buffer'[i] = buffer[i]
        /\ \A i \in Cells(readBuffer, readBuffer + n) :
              /\ OnDisk(i, buffer'[i].from) /\ buffer'[i].form = "stored"
              /\ ~(Encrypted(i) /\ i < Front)
    <2>1. CASE needFlush = TRUE
      <3>1. buffer' = Landed(buffer, readOffset, n)
        BY <1>1, <2>1 DEF Account, Requests
      <3>2. \A i \in Cells(readBuffer, readBuffer + n) :
              /\ OnDisk(i, Landed(buffer, readOffset, n)[i].from)
              /\ Landed(buffer, readOffset, n)[i].form = "stored"
              /\ ~(Encrypted(i) /\ i < Front)
        <4>1. /\ Extent(nextExtent - 1).start <= readBuffer
              /\ readBuffer + n <= Extent(nextExtent - 1).start
                                     + Extent(nextExtent - 1).length
              /\ readOffset = Extent(nextExtent - 1).offset
                              + (readBuffer - Extent(nextExtent - 1).start)
          BY <1>7 DEF Current
        <4>2. TypeOK /\ Decryption /\ n \in Nat /\ readOffset \in Nat
              /\ nextExtent - 1 \in 1 .. Len(image.extents)
          BY <1>1, <1>2, <1>6
        <4> HIDE DEF n
        <4> QED BY <4>1, <4>2, LandedOK
      <3> QED BY <1>1, <1>2, <3>1, <3>2, LandedType, SMTT(20)
    <2>2. CASE needFlush = FALSE
      <3>1. buffer' = buffer BY <2>2 DEF Account
      <3>2. ASSUME NEW i \in Cells(readBuffer, readBuffer + n)
            PROVE  /\ OnDisk(i, buffer[i].from) /\ buffer[i].form = "stored"
                   /\ ~(Encrypted(i) /\ i < Front)
        <4>1. i \in Nat /\ readBuffer <= i BY <1>2, SMTT(20) DEF Cells
        <4>2. CellOK(i) BY <1>1, <2>2 DEF Requests
        <4>3. ~(Encrypted(i) /\ i < Front) BY <1>1, <4>1, AheadIsStored
        <4> QED BY <4>2, <4>3 DEF CellOK
      <3> QED BY <1>1, <3>1, <3>2 DEF TypeOK
    <2> QED BY <1>1, <2>1, <2>2 DEF TypeOK
  <1>9. TypeOK'
    <2>1. /\ readBuffer' \in Header .. image.size
          /\ leftLength' \in 0 .. image.size
          /\ extentLength' \in Nat /\ readOffset' \in Nat
      BY <1>2, <1>3, SMTT(20)
    <2> QED BY <1>1, <1>3, <1>5, <1>8, <2>1 DEF TypeOK
  <1>10. Cursor'
    <2>1. Current' = Current BY <1>3 DEF Current, Extent
    <2> DEFINE st == Current.start
               ln == Current.length
               of == Current.offset
    <2>2. /\ st \in Nat /\ ln \in Nat /\ of \in Nat /\ st <= readBuffer
          /\ readOffset = of + (readBuffer - st)
          /\ extentLength = st + ln - readBuffer
          /\ nextExtent > 2 => st >= Header + nextExtent - 3
      BY <1>1, <1>6, <1>7 DEF Cursor
    <2> HIDE DEF n, st, ln, of
    <2>3. /\ readBuffer' + leftLength' = image.size
          /\ st <= readBuffer' /\ readOffset' = of + (readBuffer' - st)
          /\ extentLength' = st + ln - readBuffer'
      BY <1>2, <1>3, <2>2, SMTT(20)
    <2> QED BY <1>3, <2>1, <2>2, <2>3 DEF Cursor, st, ln, of
  <1>11. ReadsFit' BY <1>3 DEF ReadsFit
  <1>12. Requests' BY <1>2, <1>3, <1>4, SMTT(20) DEF Requests
  <1>13. Decryption'
    <2>1. startOfEncryptBuffer # None => startOfEncryptBuffer \in Nat
      BY <1>1, <1>2, SMTT(20) DEF TypeOK
    <2> QED BY <1>1, <1>2, <1>3, <2>1, ImageFacts, SMTT(20) DEF Decryption
  <1>14. Behind'
    <2> SUFFICES ASSUME NEW i \in DOMAIN buffer', i < readBuffer'
                 PROVE  CellOK(i)'
      BY DEF Behind
    <2>1. i \in 0 .. image.size - 1 /\ i \in Nat /\ i \in DOMAIN buffer
      BY <1>1, <1>2, <1>8, SMTT(20) DEF TypeOK
    <2>2. CASE i < readBuffer
      BY <1>1, <1>3, <1>8, <2>1, <2>2, CellOKKept DEF Behind
    <2>3. CASE ~(i < readBuffer)
      <3>1. i \in Cells(readBuffer, readBuffer + n)
        BY <1>2, <1>3, <2>1, <2>3, SMTT(20) DEF Cells
      <3>2. /\ OnDisk(i, buffer'[i].from) /\ buffer'[i].form = "stored"
            /\ ~(Encrypted(i) /\ i < Front)
        BY <1>8, <3>1
      <3> QED BY <1>3, <3>2 DEF CellOK, OnDisk, Extent, Encrypted, Front
    <2> QED BY <2>2, <2>3
  <1>15. AtEnd' BY <1>3 DEF AtEnd
  <1> QED BY <1>9, <1>10, <1>11, <1>12, <1>13, <1>14, <1>15 DEF IInv

\* The place a read starts from belongs to the read pointer, in the current
\* extent or at the beginning of the next, and its length is in bounds
\* (Hibernate.c:597-619).
LEMMA ReadPlace ==
    ASSUME TypeOK, Cursor, leftLength > 0
    PROVE  /\ AtExtent.next \in 2 .. Len(image.extents) + 1
           /\ AtExtent.next - 1 \in 1 .. Len(image.extents)
           /\ AtExtent.offset \in Nat /\ AtExtent.length \in Nat
           /\ RunLength(AtExtent) \in 1 .. MaxRead
           /\ RunLength(AtExtent) <= AtExtent.length
           /\ readBuffer + RunLength(AtExtent) <= image.size
           /\ Extent(AtExtent.next - 1).start <= readBuffer
           /\ AtExtent.offset = Extent(AtExtent.next - 1).offset
                + (readBuffer - Extent(AtExtent.next - 1).start)
           /\ AtExtent.length = Extent(AtExtent.next - 1).start
                + Extent(AtExtent.next - 1).length - readBuffer
           /\ AtExtent.next > 2 =>
                Extent(AtExtent.next - 1).start >= Header + AtExtent.next - 3
  <1>1. /\ image \in Images /\ image.size \in Nat /\ Header \in Nat
        /\ readBuffer \in Nat /\ leftLength \in Nat /\ extentLength \in Nat
        /\ readOffset \in Nat /\ MaxRead \in Nat /\ MaxRead > 0
        /\ readBuffer + leftLength = image.size
        /\ nextExtent \in 2 .. Len(image.extents) + 1
        /\ image.previewEnd \in Nat
        /\ Len(image.extents) \in Nat
    BY SizeAssumption, ImageFacts, SMTT(20) DEF TypeOK, Cursor
  <1>2. /\ Current.offset \in Nat /\ Current.start \in Nat
        /\ Current.length \in Nat
        /\ nextExtent - 1 \in 1 .. Len(image.extents)
    BY <1>1, CurrentFacts
  <1> DEFINE e == Extent(AtExtent.next - 1)
  <1>3. /\ AtExtent.next \in 2 .. Len(image.extents) + 1
        /\ AtExtent.next - 1 \in 1 .. Len(image.extents)
        /\ AtExtent.offset \in Nat /\ AtExtent.length \in Nat
        /\ AtExtent.length > 0
        /\ e.start <= readBuffer
        /\ AtExtent.offset = e.offset + (readBuffer - e.start)
        /\ AtExtent.length = e.start + e.length - readBuffer
        /\ AtExtent.next > 2 => e.start >= Header + AtExtent.next - 3
    <2>1. CASE extentLength # 0
      <3>1. /\ AtExtent.next = nextExtent /\ AtExtent.offset = readOffset
            /\ AtExtent.length = extentLength
        BY <2>1 DEF AtExtent
      <3>2. e = Current BY <3>1 DEF Current
      <3> HIDE DEF e
      <3> QED BY <1>1, <1>2, <2>1, <3>1, <3>2, SMTT(20) DEF Cursor
    <2>2. CASE extentLength = 0
      <3>1. nextExtent \in 2 .. Len(image.extents)
        BY <2>2, NextExtentExists
      <3>2. /\ AtExtent.next = nextExtent + 1
            /\ AtExtent.offset = Extent(nextExtent).offset
            /\ AtExtent.length = Extent(nextExtent).length
        BY <2>2 DEF AtExtent
      <3>3. AtExtent.next - 1 = nextExtent BY <3>1, <3>2, SMTT(20)
      <3>4. e = Extent(nextExtent) BY <3>3
      <3>5. e.offset \in Nat /\ e.start \in Nat /\ e.length \in Nat
            /\ e.length > 0
        BY <1>1, <3>1, <3>4, ImageFacts, SMTT(20)
      <3>6. e.start = Current.start + Current.length
        <4>1. nextExtent - 1 \in 1 .. Len(image.extents) - 1
              /\ (nextExtent - 1) + 1 = nextExtent
          BY <1>1, <3>1, SMTT(20)
        <4> QED BY <1>1, <3>4, <4>1, ImageFacts DEF Current
      <3>7. readBuffer = e.start
        BY <1>1, <1>2, <2>2, <3>5, <3>6, SMTT(20) DEF Cursor
      <3>8. e.start >= Header + nextExtent - 2
        <4>1. CASE nextExtent > 2
          <5>1. Current.start >= Header + nextExtent - 3 /\ Current.length > 0
            BY <1>1, <4>1, CurrentFacts DEF Cursor
          <5> HIDE DEF e
          <5> QED BY <1>1, <1>2, <3>5, <3>6, <5>1, SMTT(20)
        <4>2. CASE nextExtent = 2
          <5>1. nextExtent - 1 = 1 BY <4>2, SMTT(20)
          <5>2. Current = Extent(1) BY <5>1 DEF Current
          <5>3. Current.start = 0 /\ Header <= Current.length
            BY <1>1, <5>2, ImageFacts
          <5> HIDE DEF e
          <5> QED BY <1>1, <1>2, <3>5, <3>6, <4>2, <5>3, SMTT(20)
        <4> QED BY <1>1, <4>1, <4>2, SMTT(20)
      <3>9. AtExtent.offset = e.offset /\ AtExtent.length = e.length
        BY <3>2, <3>4
      <3>10. AtExtent.next > 2 => e.start >= Header + AtExtent.next - 3
        <4> HIDE DEF e
        <4> QED BY <1>1, <3>1, <3>2, <3>5, <3>8, SMTT(20)
      <3>11. /\ AtExtent.next \in 2 .. Len(image.extents) + 1
             /\ AtExtent.next - 1 \in 1 .. Len(image.extents)
        BY <1>1, <3>1, <3>2, SMTT(20)
      <3>12. /\ e.start <= readBuffer
             /\ e.offset = e.offset + (readBuffer - e.start)
             /\ e.length = e.start + e.length - readBuffer
        <4> HIDE DEF e
        <4> QED BY <1>1, <3>5, <3>7, SMTT(20)
      <3>13. /\ AtExtent.offset \in Nat /\ AtExtent.length \in Nat
             /\ AtExtent.length > 0
        BY <3>5, <3>9
      <3> HIDE DEF e
      <3> QED BY <3>9, <3>10, <3>11, <3>12, <3>13
    <2> QED BY <2>1, <2>2
  <1>4. /\ RunLength(AtExtent) \in 1 .. MaxRead
        /\ RunLength(AtExtent) <= AtExtent.length
        /\ RunLength(AtExtent) <= leftLength
    <2> DEFINE x == AtExtent
               inExtent == Smaller(leftLength, x.length)
               toPreview == IF readBuffer < image.previewEnd
                              THEN Smaller(inExtent,
                                           image.previewEnd - readBuffer)
                              ELSE inExtent
    <2>1. RunLength(x) = Smaller(toPreview, MaxRead) BY DEF RunLength
    <2>2. x.length \in Nat /\ x.length > 0 BY <1>3
    <2> HIDE DEF e, x
    <2>3. /\ inExtent \in Nat /\ inExtent > 0 /\ inExtent <= leftLength
          /\ inExtent <= x.length
      BY <1>1, <2>2, SMTT(20) DEF Smaller
    <2> HIDE DEF inExtent
    <2>4. toPreview \in Nat /\ toPreview > 0 /\ toPreview <= inExtent
      BY <1>1, <2>3, SMTT(20) DEF Smaller
    <2> HIDE DEF toPreview
    <2>5. /\ Smaller(toPreview, MaxRead) \in 1 .. MaxRead
          /\ Smaller(toPreview, MaxRead) <= toPreview
      BY <1>1, <2>4, SMTT(20) DEF Smaller
    <2>6. /\ RunLength(x) \in 1 .. MaxRead /\ RunLength(x) <= x.length
          /\ RunLength(x) <= leftLength
      BY <1>1, <2>1, <2>2, <2>3, <2>4, <2>5, SMTT(20)
    <2> QED BY <2>6 DEF x
  <1> QED BY <1>1, <1>3, <1>4, SMTT(20)

\* A read is started (Hibernate.c:597-652).
LEMMA StartReadKeeps == IInv /\ StartRead => IInv'
  <1> SUFFICES ASSUME IInv, StartRead PROVE IInv' OBVIOUS
  <1> USE DEF fixed, reader, request, cipher
  <1> DEFINE n == RunLength(AtExtent)
             k == AtExtent.next - 1
             offset == AtExtent.offset
  <1>1. /\ TypeOK /\ Cursor /\ Requests /\ Decryption /\ Behind
        /\ needRead = TRUE /\ pc = "read"
    BY DEF IInv, StartRead, TypeOK
  <1>2. leftLength > 0 /\ readSomething = FALSE /\ needFlush = TRUE
    BY <1>1 DEF Requests
  <1>3. /\ image \in Images /\ image.size \in Nat
        /\ readBuffer \in Nat /\ MaxRead \in Nat
    BY <1>1, SizeAssumption, ImageFacts, SMTT(20) DEF TypeOK
  <1>4. /\ AtExtent.next \in 2 .. Len(image.extents) + 1
        /\ k \in 1 .. Len(image.extents)
        /\ offset \in Nat /\ AtExtent.length \in Nat
        /\ n \in Nat /\ n > 0 /\ n <= MaxRead /\ n <= AtExtent.length
        /\ readBuffer + n <= image.size
        /\ Extent(k).start <= readBuffer
        /\ offset = Extent(k).offset + (readBuffer - Extent(k).start)
        /\ AtExtent.length = Extent(k).start + Extent(k).length - readBuffer
        /\ AtExtent.next > 2 => Extent(k).start >= Header + AtExtent.next - 3
    BY <1>1, <1>2, <1>3, ReadPlace, SMTT(20)
  <1>5. /\ image' = image /\ apple' = apple /\ readBuffer' = readBuffer
        /\ leftLength' = leftLength
        /\ startOfEncryptBuffer' = startOfEncryptBuffer
        /\ initVector' = initVector /\ hasPreview' = hasPreview
        /\ needRead' = FALSE /\ readSomething' = TRUE
        /\ extentLength' = AtExtent.length /\ readOffset' = offset
        /\ nextExtent' = AtExtent.next /\ lengthThisRun' = n
    BY DEF StartRead
  <1>6. \/ /\ inFlight' = offset /\ buffer' = buffer /\ needFlush' = TRUE
           /\ pc' \in {"failed", "decrypt"}
        \/ /\ buffer' = Landed(buffer, offset, n) /\ needFlush' = FALSE
           /\ inFlight' = inFlight /\ pc' = "decrypt"
    BY <1>2 DEF StartRead
  <1>7. readBuffer + n <= Extent(k).start + Extent(k).length
    <2>1. Extent(k).start \in Nat /\ Extent(k).length \in Nat
      BY <1>3, <1>4, ImageFacts
    <2> HIDE DEF n, k
    <2> QED BY <1>3, <1>4, <2>1, SMTT(20)
  <1>8. \A i \in Cells(readBuffer, readBuffer + n) :
          /\ OnDisk(i, Landed(buffer, offset, n)[i].from)
          /\ Landed(buffer, offset, n)[i].form = "stored"
          /\ ~(Encrypted(i) /\ i < Front)
    <2> HIDE DEF n, k, offset
    <2> QED BY <1>1, <1>4, <1>7, LandedOK
  <1>9. /\ buffer' \in [0 .. image.size - 1 ->
                          [from : {None} \cup Nat, form : {"stored", "clear"}]]
        /\ \A i \in DOMAIN buffer : i < readBuffer => buffer'[i] = buffer[i]
    <2>1. /\ Landed(buffer, offset, n) \in
               [0 .. image.size - 1 ->
                  [from : {None} \cup Nat, form : {"stored", "clear"}]]
          /\ \A i \in DOMAIN buffer : i < readBuffer =>
                Landed(buffer, offset, n)[i] = buffer[i]
      <3>1. n \in Nat /\ offset \in Nat BY <1>4
      <3> HIDE DEF n, offset
      <3> QED BY <1>1, <3>1, LandedType
    <2>2. CASE buffer' = buffer BY <1>1, <2>2 DEF TypeOK
    <2>3. CASE buffer' = Landed(buffer, offset, n) BY <2>1, <2>3
    <2> QED BY <1>6, <2>2, <2>3
  <1>10. TypeOK'
    <2> HIDE DEF n, offset
    <2>1. /\ inFlight' \in {None} \cup Nat /\ needFlush' \in BOOLEAN
          /\ pc' \in {"update", "read", "decrypt", "done", "failed"}
      BY <1>1, <1>4, <1>6 DEF TypeOK
    <2>2. lengthThisRun' \in 0 .. MaxRead BY <1>3, <1>4, <1>5, SMTT(20)
    <2> QED BY <1>1, <1>4, <1>5, <1>9, <2>1, <2>2 DEF TypeOK
  <1>11. Cursor'
    <2>1. Current' = Extent(k) BY <1>5 DEF Current, Extent
    <2>2. readBuffer' + leftLength' = image'.size
      BY <1>1, <1>5 DEF Cursor
    <2> HIDE DEF n, k, offset
    <2> QED BY <1>4, <1>5, <2>1, <2>2 DEF Cursor
  <1>12. ReadsFit'
    <2> HIDE DEF n, offset
    <2> QED BY <1>4, <1>5 DEF ReadsFit
  <1>13. Requests'
    <2>1. ASSUME needFlush' = FALSE,
                 NEW i \in Cells(readBuffer, readBuffer + n)
          PROVE  CellOK(i)'
      <3>1. buffer' = Landed(buffer, offset, n) BY <1>6, <2>1
      <3>2. /\ OnDisk(i, buffer'[i].from) /\ buffer'[i].form = "stored"
            /\ ~(Encrypted(i) /\ i < Front)
        BY <1>8, <3>1
      <3> QED BY <1>5, <3>2 DEF CellOK, OnDisk, Extent, Encrypted, Front
    <2>2. Cells(readBuffer, readBuffer + lengthThisRun)'
            = Cells(readBuffer, readBuffer + n)
      BY <1>5 DEF Cells
    <2>3. needFlush' = TRUE => inFlight' = readOffset'
      BY <1>5, <1>6
    <2> QED BY <1>5, <2>1, <2>2, <2>3 DEF Requests
  <1>14. Decryption' BY <1>1, <1>5 DEF Decryption
  <1>15. Behind'
    <2> SUFFICES ASSUME NEW i \in DOMAIN buffer', i < readBuffer'
                 PROVE  CellOK(i)'
      BY DEF Behind
    <2>1. i \in DOMAIN buffer BY <1>1, <1>9 DEF TypeOK
    <2> QED BY <1>1, <1>5, <1>9, <2>1, CellOKKept DEF Behind
  <1>16. AtEnd' BY <1>6 DEF AtEnd
  <1> QED BY <1>10, <1>11, <1>12, <1>13, <1>14, <1>15, <1>16 DEF IInv

\* What a decryption does to the buffer: the run lies behind the read pointer
\* and inside the encrypted part, its cells keep their origin and become
\* clear, and the vector for the next run is the last ciphertext of this one
\* (Hibernate.c:665-686).
LEMMA DecryptEffect ==
    ASSUME IInv, Decrypt, NEW a, a = startOfEncryptBuffer,
           NEW n, n = DecryptLength
    PROVE  /\ a \in Nat /\ n \in Nat /\ n > 0
           /\ a + n <= readBuffer /\ a + n <= image.encryptEnd
           /\ initVector' = a + n - 1
           /\ DOMAIN buffer' = DOMAIN buffer
           /\ \A i \in DOMAIN buffer :
                 buffer'[i] = IF a <= i /\ i < a + n
                                THEN [from |-> buffer[i].from,
                                      form |-> "clear"]
                                ELSE buffer[i]
  <1>1. TypeOK /\ Cursor /\ Decryption /\ Behind /\ a # None
    BY DEF IInv, Decrypt
  <1>2. /\ image \in Images /\ image.size \in Nat /\ readBuffer \in Nat
        /\ readBuffer <= image.size
        /\ MaxDecrypt \in Nat /\ MaxDecrypt > 0 /\ image.encryptEnd \in Nat
        /\ image.encryptStart \in Nat /\ image.encryptStart > 0
        /\ image.encryptStart <= a /\ a < image.encryptEnd
        /\ a \in Nat /\ a < readBuffer
        /\ initVector = IF a = image.encryptStart THEN FirstVector ELSE a - 1
    BY <1>1, SizeAssumption, ImageFacts, SMTT(20) DEF TypeOK, Decryption, Decrypt
  <1>3. /\ n \in Nat /\ n > 0 /\ a + n <= readBuffer
        /\ a + n <= image.encryptEnd
    BY <1>2, SMTT(20) DEF DecryptLength, Smaller
  <1>4. DOMAIN buffer = 0 .. image.size - 1 BY <1>1 DEF TypeOK
  <1>5. \A i \in DOMAIN buffer :
          i \in Cells(a, a + n) <=> (a <= i /\ i < a + n)
    BY <1>2, <1>3, <1>4 DEF Cells
  <1>6. \A j \in Cells(a, a + n) :
          /\ j \in DOMAIN buffer /\ buffer[j].form = "stored"
          /\ OnDisk(j, buffer[j].from)
    <2> SUFFICES ASSUME NEW j \in Cells(a, a + n)
                 PROVE  /\ j \in DOMAIN buffer /\ buffer[j].form = "stored"
                        /\ OnDisk(j, buffer[j].from)
      OBVIOUS
    <2>1. /\ j \in DOMAIN buffer /\ j \in Nat /\ a <= j /\ j < readBuffer
      BY <1>2, <1>3, <1>4, SMTT(20) DEF Cells
    <2>2. CellOK(j) BY <1>1, <2>1 DEF Behind
    <2>3. ~(j < Front) BY <1>1, <1>2, <2>1, SMTT(20) DEF Front
    <2> QED BY <2>1, <2>2, <2>3 DEF CellOK
  <1>7. /\ initVector' = NextVector(buffer, a, n)
        /\ buffer' = Decrypted(buffer, a, n)
    BY DEF Decrypt
  <1>8. initVector' = a + n - 1
    <2>1. a + n - 1 \in Cells(a, a + n) BY <1>2, <1>3, SMTT(20) DEF Cells
    <2>2. /\ buffer[a + n - 1].form = "stored"
          /\ OnDisk(a + n - 1, buffer[a + n - 1].from)
      BY <1>6, <2>1
    <2>3. buffer[a + n - 1].from # None
      <3> DEFINE m == a + n - 1
                 d == buffer[m].from
      <3>1. m \in Nat BY <1>2, <1>3, SMTT(20)
      <3>2. OnDisk(m, d) BY <2>2
      <3> HIDE DEF m, d
      <3>3. PICK k \in 1 .. Len(image.extents) :
              /\ Extent(k).start <= m
              /\ d = Extent(k).offset + (m - Extent(k).start)
        BY <3>2 DEF OnDisk
      <3>4. Extent(k).offset \in Nat /\ Extent(k).start \in Nat
        BY <1>2, ImageFacts
      <3>5. d # None BY <3>1, <3>3, <3>4, SMTT(20) DEF None
      <3> QED BY <3>5 DEF m, d
    <2> QED BY <1>7, <2>2, <2>3 DEF NextVector
  <1>9. ASSUME NEW i \in DOMAIN buffer
        PROVE  buffer'[i] = IF a <= i /\ i < a + n
                              THEN [from |-> buffer[i].from, form |-> "clear"]
                              ELSE buffer[i]
    <2>1. /\ initVector = IF a = image.encryptStart THEN FirstVector
                                                    ELSE a - 1
          /\ \A j \in Cells(a, a + n) : buffer[j].form = "stored"
      BY <1>2, <1>6
    <2> QED BY <1>5, <1>7, <2>1 DEF Decrypted
  <1>10. DOMAIN buffer' = DOMAIN buffer BY <1>7 DEF Decrypted
  <1> QED BY <1>2, <1>3, <1>8, <1>9, <1>10

\* A run is decrypted (Hibernate.c:665-718).
LEMMA DecryptKeeps == IInv /\ Decrypt => IInv'
  <1> SUFFICES ASSUME IInv, Decrypt PROVE IInv' OBVIOUS
  <1> USE DEF fixed, reader, request, cipher
  <1> DEFINE a == startOfEncryptBuffer
             n == DecryptLength
  <1>1. /\ TypeOK /\ Cursor /\ ReadsFit /\ Requests /\ Decryption /\ Behind
        /\ a # None
    BY DEF IInv, Decrypt
  <1>2. /\ a \in Nat /\ n \in Nat /\ n > 0
        /\ a + n <= readBuffer /\ a + n <= image.encryptEnd
        /\ initVector' = a + n - 1
        /\ DOMAIN buffer' = DOMAIN buffer
        /\ \A i \in DOMAIN buffer :
              buffer'[i] = IF a <= i /\ i < a + n
                             THEN [from |-> buffer[i].from, form |-> "clear"]
                             ELSE buffer[i]
    BY DecryptEffect
  <1>3. /\ image' = image /\ apple' = apple /\ readBuffer' = readBuffer
        /\ leftLength' = leftLength /\ extentLength' = extentLength
        /\ readOffset' = readOffset /\ nextExtent' = nextExtent
        /\ needRead' = needRead /\ readSomething' = readSomething
        /\ needFlush' = needFlush /\ lengthThisRun' = lengthThisRun
        /\ inFlight' = inFlight /\ pc' = "update"
    BY DEF Decrypt
  <1>4. startOfEncryptBuffer' = IF a + n >= image.encryptEnd THEN None
                                                             ELSE a + n
    BY DEF Decrypt, EncryptDone
  <1>5. hasPreview' \in BOOLEAN BY DEF Decrypt
  <1>6. /\ image \in Images /\ image.size \in Nat /\ readBuffer \in Nat
        /\ readBuffer <= image.size /\ image.encryptEnd \in Nat
        /\ image.encryptStart \in Nat /\ image.encryptStart > 0
        /\ image.encryptStart <= a /\ Header \in Nat
        /\ DOMAIN buffer = 0 .. image.size - 1
    BY <1>1, SizeAssumption, ImageFacts, SMTT(20) DEF TypeOK, Decryption
  <1> HIDE DEF n
  <1>7. Front' = a + n
    <2>1. CASE a + n >= image.encryptEnd
      <3>1. a + n = image.encryptEnd BY <1>2, <1>6, <2>1, SMTT(20)
      <3> QED BY <1>3, <1>4, <2>1, <3>1 DEF Front
    <2>2. CASE ~(a + n >= image.encryptEnd)
      <3>1. a + n # None BY <1>2, SMTT(20) DEF None
      <3> QED BY <1>4, <2>2, <3>1 DEF Front
    <2> QED BY <2>1, <2>2
  <1>8. TypeOK'
    <2>1. buffer' \in [0 .. image.size - 1 ->
                         [from : {None} \cup Nat, form : {"stored", "clear"}]]
      <3>1. ASSUME NEW i \in DOMAIN buffer
            PROVE  buffer'[i] \in [from : {None} \cup Nat,
                                   form : {"stored", "clear"}]
        <4>1. buffer[i] \in [from : {None} \cup Nat,
                             form : {"stored", "clear"}]
          BY <1>1 DEF TypeOK
        <4> QED BY <1>2, <4>1, SMTT(20)
      <3>2. buffer' = [i \in DOMAIN buffer |-> buffer'[i]]
        BY DEF Decrypt, Decrypted
      <3> QED BY <1>6, <3>1, <3>2
    <2>2. startOfEncryptBuffer' \in {None} \cup 0 .. image.size
      BY <1>2, <1>4, <1>6, SMTT(20)
    <2>3. initVector' \in Nat BY <1>2, SMTT(20)
    <2> QED BY <1>1, <1>3, <1>5, <2>1, <2>2, <2>3 DEF TypeOK
  <1>9. Cursor' BY <1>1, <1>3 DEF Cursor, Current, Extent
  <1>10. ReadsFit' BY <1>1, <1>3 DEF ReadsFit
  <1>11. ASSUME NEW i \in DOMAIN buffer, CellOK(i)
         PROVE  CellOK(i)'
    <2>1. i \in Nat BY <1>6, SMTT(20)
    <2>2. Front = a BY <1>1 DEF Front
    <2>3. OnDisk(i, buffer'[i].from)
      <3>1. buffer'[i].from = buffer[i].from BY <1>2, SMTT(20)
      <3> QED BY <1>11, <3>1 DEF CellOK
    <2>4. buffer'[i].form = IF Encrypted(i) /\ i < a + n THEN "clear"
                                                         ELSE "stored"
      <3>1. CASE a <= i /\ i < a + n
        <4>1. Encrypted(i) BY <1>2, <1>6, <2>1, <3>1, SMTT(20) DEF Encrypted
        <4> QED BY <1>2, <3>1, <4>1, SMTT(20)
      <3>2. CASE ~(a <= i /\ i < a + n)
        <4>1. buffer'[i] = buffer[i] BY <1>2, <3>2
        <4>2. CASE i < a
          <5>1. i < a + n BY <1>2, <2>1, <4>2, SMTT(20)
          <5> QED BY <1>11, <2>2, <4>1, <4>2, <5>1 DEF CellOK
        <4>3. CASE ~(i < a)
          <5>1. ~(i < a + n) BY <1>2, <2>1, <3>2, <4>3, SMTT(20)
          <5> QED BY <1>11, <2>2, <4>1, <4>3, <5>1 DEF CellOK
        <4> QED BY <4>2, <4>3
      <3> QED BY <3>1, <3>2
    <2> QED BY <1>3, <1>7, <2>3, <2>4 DEF CellOK, OnDisk, Extent, Encrypted
  <1>12. Requests'
    <2>1. \A i \in Cells(readBuffer, readBuffer + lengthThisRun) :
             i \in DOMAIN buffer
      BY <1>6 DEF Cells
    <2>2. Cells(readBuffer, readBuffer + lengthThisRun)'
            = Cells(readBuffer, readBuffer + lengthThisRun)
      BY <1>3 DEF Cells
    <2> QED BY <1>1, <1>3, <1>11, <2>1, <2>2 DEF Requests
  <1>13. Decryption'
    BY <1>2, <1>3, <1>4, <1>6, SMTT(20) DEF Decryption, None
  <1>14. Behind'
    BY <1>1, <1>2, <1>3, <1>11 DEF Behind
  <1>15. AtEnd' BY <1>3 DEF AtEnd
  <1> QED BY <1>8, <1>9, <1>10, <1>12, <1>13, <1>14, <1>15 DEF IInv

-----------------------------------------------------------------------------
\* Every step of the loop keeps the invariant.
LEMMA NextIInv == IInv /\ [Next]_vars => IInv'
  <1> SUFFICES ASSUME IInv, [Next]_vars PROVE IInv' OBVIOUS
  <1>1. CASE Leave BY <1>1, GotoKeeps DEF Leave
  <1>2. CASE Account BY <1>2, AccountKeeps
  <1>3. CASE NothingRead BY <1>3, GotoKeeps DEF NothingRead
  <1>4. CASE SkipRead BY <1>4, GotoKeeps DEF SkipRead
  <1>5. CASE StartRead BY <1>5, StartReadKeeps
  <1>6. CASE Decrypt BY <1>6, DecryptKeeps
  <1>7. CASE SkipDecrypt BY <1>7, GotoKeeps DEF SkipDecrypt
  <1>8. CASE FlushFails BY <1>8, GotoKeeps DEF FlushFails
  <1>9. CASE ReadFails BY <1>9, GotoKeeps DEF ReadFails
  <1>10. CASE UNCHANGED vars
    <2>1. pc \in {"update", "read", "decrypt", "done", "failed"}
      BY DEF IInv, TypeOK
    <2>2. Goto(pc)
      BY <1>10 DEF vars, Goto, fixed, reader, request, cipher
    <2>3. pc = "done" => startOfEncryptBuffer = None /\ leftLength = 0
      BY DEF IInv, AtEnd
    <2> QED BY <2>1, <2>2, <2>3, GotoKeeps
  <1> QED BY <1>1, <1>2, <1>3, <1>4, <1>5, <1>6, <1>7, <1>8, <1>9, <1>10
          DEF Next, Step

\* The invariant holds of every run of the loop.
LEMMA AlwaysIInv == Spec => []IInv
  BY InitIInv, NextIInv, PTL DEF Spec

\* Every cursor and length of the loop stays in its range (Hibernate.c:504-719).
THEOREM ImageTypeOK == Spec => []TypeOK
  <1>1. IInv => TypeOK BY DEF IInv
  <1> QED BY <1>1, AlwaysIInv, PTL

\* A read never leaves its extent or the buffer, for every layout of the file
\* (Hibernate.c:597-619).
THEOREM ReadsAlwaysFit == Spec => []ReadsFit
  <1>1. IInv => ReadsFit BY DEF IInv
  <1> QED BY <1>1, AlwaysIInv, PTL

\* When the loop is over the whole image is in the buffer, read from the right
\* places and decrypted exactly once (Hibernate.c:575-719).
THEOREM ImageExact == Spec => []ImageIsExact
  <1>1. IInv => ImageIsExact
    <2> SUFFICES ASSUME IInv, pc = "done", NEW i \in DOMAIN buffer
                 PROVE  Recovered(i)
      BY DEF ImageIsExact
    <2>1. /\ TypeOK /\ startOfEncryptBuffer = None /\ leftLength = 0
          /\ Behind /\ Cursor
      BY DEF IInv, AtEnd
    <2>2. /\ image \in Images /\ image.size \in Nat /\ i \in Nat
          /\ i < image.size /\ readBuffer \in Nat
      BY <2>1, SizeAssumption, ImageFacts, SMTT(20) DEF TypeOK
    <2>3. i < readBuffer BY <2>1, <2>2, SMTT(20) DEF Cursor
    <2>4. CellOK(i) BY <2>1, <2>3 DEF Behind
    <2>5. Encrypted(i) => i < Front BY <2>1 DEF Encrypted, Front
    <2> QED BY <2>4, <2>5 DEF CellOK, Recovered
  <1> QED BY <1>1, AlwaysIInv, PTL

\* An entry of the extent map is in memory, and not mistaken for ciphertext,
\* before it is followed (Hibernate.c:600-605).
THEOREM ExtentEntriesRead == Spec => []ExtentEntryIsRead
  <1>1. IInv => ExtentEntryIsRead
    <2> SUFFICES ASSUME IInv, needRead = TRUE, extentLength = 0,
                        nextExtent > 2
                 PROVE  /\ OnDisk(Header + nextExtent - 3,
                                  buffer[Header + nextExtent - 3].from)
                        /\ buffer[Header + nextExtent - 3].form = "stored"
      BY DEF ExtentEntryIsRead, IInv, TypeOK
    <2> DEFINE i == Header + nextExtent - 3
    <2>1. /\ TypeOK /\ Cursor /\ Behind /\ leftLength > 0
      BY DEF IInv, Requests
    <2>2. nextExtent \in 2 .. Len(image.extents) BY <2>1, NextExtentExists
    <2>3. /\ image \in Images /\ image.size \in Nat /\ Header \in Nat
          /\ readBuffer \in Nat /\ readBuffer <= image.size
          /\ Len(image.extents) \in Nat /\ image.encryptStart \in Nat
          /\ image.encryptStart > 0 =>
               Header + Len(image.extents) - 2 <= image.encryptStart
          /\ DOMAIN buffer = 0 .. image.size - 1
      BY <2>1, SizeAssumption, ImageFacts, SMTT(20) DEF TypeOK
    <2>4. /\ Current.start \in Nat /\ Current.length \in Nat
          /\ Current.length > 0
      BY <2>1, CurrentFacts DEF TypeOK
    <2>5. i \in Nat /\ i < readBuffer
      <3>1. /\ Current.start >= Header + nextExtent - 3
            /\ readBuffer = Current.start + Current.length
        <4> DEFINE st == Current.start
                   ln == Current.length
        <4>1. /\ st \in Nat /\ ln \in Nat
              /\ extentLength = st + ln - readBuffer
              /\ st >= Header + nextExtent - 3
          BY <2>1, <2>4 DEF Cursor
        <4> HIDE DEF st, ln
        <4>2. readBuffer = st + ln BY <2>3, <4>1, SMTT(20)
        <4> QED BY <4>1, <4>2 DEF st, ln
      <3> QED BY <2>2, <2>3, <2>4, <3>1, SMTT(20)
    <2>6. CellOK(i) BY <2>1, <2>3, <2>5, SMTT(20) DEF Behind
    <2>7. ~Encrypted(i) BY <2>2, <2>3, SMTT(20) DEF Encrypted
    <2> HIDE DEF i
    <2>8. OnDisk(i, buffer[i].from) /\ buffer[i].form = "stored"
      BY <2>6, <2>7 DEF CellOK
    <2> QED BY <2>8 DEF i
  <1> QED BY <1>1, AlwaysIInv, PTL

\* The preview is complete when it is drawn (Hibernate.c:694-711).
THEOREM PreviewReady == Spec => PreviewIsReady
  <1>1. IInv /\ IInv' /\ [Next]_vars =>
          [hasPreview /\ ~hasPreview' =>
             \A i \in DOMAIN buffer' :
                i < image.previewEnd => Recovered(i)']_vars
    <2> SUFFICES ASSUME IInv, IInv', Next, hasPreview, ~hasPreview',
                        NEW i \in DOMAIN buffer', i < image.previewEnd
                 PROVE  Recovered(i)'
      BY DEF vars
    <2>1. Decrypt
      BY DEF Next, Step, Leave, Account, NothingRead, SkipRead, StartRead,
             SkipDecrypt, FlushFails, ReadFails, Goto, cipher
    <2> DEFINE a == startOfEncryptBuffer
               n == DecryptLength
    <2>2. /\ a \in Nat /\ n \in Nat /\ a + n <= readBuffer
          /\ a + n <= image.encryptEnd
      BY <2>1, DecryptEffect
    <2>3. a + n >= image.previewEnd BY <2>1 DEF Decrypt, PreviewDone
    <2>4. /\ readBuffer' = readBuffer /\ image' = image
          /\ startOfEncryptBuffer' = IF a + n >= image.encryptEnd THEN None
                                                                  ELSE a + n
      BY <2>1 DEF Decrypt, EncryptDone, reader, fixed
    <2>5. /\ image \in Images /\ image.size \in Nat /\ readBuffer \in Nat
          /\ image.previewEnd \in Nat /\ image.encryptEnd \in Nat
      BY SizeAssumption, ImageFacts, SMTT(30) DEF IInv, TypeOK
    <2>6. i \in Nat BY <2>4, <2>5, SMTT(20) DEF IInv, TypeOK
    <2> HIDE DEF n, a
    <2>7. i < readBuffer' BY <2>2, <2>3, <2>4, <2>5, <2>6, SMTT(20)
    <2>8. CellOK(i)' BY <2>7 DEF IInv, Behind
    <2>9. i < Front' BY <2>2, <2>3, <2>4, <2>5, <2>6, SMTT(20) DEF Front, None
    <2> QED BY <2>8, <2>9 DEF CellOK, Recovered
  <1> QED BY <1>1, AlwaysIInv, PTL DEF Spec, PreviewIsReady

-----------------------------------------------------------------------------
(* The resume as a whole.                                                  *)

\* The vector when the loader's part is decrypted.
LastVector ==
    startOfEncryptBuffer = None /\ image.encryptStart > 0 =>
        initVector = image.encryptEnd - 1

\* The records are written after the loop, with the vector it left.
Handed ==
    /\ handoffPc # "image" => pc = "done"
    /\ cryptVector # None => pc = "done" /\ cryptVector = initVector

\* The loop leaves the vector of the last cell of the encrypted part
\* (Hibernate.c:676-693).
LEMMA LastVectorKept == IInv /\ LastVector /\ [Next]_vars => LastVector'
  <1> SUFFICES ASSUME IInv, LastVector, [Next]_vars PROVE LastVector'
    OBVIOUS
  <1>1. CASE Decrypt
    <2> DEFINE a == startOfEncryptBuffer
               n == DecryptLength
    <2>1. /\ a \in Nat /\ n \in Nat /\ a + n <= image.encryptEnd
          /\ initVector' = a + n - 1
      BY <1>1, DecryptEffect
    <2>2. /\ image' = image
          /\ startOfEncryptBuffer' = IF a + n >= image.encryptEnd THEN None
                                                                  ELSE a + n
      BY <1>1 DEF Decrypt, EncryptDone, fixed
    <2>3. image.encryptEnd \in Nat BY ImageFacts DEF IInv, TypeOK
    <2> HIDE DEF n, a
    <2> QED BY <2>1, <2>2, <2>3, SMTT(20) DEF LastVector, None
  <1>2. CASE ~Decrypt
    <2>1. UNCHANGED <<image, startOfEncryptBuffer, initVector>>
      BY <1>2 DEF Next, Step, Leave, Account, NothingRead, SkipRead, StartRead,
                  SkipDecrypt, FlushFails, ReadFails, Goto, cipher, fixed, vars
    <2> QED BY <2>1 DEF LastVector
  <1> QED BY <1>1, <1>2

\* A finished loop takes no further step (Hibernate.c:575).
LEMMA LoopIsOver == pc = "done" => ~Next
  BY DEF Next, Step, Leave, Account, NothingRead, SkipRead, StartRead, Decrypt,
         SkipDecrypt, FlushFails, ReadFails, InLoop

\* A step of the resume is a step of the read loop or leaves it alone.
LEMMA ResumeStep == [ResumeNext]_resumeVars => [Next]_vars
  BY DEF ResumeNext, resumeVars, ReadImage, SetupHandoff, NoHandoffPages,
         WriteRecords

\* The resume implements the read loop: the allocation and writing of the
\* handoff (Hibernate.c:720-842) leave the image alone.
THEOREM ResumeImplementsImage == ResumeSpec => Spec
  <1>1. ResumeInit => Init BY DEF ResumeInit
  <1> QED BY <1>1, ResumeStep, PTL DEF ResumeSpec, Spec

\* Nothing is handed over before the loop ended, and the vector does not
\* change once it was handed over (Hibernate.c:720, :802).
LEMMA HandedKept == Handed /\ [ResumeNext]_resumeVars => Handed'
  <1> SUFFICES ASSUME Handed, [ResumeNext]_resumeVars PROVE Handed'
    OBVIOUS
  <1>1. CASE ReadImage
    <2>1. pc # "done" BY <1>1, LoopIsOver DEF ReadImage
    <2> QED BY <1>1, <2>1 DEF ReadImage, Handed
  <1>2. CASE SetupHandoff BY <1>2 DEF SetupHandoff, Handed, vars
  <1>3. CASE NoHandoffPages BY <1>3 DEF NoHandoffPages, Handed, vars
  <1>4. CASE WriteRecords
    <2>1. handoffPc # "image"
      BY <1>4 DEF WriteRecords, Handoff!Next, Handoff!SetupGraphics,
           Handoff!SetupCryptVars, Handoff!SetupKeyStore,
           Handoff!SetupDeviceTree, Handoff!SetupMemoryMap,
           Handoff!ResumeFails, Handoff!SetupEnd
    <2> QED BY <1>4, <2>1 DEF WriteRecords, Handed, SavedVector, vars
  <1>5. CASE UNCHANGED resumeVars BY <1>5 DEF resumeVars, Handed, vars
  <1> QED BY <1>1, <1>2, <1>3, <1>4, <1>5 DEF ResumeNext

\* The kernel continues the decryption where the loader stopped, whatever the
\* runs of reads and decryptions were (Hibernate.c:676-693, :802).
THEOREM KernelGetsLastVector == ResumeSpec => []KernelContinuesCipher
  <1>1. ResumeInit => LastVector /\ Handed
    <2> SUFFICES ASSUME ResumeInit PROVE LastVector /\ Handed OBVIOUS
    <2>1. /\ image \in Images /\ handoffPc = "image" /\ cryptVector = None
          /\ startOfEncryptBuffer = IF image.encryptStart = 0
                                      THEN None ELSE image.encryptStart
      BY DEF ResumeInit, Init
    <2>2. image.encryptStart \in Nat BY <2>1, ImageFacts
    <2> QED BY <2>1, <2>2, SMTT(20) DEF LastVector, Handed, None
  <1>2. IInv /\ LastVector /\ Handed /\ [ResumeNext]_resumeVars
          => LastVector' /\ Handed'
    BY LastVectorKept, HandedKept, ResumeStep
  <1>3. IInv /\ LastVector /\ Handed => KernelContinuesCipher
    BY DEF IInv, AtEnd, LastVector, Handed, KernelContinuesCipher
  <1> QED BY <1>1, <1>2, <1>3, ResumeImplementsImage, AlwaysIInv, PTL
          DEF ResumeSpec

-----------------------------------------------------------------------------
Names == {"graphics", "crypt", "keystore", "tree", "map", "end"}
Records == [type : Names, at : Nat, size : Nat]

\* The words still needed from handoffHeader on.
StoreNeed == Handoff!KeyStoreWords(keyStore)
Need ==
    CASE handoffPc = "graphics" -> Graphics + CryptVars + StoreNeed + tree
                                     + memoryMapSize + 10
      [] handoffPc = "crypt" -> CryptVars + StoreNeed + tree
                                  + memoryMapSize + 8
      [] handoffPc = "keystore" -> StoreNeed + tree + memoryMapSize + 6
      [] handoffPc = "tree" -> tree + memoryMapSize + 6
      [] handoffPc = "map" -> memoryMapSize + 4
      [] handoffPc = "end" -> 2
      [] OTHER -> 0

\* The pages hold what is written and what is still to come.
Room ==
    /\ keyStore \in Nat \cup {Handoff!NoKeyStore} /\ tree \in Nat /\ memoryMapSize \in Nat
    /\ handoffHeader \in Nat /\ records \in Seq(Records)
    /\ \E n \in Nat : DOMAIN words = 0 .. n - 1 /\ handoffHeader + Need <= n
    /\ handoffPc = "image" => records = <<>> /\ handoffHeader = 0

\* What is written lies before the place of the next record.
Before ==
    keyStore = Handoff!NoKeyStore /\ handoffPc # "done" =>
        \A k \in 1 .. Len(records) :
            records[k].at + 2 + records[k].size <= handoffHeader

RecordInv == Room /\ Before /\ HandoffIsWhole

\* Writing a record where the pages have room for it leaves the records before
\* it whole (Hibernate.c:770-842).
LEMMA RecordWritten ==
    ASSUME RecordInv, handoffPc # "done",
           NEW type \in Names, NEW size \in Nat, NEW next,
           NEW n \in Nat, DOMAIN words = 0 .. n - 1,
           handoffHeader + 2 + size <= n,
           Handoff!WriteRecord(type, size, next), keyStore' = keyStore
    PROVE  /\ records' \in Seq(Records)
           /\ DOMAIN words' = 0 .. n - 1
           /\ HandoffIsWhole'
           /\ keyStore = Handoff!NoKeyStore => \A k \in 1 .. Len(records') :
                 records'[k].at + 2 + records'[k].size
                    <= handoffHeader + 2 + size
  <1> DEFINE r == [type |-> type, at |-> handoffHeader, size |-> size]
  <1>1. /\ records \in Seq(Records) /\ handoffHeader \in Nat
        /\ keyStore = Handoff!NoKeyStore => \A k \in 1 .. Len(records) :
              records[k].at + 2 + records[k].size <= handoffHeader
    BY DEF RecordInv, Room, Before
  <1>2. r \in Records BY <1>1 DEF Records
  <1>3. records' = Append(records, r)
    BY DEF Handoff!WriteRecord
  <1>4. words' = [w \in 0 .. n - 1 |->
                    IF handoffHeader <= w /\ w < handoffHeader + 2 + size
                      THEN type ELSE words[w]]
    BY DEF Handoff!WriteRecord, Handoff!RecordHeader
  <1> HIDE DEF r
  <1>5. /\ records' \in Seq(Records) /\ Len(records) \in Nat
        /\ Len(records') = Len(records) + 1
        /\ \A k \in 1 .. Len(records) : records'[k] = records[k]
        /\ records'[Len(records) + 1] = r
    BY <1>1, <1>2, <1>3, SMTT(20)
  <1>6. \A k \in 1 .. Len(records) :
           /\ records[k].at \in Nat /\ records[k].size \in Nat
    <2>1. \A k \in 1 .. Len(records) : records[k] \in Records BY <1>1, SMTT(20)
    <2> QED BY <2>1 DEF Records
  <1>7. r.at = handoffHeader /\ r.size = size /\ r.type = type BY DEF r
  <1>8. \A k \in 1 .. Len(records') :
           k \in 1 .. Len(records) \/ k = Len(records) + 1
    BY <1>5, SMTT(20)
  <1>9. Handoff!HandoffFits'
    <2> SUFFICES ASSUME NEW k \in 1 .. Len(records')
                 PROVE  Handoff!Extent(records'[k]) \subseteq DOMAIN words'
      BY DEF Handoff!HandoffFits, Handoff!Extent, Handoff!RecordHeader
    <2>1. CASE k \in 1 .. Len(records)
      <3>1. Handoff!Extent(records[k]) \subseteq 0 .. n - 1
        BY <2>1 DEF RecordInv, HandoffIsWhole, Handoff!HandoffFits
      <3> QED BY <2>1, <3>1, <1>4, <1>5
    <2>2. CASE k = Len(records) + 1
      BY <2>2, <1>1, <1>4, <1>5, <1>7, SMTT(20) DEF Handoff!Extent, Handoff!RecordHeader
    <2> QED BY <2>1, <2>2, <1>8
  <1>10. ASSUME keyStore = Handoff!NoKeyStore, NEW k \in 1 .. Len(records'),
                NEW w \in Handoff!Extent(records'[k]) \cap DOMAIN words'
         PROVE  words'[w] = records'[k].type
    <2>1. w \in 0 .. n - 1 BY <1>4, <1>10
    <2>2. CASE k \in 1 .. Len(records)
      <3>1. /\ records'[k] = records[k]
            /\ w \in Handoff!Extent(records[k])
        BY <2>2, <1>5, <1>10
      <3>2. words[w] = records[k].type
        BY <2>1, <2>2, <3>1, <1>10
           DEF RecordInv, HandoffIsWhole, Handoff!RecordsBesideKeyStore,
               Handoff!RecordsAreWhole
      <3>3. w < handoffHeader
        <4> DEFINE at == records[k].at
                   sz == records[k].size
        <4>1. at \in Nat /\ sz \in Nat BY <2>2, <1>6
        <4>2. at + 2 + sz <= handoffHeader BY <2>2, <1>1, <1>10
        <4>3. w \in at .. at + 2 + sz - 1
          BY <3>1 DEF Handoff!Extent, Handoff!RecordHeader
        <4> HIDE DEF at, sz
        <4> QED BY <4>1, <4>2, <4>3, <1>1, SMTT(20)
      <3>4. words'[w] = words[w] BY <2>1, <3>3, <1>1, <1>4, SMTT(20)
      <3> QED BY <3>1, <3>2, <3>4
    <2>3. CASE k = Len(records) + 1
      <3>1. w \in handoffHeader .. handoffHeader + 2 + size - 1
        BY <2>3, <1>5, <1>7, <1>10 DEF Handoff!Extent, Handoff!RecordHeader
      <3> QED BY <2>1, <2>3, <3>1, <1>1, <1>4, <1>5, <1>7, SMTT(20)
    <2> QED BY <2>2, <2>3, <1>8
  <1>11. Handoff!RecordsBesideKeyStore'
    BY <1>10 DEF Handoff!RecordsBesideKeyStore, Handoff!RecordsAreWhole,
                 Handoff!Extent, Handoff!RecordHeader
  <1>12. ASSUME keyStore = Handoff!NoKeyStore, NEW k \in 1 .. Len(records')
         PROVE  records'[k].at + 2 + records'[k].size
                  <= handoffHeader + 2 + size
    <2>1. CASE k \in 1 .. Len(records)
      <3> DEFINE at == records[k].at
                 sz == records[k].size
      <3>1. at \in Nat /\ sz \in Nat BY <2>1, <1>6
      <3>2. at + 2 + sz <= handoffHeader BY <2>1, <1>1, <1>12
      <3>3. records'[k].at = at /\ records'[k].size = sz BY <2>1, <1>5
      <3> HIDE DEF at, sz
      <3>4. at + 2 + sz <= handoffHeader + 2 + size BY <3>1, <3>2, <1>1, SMTT(20)
      <3> QED BY <3>3, <3>4
    <2>2. CASE k = Len(records) + 1 BY <2>2, <1>1, <1>5, <1>7, SMTT(20)
    <2> QED BY <2>1, <2>2, <1>8
  <1> QED BY <1>4, <1>5, <1>9, <1>11, <1>12 DEF HandoffIsWhole

\* The pages allocated hold all the records of the sizes found, END included:
\* the quotient is rounded up by a page (Hibernate.c:724-768).
LEMMA PagesSuffice ==
    ASSUME NEW store \in Nat \cup {Handoff!NoKeyStore}, NEW deviceTree \in Nat, NEW map \in Nat
    PROVE  \E n \in Nat :
             /\ DOMAIN Handoff!HandoffPages(store, deviceTree, map) = 0 .. n - 1
             /\ Graphics + CryptVars + Handoff!KeyStoreWords(store)
                  + deviceTree + map + 10 <= n
  <1> DEFINE size == Handoff!HandoffSize(store, deviceTree, map)
             pages == size \div PageSize + 1
  <1>1. /\ size = Graphics + CryptVars + Handoff!KeyStoreWords(store)
                    + deviceTree + map + 10
        /\ size \in Nat
    <2>1. Handoff!KeyStoreWords(store) \in Nat
      BY SMTT(20) DEF Handoff!KeyStoreWords, Handoff!RecordHeader
    <2> QED BY <2>1, HandoffAssumption, SMTT(20)
            DEF Handoff!HandoffSize, Handoff!RecordHeader
  <1>2. DOMAIN Handoff!HandoffPages(store, deviceTree, map)
          = 0 .. pages * PageSize - 1
    BY DEF Handoff!HandoffPages, Handoff!PageCount
  <1>3. pages * PageSize \in Nat /\ size <= pages * PageSize
    <2> HIDE DEF size
    <2>1. PageSize \in Nat /\ PageSize > 0 BY HandoffAssumption, SMTT(20)
    <2> QED BY <1>1, <2>1, SMTT(20)
  <1> QED BY <1>1, <1>2, <1>3

\* Each record finds the room it needs (Hibernate.c:770-842).
LEMMA WriteKeeps == RecordInv /\ WriteRecords => RecordInv'
  <1> SUFFICES ASSUME RecordInv, WriteRecords PROVE RecordInv' OBVIOUS
  <1> USE DEF Handoff!After, Handoff!RecordHeader
  <1>1. /\ keyStore \in Nat \cup {Handoff!NoKeyStore} /\ tree \in Nat /\ memoryMapSize \in Nat
        /\ handoffHeader \in Nat /\ Graphics \in Nat /\ CryptVars \in Nat
    BY HandoffAssumption DEF RecordInv, Room
  <1>2. PICK n \in Nat : DOMAIN words = 0 .. n - 1 /\ handoffHeader + Need <= n
    BY DEF RecordInv, Room
  <1>3. /\ StoreNeed \in Nat
        /\ keyStore' = keyStore => StoreNeed' = StoreNeed
        /\ keyStore # Handoff!NoKeyStore => StoreNeed = keyStore + 2
    BY <1>1, SMTT(20) DEF StoreNeed, Handoff!KeyStoreWords
  <1>4. /\ "graphics" \in Names /\ "crypt" \in Names /\ "keystore" \in Names
        /\ "tree" \in Names /\ "map" \in Names /\ "end" \in Names /\ 0 \in Nat
    BY DEF Names
  <1>5. CASE Handoff!SetupGraphics
    <2>1. /\ handoffPc = "graphics" /\ handoffPc' = "crypt"
          /\ Handoff!WriteRecord("graphics", Graphics,
                                 handoffHeader + 2 + Graphics)
          /\ UNCHANGED <<keyStore, tree, memoryMapSize>>
          /\ handoffHeader' = handoffHeader + 2 + Graphics
      BY <1>5 DEF Handoff!SetupGraphics, Handoff!WriteRecord
    <2>2. /\ Need = Graphics + CryptVars + StoreNeed + tree
                   + memoryMapSize + 10
          /\ Need' = CryptVars + StoreNeed + tree + memoryMapSize + 8
      BY <2>1, <1>3 DEF Need
    <2>3. handoffHeader + 2 + Graphics <= n
      BY <2>1, <2>2, <1>1, <1>2, <1>3, SMTT(20)
    <2>4. handoffHeader' + Need' <= n
      BY <2>1, <2>2, <1>1, <1>2, <1>3, SMTT(20)
    <2>5. handoffPc # "done" /\ keyStore' = keyStore BY <2>1
    <2>6. /\ records' \in Seq(Records) /\ DOMAIN words' = 0 .. n - 1
          /\ HandoffIsWhole'
          /\ keyStore = Handoff!NoKeyStore => \A k \in 1 .. Len(records') :
                records'[k].at + 2 + records'[k].size
                  <= handoffHeader + 2 + Graphics
      BY <2>1, <2>3, <2>5, <1>1, <1>2, <1>4, RecordWritten
    <2> QED BY <2>1, <2>4, <2>6, <1>1, SMTT(20)
            DEF RecordInv, Room, Before
  <1>6. CASE Handoff!SetupCryptVars
    <2>1. /\ handoffPc = "crypt" /\ handoffPc' = "keystore"
          /\ Handoff!WriteRecord("crypt", CryptVars,
                                 handoffHeader + 2 + CryptVars)
          /\ UNCHANGED <<keyStore, tree, memoryMapSize>>
          /\ handoffHeader' = handoffHeader + 2 + CryptVars
      BY <1>6 DEF Handoff!SetupCryptVars, Handoff!WriteRecord
    <2>2. /\ Need = CryptVars + StoreNeed + tree + memoryMapSize + 8
          /\ Need' = StoreNeed + tree + memoryMapSize + 6
      BY <2>1, <1>3 DEF Need
    <2>3. handoffHeader + 2 + CryptVars <= n
      BY <2>1, <2>2, <1>1, <1>2, <1>3, SMTT(20)
    <2>4. handoffHeader' + Need' <= n
      BY <2>1, <2>2, <1>1, <1>2, <1>3, SMTT(20)
    <2>5. handoffPc # "done" /\ keyStore' = keyStore BY <2>1
    <2>6. /\ records' \in Seq(Records) /\ DOMAIN words' = 0 .. n - 1
          /\ HandoffIsWhole'
          /\ keyStore = Handoff!NoKeyStore => \A k \in 1 .. Len(records') :
                records'[k].at + 2 + records'[k].size
                  <= handoffHeader + 2 + CryptVars
      BY <2>1, <2>3, <2>5, <1>1, <1>2, <1>4, RecordWritten
    <2> QED BY <2>1, <2>4, <2>6, <1>1, SMTT(20)
            DEF RecordInv, Room, Before
  <1>7. CASE Handoff!SetupKeyStore /\ keyStore # Handoff!NoKeyStore
    <2>1. /\ handoffPc = "keystore" /\ handoffPc' = "tree"
          /\ Handoff!WriteRecord("keystore", keyStore,
                                 handoffHeader + keyStore)
          /\ UNCHANGED <<keyStore, tree, memoryMapSize>>
          /\ handoffHeader' = handoffHeader + keyStore
      BY <1>7 DEF Handoff!SetupKeyStore, Handoff!WriteRecord
    <2>2. /\ Need = StoreNeed + tree + memoryMapSize + 6
          /\ Need' = tree + memoryMapSize + 6
      BY <2>1, <1>3 DEF Need
    <2>3. handoffHeader + 2 + keyStore <= n
      BY <2>1, <2>2, <1>1, <1>2, <1>3, <1>7, SMTT(20)
    <2>4. handoffHeader' + Need' <= n
      BY <2>1, <2>2, <1>1, <1>2, <1>3, <1>7, SMTT(20)
    <2>5. /\ handoffPc # "done" /\ keyStore' = keyStore
          /\ keyStore \in Nat
      BY <2>1, <1>1, <1>7
    <2>6. /\ records' \in Seq(Records) /\ DOMAIN words' = 0 .. n - 1
          /\ HandoffIsWhole'
          /\ keyStore = Handoff!NoKeyStore => \A k \in 1 .. Len(records') :
                records'[k].at + 2 + records'[k].size
                  <= handoffHeader + 2 + keyStore
      BY <2>1, <2>3, <2>5, <1>1, <1>2, <1>4, RecordWritten
    <2> QED BY <2>1, <2>4, <2>6, <1>1, <1>7, SMTT(20)
            DEF RecordInv, Room, Before
  <1>8. CASE Handoff!SetupKeyStore /\ keyStore = Handoff!NoKeyStore
    <2>1. /\ handoffPc = "keystore" /\ handoffPc' = "tree"
          /\ UNCHANGED <<handoffVars>>
      BY <1>8 DEF Handoff!SetupKeyStore, handoffVars
    <2>2. handoffHeader' + Need' <= n
      BY <2>1, <1>1, <1>2, <1>8, SMTT(20)
         DEF Need, StoreNeed, Handoff!KeyStoreWords, handoffVars
    <2>3. HandoffIsWhole'
      BY <2>1 DEF RecordInv, HandoffIsWhole, handoffVars, Handoff!HandoffFits,
           Handoff!RecordsBesideKeyStore, Handoff!RecordsAreWhole,
           Handoff!Extent
    <2> QED BY <2>1, <2>2, <2>3, <1>1, <1>2
            DEF RecordInv, Room, Before, handoffVars
  <1>9. CASE Handoff!SetupDeviceTree
    <2>1. /\ handoffPc = "tree" /\ handoffPc' = "map"
          /\ Handoff!WriteRecord("tree", tree, handoffHeader + 2 + tree)
          /\ UNCHANGED <<keyStore, tree, memoryMapSize>>
          /\ handoffHeader' = handoffHeader + 2 + tree
      BY <1>9 DEF Handoff!SetupDeviceTree, Handoff!WriteRecord
    <2>2. handoffHeader + 2 + tree <= n BY <2>1, <1>1, <1>2, SMTT(30) DEF Need
    <2>3. handoffHeader' + Need' <= n BY <2>1, <1>1, <1>2, SMTT(30) DEF Need
    <2>4. handoffPc # "done" /\ keyStore' = keyStore BY <2>1
    <2>5. /\ records' \in Seq(Records) /\ DOMAIN words' = 0 .. n - 1
          /\ HandoffIsWhole'
          /\ keyStore = Handoff!NoKeyStore => \A k \in 1 .. Len(records') :
                records'[k].at + 2 + records'[k].size
                  <= handoffHeader + 2 + tree
      BY <2>1, <2>2, <2>4, <1>1, <1>2, <1>4, RecordWritten
    <2> QED BY <2>1, <2>3, <2>5, <1>1, SMTT(20)
            DEF RecordInv, Room, Before
  <1>10. CASE Handoff!SetupMemoryMap
    <2>1. PICK size \in DataSizes :
            /\ size <= memoryMapSize /\ memoryMapSize' = size
            /\ Handoff!WriteRecord("map", size, handoffHeader + 2 + size)
      BY <1>10 DEF Handoff!SetupMemoryMap
    <2>2. /\ handoffPc = "map" /\ handoffPc' = "end"
          /\ UNCHANGED <<keyStore, tree>> /\ size \in Nat
          /\ handoffHeader' = handoffHeader + 2 + size
      BY <2>1, <1>10, HandoffAssumption
         DEF Handoff!SetupMemoryMap, Handoff!WriteRecord
    <2>3. handoffHeader + 2 + size <= n BY <2>1, <2>2, <1>1, <1>2, SMTT(20) DEF Need
    <2>4. handoffHeader' + Need' <= n BY <2>1, <2>2, <1>1, <1>2, SMTT(30) DEF Need
    <2>5. handoffPc # "done" /\ keyStore' = keyStore BY <2>2
    <2>6. /\ records' \in Seq(Records) /\ DOMAIN words' = 0 .. n - 1
          /\ HandoffIsWhole'
          /\ keyStore = Handoff!NoKeyStore => \A k \in 1 .. Len(records') :
                records'[k].at + 2 + records'[k].size
                  <= handoffHeader + 2 + size
      BY <2>1, <2>2, <2>3, <2>5, <1>1, <1>2, <1>4, RecordWritten
    <2> QED BY <2>1, <2>2, <2>4, <2>6, <1>1, SMTT(20) DEF RecordInv, Room, Before
  <1>11. CASE Handoff!ResumeFails
    <2>1. /\ handoffPc \in {"map", "end"} /\ handoffPc' = "failed"
          /\ UNCHANGED handoffVars
      BY <1>11 DEF Handoff!ResumeFails, handoffVars
    <2>2. handoffHeader' + Need' <= n
      BY <2>1, <1>1, <1>2, SMTT(20) DEF Need, handoffVars
    <2>3. HandoffIsWhole'
      BY <2>1 DEF RecordInv, HandoffIsWhole, handoffVars, Handoff!HandoffFits,
           Handoff!RecordsBesideKeyStore, Handoff!RecordsAreWhole,
           Handoff!Extent
    <2> QED BY <2>1, <2>2, <2>3, <1>1, <1>2
            DEF RecordInv, Room, Before, handoffVars
  <1>12. CASE Handoff!SetupEnd
    <2>1. /\ handoffPc = "end" /\ handoffPc' = "done"
          /\ Handoff!WriteRecord("end", 0, handoffHeader)
          /\ UNCHANGED <<keyStore, tree, memoryMapSize>>
          /\ handoffHeader' = handoffHeader
      BY <1>12 DEF Handoff!SetupEnd, Handoff!WriteRecord
    <2>2. handoffHeader + 2 + 0 <= n BY <2>1, <1>1, <1>2, SMTT(20) DEF Need
    <2>3. handoffHeader' + Need' <= n BY <2>1, <1>1, <1>2, SMTT(20) DEF Need
    <2>4. handoffPc # "done" /\ keyStore' = keyStore BY <2>1
    <2>5. /\ records' \in Seq(Records) /\ DOMAIN words' = 0 .. n - 1
          /\ HandoffIsWhole'
          /\ keyStore = Handoff!NoKeyStore => \A k \in 1 .. Len(records') :
                records'[k].at + 2 + records'[k].size
                  <= handoffHeader + 2 + 0
      BY <2>1, <2>2, <2>4, <1>1, <1>2, <1>4, RecordWritten
    <2> QED BY <2>1, <2>3, <2>5, <1>1
            DEF RecordInv, Room, Before
  <1> QED BY <1>5, <1>6, <1>7, <1>8, <1>9, <1>10, <1>11, <1>12
          DEF WriteRecords, Handoff!Next

\* Before the pages are there nothing is written, and the rest of the resume
\* leaves the records alone.
LEMMA RecordInvKept ==
    RecordInv /\ Handed /\ [ResumeNext]_resumeVars => RecordInv'
  <1> SUFFICES ASSUME RecordInv, Handed, [ResumeNext]_resumeVars
               PROVE  RecordInv'
    OBVIOUS
  <1>1. ASSUME UNCHANGED handoffVars,
               handoffPc' = handoffPc
                 \/ (handoffPc = "image" /\ handoffPc' = "failed")
        PROVE  RecordInv'
    <2>1. Need' = Need BY <1>1 DEF Need, StoreNeed, handoffVars
    <2>2. HandoffIsWhole'
      BY <1>1 DEF RecordInv, HandoffIsWhole, handoffVars, Handoff!HandoffFits,
           Handoff!RecordsBesideKeyStore, Handoff!RecordsAreWhole,
           Handoff!Extent, Handoff!RecordHeader
    <2> QED BY <1>1, <2>1, <2>2 DEF RecordInv, Room, Before, handoffVars
  <1>2. CASE ReadImage BY <1>1, <1>2 DEF ReadImage
  <1>3. CASE NoHandoffPages BY <1>1, <1>3 DEF NoHandoffPages
  <1>4. CASE UNCHANGED resumeVars BY <1>1, <1>4 DEF resumeVars
  <1>5. CASE WriteRecords BY <1>5, WriteKeeps
  <1>6. CASE SetupHandoff
    <2>1. PICK store \in KeyStores, deviceTree \in DataSizes, map \in DataSizes :
            /\ keyStore' = store /\ tree' = deviceTree /\ memoryMapSize' = map
            /\ words' = Handoff!HandoffPages(store, deviceTree, map)
      BY <1>6 DEF SetupHandoff
    <2>2. store \in Nat \cup {Handoff!NoKeyStore} /\ deviceTree \in Nat /\ map \in Nat
      BY HandoffAssumption DEF Handoff!NoKeyStore
    <2>3. /\ handoffPc' = "graphics" /\ records = <<>> /\ records' = <<>>
          /\ handoffHeader' = 0
      BY <1>6 DEF SetupHandoff, RecordInv, Room, Handed
    <2>4. PICK n \in Nat :
            /\ DOMAIN words' = 0 .. n - 1
            /\ Graphics + CryptVars + Handoff!KeyStoreWords(store)
                 + deviceTree + map + 10 <= n
      BY <2>1, <2>2, PagesSuffice
    <2>5. Need' = Graphics + CryptVars + Handoff!KeyStoreWords(store)
                    + deviceTree + map + 10
      BY <2>1, <2>3 DEF Need, StoreNeed
    <2>6. handoffHeader' + Need' <= n
      BY <2>2, <2>3, <2>4, <2>5, HandoffAssumption, SMTT(20)
    <2>7. Len(records') = 0 BY <2>3
    <2>8. HandoffIsWhole'
      BY <2>7, SMTT(20) DEF HandoffIsWhole, Handoff!HandoffFits,
           Handoff!RecordsBesideKeyStore, Handoff!RecordsAreWhole
    <2>9. Room'
      BY <2>1, <2>2, <2>3, <2>4, <2>6, SMTT(20) DEF Room
    <2> QED BY <2>7, <2>8, <2>9, SMTT(20) DEF RecordInv, Before
  <1> QED BY <1>2, <1>3, <1>4, <1>5, <1>6 DEF ResumeNext

\* The records fit the pages for every size of the key store, of the device
\* tree and of a memory map that shrinks, and without a key store the kernel
\* finds each of them whole (Hibernate.c:724-842).
THEOREM RecordsFitPages == ResumeSpec => []HandoffIsWhole
  <1>1. ResumeInit => RecordInv /\ Handed
    <2> SUFFICES ASSUME ResumeInit PROVE RecordInv /\ Handed OBVIOUS
    <2>1. /\ keyStore = Handoff!NoKeyStore /\ tree = 0 /\ memoryMapSize = 0 /\ words = <<>>
          /\ handoffHeader = 0 /\ records = <<>> /\ handoffPc = "image"
          /\ cryptVector = None
      BY DEF ResumeInit
    <2>2. DOMAIN words = 0 .. 0 - 1 BY <2>1, SMTT(20)
    <2>3. Need = 0 BY <2>1 DEF Need
    <2>4. Room BY <2>1, <2>2, <2>3, SMTT(20) DEF Room
    <2>5. HandoffIsWhole
      BY <2>1, SMTT(20) DEF HandoffIsWhole, Handoff!HandoffFits,
           Handoff!RecordsBesideKeyStore, Handoff!RecordsAreWhole
    <2> QED BY <2>1, <2>4, <2>5, SMTT(20) DEF RecordInv, Before, Handed
  <1>2. RecordInv /\ Handed /\ [ResumeNext]_resumeVars => RecordInv' /\ Handed'
    BY RecordInvKept, HandedKept
  <1>3. RecordInv => HandoffIsWhole BY DEF RecordInv
  <1> QED BY <1>1, <1>2, <1>3, PTL DEF ResumeSpec
=============================================================================
