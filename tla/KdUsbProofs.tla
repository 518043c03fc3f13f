---------------------------- MODULE KdUsbProofs -----------------------------
(***************************************************************************)
(* Proofs about the USB link for every number of messages, requests,       *)
(* retries, lost and damaged packets and for channels of every capacity:   *)
(* the types, and that no request is carried out twice. Packet ids are     *)
(* single bits, so the argument is about order: what can still be in a     *)
(* channel when an id comes round again. KdUsbLinkProofs goes on to the    *)
(* promise of KdLink.                                                      *)
(***************************************************************************)
EXTENDS KdUsb, TLAPS

\* A leaf is Zenon's unless it names the SMT solver, which is for arithmetic.
USE ZenonT(40), SMTT(15), Z3T(15)

Bits == {0, 1}
StateChanges == {"symbols", "exception"}
Types == {"print", "symbols", "exception", "reply", "last"}
Messages == [n : Nat, type : Types]
Requests == [n : Nat, op : {"read", "last", "continue"}]
Bodies == Messages \cup Requests
DataPackets == [kind : {"data"}, id : Bits, sync : BOOLEAN, body : Bodies, good : BOOLEAN]
ControlPackets == [kind : {"ack", "resend", "reset", "breakin"}, id : Bits]
Packets == DataPackets \cup ControlPackets
Ids == [id : Bits, sync : BOOLEAN]
Hosts == [alive : BOOLEAN, next : Bits, expected : Bits, waiting : BOOLEAN,
          replying : BOOLEAN, stopped : BOOLEAN, resyncing : BOOLEAN, taken : Nat,
          request : Requests]
Ghosts == [accepted : Seq(Nat), executed : Seq(Nat), abandoned : BOOLEAN,
           gaveUp : BOOLEAN]

TypeOK ==
    /\ BdNextPacketIdToSend \in Ids
    /\ BdPacketIdExpected \in Bits
    /\ pc \in {"idle", "send", "ack", "reply", "poll"}
    /\ message \in Messages
    /\ report \in StateChanges \cup {"none"}
    /\ attempts \in Nat
    /\ toHost \in Seq(Packets)
    /\ toTarget \in Seq(Packets)
    /\ host \in Hosts
    /\ ghost \in Ghosts

\* Where the target can be for the report it has to make.
ReportInv ==
    /\ report = "none" =>
         pc \in {"idle", "poll"} \/ (Sending /\ message.type = "print")
    /\ report # "none" => pc \in {"send", "ack", "reply"} /\ message.type # "print"

Basic == TypeOK /\ ReportInv

-----------------------------------------------------------------------------
(* Packets and channels.                                                   *)

\* The content of a packet that carries a message or a request.
LEMMA DataFields ==
    ASSUME NEW p \in Packets, p.kind = "data"
    PROVE  p.body \in Bodies /\ p.body.n \in Nat
  <1>1. p \in DataPackets BY DEF Packets, ControlPackets
  <1> QED BY <1>1 DEF DataPackets, Bodies, Messages, Requests

\* Every packet has a kind and an id.
LEMMA PacketFields ==
    ASSUME NEW p \in Packets
    PROVE  p.kind \in {"data", "ack", "resend", "reset", "breakin"} /\ p.id \in Bits
  BY DEF Packets, DataPackets, ControlPackets

\* The packets that are made.
LEMMA DataIsPacket ==
    ASSUME NEW id \in Bits, NEW sync \in BOOLEAN, NEW body \in Bodies
    PROVE  /\ Data(id, sync, body) \in Packets
           /\ Data(id, sync, body).kind = "data" /\ Data(id, sync, body).id = id
           /\ Data(id, sync, body).sync = sync /\ Data(id, sync, body).body = body
  <1>1. Data(id, sync, body) \in DataPackets BY DEF Data, DataPackets
  <1> QED BY <1>1 DEF Data, Packets

\* The same for the packets without a body.
LEMMA ControlIsPacket ==
    ASSUME NEW id \in Bits, NEW kind \in {"ack", "resend", "reset", "breakin"}
    PROVE  /\ Control(kind, id) \in Packets
           /\ Control(kind, id).kind = kind /\ Control(kind, id).id = id
  <1>1. Control(kind, id) \in ControlPackets BY DEF Control, ControlPackets
  <1> QED BY <1>1 DEF Control, Packets

\* What is behind the first packet.
LEMMA TailFacts ==
    ASSUME NEW c \in Seq(Packets), c # <<>>
    PROVE  /\ Head(c) \in Packets /\ Head(c) = c[1] /\ Len(c) \in Nat /\ Len(c) > 0
           /\ Tail(c) \in Seq(Packets) /\ Len(Tail(c)) = Len(c) - 1
           /\ \A i \in 1 .. Len(Tail(c)) : Tail(c)[i] = c[i + 1]
  BY SMTT(20)

\* A packet that is put into a channel is the last one, or it is gone.
LEMMA PutFacts ==
    ASSUME NEW c \in Seq(Packets), NEW p \in Packets
    PROVE  /\ Put(c, p) \in Seq(Packets)
           /\ \/ Put(c, p) = c
              \/ /\ Len(Put(c, p)) = Len(c) + 1 /\ Put(c, p)[Len(c) + 1] = p
                 /\ \A i \in 1 .. Len(c) : Put(c, p)[i] = c[i]
  <1>1. Append(c, p) \in Seq(Packets) /\ Len(Append(c, p)) = Len(c) + 1
    BY SMTT(20)
  <1>2. Append(c, p)[Len(c) + 1] = p /\ \A i \in 1 .. Len(c) : Append(c, p)[i] = c[i]
    BY SMTT(20)
  <1> QED BY <1>1, <1>2 DEF Put

\* Damage changes nothing but whether the first packet is good.
LEMMA DamagedFacts ==
    ASSUME NEW c \in Seq(Packets), c # <<>>, Head(c).kind = "data"
    PROVE  /\ Damaged(c) \in Seq(Packets) /\ Len(Damaged(c)) = Len(c)
           /\ Damaged(c)[1].kind = c[1].kind /\ Damaged(c)[1].id = c[1].id
           /\ Damaged(c)[1].sync = c[1].sync /\ Damaged(c)[1].body = c[1].body
           /\ \A i \in 2 .. Len(c) : Damaged(c)[i] = c[i]
  <1> DEFINE d == [Head(c) EXCEPT !.good = FALSE]
  <1>1. Head(c) \in DataPackets /\ Head(c) = c[1]
    BY TailFacts DEF Packets, ControlPackets
  <1>2. /\ d \in DataPackets /\ d.kind = c[1].kind /\ d.id = c[1].id /\ d.sync = c[1].sync
        /\ d.body = c[1].body
    BY <1>1 DEF DataPackets
  <1>3. d \in Packets BY <1>2 DEF Packets
  <1>4. Damaged(c) = <<d>> \o Tail(c) BY DEF Damaged
  <1> HIDE DEF d
  <1>5. <<d>> \in Seq(Packets) /\ Len(<<d>>) = 1 /\ <<d>>[1] = d BY <1>3, SMTT(20)
  <1>6. Damaged(c) \in Seq(Packets) /\ Len(Damaged(c)) = 1 + Len(Tail(c))
    BY <1>4, <1>5, TailFacts, SMTT(20)
  <1>7. Damaged(c)[1] = d BY <1>4, <1>5, TailFacts, SMTT(20)
  <1>8. \A i \in 2 .. Len(c) : Damaged(c)[i] = c[i]
    <2>1. TAKE i \in 2 .. Len(c)
    <2>2. Damaged(c)[i] = Tail(c)[i - 1] BY <1>4, <1>5, TailFacts, SMTT(20)
    <2>3. i - 1 \in 1 .. Len(Tail(c)) /\ (i - 1) + 1 = i BY TailFacts, SMTT(20)
    <2> QED BY <2>2, <2>3, TailFacts
  <1> QED BY <1>2, <1>6, <1>7, <1>8, TailFacts, SMTT(20)

-----------------------------------------------------------------------------
(* No request is carried out twice, in the dialogue or after it. A RESET   *)
(* sets the ids back to 0 on both sides, so the argument is about what is  *)
(* in the cable to the target in front of one and behind it. e are the     *)
(* requests carried out, x is the id expected next; the host's request has *)
(* number r and id next, and waiting says that the host repeats it.        *)

\* The request with number n must not be carried out any more.
Old(n, e) == \E k \in 1 .. Len(e) : n <= e[k]

Once(p, e, x, r, waiting, next) ==
    /\ p.kind = "data" =>
         /\ p.body.n <= r
         /\ Old(p.body.n, e) => p.id # x
         /\ waiting /\ p.body.n = r => p.id = next
    /\ p.kind = "reset" /\ waiting => ~Old(r, e)

\* What may come behind p: q.
OnceBehind(p, q, e, r, waiting) ==
    /\ p.kind = "data" /\ q.kind = "data" =>
         p.body.n <= q.body.n /\ (p.body.n = q.body.n => p.id = q.id)
    /\ p.kind = "data" /\ q.kind = "reset" /\ waiting => p.body.n < r
    /\ p.kind = "reset" /\ q.kind = "data" => ~Old(q.body.n, e)

\* A request from behind the RESET is not one from in front of it.
OnceAcross(p, q, s) ==
    p.kind = "data" /\ q.kind = "reset" /\ s.kind = "data" => p.body.n < s.body.n

OnceOrder(c, e, x, r, waiting, next) ==
    /\ \A i \in 1 .. Len(c) : Once(c[i], e, x, r, waiting, next)
    /\ \A i, j \in 1 .. Len(c) : i < j => OnceBehind(c[i], c[j], e, r, waiting)
    /\ \A i, j, k \in 1 .. Len(c) : i < j /\ j < k => OnceAcross(c[i], c[j], c[k])

\* The id of the next packet: KDUSB ids alternate between two values.
LEMMA FlipType == ASSUME NEW b \in Bits PROVE Flip(b) \in Bits /\ Flip(b) # b /\ Flip(Flip(b)) = b
  BY SMTT(20) DEF Bits, Flip

\* A packet leaves the channel.
LEMMA OnceTail ==
    ASSUME NEW c \in Seq(Packets), c # <<>>, NEW e, NEW x, NEW r, NEW waiting, NEW next,
           OnceOrder(c, e, x, r, waiting, next)
    PROVE  /\ OnceOrder(Tail(c), e, x, r, waiting, next)
           /\ Once(Head(c), e, x, r, waiting, next)
           /\ \A i \in 1 .. Len(Tail(c)) : OnceBehind(Head(c), Tail(c)[i], e, r, waiting)
           /\ \A i, j \in 1 .. Len(Tail(c)) :
                i < j => OnceAcross(Head(c), Tail(c)[i], Tail(c)[j])
  <1>1. \A i \in 1 .. Len(Tail(c)) : i + 1 \in 1 .. Len(c) /\ Tail(c)[i] = c[i + 1]
    BY TailFacts, SMTT(20)
  <1>2. 1 \in 1 .. Len(c) /\ Head(c) = c[1] BY TailFacts, SMTT(20)
  <1>3. Len(Tail(c)) \in Nat BY TailFacts, SMTT(20)
  <1>4. ASSUME NEW i \in 1 .. Len(Tail(c)), NEW j \in 1 .. Len(Tail(c)), i < j
        PROVE  /\ OnceBehind(Tail(c)[i], Tail(c)[j], e, r, waiting)
               /\ OnceAcross(Head(c), Tail(c)[i], Tail(c)[j])
    <2>1. i + 1 < j + 1 /\ 1 < i + 1 BY <1>3, <1>4, SMTT(20)
    <2> QED BY <1>1, <1>2, <2>1 DEF OnceOrder
  <1>5. ASSUME NEW i \in 1 .. Len(Tail(c))
        PROVE  OnceBehind(Head(c), Tail(c)[i], e, r, waiting)
    <2>1. 1 < i + 1 BY <1>3, SMTT(20)
    <2> QED BY <1>1, <1>2, <2>1 DEF OnceOrder
  <1>6. ASSUME NEW i \in 1 .. Len(Tail(c)), NEW j \in 1 .. Len(Tail(c)),
               NEW k \in 1 .. Len(Tail(c)), i < j, j < k
        PROVE  OnceAcross(Tail(c)[i], Tail(c)[j], Tail(c)[k])
    <2>1. i + 1 < j + 1 /\ j + 1 < k + 1 BY <1>3, <1>6, SMTT(20)
    <2> QED BY <1>1, <2>1 DEF OnceOrder
  <1>7. \A i \in 1 .. Len(Tail(c)) : Once(Tail(c)[i], e, x, r, waiting, next)
    BY <1>1 DEF OnceOrder
  <1>8. Once(Head(c), e, x, r, waiting, next) BY <1>2 DEF OnceOrder
  <1>9. OnceOrder(Tail(c), e, x, r, waiting, next) BY <1>4, <1>6, <1>7 DEF OnceOrder
  <1> QED BY <1>4, <1>5, <1>8, <1>9

\* A packet enters the channel, or is refused.
LEMMA OncePut ==
    ASSUME NEW c \in Seq(Packets), NEW p \in Packets, NEW e, NEW x, NEW r, NEW waiting,
           NEW next, OnceOrder(c, e, x, r, waiting, next), Once(p, e, x, r, waiting, next),
           \A i \in 1 .. Len(c) : OnceBehind(c[i], p, e, r, waiting),
           \A i, j \in 1 .. Len(c) : i < j => OnceAcross(c[i], c[j], p)
    PROVE  OnceOrder(Put(c, p), e, x, r, waiting, next)
  <1>1. CASE Put(c, p) = c BY <1>1
  <1>2. CASE /\ Len(Put(c, p)) = Len(c) + 1 /\ Put(c, p)[Len(c) + 1] = p
             /\ \A i \in 1 .. Len(c) : Put(c, p)[i] = c[i]
    <2>1. Len(c) \in Nat BY SMTT(20)
    <2>2. ASSUME NEW i \in 1 .. Len(Put(c, p))
          PROVE  Once(Put(c, p)[i], e, x, r, waiting, next)
      BY <1>2, <2>1, SMTT(20) DEF OnceOrder
    <2>3. ASSUME NEW i \in 1 .. Len(Put(c, p)), NEW j \in 1 .. Len(Put(c, p)), i < j
          PROVE  OnceBehind(Put(c, p)[i], Put(c, p)[j], e, r, waiting)
      <3>1. i \in 1 .. Len(c) BY <1>2, <2>1, <2>3, SMTT(20)
      <3>2. CASE j = Len(c) + 1 BY <1>2, <3>1, <3>2
      <3>3. CASE j \in 1 .. Len(c) BY <1>2, <2>3, <3>1, <3>3 DEF OnceOrder
      <3> QED BY <1>2, <2>1, <3>2, <3>3, SMTT(20)
    <2>4. ASSUME NEW i \in 1 .. Len(Put(c, p)), NEW j \in 1 .. Len(Put(c, p)),
                 NEW k \in 1 .. Len(Put(c, p)), i < j, j < k
          PROVE  OnceAcross(Put(c, p)[i], Put(c, p)[j], Put(c, p)[k])
      <3>1. i \in 1 .. Len(c) /\ j \in 1 .. Len(c) BY <1>2, <2>1, <2>4, SMTT(20)
      <3>2. CASE k = Len(c) + 1 BY <1>2, <2>4, <3>1, <3>2
      <3>3. CASE k \in 1 .. Len(c) BY <1>2, <2>4, <3>1, <3>3 DEF OnceOrder
      <3> QED BY <1>2, <2>1, <3>2, <3>3, SMTT(20)
    <2> QED BY <2>2, <2>3, <2>4 DEF OnceOrder
  <1> QED BY <1>1, <1>2, PutFacts

\* The first packet is damaged.
LEMMA OnceDamaged ==
    ASSUME NEW c \in Seq(Packets), c # <<>>, Head(c).kind = "data", NEW e, NEW x, NEW r,
           NEW waiting, NEW next, OnceOrder(c, e, x, r, waiting, next)
    PROVE  OnceOrder(Damaged(c), e, x, r, waiting, next)
  <1>1. Len(c) \in Nat /\ Len(Damaged(c)) = Len(c) BY DamagedFacts, SMTT(20)
  <1>2. ASSUME NEW i \in 1 .. Len(c)
        PROVE  /\ Damaged(c)[i].kind = c[i].kind /\ Damaged(c)[i].id = c[i].id
               /\ Damaged(c)[i].kind = "data" => Damaged(c)[i].body = c[i].body
    BY <1>1, DamagedFacts, SMTT(20)
  <1>3. ASSUME NEW i \in 1 .. Len(c) PROVE Once(Damaged(c)[i], e, x, r, waiting, next)
    <2>1. Once(c[i], e, x, r, waiting, next) BY DEF OnceOrder
    <2> QED BY <1>2, <2>1 DEF Once
  <1>4. ASSUME NEW i \in 1 .. Len(c), NEW j \in 1 .. Len(c), i < j
        PROVE  OnceBehind(Damaged(c)[i], Damaged(c)[j], e, r, waiting)
    <2>1. OnceBehind(c[i], c[j], e, r, waiting) BY <1>4 DEF OnceOrder
    <2> QED BY <1>2, <2>1 DEF OnceBehind
  <1>5. ASSUME NEW i \in 1 .. Len(c), NEW j \in 1 .. Len(c), NEW k \in 1 .. Len(c),
               i < j, j < k
        PROVE  OnceAcross(Damaged(c)[i], Damaged(c)[j], Damaged(c)[k])
    <2>1. OnceAcross(c[i], c[j], c[k]) BY <1>5 DEF OnceOrder
    <2> QED BY <1>2, <2>1 DEF OnceAcross
  <1> QED BY <1>1, <1>3, <1>4, <1>5 DEF OnceOrder

\* An acknowledgement, a demand to send again or a break-in says nothing of
\* requests; nor does a RESET from a host that repeats none.
LEMMA OncePutControl ==
    ASSUME NEW c \in Seq(Packets), NEW e, NEW x, NEW r, NEW waiting, NEW next,
           NEW kind \in {"ack", "resend", "reset", "breakin"}, NEW id \in Bits,
           kind = "reset" => ~waiting, OnceOrder(c, e, x, r, waiting, next)
    PROVE  OnceOrder(Put(c, Control(kind, id)), e, x, r, waiting, next)
  <1> DEFINE p == Control(kind, id)
  <1>1. p \in Packets /\ p.kind = kind BY ControlIsPacket
  <1> HIDE DEF p
  <1>2. Once(p, e, x, r, waiting, next) BY <1>1 DEF Once
  <1>3. \A i \in 1 .. Len(c) : OnceBehind(c[i], p, e, r, waiting) BY <1>1 DEF OnceBehind
  <1>4. \A i, j \in 1 .. Len(c) : i < j => OnceAcross(c[i], c[j], p)
    BY <1>1 DEF OnceAcross
  <1>5. OnceOrder(Put(c, p), e, x, r, waiting, next) BY <1>1, <1>2, <1>3, <1>4, OncePut
  <1> QED BY <1>5 DEF p

\* The host sends its request, for the first time or again.
LEMMA OncePutRequest ==
    ASSUME NEW c \in Seq(Packets), NEW e, NEW x, NEW body \in Bodies, NEW next \in Bits,
           body.n \in Nat, OnceOrder(c, e, x, body.n, TRUE, next),
           Old(body.n, e) => next # x
    PROVE  OnceOrder(Put(c, Data(next, FALSE, body)), e, x, body.n, TRUE, next)
  <1> DEFINE p == Data(next, FALSE, body)
  <1>1. p \in Packets /\ p.kind = "data" /\ p.id = next /\ p.body = body
    BY DEF Data, Packets, DataPackets
  <1> HIDE DEF p
  <1>2. Once(p, e, x, body.n, TRUE, next) BY <1>1, SMTT(20) DEF Once
  <1>3. ASSUME NEW i \in 1 .. Len(c) PROVE OnceBehind(c[i], p, e, body.n, TRUE)
    <2>1. Once(c[i], e, x, body.n, TRUE, next) BY DEF OnceOrder
    <2> QED BY <1>1, <2>1 DEF Once, OnceBehind
  <1>4. ASSUME NEW i \in 1 .. Len(c), NEW j \in 1 .. Len(c), i < j
        PROVE  OnceAcross(c[i], c[j], p)
    <2>1. OnceBehind(c[i], c[j], e, body.n, TRUE) BY <1>4 DEF OnceOrder
    <2> QED BY <1>1, <2>1 DEF OnceBehind, OnceAcross
  <1>5. OnceOrder(Put(c, p), e, x, body.n, TRUE, next)
    BY <1>1, <1>2, <1>3, <1>4, OncePut
  <1> QED BY <1>5 DEF p

\* The host stops repeating its request.
LEMMA OnceStop ==
    ASSUME NEW c, NEW e, NEW x, NEW r, NEW waiting, NEW next, NEW other,
           OnceOrder(c, e, x, r, waiting, next)
    PROVE  OnceOrder(c, e, x, r, FALSE, other)
  <1>1. ASSUME NEW i \in 1 .. Len(c) PROVE Once(c[i], e, x, r, FALSE, other)
    <2>1. Once(c[i], e, x, r, waiting, next) BY DEF OnceOrder
    <2> QED BY <2>1 DEF Once
  <1>2. ASSUME NEW i \in 1 .. Len(c), NEW j \in 1 .. Len(c), i < j
        PROVE  OnceBehind(c[i], c[j], e, r, FALSE)
    <2>1. OnceBehind(c[i], c[j], e, r, waiting) BY <1>2 DEF OnceOrder
    <2> QED BY <2>1 DEF OnceBehind
  <1> QED BY <1>1, <1>2 DEF OnceOrder

\* The host has a new request: nothing in the channel has its number.
LEMMA OnceAsk ==
    ASSUME NEW c \in Seq(Packets), NEW e \in Seq(Nat), NEW x, NEW r \in Nat, NEW next,
           OnceOrder(c, e, x, r, FALSE, next), \A k \in 1 .. Len(e) : e[k] <= r
    PROVE  OnceOrder(c, e, x, r + 1, TRUE, next) /\ ~Old(r + 1, e)
  <1>1. ~Old(r + 1, e)
    <2>1. ASSUME NEW k \in 1 .. Len(e) PROVE ~(r + 1 <= e[k])
      <3>1. e[k] \in Nat /\ e[k] <= r BY SMTT(20)
      <3> QED BY <3>1, SMTT(20)
    <2> QED BY <2>1 DEF Old
  <1>2. ASSUME NEW i \in 1 .. Len(c), c[i].kind = "data"
        PROVE  c[i].body.n \in Nat /\ c[i].body.n < r + 1
    <2>1. c[i].body.n \in Nat BY <1>2, DataFields, SMTT(20)
    <2>2. c[i].body.n <= r BY <1>2 DEF OnceOrder, Once
    <2> QED BY <2>1, <2>2, SMTT(20)
  <1>3. ASSUME NEW i \in 1 .. Len(c) PROVE Once(c[i], e, x, r + 1, TRUE, next)
    <2>1. Once(c[i], e, x, r, FALSE, next) BY DEF OnceOrder
    <2>2. c[i].kind = "data" => c[i].body.n <= r + 1 /\ c[i].body.n # r + 1 BY <1>2, SMTT(20)
    <2> QED BY <1>1, <2>1, <2>2 DEF Once
  <1>4. ASSUME NEW i \in 1 .. Len(c), NEW j \in 1 .. Len(c), i < j
        PROVE  OnceBehind(c[i], c[j], e, r + 1, TRUE)
    <2>1. OnceBehind(c[i], c[j], e, r, FALSE) BY <1>4 DEF OnceOrder
    <2> QED BY <1>2, <2>1 DEF OnceBehind
  <1> QED BY <1>1, <1>3, <1>4 DEF OnceOrder

\* The target takes a RESET: what is behind it was not carried out.
LEMMA OnceReset ==
    ASSUME NEW c \in Seq(Packets), c # <<>>, Head(c).kind = "reset", NEW e, NEW x, NEW y,
           NEW r, NEW waiting, NEW next, OnceOrder(c, e, x, r, waiting, next)
    PROVE  OnceOrder(Tail(c), e, y, r, waiting, next) /\ (waiting => ~Old(r, e))
  <1>1. OnceOrder(Tail(c), e, x, r, waiting, next) BY OnceTail
  <1>2. waiting => ~Old(r, e)
    <2>1. Once(Head(c), e, x, r, waiting, next) BY OnceTail
    <2> QED BY <2>1 DEF Once
  <1>3. ASSUME NEW i \in 1 .. Len(Tail(c)) PROVE Once(Tail(c)[i], e, y, r, waiting, next)
    <2>1. Once(Tail(c)[i], e, x, r, waiting, next) BY <1>1 DEF OnceOrder
    <2>2. OnceBehind(Head(c), Tail(c)[i], e, r, waiting) BY OnceTail
    <2> QED BY <2>1, <2>2 DEF Once, OnceBehind
  <1> QED BY <1>1, <1>2, <1>3 DEF OnceOrder

\* What is old once one more request has been executed.
LEMMA OldAppend ==
    ASSUME NEW e \in Seq(Nat), NEW m \in Nat, NEW n \in Nat
    PROVE  /\ Old(m, Append(e, n)) <=> Old(m, e) \/ m <= n
           /\ m <= n /\ Old(n, e) => Old(m, e)
  <1>1. /\ Len(Append(e, n)) = Len(e) + 1 /\ Append(e, n)[Len(e) + 1] = n /\ Len(e) \in Nat
        /\ \A k \in 1 .. Len(e) : Append(e, n)[k] = e[k] /\ e[k] \in Nat
    BY SMTT(20)
  <1>2. Old(m, e) \/ m <= n => Old(m, Append(e, n)) BY <1>1, SMTT(20) DEF Old
  <1>3. Old(m, Append(e, n)) => Old(m, e) \/ m <= n
    <2>1. ASSUME NEW k \in 1 .. Len(e) + 1, m <= Append(e, n)[k] PROVE Old(m, e) \/ m <= n
      <3>1. CASE k = Len(e) + 1 BY <1>1, <2>1, <3>1
      <3>2. CASE k \in 1 .. Len(e) BY <1>1, <2>1, <3>2 DEF Old
      <3> QED BY <1>1, <3>1, <3>2, SMTT(20)
    <2> QED BY <1>1, <2>1 DEF Old
  <1>4. ASSUME m <= n, NEW k \in 1 .. Len(e), n <= e[k] PROVE m <= e[k] BY <1>1, <1>4, SMTT(20)
  <1> QED BY <1>2, <1>3, <1>4 DEF Old

\* The target carries out a request.
LEMMA OnceDispatch ==
    ASSUME NEW c \in Seq(Packets), c # <<>>, Head(c).kind = "data", NEW e \in Seq(Nat),
           NEW x \in Bits, Head(c).id = x, NEW r \in Nat, NEW waiting, NEW next,
           OnceOrder(c, e, x, r, waiting, next)
    PROVE  /\ Head(c).body.n \in Nat /\ ~Old(Head(c).body.n, e) /\ Head(c).body.n <= r
           /\ OnceOrder(Tail(c), Append(e, Head(c).body.n), Flip(x), r, waiting, next)
           /\ waiting /\ Old(r, Append(e, Head(c).body.n)) =>
                next # Flip(x) \/ Old(r, e)
  <1> DEFINE n == Head(c).body.n
  <1>1. n \in Nat BY TailFacts, DataFields
  <1>2. /\ OnceOrder(Tail(c), e, x, r, waiting, next)
        /\ Once(Head(c), e, x, r, waiting, next) /\ Tail(c) \in Seq(Packets)
    BY OnceTail, TailFacts
  <1>3. ~Old(n, e) /\ n <= r /\ (waiting /\ n = r => x = next) BY <1>2 DEF Once
  <1>4. Flip(x) # x BY FlipType
  <1>5. ASSUME NEW i \in 1 .. Len(Tail(c)), Tail(c)[i].kind = "data"
        PROVE  /\ Tail(c)[i].body.n \in Nat /\ n <= Tail(c)[i].body.n
               /\ Old(Tail(c)[i].body.n, Append(e, n)) => Tail(c)[i].body.n = n
               /\ n = Tail(c)[i].body.n => Tail(c)[i].id = x
    <2>1. Tail(c)[i].body.n \in Nat BY <1>2, <1>5, DataFields, SMTT(20)
    <2>2. OnceBehind(Head(c), Tail(c)[i], e, r, waiting) BY OnceTail
    <2>3. n <= Tail(c)[i].body.n /\ (n = Tail(c)[i].body.n => Tail(c)[i].id = x)
      BY <1>5, <2>2 DEF OnceBehind
    <2>4. ~Old(Tail(c)[i].body.n, e) BY <1>1, <1>3, <2>1, <2>3, OldAppend
    <2>5. Old(Tail(c)[i].body.n, Append(e, n)) => Tail(c)[i].body.n <= n
      BY <1>1, <2>1, <2>4, OldAppend, SMTT(20)
    <2> HIDE DEF n
    <2> QED BY <1>1, <2>1, <2>3, <2>5, SMTT(20)
  <1>6. Old(r, Append(e, n)) => r = n \/ Old(r, e)
    <2>1. Old(r, Append(e, n)) => r <= n \/ Old(r, e) BY <1>1, OldAppend
    <2> HIDE DEF n
    <2> QED BY <1>1, <1>3, <2>1, SMTT(20)
  <1> DEFINE f == Append(e, n)
  <1>7. ASSUME NEW i \in 1 .. Len(Tail(c)) PROVE Once(Tail(c)[i], f, Flip(x), r, waiting, next)
    <2>1. Once(Tail(c)[i], e, x, r, waiting, next) BY <1>2 DEF OnceOrder
    <2>2. CASE Tail(c)[i].kind = "data"
      <3>1. Old(Tail(c)[i].body.n, f) => Tail(c)[i].id # Flip(x) BY <1>4, <1>5, <2>2
      <3> HIDE DEF f
      <3> QED BY <2>1, <2>2, <3>1 DEF Once
    <2>3. CASE Tail(c)[i].kind = "reset"
      <3>1. OnceBehind(Head(c), Tail(c)[i], e, r, waiting) BY OnceTail
      <3>2. waiting => n < r BY <2>3, <3>1 DEF OnceBehind
      <3>3. waiting => ~Old(r, e) BY <2>1, <2>3 DEF Once
      <3>4. waiting => ~Old(r, f) BY <1>1, <1>6, <3>2, <3>3, SMTT(20)
      <3> HIDE DEF f
      <3> QED BY <2>3, <3>4 DEF Once
    <2> QED BY <2>2, <2>3 DEF Once
  <1>8. ASSUME NEW i \in 1 .. Len(Tail(c)), NEW j \in 1 .. Len(Tail(c)), i < j
        PROVE  OnceBehind(Tail(c)[i], Tail(c)[j], f, r, waiting)
    <2>1. OnceBehind(Tail(c)[i], Tail(c)[j], e, r, waiting) BY <1>2, <1>8 DEF OnceOrder
    <2>2. ASSUME Tail(c)[i].kind = "reset", Tail(c)[j].kind = "data"
          PROVE  ~Old(Tail(c)[j].body.n, f)
      <3>1. OnceAcross(Head(c), Tail(c)[i], Tail(c)[j]) BY <1>8, OnceTail
      <3>2. n < Tail(c)[j].body.n BY <2>2, <3>1 DEF OnceAcross
      <3>3. Old(Tail(c)[j].body.n, f) => Tail(c)[j].body.n = n BY <1>5, <2>2
      <3> HIDE DEF n, f
      <3> QED BY <1>1, <3>2, <3>3, SMTT(20)
    <2> HIDE DEF f
    <2> QED BY <2>1, <2>2 DEF OnceBehind
  <1>9. OnceOrder(Tail(c), f, Flip(x), r, waiting, next)
    <2> HIDE DEF f
    <2> QED BY <1>2, <1>7, <1>8 DEF OnceOrder
  <1> QED BY <1>1, <1>3, <1>4, <1>6, <1>9

-----------------------------------------------------------------------------
(* The cases of the two large handlers.                                    *)

\* The host as it is when it looks at the id of a message.
Hearing ==
    IF Head(toHost).kind = "data" /\ Head(toHost).sync /\ Head(toHost).body.n # host.taken
      THEN Resynchronised(host) ELSE host

HearsReset ==
    /\ Head(toHost).kind = "reset"
    /\ host' = [Resynchronised(host) EXCEPT !.resyncing = FALSE]
    /\ UNCHANGED <<toTarget, ghost>>

HearsAck ==
    /\ Head(toHost).kind = "ack" /\ host.waiting /\ Head(toHost).id = host.next
    /\ host' = [host EXCEPT !.waiting = FALSE, !.next = Flip(@)]
    /\ UNCHANGED <<toTarget, ghost>>

HearsResend ==
    /\ Head(toHost).kind = "resend" /\ host.waiting
    /\ toTarget' = Put(toTarget, Data(host.next, FALSE, host.request))
    /\ UNCHANGED <<host, ghost>>

HearsData == Head(toHost).kind = "data" /\ ~host.resyncing

HearsOld ==
    /\ HearsData /\ Head(toHost).id # Hearing.expected
    /\ toTarget' = Put(toTarget, Control("ack", Head(toHost).id))
    /\ host' = Hearing /\ UNCHANGED ghost

HearsEarly ==
    /\ HearsData /\ Head(toHost).id = Hearing.expected /\ Hearing.waiting
    /\ toTarget' = Put(toTarget, Control("resend", 0))
    /\ host' = [Hearing EXCEPT !.waiting = FALSE, !.next = Flip(@)]
    /\ UNCHANGED ghost

HearsDamaged ==
    /\ HearsData /\ Head(toHost).id = Hearing.expected /\ ~Hearing.waiting
    /\ toTarget' = Put(toTarget, Control("resend", 0))
    /\ host' = Hearing /\ UNCHANGED ghost

HearsMessage ==
    /\ HearsData /\ Head(toHost).id = Hearing.expected /\ ~Hearing.waiting
    /\ toTarget' = Put(toTarget, Control("ack", Head(toHost).id))
    /\ host' = Take(Hearing, Head(toHost).body)
    /\ ghost' = [ghost EXCEPT !.accepted = Append(@, Head(toHost).body.n)]

HearsNothing == UNCHANGED <<toTarget, host, ghost>>

\* One packet the host receives.
LEMMA HostReceiveCases ==
    ASSUME HostReceive
    PROVE  /\ toHost # <<>> /\ toHost' = Tail(toHost) /\ UNCHANGED target
           /\ \/ HearsReset \/ HearsAck \/ HearsResend \/ HearsOld \/ HearsEarly
              \/ HearsDamaged \/ HearsMessage \/ HearsNothing
  BY DEF HostReceive, HearsReset, HearsAck, HearsResend, HearsData, HearsOld, HearsEarly,
         HearsDamaged, HearsMessage, HearsNothing, Hearing

\* A failed read after which the target sends again or goes on waiting.
ReadsNothing ==
    /\ pc' = IF pc = "ack" THEN "send" ELSE pc
    /\ UNCHANGED <<message, ghost>>

\* One that makes a stopped target report its state change anew.
ReadsAgain ==
    /\ pc = "reply" /\ pc' = "send"
    /\ message' = [n |-> message.n + 1, type |-> report]
    /\ ghost' = [ghost EXCEPT !.abandoned = TRUE]

\* The three failed reads.
LEMMA FailedReadCases ==
    ASSUME Timeout \/ DeviceFails \/ ReceiveShort
    PROVE  /\ pc \in {"ack", "reply"} /\ UNCHANGED toHost
           /\ UNCHANGED <<BdNextPacketIdToSend, BdPacketIdExpected, BdDebuggerNotPresent,
                          report, script, attempts, host>>
           /\ \/ toTarget' = toTarget
              \/ /\ toTarget # <<>> /\ Head(toTarget).kind = "breakin"
                 /\ toTarget' = Tail(toTarget)
           /\ ReadsNothing \/ ReadsAgain
  <1>1. PICK result : FailedRead(result) BY DEF Timeout, DeviceFails, ReceiveShort
  <1>2. ReadsNothing \/ ReadsAgain BY <1>1 DEF FailedRead, ReadsNothing, ReadsAgain
  <1>3. /\ UNCHANGED toHost
        /\ UNCHANGED <<BdNextPacketIdToSend, BdPacketIdExpected, BdDebuggerNotPresent,
                       report, script, attempts, host>>
    BY <1>1 DEF FailedRead
  <1> QED BY <1>2, <1>3 DEF Timeout, DeviceFails, ReceiveShort

-----------------------------------------------------------------------------
(* Types, and where the target is.                                         *)

\* The fields of the host's state.
LEMMA HostFields ==
    ASSUME NEW h \in Hosts
    PROVE  /\ h.next \in Bits /\ h.expected \in Bits /\ h.taken \in Nat
           /\ h.request \in Requests /\ h.request.n \in Nat /\ h.request \in Bodies
           /\ h.waiting \in BOOLEAN /\ h.replying \in BOOLEAN /\ h.stopped \in BOOLEAN
           /\ h.resyncing \in BOOLEAN
  BY DEF Hosts, Requests, Bodies

\* The host starts its numbering anew.
LEMMA ResyncFacts ==
    ASSUME NEW h \in Hosts
    PROVE  /\ Resynchronised(h) \in Hosts
           /\ [Resynchronised(h) EXCEPT !.resyncing = TRUE] \in Hosts
           /\ [Resynchronised(h) EXCEPT !.resyncing = FALSE] \in Hosts
           /\ Resynchronised(h).request = h.request
           /\ [Resynchronised(h) EXCEPT !.resyncing = TRUE].request = h.request
           /\ [Resynchronised(h) EXCEPT !.resyncing = FALSE].request = h.request
           /\ ~Resynchronised(h).waiting
           /\ ~[Resynchronised(h) EXCEPT !.resyncing = TRUE].waiting
           /\ ~[Resynchronised(h) EXCEPT !.resyncing = FALSE].waiting
           /\ Resynchronised(h).resyncing = h.resyncing
  <1>1. /\ Resynchronised(h) \in Hosts /\ Resynchronised(h).request = h.request
        /\ ~Resynchronised(h).waiting /\ Resynchronised(h).resyncing = h.resyncing
    BY DEF Resynchronised, Hosts, Bits
  <1>2. ASSUME NEW g \in Hosts, NEW b \in BOOLEAN
        PROVE  /\ [g EXCEPT !.resyncing = b] \in Hosts
               /\ [g EXCEPT !.resyncing = b].request = g.request
               /\ [g EXCEPT !.resyncing = b].waiting = g.waiting
    BY DEF Hosts
  <1> QED BY <1>1, <1>2

\* The host knows that its request arrived.
LEMMA KnowsFacts ==
    ASSUME NEW h \in Hosts
    PROVE  LET g == [h EXCEPT !.waiting = FALSE, !.next = Flip(@)]
           IN  /\ g \in Hosts /\ ~g.waiting /\ g.next = Flip(h.next)
               /\ g.expected = h.expected /\ g.replying = h.replying /\ g.taken = h.taken
               /\ g.stopped = h.stopped /\ g.resyncing = h.resyncing
               /\ g.request = h.request
  <1>1. Flip(h.next) \in Bits BY FlipType DEF Hosts
  <1> QED BY <1>1 DEF Hosts

\* The host takes a message.
LEMMA TakeFacts ==
    ASSUME NEW h \in Hosts, NEW body, body.n \in Nat
    PROVE  /\ Take(h, body) \in Hosts
           /\ Take(h, body).expected = Flip(h.expected) /\ Take(h, body).taken = body.n
           /\ Take(h, body).next = h.next /\ Take(h, body).waiting = h.waiting
           /\ Take(h, body).resyncing = h.resyncing /\ Take(h, body).request = h.request
           /\ Take(h, body).stopped <=> h.stopped \/ body.type \in {"symbols", "exception"}
           /\ Take(h, body).replying <=> h.replying /\ body.type = "print"
  <1> DEFINE stopped == h.stopped \/ body.type \in {"symbols", "exception"}
             replying == h.replying /\ body.type = "print"
  <1>1. stopped \in BOOLEAN /\ replying \in BOOLEAN BY DEF Hosts
  <1>2. Flip(h.expected) \in Bits BY FlipType DEF Hosts
  <1>3. Take(h, body) = [h EXCEPT !.expected = Flip(h.expected), !.taken = body.n,
                                  !.stopped = stopped, !.replying = replying]
    BY DEF Take
  <1> HIDE DEF stopped, replying
  <1>4. /\ Take(h, body) \in Hosts
        /\ Take(h, body).expected = Flip(h.expected) /\ Take(h, body).taken = body.n
        /\ Take(h, body).next = h.next /\ Take(h, body).waiting = h.waiting
        /\ Take(h, body).resyncing = h.resyncing /\ Take(h, body).request = h.request
        /\ Take(h, body).stopped = stopped /\ Take(h, body).replying = replying
    BY <1>1, <1>2, <1>3 DEF Hosts
  <1> QED BY <1>4 DEF stopped, replying

\* The host makes a request.
Request(h, op) == [n |-> h.request.n + 1, op |-> op]
Asking(h, op) ==
    [h EXCEPT !.request = Request(h, op), !.waiting = TRUE, !.replying = op # "continue",
              !.stopped = op = "read"]

\* The host asks for something: the next request, and what it waits for.
LEMMA AskFacts ==
    ASSUME NEW h \in Hosts, NEW op \in {"read", "last", "continue"}
    PROVE  /\ Request(h, op) \in Requests /\ Request(h, op).n = h.request.n + 1
           /\ Request(h, op).op = op
           /\ Asking(h, op) \in Hosts /\ Asking(h, op).request = Request(h, op)
           /\ Asking(h, op).waiting /\ Asking(h, op).next = h.next
           /\ Asking(h, op).expected = h.expected /\ Asking(h, op).taken = h.taken
           /\ Asking(h, op).resyncing = h.resyncing
           /\ Asking(h, op).replying <=> op # "continue"
           /\ Asking(h, op).stopped <=> op = "read"
  <1> DEFINE replying == op # "continue"
             stopped == op = "read"
             g == [h EXCEPT !.request = Request(h, op), !.waiting = TRUE,
                            !.replying = replying, !.stopped = stopped]
  <1>1. Request(h, op) \in Requests /\ Request(h, op).n = h.request.n + 1
        /\ Request(h, op).op = op
    BY SMTT(20) DEF Requests, Hosts, Request
  <1>2. replying \in BOOLEAN /\ stopped \in BOOLEAN OBVIOUS
  <1>3. Asking(h, op) = g BY DEF Asking
  <1> HIDE DEF replying, stopped
  <1>4. /\ g \in Hosts /\ g.request = Request(h, op) /\ g.waiting
        /\ g.next = h.next /\ g.expected = h.expected /\ g.taken = h.taken
        /\ g.resyncing = h.resyncing /\ g.replying = replying /\ g.stopped = stopped
    BY <1>1, <1>2 DEF Hosts
  <1> HIDE DEF g
  <1> QED BY <1>1, <1>3, <1>4 DEF replying, stopped

\* HostRequest in these terms.
LEMMA HostRequestCase ==
    ASSUME HostRequest
    PROVE  \E op \in {"read", "last", "continue"} :
             /\ host' = Asking(host, op)
             /\ toTarget' = Put(toTarget, Data(host.next, FALSE, Request(host, op)))
  BY DEF HostRequest, Asking, Request

\* The history: the host takes a message, the target carries out a request,
\* the dialogue ends.
LEMMA GhostAccepts ==
    ASSUME NEW g \in Ghosts, NEW n \in Nat
    PROVE  LET f == [g EXCEPT !.accepted = Append(@, n)]
           IN  /\ f \in Ghosts /\ f.accepted = Append(g.accepted, n)
               /\ f.executed = g.executed /\ f.abandoned = g.abandoned
               /\ f.gaveUp = g.gaveUp
  <1> DEFINE q == Append(g.accepted, n)
  <1>1. q \in Seq(Nat) BY SMTT(20) DEF Ghosts
  <1> HIDE DEF q
  <1>2. LET f == [g EXCEPT !.accepted = q]
        IN  /\ f \in Ghosts /\ f.accepted = q /\ f.executed = g.executed
            /\ f.abandoned = g.abandoned /\ f.gaveUp = g.gaveUp
    BY <1>1 DEF Ghosts
  <1> QED BY <1>2 DEF q

\* A request is executed: the other histories stay.
LEMMA GhostExecutes ==
    ASSUME NEW g \in Ghosts, NEW n \in Nat
    PROVE  LET f == [g EXCEPT !.executed = Append(@, n)]
           IN  /\ f \in Ghosts /\ f.executed = Append(g.executed, n)
               /\ f.accepted = g.accepted /\ f.abandoned = g.abandoned
               /\ f.gaveUp = g.gaveUp
  <1> DEFINE q == Append(g.executed, n)
  <1>1. q \in Seq(Nat) BY SMTT(20) DEF Ghosts
  <1> HIDE DEF q
  <1>2. LET f == [g EXCEPT !.executed = q]
        IN  /\ f \in Ghosts /\ f.executed = q /\ f.accepted = g.accepted
            /\ f.abandoned = g.abandoned /\ f.gaveUp = g.gaveUp
    BY <1>1 DEF Ghosts
  <1> QED BY <1>2 DEF q

\* The connection is given up, or dropped: the histories stay.
LEMMA GhostEnds ==
    ASSUME NEW g \in Ghosts
    PROVE  /\ LET f == [g EXCEPT !.abandoned = TRUE]
              IN  /\ f \in Ghosts /\ f.accepted = g.accepted /\ f.executed = g.executed
                  /\ f.abandoned = TRUE /\ f.gaveUp = g.gaveUp
           /\ LET f == [g EXCEPT !.abandoned = TRUE, !.gaveUp = TRUE]
              IN  /\ f \in Ghosts /\ f.accepted = g.accepted /\ f.executed = g.executed
                  /\ f.abandoned = TRUE /\ f.gaveUp = TRUE
  BY DEF Ghosts

\* The fields of the state that are used everywhere.
LEMMA Fields ==
    ASSUME TypeOK
    PROVE  /\ BdNextPacketIdToSend.id \in Bits /\ BdNextPacketIdToSend.sync \in BOOLEAN
           /\ message.n \in Nat /\ message.type \in Types /\ message \in Bodies
           /\ Len(ghost.executed) \in Nat
  BY SMTT(20) DEF TypeOK, Ids, Messages, Bodies, Ghosts

\* The message of a type is submitted.
LEMMA SubmitFacts ==
    ASSUME TypeOK, NEW type \in Types, Submit(type)
    PROVE  /\ message' \in Messages /\ message'.n = message.n + 1 /\ message'.type = type
           /\ pc' = "send"
  BY SMTT(20) DEF Submit, TypeOK, Messages

\* The caller of BdSendPacket goes on.
LEMMA ReturnFacts ==
    ASSUME Basic, Sending, NEW notPresent, Return(notPresent)
    PROVE  /\ pc' \in {"idle", "poll", "reply"} /\ report' \in StateChanges \cup {"none"}
           /\ report' = "none" <=> pc' \in {"idle", "poll"}
           /\ report' # "none" => report' = report /\ message.type # "print"
           /\ report' = "none" => \/ message.type \in {"print", "last"}
                                  \/ notPresent /\ message.type \in StateChanges
  BY DEF Basic, TypeOK, ReportInv, Return, Messages, Types, StateChanges, Sending

\* A message is acknowledged.
LEMMA AcknowledgedFacts ==
    ASSUME Basic, pc = "ack", Acknowledged
    PROVE  /\ BdNextPacketIdToSend' \in Ids
           /\ BdNextPacketIdToSend'.id = Flip(BdNextPacketIdToSend.id)
           /\ ~BdNextPacketIdToSend'.sync /\ UNCHANGED message
           /\ pc' \in {"idle", "poll", "reply"} /\ report' \in StateChanges \cup {"none"}
           /\ report' = "none" <=> pc' \in {"idle", "poll"}
           /\ report' # "none" => report' = report /\ message.type # "print"
           /\ report' = "none" => \/ message.type \in {"print", "last"}
                                  \/ BdDebuggerNotPresent /\ message.type \in StateChanges
  <1>1. Sending BY DEF Sending
  <1>2. Flip(BdNextPacketIdToSend.id) \in Bits BY Fields, FlipType DEF Basic
  <1>3. BdNextPacketIdToSend' = [id |-> Flip(BdNextPacketIdToSend.id), sync |-> FALSE]
    BY DEF Acknowledged
  <1>4. Return(BdDebuggerNotPresent) /\ UNCHANGED message BY DEF Acknowledged
  <1> QED BY <1>1, <1>2, <1>3, <1>4, ReturnFacts DEF Ids

\* Steps of the target.
LEMMA TargetBasic ==
    ASSUME Basic, SendPacket \/ ReceivePacket \/ Start
    PROVE  Basic'
  <1> USE DEF Basic, TypeOK
  <1>0. Sending => pc \in {"send", "ack"} BY DEF Sending
  <1>1. CASE GiveUp
    <2>1. Sending /\ Return(TRUE) BY <1>1 DEF GiveUp, Sending
    <2>2. ghost' \in Ghosts BY <1>1, GhostEnds DEF GiveUp
    <2>3. BdNextPacketIdToSend' \in Ids /\ BdPacketIdExpected' \in Bits
      BY <1>1 DEF GiveUp, Ids, Bits, Resync
    <2>4. UNCHANGED <<message, attempts, toHost, toTarget, host>> BY <1>1 DEF GiveUp
    <2> QED BY <2>1, <2>2, <2>3, <2>4, ReturnFacts DEF ReportInv
  <1>2. CASE SendOnce
    <2>1. toHost' \in Seq(Packets) BY <1>2, Fields, DataIsPacket, PutFacts DEF SendOnce
    <2> QED BY <1>2, <2>1 DEF SendOnce, ReportInv, Sending
  <1>3. CASE Timeout \/ DeviceFails \/ ReceiveShort
    <2>1. toTarget' \in Seq(Packets) BY <1>3, FailedReadCases, TailFacts
    <2>2. ghost' \in Ghosts
      BY <1>3, FailedReadCases, GhostEnds DEF ReadsAgain, ReadsNothing
    <2>3. pc = "reply" => report \in StateChanges /\ report # "none"
      BY DEF ReportInv, Sending
    <2>4. report \in StateChanges => [n |-> message.n + 1, type |-> report] \in Messages
      BY SMTT(20) DEF Messages, StateChanges, Types
    <2>5. UNCHANGED <<toHost, BdNextPacketIdToSend, BdPacketIdExpected, report, attempts,
                      host>>
      BY <1>3, FailedReadCases
    <2>6. \/ /\ pc = "ack" /\ pc' = "send" /\ UNCHANGED message
          \/ /\ pc = "reply" /\ pc' = "reply" /\ UNCHANGED message
          \/ /\ pc = "reply" /\ pc' = "send"
             /\ message' = [n |-> message.n + 1, type |-> report]
      BY <1>3, FailedReadCases DEF ReadsAgain, ReadsNothing
    <2>7. message' \in Messages /\ pc' \in {"send", "reply"} BY <2>3, <2>4, <2>6
    <2>8. ReportInv'
      <3>1. CASE pc = "ack" /\ pc' = "send" /\ UNCHANGED message
        BY <2>5, <3>1 DEF ReportInv, Sending
      <3>2. CASE pc = "reply" /\ pc' = "reply" /\ UNCHANGED message
        BY <2>5, <3>2 DEF ReportInv, Sending
      <3>3. CASE /\ pc = "reply" /\ pc' = "send"
                 /\ message' = [n |-> message.n + 1, type |-> report]
        BY <2>3, <2>5, <3>3 DEF ReportInv, Sending, StateChanges
      <3> QED BY <2>6, <3>1, <3>2, <3>3
    <2> QED BY <2>1, <2>2, <2>5, <2>7, <2>8
  <1>4. ASSUME SendAgain, pc \in {"ack", "reply"}, UNCHANGED report
        PROVE  message' \in Messages /\ pc' = "send" /\ ReportInv'
    <2>1. CASE pc = "ack" BY <1>4, <2>1 DEF SendAgain, ReportInv, Sending
    <2>2. CASE pc = "reply"
      <3>1. report \in StateChanges BY <2>2 DEF ReportInv, Sending
      <3>2. report \in Types /\ report # "print" BY <3>1 DEF StateChanges, Types
      <3>3. Submit(report) BY <1>4, <2>2 DEF SendAgain
      <3> QED BY <1>4, <3>1, <3>2, <3>3, SubmitFacts DEF ReportInv, Sending, StateChanges
    <2> QED BY <1>4, <2>1, <2>2
  <1>5. CASE ReceiveResend
    BY <1>4, <1>5, TailFacts DEF ReceiveResend
  <1>6. CASE ReceiveReset
    <2>1. toHost' \in Seq(Packets)
      BY <1>6, ControlIsPacket, PutFacts DEF ReceiveReset, Bits
    <2>2. BdNextPacketIdToSend' \in Ids /\ BdPacketIdExpected' \in Bits
      BY <1>6 DEF ReceiveReset, Ids, Bits, Initial
    <2> QED BY <1>4, <1>6, <2>1, <2>2, TailFacts DEF ReceiveReset
  <1>7. CASE ReceiveAck
    <2>1. toTarget' \in Seq(Packets) BY <1>7, TailFacts DEF ReceiveAck
    <2>2. CASE pc = "ack" /\ Acknowledged
      BY <1>7, <2>1, <2>2, AcknowledgedFacts DEF ReceiveAck, ReportInv
    <2>3. CASE ~(pc = "ack" /\ Acknowledged)
      BY <1>7, <2>1, <2>3 DEF ReceiveAck, ReportInv, Sending
    <2> QED BY <2>2, <2>3
  <1>8. CASE ReceiveDataForAck
    <2>1. toTarget' \in Seq(Packets) BY <1>8, TailFacts DEF ReceiveDataForAck
    <2>2. toHost' \in Seq(Packets)
      <3>1. Head(toTarget).id \in Bits BY <1>8, TailFacts, PacketFields DEF ReceiveDataForAck
      <3> QED BY <1>8, <3>1, ControlIsPacket, PutFacts DEF ReceiveDataForAck, Bits
    <2>3. CASE pc = "ack" /\ Acknowledged
      BY <1>8, <2>1, <2>2, <2>3, AcknowledgedFacts DEF ReceiveDataForAck, ReportInv
    <2>4. CASE ~(pc = "ack" /\ Acknowledged)
      BY <1>8, <2>1, <2>2, <2>4 DEF ReceiveDataForAck, ReportInv, Sending
    <2> QED BY <2>3, <2>4
  <1>9. CASE RejectRequest
    <2>1. Head(toTarget).id \in Bits BY <1>9, TailFacts, PacketFields DEF RejectRequest
    <2>2. toHost' \in Seq(Packets)
      BY <1>9, <2>1, ControlIsPacket, PutFacts DEF RejectRequest, Bits
    <2> QED BY <1>9, <2>2, TailFacts DEF RejectRequest, ReportInv, Sending
  <1>10. CASE Dispatch
    <2>1. /\ pc = "reply" /\ toTarget # <<>> /\ toTarget' = Tail(toTarget)
          /\ Head(toTarget).kind = "data"
          /\ toHost' = Put(toHost, Control("ack", Head(toTarget).id))
          /\ BdPacketIdExpected' = Flip(BdPacketIdExpected)
          /\ ghost' = [ghost EXCEPT !.executed = Append(@, Head(toTarget).body.n)]
          /\ UNCHANGED <<BdNextPacketIdToSend, attempts, host>>
      BY <1>10 DEF Dispatch
    <2>2. Head(toTarget).id \in Bits /\ Head(toTarget).body.n \in Nat
      BY <2>1, TailFacts, PacketFields, DataFields
    <2>3. toHost' \in Seq(Packets) BY <2>1, <2>2, ControlIsPacket, PutFacts
    <2>4. ghost' \in Ghosts BY <2>1, <2>2, GhostExecutes
    <2>5. BdPacketIdExpected' \in Bits BY <2>1, FlipType
    <2>6. toTarget' \in Seq(Packets) BY <2>1, TailFacts
    <2>7. CASE Head(toTarget).body.op = "continue"
      <3>1. pc' = "idle" /\ report' = "none" /\ UNCHANGED message
        BY <1>10, <2>7 DEF Dispatch
      <3> QED BY <2>1, <2>3, <2>4, <2>5, <2>6, <3>1 DEF ReportInv
    <2>8. CASE Head(toTarget).body.op # "continue"
      <3>1. PICK type \in {"last", "reply"} : Submit(type) /\ UNCHANGED report
        BY <1>10, <2>8 DEF Dispatch
      <3>2. report # "none" BY <2>1 DEF ReportInv, Sending
      <3>3. type \in Types BY DEF Types
      <3> QED BY <2>1, <2>3, <2>4, <2>5, <2>6, <3>1, <3>2, <3>3, SubmitFacts DEF ReportInv
    <2> QED BY <2>7, <2>8
  <1>11. CASE Poll
    <2>1. toTarget' \in Seq(Packets) BY <1>11, TailFacts DEF Poll
    <2> QED BY <1>11, <2>1 DEF Poll, ReportInv, Sending
  <1>12. ASSUME NEW type \in Types, Submit(type), Quiet, attempts' \in Nat,
                report' = IF type \in StateChanges THEN type ELSE "none",
                type \in {"print", "symbols", "exception"}
         PROVE  Basic'
    BY <1>12, SubmitFacts DEF Quiet, ReportInv, StateChanges, Sending
  <1>13. "print" \in Types /\ "symbols" \in Types /\ "exception" \in Types /\
         "print" \notin StateChanges /\ "symbols" \in StateChanges /\ "exception" \in StateChanges
    BY DEF Types, StateChanges
  <1>14. pc = "idle" => report = "none" BY DEF ReportInv
  <1>15. CASE Connect
    <2>1. CASE Submit("print")
      BY <1>12, <1>13, <1>14, <1>15, <2>1, SMTT(20) DEF Connect
    <2>2. CASE ~Submit("print")
      BY <1>15, <2>2 DEF Connect, Quiet, ReportInv, Sending
    <2> QED BY <2>1, <2>2
  <1>16. CASE BdPrintString
    BY <1>12, <1>13, <1>14, <1>16 DEF BdPrintString
  <1>17. CASE BdReportLoadSymbolsStateChange
    BY <1>12, <1>13, <1>17 DEF BdReportLoadSymbolsStateChange
  <1>18. CASE BdReportExceptionStateChange
    BY <1>12, <1>13, <1>18 DEF BdReportExceptionStateChange
  <1>19. CASE DropPrint \/ DropSymbols \/ BdPollConnection
    BY <1>14, <1>19 DEF DropPrint, DropSymbols, BdPollConnection, Quiet, ReportInv, Sending
  <1> QED BY <1>1, <1>2, <1>3, <1>5, <1>6, <1>7, <1>8, <1>9, <1>10, <1>11, <1>15, <1>16, <1>17,
             <1>18, <1>19
          DEF SendPacket, ReceivePacket, Start

\* The host as it hears a message is one.
LEMMA HearingFacts ==
    ASSUME TypeOK
    PROVE  /\ Hearing \in Hosts /\ Hearing.request = host.request
           /\ Hearing.waiting => Hearing = host
  BY ResyncFacts DEF TypeOK, Hearing

\* Steps of the host and of the cable.
LEMMA HostBasic ==
    ASSUME Basic, Host \/ Cable \/ UNCHANGED vars
    PROVE  Basic'
  <1> USE DEF Basic, TypeOK
  <1>1. ASSUME UNCHANGED target, toHost' \in Seq(Packets), toTarget' \in Seq(Packets),
               host' \in Hosts, ghost' \in Ghosts
        PROVE  Basic'
    BY <1>1 DEF target, ReportInv, Sending
  <1>2. /\ host.request \in Bodies /\ host.next \in Bits BY HostFields
  <1>3. Put(toTarget, Data(host.next, FALSE, host.request)) \in Seq(Packets)
    BY <1>2, DataIsPacket, PutFacts
  <1>4. CASE HostReceive
    <2>1. toHost # <<>> /\ toHost' = Tail(toHost) /\ UNCHANGED target
      BY <1>4, HostReceiveCases
    <2>2. toHost' \in Seq(Packets) /\ Head(toHost) \in Packets /\ Head(toHost).id \in Bits
      BY <2>1, TailFacts, PacketFields
    <2>3. /\ Put(toTarget, Control("ack", Head(toHost).id)) \in Seq(Packets)
          /\ Put(toTarget, Control("resend", 0)) \in Seq(Packets)
      BY <2>2, ControlIsPacket, PutFacts DEF Bits
    <2>4. CASE HearsReset
      BY <1>1, <2>1, <2>2, <2>4, ResyncFacts DEF HearsReset
    <2>5. CASE HearsAck
      BY <1>1, <2>1, <2>2, <2>5, KnowsFacts DEF HearsAck
    <2>6. CASE HearsResend
      BY <1>1, <1>3, <2>1, <2>2, <2>6 DEF HearsResend
    <2>7. CASE HearsOld \/ HearsDamaged
      BY <1>1, <2>1, <2>2, <2>3, <2>7, HearingFacts DEF HearsOld, HearsDamaged
    <2>8. CASE HearsEarly
      BY <1>1, <2>1, <2>2, <2>3, <2>8, HearingFacts, KnowsFacts DEF HearsEarly
    <2>9. CASE HearsMessage
      <3>1. Head(toHost).body.n \in Nat BY <2>2, <2>9, DataFields DEF HearsMessage, HearsData
      <3>2. host' \in Hosts BY <2>9, <3>1, HearingFacts, TakeFacts DEF HearsMessage
      <3>3. ghost' \in Ghosts BY <2>9, <3>1, GhostAccepts DEF HearsMessage
      <3> QED BY <1>1, <2>1, <2>2, <2>3, <2>9, <3>2, <3>3 DEF HearsMessage
    <2>10. CASE HearsNothing
      BY <1>1, <2>1, <2>2, <2>10 DEF HearsNothing
    <2> QED BY <1>4, <2>4, <2>5, <2>6, <2>7, <2>8, <2>9, <2>10, HostReceiveCases
  <1>5. CASE HostRequest
    <2>1. PICK op \in {"read", "last", "continue"} :
            /\ host' = Asking(host, op)
            /\ toTarget' = Put(toTarget, Data(host.next, FALSE, Request(host, op)))
      BY <1>5, HostRequestCase
    <2>2. Request(host, op) \in Bodies /\ host' \in Hosts BY <2>1, AskFacts DEF Bodies
    <2>3. toTarget' \in Seq(Packets) BY <1>2, <2>1, <2>2, DataIsPacket, PutFacts
    <2> QED BY <1>1, <1>5, <2>2, <2>3 DEF HostRequest
  <1>6. CASE HostRepeat
    BY <1>1, <1>3, <1>6 DEF HostRepeat
  <1>7. Control("reset", 0) \in Packets /\ Control("breakin", 0) \in Packets
    BY ControlIsPacket DEF Bits
  <1>8. CASE HostRepeatReset
    <2>1. toTarget' \in Seq(Packets) /\ toHost' \in Seq(Packets)
      BY <1>7, <1>8, SMTT(20) DEF HostRepeatReset
    <2> QED BY <1>1, <1>8, <2>1 DEF HostRepeatReset
  <1>9. CASE HostBreakIn
    BY <1>1, <1>7, <1>9, PutFacts, GhostEnds DEF HostBreakIn
  <1>10. CASE HostReset
    BY <1>1, <1>7, <1>10, PutFacts, GhostEnds, ResyncFacts DEF HostReset
  <1>11. CASE HostDies
    <2>1. host' \in Hosts BY <1>11 DEF HostDies, Hosts
    <2> QED BY <1>1, <1>11, <2>1 DEF HostDies
  <1>12. CASE Lose
    BY <1>1, <1>12, TailFacts DEF Lose
  <1>13. CASE Damage
    BY <1>1, <1>13, DamagedFacts DEF Damage
  <1>14. CASE UNCHANGED vars
    BY <1>1, <1>14 DEF vars
  <1> QED BY <1>4, <1>5, <1>6, <1>8, <1>9, <1>10, <1>11, <1>12, <1>13, <1>14 DEF Host, Cable

\* Every step keeps the types, and a report keeps the target in
\* BdpSendWaitContinue.
LEMMA StepBasic ==
    ASSUME Basic, [Next]_vars
    PROVE  Basic'
  BY TargetBasic, HostBasic DEF Next

\* The link starts with typed, empty channels.
LEMMA InitBasic == Init => Basic
  <1> SUFFICES ASSUME Init PROVE Basic OBVIOUS
  <1>1. BdNextPacketIdToSend \in Ids /\ BdPacketIdExpected \in Bits
    BY DEF Init, Ids, Bits, Resync
  <1>2. message \in Messages /\ report = "none" /\ pc = "idle" /\ attempts \in Nat
    BY DEF Init, Messages, Types
  <1>3. toHost \in Seq(Packets) /\ toTarget \in Seq(Packets) BY SMTT(20) DEF Init
  <1>4. host \in Hosts BY DEF Init, Hosts, Requests, Bits
  <1>5. ghost \in Ghosts BY SMTT(20) DEF Init, Ghosts
  <1> QED BY <1>1, <1>2, <1>3, <1>4, <1>5 DEF Basic, TypeOK, ReportInv

\* The ways a step changes the history.
LEMMA GhostStep ==
    ASSUME Basic, [Next]_vars
    PROVE  \/ UNCHANGED ghost
           \/ ghost' = [ghost EXCEPT !.abandoned = TRUE]
           \/ ghost' = [ghost EXCEPT !.abandoned = TRUE, !.gaveUp = TRUE]
           \/ \E n \in Nat : ghost' = [ghost EXCEPT !.accepted = Append(@, n)]
           \/ \E n \in Nat : ghost' = [ghost EXCEPT !.executed = Append(@, n)]
  <1>1. CASE Timeout \/ DeviceFails \/ ReceiveShort
    BY <1>1, FailedReadCases DEF Basic, ReadsAgain, ReadsNothing
  <1>2. CASE Dispatch
    <2>1. Head(toTarget).body.n \in Nat
      BY <1>2, TailFacts, DataFields DEF Dispatch, Basic, TypeOK
    <2> QED BY <1>2, <2>1 DEF Dispatch
  <1>3. CASE HostReceive
    <2>1. CASE HearsMessage
      <3>1. Head(toHost).body.n \in Nat
        BY <1>3, <2>1, HostReceiveCases, TailFacts, DataFields
        DEF HearsMessage, HearsData, Basic, TypeOK
      <3> QED BY <2>1, <3>1 DEF HearsMessage
    <2> QED BY <1>3, <2>1, HostReceiveCases
            DEF HearsReset, HearsAck, HearsResend, HearsOld, HearsEarly, HearsDamaged,
                HearsNothing
  <1> QED BY <1>1, <1>2, <1>3
          DEF Next, SendPacket, ReceivePacket, Start, Host, Cable, GiveUp, SendOnce,
              ReceiveResend, ReceiveReset, ReceiveAck, ReceiveDataForAck, RejectRequest, Poll,
              Connect, BdPrintString, DropPrint, BdReportLoadSymbolsStateChange, DropSymbols,
              BdReportExceptionStateChange, BdPollConnection, Quiet, HostRequest, HostRepeat,
              HostRepeatReset, HostBreakIn, HostReset, HostDies, Lose, Damage, vars

-----------------------------------------------------------------------------
(* No request is carried out twice: the argument above, applied.           *)

\* What holds until a message is given up.
RunOnce ==
    /\ \A i, j \in 1 .. Len(ghost.executed) :
         i < j => ghost.executed[i] < ghost.executed[j]
    /\ \A i \in 1 .. Len(ghost.executed) : ghost.executed[i] <= host.request.n
    /\ host.resyncing => ~host.waiting
    /\ OnceOrder(toTarget, ghost.executed, BdPacketIdExpected, host.request.n, host.waiting,
                 host.next)
    /\ host.waiting /\ Old(host.request.n, ghost.executed) => host.next # BdPacketIdExpected

RunOnceInv == Basic /\ (~ghost.gaveUp => RunOnce)

\* A step that only moves packets, or lets the host stop repeating.
LEMMA OnceKeepStep ==
    ASSUME RunOnce, ghost'.executed = ghost.executed, UNCHANGED BdPacketIdExpected,
           host'.request = host.request,
           \/ /\ host'.waiting = host.waiting /\ host'.next = host.next
              /\ host'.resyncing = host.resyncing
           \/ host'.waiting = FALSE,
           OnceOrder(toTarget', ghost.executed, BdPacketIdExpected, host.request.n,
                     host.waiting, host.next)
    PROVE  RunOnce'
  <1>1. OnceOrder(toTarget', ghost.executed, BdPacketIdExpected, host.request.n,
                  host'.waiting, host'.next)
    BY OnceStop
  <1> QED BY <1>1 DEF RunOnce

\* Steps of the target.
LEMMA OnceTargetStep ==
    ASSUME Basic, RunOnce, SendOnce \/ ReceivePacket \/ Start
    PROVE  RunOnce'
  <1> USE DEF Basic, TypeOK
  <1> DEFINE ok == OnceOrder(toTarget', ghost.executed, BdPacketIdExpected, host.request.n,
                             host.waiting, host.next)
  <1>1. UNCHANGED toTarget => ok BY DEF RunOnce
  <1>2. toTarget # <<>> /\ toTarget' = Tail(toTarget) => ok BY OnceTail DEF RunOnce
  <1> HIDE DEF ok
  <1>3. ASSUME ok, UNCHANGED <<BdPacketIdExpected, host>>, ghost'.executed = ghost.executed
        PROVE  RunOnce'
    BY <1>3, OnceKeepStep DEF ok
  <1>4. CASE Timeout \/ DeviceFails \/ ReceiveShort
    <2>1. ghost'.executed = ghost.executed
      BY <1>4, FailedReadCases, GhostEnds DEF ReadsAgain, ReadsNothing
    <2>2. ok BY <1>1, <1>2, <1>4, FailedReadCases
    <2> QED BY <1>3, <1>4, <2>1, <2>2, FailedReadCases
  <1>5. CASE SendOnce BY <1>1, <1>3, <1>5 DEF SendOnce
  <1>6. CASE ReceiveResend BY <1>2, <1>3, <1>6 DEF ReceiveResend
  <1>7. CASE ReceiveAck BY <1>2, <1>3, <1>7 DEF ReceiveAck
  <1>8. CASE ReceiveDataForAck BY <1>2, <1>3, <1>8 DEF ReceiveDataForAck
  <1>9. CASE RejectRequest BY <1>2, <1>3, <1>9 DEF RejectRequest
  <1>10. CASE Poll
    <2>1. ok BY <1>1, <1>2, <1>10 DEF Poll
    <2> QED BY <1>3, <1>10, <2>1 DEF Poll
  <1>11. CASE Start
    <2>1. Quiet
      BY <1>11
      DEF Start, Connect, BdPrintString, DropPrint, BdReportLoadSymbolsStateChange,
                   DropSymbols, BdReportExceptionStateChange, BdPollConnection
    <2> QED BY <1>1, <1>3, <2>1 DEF Quiet
  <1>12. CASE ReceiveReset
    <2>1. /\ toTarget # <<>> /\ Head(toTarget).kind = "reset" /\ toTarget' = Tail(toTarget)
          /\ BdPacketIdExpected' = 0 /\ UNCHANGED <<host, ghost>>
      BY <1>12 DEF ReceiveReset
    <2>2. /\ OnceOrder(toTarget', ghost.executed, 0, host.request.n, host.waiting, host.next)
          /\ host.waiting => ~Old(host.request.n, ghost.executed)
      BY <2>1, OnceReset, SMTT(20) DEF RunOnce
    <2> QED BY <2>1, <2>2 DEF RunOnce
  <1>13. CASE Dispatch
    <2>1. /\ toTarget # <<>> /\ Head(toTarget).kind = "data" /\ toTarget' = Tail(toTarget)
          /\ Head(toTarget).id = BdPacketIdExpected
          /\ BdPacketIdExpected' = Flip(BdPacketIdExpected)
          /\ ghost' = [ghost EXCEPT !.executed = Append(@, Head(toTarget).body.n)]
          /\ UNCHANGED host
      BY <1>13 DEF Dispatch
    <2> DEFINE n == Head(toTarget).body.n
               e == ghost.executed
    <2>2. e \in Seq(Nat) /\ host.request.n \in Nat BY HostFields DEF Ghosts
    <2>3. /\ n \in Nat /\ ~Old(n, e) /\ n <= host.request.n
          /\ OnceOrder(Tail(toTarget), Append(e, n), Flip(BdPacketIdExpected), host.request.n,
                       host.waiting, host.next)
          /\ host.waiting /\ Old(host.request.n, Append(e, n)) =>
               host.next # Flip(BdPacketIdExpected) \/ Old(host.request.n, e)
      BY <2>1, <2>2, OnceDispatch DEF RunOnce
    <2>4. ghost'.executed = Append(e, n) BY <2>1, <2>3, GhostExecutes
    <2>5. host.waiting /\ Old(host.request.n, e) => FALSE
      BY <2>2, <2>3, OldAppend
    <2> HIDE DEF n, e
    <2>6. /\ Len(Append(e, n)) = Len(e) + 1 /\ Append(e, n)[Len(e) + 1] = n /\ Len(e) \in Nat
          /\ \A k \in 1 .. Len(e) : Append(e, n)[k] = e[k] /\ e[k] \in Nat
      BY <2>2, <2>3, SMTT(20)
    <2>7. \A k \in 1 .. Len(e) : e[k] < n /\ e[k] <= host.request.n
      BY <2>3, <2>6, SMTT(20) DEF Old, RunOnce, e
    <2>8. \A i, j \in 1 .. Len(e) + 1 : i < j => Append(e, n)[i] < Append(e, n)[j]
      <3>1. TAKE i, j \in 1 .. Len(e) + 1
      <3>2. HAVE i < j
      <3>3. i \in 1 .. Len(e) BY <2>6, <3>2, SMTT(20)
      <3>4. CASE j = Len(e) + 1 BY <2>6, <2>7, <3>3, <3>4
      <3>5. CASE j \in 1 .. Len(e)
        <4>1. e[i] < e[j] BY <3>2, <3>3, <3>5 DEF RunOnce, e
        <4> QED BY <2>6, <3>3, <3>5, <4>1
      <3> QED BY <2>6, <3>4, <3>5, SMTT(20)
    <2>9. \A i \in 1 .. Len(e) + 1 : Append(e, n)[i] <= host.request.n
      <3>1. TAKE i \in 1 .. Len(e) + 1
      <3>2. CASE i = Len(e) + 1 BY <2>3, <2>6, <3>2
      <3>3. CASE i \in 1 .. Len(e) BY <2>6, <2>7, <3>3
      <3> QED BY <2>6, <3>2, <3>3, SMTT(20)
    <2> QED BY <2>1, <2>3, <2>4, <2>5, <2>6, <2>8, <2>9 DEF RunOnce
  <1> QED BY <1>4, <1>5, <1>6, <1>7, <1>8, <1>9, <1>10, <1>11, <1>12, <1>13 DEF ReceivePacket

\* Steps of the host and of the cable.
LEMMA OnceHostStep ==
    ASSUME Basic, RunOnce, Host \/ Cable \/ UNCHANGED vars
    PROVE  RunOnce'
  <1> USE DEF Basic, TypeOK
  <1> DEFINE ok == OnceOrder(toTarget', ghost.executed, BdPacketIdExpected, host.request.n,
                             host.waiting, host.next)
  <1>1. UNCHANGED toTarget => ok BY DEF RunOnce
  <1>2. toTarget # <<>> /\ toTarget' = Tail(toTarget) => ok BY OnceTail DEF RunOnce
  <1>3. /\ host.request \in Bodies /\ host.request.n \in Nat /\ host.next \in Bits
        /\ host.waiting \in BOOLEAN /\ ghost.executed \in Seq(Nat)
    BY HostFields DEF Ghosts
  <1>4. host.waiting /\ toTarget' = Put(toTarget, Data(host.next, FALSE, host.request)) => ok
    <2>1. SUFFICES ASSUME host.waiting = TRUE,
                          toTarget' = Put(toTarget, Data(host.next, FALSE, host.request))
                   PROVE  ok
      BY <1>3
    <2> QED BY <1>3, <2>1, OncePutRequest DEF RunOnce
  <1>5. ASSUME NEW kind \in {"ack", "resend", "breakin"}, NEW id \in Bits,
               toTarget' = Put(toTarget, Control(kind, id))
        PROVE  ok
    BY <1>5, OncePutControl DEF RunOnce
  <1> HIDE DEF ok
  <1>6. ASSUME ok, UNCHANGED target, ghost'.executed = ghost.executed,
               host'.request = host.request,
               \/ /\ host'.waiting = host.waiting /\ host'.next = host.next
                  /\ host'.resyncing = host.resyncing
               \/ ~host'.waiting /\ host' \in Hosts
        PROVE  RunOnce'
    <2>1. host' \in Hosts => host'.waiting \in BOOLEAN BY HostFields
    <2> QED BY <1>6, <2>1, OnceKeepStep DEF ok, target
  <1>7. CASE HostReceive
    <2>1. toHost # <<>> /\ toHost' = Tail(toHost) /\ UNCHANGED target
      BY <1>7, HostReceiveCases
    <2>2. Head(toHost).id \in Bits /\ 0 \in Bits BY <2>1, TailFacts, PacketFields DEF Bits
    <2>3. Head(toHost).kind = "data" => Head(toHost).body.n \in Nat
      BY <2>1, TailFacts, DataFields
    <2>4. /\ Hearing \in Hosts /\ Hearing.request = host.request
          /\ Hearing = host \/ ~Hearing.waiting
      BY HearingFacts
    <2>5. CASE HearsReset
      <3>1. host' \in Hosts /\ host'.request = host.request /\ ~host'.waiting
        BY <2>5, ResyncFacts DEF HearsReset
      <3> QED BY <1>1, <1>6, <2>1, <2>5, <3>1 DEF HearsReset
    <2>6. CASE HearsAck
      <3>1. host' \in Hosts /\ host'.request = host.request /\ ~host'.waiting
        BY <2>6, KnowsFacts DEF HearsAck
      <3> QED BY <1>1, <1>6, <2>1, <2>6, <3>1 DEF HearsAck
    <2>7. CASE HearsResend
      BY <1>4, <1>6, <2>1, <2>7 DEF HearsResend
    <2>8. CASE HearsOld
      <3>1. ok BY <1>5, <2>2, <2>8 DEF HearsOld
      <3> QED BY <1>6, <2>1, <2>4, <2>8, <3>1 DEF HearsOld
    <2>9. CASE HearsDamaged
      <3>1. ok BY <1>5, <2>2, <2>9 DEF HearsDamaged
      <3> QED BY <1>6, <2>1, <2>4, <2>9, <3>1 DEF HearsDamaged
    <2>10. CASE HearsEarly
      <3>1. ok BY <1>5, <2>2, <2>10 DEF HearsEarly
      <3>2. host' \in Hosts /\ host'.request = host.request /\ ~host'.waiting
        BY <2>4, <2>10, KnowsFacts DEF HearsEarly
      <3> QED BY <1>6, <2>1, <2>10, <3>1, <3>2 DEF HearsEarly
    <2>11. CASE HearsMessage
      <3>1. ok BY <1>5, <2>2, <2>11 DEF HearsMessage
      <3>2. host' \in Hosts /\ host'.request = host.request /\ ~host'.waiting
        BY <2>3, <2>4, <2>11, TakeFacts, SMTT(20) DEF HearsMessage, HearsData
      <3>3. ghost'.executed = ghost.executed
        BY <2>3, <2>11, GhostAccepts DEF HearsMessage, HearsData
      <3> QED BY <1>6, <2>1, <3>1, <3>2, <3>3
    <2>12. CASE HearsNothing BY <1>1, <1>6, <2>1, <2>12 DEF HearsNothing
    <2> QED BY <1>7, <2>5, <2>6, <2>7, <2>8, <2>9, <2>10, <2>11, <2>12, HostReceiveCases
  <1>8. CASE HostRequest
    <2>1. PICK op \in {"read", "last", "continue"} :
            /\ host' = Asking(host, op)
            /\ toTarget' = Put(toTarget, Data(host.next, FALSE, Request(host, op)))
      BY <1>8, HostRequestCase
    <2> DEFINE q == Request(host, op)
    <2>2. /\ host'.request = q /\ q \in Bodies /\ q.n = host.request.n + 1 /\ host'.waiting
          /\ host' \in Hosts /\ host'.next = host.next /\ host'.resyncing = host.resyncing
      BY <2>1, AskFacts DEF Bodies
    <2>3. /\ host.waiting = FALSE /\ ~host.resyncing /\ UNCHANGED ghost
          /\ UNCHANGED BdPacketIdExpected
      BY <1>3, <1>8 DEF HostRequest, target
    <2>4. host'.waiting = TRUE BY <2>2, HostFields
    <2> HIDE DEF q
    <2>5. /\ OnceOrder(toTarget, ghost.executed, BdPacketIdExpected, host.request.n + 1, TRUE,
                       host.next)
          /\ ~Old(host.request.n + 1, ghost.executed)
      BY <1>3, <2>3, OnceAsk DEF RunOnce
    <2>6. OnceOrder(toTarget', ghost.executed, BdPacketIdExpected, q.n, TRUE, host.next)
      <3>1. toTarget' = Put(toTarget, Data(host.next, FALSE, q)) BY <2>1 DEF q
      <3>2. /\ OnceOrder(toTarget, ghost.executed, BdPacketIdExpected, q.n, TRUE, host.next)
            /\ ~Old(q.n, ghost.executed)
        BY ONLY <2>2, <2>5, Zenon
      <3>3. toTarget \in Seq(Packets) /\ q.n \in Nat BY <1>3, <2>2, SMTT(20)
      <3> QED BY ONLY <1>3, <2>2, <3>1, <3>2, <3>3, OncePutRequest, Zenon
    <2>7. \A i \in 1 .. Len(ghost.executed) : ghost.executed[i] <= host.request.n + 1
      <3>1. TAKE i \in 1 .. Len(ghost.executed)
      <3>2. ghost.executed[i] \in Nat /\ ghost.executed[i] <= host.request.n
        BY <1>3, SMTT(20) DEF RunOnce
      <3> QED BY <1>3, <3>2, SMTT(20)
    <2> QED BY <2>2, <2>3, <2>4, <2>5, <2>6, <2>7 DEF RunOnce
  <1>9. CASE HostRepeat BY <1>4, <1>6, <1>9 DEF HostRepeat
  <1>10. 0 \in Bits BY DEF Bits
  <1>11. CASE HostBreakIn
    <2>1. ok BY <1>5, <1>10, <1>11 DEF HostBreakIn
    <2>2. ghost'.executed = ghost.executed BY <1>11, GhostEnds DEF HostBreakIn
    <2> QED BY <1>6, <1>11, <2>1, <2>2 DEF HostBreakIn
  <1>12. CASE HostReset
    <2>1. host' \in Hosts /\ host'.request = host.request /\ ~host'.waiting
      BY <1>12, ResyncFacts DEF HostReset
    <2>2. host'.waiting = FALSE BY <2>1, HostFields
    <2>3. OnceOrder(toTarget, ghost.executed, BdPacketIdExpected, host.request.n, FALSE,
                    host'.next)
      BY OnceStop DEF RunOnce
    <2>4. OnceOrder(toTarget', ghost.executed, BdPacketIdExpected, host.request.n, FALSE,
                    host'.next)
      BY <1>10, <1>12, <2>3, OncePutControl DEF HostReset
    <2>5. ghost'.executed = ghost.executed /\ UNCHANGED BdPacketIdExpected
      BY <1>12, GhostEnds DEF HostReset, target
    <2> QED BY <2>1, <2>2, <2>4, <2>5 DEF RunOnce
  <1>13. CASE HostRepeatReset
    <2>1. toTarget' = <<Control("reset", 0)>> /\ host.resyncing /\ UNCHANGED <<target, host, ghost>>
      BY <1>13 DEF HostRepeatReset
    <2>2. Control("reset", 0).kind = "reset" /\ Len(toTarget') = 1
          /\ toTarget'[1] = Control("reset", 0)
      BY <2>1 DEF Control
    <2>3. ~host.waiting BY <2>1 DEF RunOnce
    <2>4. ok BY <2>2, <2>3, Z3T(20) DEF OnceOrder, Once, ok
    <2> QED BY <1>6, <2>1, <2>4
  <1>14. CASE HostDies
    <2>1. /\ host'.request = host.request /\ host'.waiting = host.waiting
          /\ host'.next = host.next /\ host'.resyncing = host.resyncing
      BY <1>14 DEF HostDies, Hosts
    <2> QED BY <1>1, <1>6, <1>14, <2>1 DEF HostDies
  <1>15. CASE Lose BY <1>1, <1>2, <1>6, <1>15 DEF Lose
  <1>16. CASE Damage
    <2>1. toTarget # <<>> /\ Head(toTarget).kind = "data" /\ toTarget' = Damaged(toTarget) => ok
      BY OnceDamaged DEF RunOnce, ok
    <2> QED BY <1>1, <1>6, <1>16, <2>1 DEF Damage
  <1>17. CASE UNCHANGED vars BY <1>1, <1>6, <1>17 DEF vars
  <1> QED BY <1>7, <1>8, <1>9, <1>11, <1>12, <1>13, <1>14, <1>15, <1>16, <1>17 DEF Host, Cable

\* At first nothing is on its way and nothing has been executed.
LEMMA RunOnceInit == Init => RunOnceInv
  <1> SUFFICES ASSUME Init PROVE RunOnceInv OBVIOUS
  <1>1. Basic BY InitBasic
  <1>2. /\ toTarget = <<>> /\ ghost.executed = <<>> /\ ~host.waiting /\ ~host.resyncing
    BY DEF Init
  <1>3. OnceOrder(toTarget, ghost.executed, BdPacketIdExpected, host.request.n, host.waiting,
                  host.next)
    BY <1>2, SMTT(20) DEF OnceOrder
  <1> QED BY <1>1, <1>2, <1>3, SMTT(20) DEF RunOnceInv, RunOnce

\* Every step keeps the order of the requests until the target gives up.
LEMMA RunOnceStep ==
    ASSUME RunOnceInv, [Next]_vars
    PROVE  RunOnceInv'
  <1>1. Basic /\ Basic' BY StepBasic DEF RunOnceInv
  <1>2. GiveUp => ghost'.gaveUp = TRUE BY <1>1, GhostEnds DEF GiveUp, Basic, TypeOK
  <1>3. ghost.gaveUp => ghost'.gaveUp
    <2>1. ghost \in Ghosts BY <1>1 DEF Basic, TypeOK
    <2>2. CASE UNCHANGED ghost BY <2>2
    <2>3. CASE \/ ghost' = [ghost EXCEPT !.abandoned = TRUE]
               \/ ghost' = [ghost EXCEPT !.abandoned = TRUE, !.gaveUp = TRUE]
      BY <2>1, <2>3, GhostEnds
    <2>4. CASE \E n \in Nat : ghost' = [ghost EXCEPT !.accepted = Append(@, n)]
      BY <2>1, <2>4, GhostAccepts
    <2>5. CASE \E n \in Nat : ghost' = [ghost EXCEPT !.executed = Append(@, n)]
      BY <2>1, <2>5, GhostExecutes
    <2> QED BY <1>1, <2>2, <2>3, <2>4, <2>5, GhostStep
  <1>4. CASE ghost'.gaveUp BY <1>1, <1>4 DEF RunOnceInv
  <1>5. CASE ~ghost'.gaveUp
    <2>1. RunOnce /\ ~GiveUp BY <1>2, <1>3, <1>5 DEF RunOnceInv
    <2>2. RunOnce' BY <1>1, <2>1, OnceTargetStep, OnceHostStep DEF Next, SendPacket
    <2> QED BY <1>1, <2>2 DEF RunOnceInv
  <1> QED BY <1>4, <1>5

\* No request is carried out twice (BdUsbReceivePacket and
\* BdpSendWaitContinue): the ids of one bit and the RESETs of both sides keep
\* every repeated, delayed or resynchronised request from being dispatched
\* again, for channels of every capacity, until GiveUp sets the expected id
\* back on its own.
THEOREM KdUsbRequestsRunOnce == Spec => []RequestsRunOnce
  <1>1. Init => RunOnceInv BY RunOnceInit
  <1>2. RunOnceInv /\ [Next]_vars => RunOnceInv' BY RunOnceStep
  <1>3. RunOnceInv => RequestsRunOnce
    <2>1. ASSUME RunOnceInv PROVE DOMAIN ghost.executed = 1 .. Len(ghost.executed)
      BY <2>1, SMTT(20) DEF RunOnceInv, Basic, TypeOK, Ghosts
    <2> QED BY <2>1 DEF RunOnceInv, RunOnce, RequestsRunOnce
  <1> QED BY <1>1, <1>2, <1>3, PTL DEF Spec
=============================================================================
