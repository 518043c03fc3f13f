-------------------------- MODULE KdUsbLinkProofs ---------------------------
(***************************************************************************)
(* The USB link keeps the promise of KdLink, and a stopped target waits.   *)
(* The argument about the order of packets is the same for the two         *)
(* directions and is made once (InOrder).                                  *)
(***************************************************************************)
EXTENDS KdUsbProofs

\* A leaf is Zenon's unless it names the SMT solver, which is for arithmetic.
USE ZenonT(40), SMTT(15), Z3T(15)

-----------------------------------------------------------------------------
(* The order of a channel. Its receiver took old messages so far and       *)
(* expects the id expected next; its sender is at message number new. The  *)
(* receiver itself may wait for the acknowledgement of its own message,    *)
(* whose id is cur: "sent" until that message is taken, "heard" from then  *)
(* until it knows, "idle" otherwise.                                       *)

Fresh(p, old) == p.kind = "data" /\ p.body.n = old + 1

\* What tells the receiver that its own message was taken.
Answers(p, old, cur) == Fresh(p, old) \/ (p.kind = "ack" /\ p.id = cur)

Fits(p, old, new, body, expected, cur, phase) ==
    /\ p.kind \in {"data", "ack", "resend"}
    /\ p.kind = "data" =>
         /\ p.body.n \in {old, new}
         /\ p.body.n = new => p.body = body
         /\ p.id = expected <=> p.body.n = old + 1
         /\ p.sync => p.body.n = 1
    /\ p.kind = "ack" /\ phase # "heard" => p.id # cur
    /\ p.kind = "resend" => phase # "idle"

\* What may come behind p: q.
Behind(p, q, old, cur, phase) ==
    /\ Fresh(p, old) /\ q.kind = "data" => q.body.n = old + 1
    /\ phase = "heard" /\ Answers(p, old, cur) =>
         /\ q.kind = "ack" => q.id = cur
         /\ q.kind # "resend"

InOrder(c, old, new, body, expected, cur, phase) ==
    /\ \A i \in 1 .. Len(c) : Fits(c[i], old, new, body, expected, cur, phase)
    /\ \A i, j \in 1 .. Len(c) : i < j => Behind(c[i], c[j], old, cur, phase)

\* A packet leaves the channel.
LEMMA OrderTail ==
    ASSUME NEW c \in Seq(Packets), c # <<>>, NEW old, NEW new, NEW body, NEW expected,
           NEW cur, NEW phase, InOrder(c, old, new, body, expected, cur, phase)
    PROVE  /\ InOrder(Tail(c), old, new, body, expected, cur, phase)
           /\ Fits(Head(c), old, new, body, expected, cur, phase)
           /\ \A i \in 1 .. Len(Tail(c)) : Behind(Head(c), Tail(c)[i], old, cur, phase)
  <1>1. \A i \in 1 .. Len(Tail(c)) : i + 1 \in 1 .. Len(c) /\ Tail(c)[i] = c[i + 1]
    BY TailFacts, SMTT(20)
  <1>2. 1 \in 1 .. Len(c) /\ Head(c) = c[1] BY TailFacts, SMTT(20)
  <1>3. Len(Tail(c)) \in Nat BY TailFacts, SMTT(20)
  <1>4. ASSUME NEW i \in 1 .. Len(Tail(c)), NEW j \in 1 .. Len(Tail(c)), i < j
        PROVE  Behind(Tail(c)[i], Tail(c)[j], old, cur, phase)
    BY <1>1, <1>3, <1>4, SMTT(20) DEF InOrder
  <1>5. ASSUME NEW i \in 1 .. Len(Tail(c)) PROVE Behind(Head(c), Tail(c)[i], old, cur, phase)
    BY <1>1, <1>2, <1>3, SMTT(20) DEF InOrder
  <1> QED BY <1>1, <1>2, <1>4, <1>5 DEF InOrder

\* A packet enters the channel, or is refused.
LEMMA OrderPut ==
    ASSUME NEW c \in Seq(Packets), NEW p \in Packets, NEW old, NEW new, NEW body,
           NEW expected, NEW cur, NEW phase,
           InOrder(c, old, new, body, expected, cur, phase),
           Fits(p, old, new, body, expected, cur, phase),
           \A i \in 1 .. Len(c) : Behind(c[i], p, old, cur, phase)
    PROVE  InOrder(Put(c, p), old, new, body, expected, cur, phase)
  <1>1. CASE Put(c, p) = c BY <1>1
  <1>2. CASE /\ Len(Put(c, p)) = Len(c) + 1 /\ Put(c, p)[Len(c) + 1] = p
             /\ \A i \in 1 .. Len(c) : Put(c, p)[i] = c[i]
    <2>1. Len(c) \in Nat BY SMTT(20)
    <2>2. ASSUME NEW i \in 1 .. Len(Put(c, p))
          PROVE  Fits(Put(c, p)[i], old, new, body, expected, cur, phase)
      BY <1>2, <2>1, SMTT(20) DEF InOrder
    <2>3. ASSUME NEW i \in 1 .. Len(Put(c, p)), NEW j \in 1 .. Len(Put(c, p)), i < j
          PROVE  Behind(Put(c, p)[i], Put(c, p)[j], old, cur, phase)
      <3>1. i \in 1 .. Len(c) BY <1>2, <2>1, <2>3, SMTT(20)
      <3>2. CASE j = Len(c) + 1 BY <1>2, <3>1, <3>2
      <3>3. CASE j \in 1 .. Len(c) BY <1>2, <2>3, <3>1, <3>3 DEF InOrder
      <3> QED BY <1>2, <2>1, <3>2, <3>3, SMTT(20)
    <2> QED BY <2>2, <2>3 DEF InOrder
  <1> QED BY <1>1, <1>2, PutFacts

\* The first packet is damaged.
LEMMA OrderDamaged ==
    ASSUME NEW c \in Seq(Packets), c # <<>>, Head(c).kind = "data", NEW old, NEW new,
           NEW body, NEW expected, NEW cur, NEW phase,
           InOrder(c, old, new, body, expected, cur, phase)
    PROVE  InOrder(Damaged(c), old, new, body, expected, cur, phase)
  <1>1. Len(c) \in Nat /\ Len(Damaged(c)) = Len(c) BY DamagedFacts, SMTT(20)
  <1>2. ASSUME NEW i \in 1 .. Len(c)
        PROVE  /\ Damaged(c)[i].kind = c[i].kind /\ Damaged(c)[i].id = c[i].id
               /\ Damaged(c)[i].kind = "data" =>
                    /\ Damaged(c)[i].sync = c[i].sync
                    /\ Damaged(c)[i].body = c[i].body
    BY <1>1, DamagedFacts, SMTT(20)
  <1>3. ASSUME NEW i \in 1 .. Len(c)
        PROVE  Fits(Damaged(c)[i], old, new, body, expected, cur, phase)
    <2>1. Fits(c[i], old, new, body, expected, cur, phase) BY DEF InOrder
    <2> QED BY <1>2, <2>1 DEF Fits
  <1>4. ASSUME NEW i \in 1 .. Len(c), NEW j \in 1 .. Len(c), i < j
        PROVE  Behind(Damaged(c)[i], Damaged(c)[j], old, cur, phase)
    <2>1. Behind(c[i], c[j], old, cur, phase) BY <1>4 DEF InOrder
    <2> QED BY <1>2, <2>1 DEF Behind, Answers, Fresh
  <1> QED BY <1>1, <1>3, <1>4 DEF InOrder

\* The sender puts its message into the channel, for the first time or again.
LEMMA OrderPutData ==
    ASSUME NEW c \in Seq(Packets), NEW old \in Nat, NEW new, NEW body \in Bodies,
           NEW expected, NEW cur, NEW phase, NEW id \in Bits, NEW sync \in BOOLEAN,
           InOrder(c, old, new, body, expected, cur, phase),
           body.n = new, new \in {old, old + 1}, id = expected <=> new = old + 1,
           sync => new = 1
    PROVE  /\ InOrder(Put(c, Data(id, sync, body)), old, new, body, expected, cur, phase)
           /\ Put(c, Data(id, sync, body)) \in Seq(Packets)
  <1> DEFINE p == Data(id, sync, body)
  <1>1. p \in Packets /\ p.kind = "data" /\ p.id = id /\ p.sync = sync /\ p.body = body
    BY DataIsPacket, SMTT(20)
  <1> HIDE DEF p
  <1>2. Fits(p, old, new, body, expected, cur, phase) BY <1>1 DEF Fits
  <1>3. ASSUME NEW i \in 1 .. Len(c) PROVE Behind(c[i], p, old, cur, phase)
    <2>1. Fits(c[i], old, new, body, expected, cur, phase) BY DEF InOrder
    <2> QED BY <1>1, <2>1 DEF Fits, Behind, Fresh
  <1>4. InOrder(Put(c, p), old, new, body, expected, cur, phase)
    BY <1>1, <1>2, <1>3, OrderPut
  <1> QED BY <1>1, <1>4, PutFacts DEF p

\* The sender acknowledges a message of the receiver.
LEMMA OrderPutAck ==
    ASSUME NEW c \in Seq(Packets), NEW old, NEW new, NEW body, NEW expected, NEW cur,
           NEW phase, NEW id \in Bits, InOrder(c, old, new, body, expected, cur, phase),
           phase = "heard" <=> id = cur
    PROVE  /\ InOrder(Put(c, Control("ack", id)), old, new, body, expected, cur, phase)
           /\ Put(c, Control("ack", id)) \in Seq(Packets)
  <1> DEFINE p == Control("ack", id)
  <1>1. p \in Packets /\ p.kind = "ack" /\ p.id = id BY ControlIsPacket
  <1> HIDE DEF p
  <1>2. Fits(p, old, new, body, expected, cur, phase) BY <1>1 DEF Fits
  <1>3. ASSUME NEW i \in 1 .. Len(c) PROVE Behind(c[i], p, old, cur, phase)
    BY <1>1 DEF Behind
  <1>4. InOrder(Put(c, p), old, new, body, expected, cur, phase)
    BY <1>1, <1>2, <1>3, OrderPut
  <1> QED BY <1>1, <1>4, PutFacts DEF p

\* The sender asks for a message of the receiver that it did not take.
LEMMA OrderPutResend ==
    ASSUME NEW c \in Seq(Packets), NEW old, NEW new, NEW body, NEW expected, NEW cur,
           InOrder(c, old, new, body, expected, cur, "sent")
    PROVE  /\ InOrder(Put(c, Control("resend", 0)), old, new, body, expected, cur, "sent")
           /\ Put(c, Control("resend", 0)) \in Seq(Packets)
  <1> DEFINE p == Control("resend", 0)
  <1>1. p \in Packets /\ p.kind = "resend" BY ControlIsPacket DEF Bits
  <1> HIDE DEF p
  <1>2. Fits(p, old, new, body, expected, cur, "sent") BY <1>1 DEF Fits
  <1>3. ASSUME NEW i \in 1 .. Len(c) PROVE Behind(c[i], p, old, cur, "sent")
    BY <1>1 DEF Behind
  <1>4. InOrder(Put(c, p), old, new, body, expected, cur, "sent")
    BY <1>1, <1>2, <1>3, OrderPut
  <1> QED BY <1>1, <1>4, PutFacts DEF p

\* The sender begins a new message: none of it is in the channel.
LEMMA OrderSubmit ==
    ASSUME NEW c, NEW old \in Nat, NEW body, NEW next, NEW expected, NEW cur, NEW phase,
           InOrder(c, old, old, body, expected, cur, phase)
    PROVE  InOrder(c, old, old + 1, next, expected, cur, phase)
  <1>1. ASSUME NEW i \in 1 .. Len(c)
        PROVE  Fits(c[i], old, old + 1, next, expected, cur, phase)
    <2>1. Fits(c[i], old, old, body, expected, cur, phase) BY DEF InOrder
    <2> QED BY <2>1, SMTT(20) DEF Fits
  <1> QED BY <1>1 DEF InOrder

\* The receiver takes the message: the ids of what is left of it are old.
LEMMA OrderTake ==
    ASSUME NEW c \in Seq(Packets), NEW old \in Nat, NEW body, NEW expected \in Bits,
           NEW cur, NEW phase, InOrder(c, old, old + 1, body, expected, cur, phase),
           \A i \in 1 .. Len(c) : c[i].kind = "data" => c[i].body.n = old + 1
    PROVE  InOrder(c, old + 1, old + 1, body, Flip(expected), cur, phase)
  <1>1. \A i \in 1 .. Len(c) : c[i] \in Packets BY SMTT(20)
  <1>2. ASSUME NEW i \in 1 .. Len(c)
        PROVE  Fits(c[i], old + 1, old + 1, body, Flip(expected), cur, phase)
    <2>1. Fits(c[i], old, old + 1, body, expected, cur, phase) BY DEF InOrder
    <2>2. old + 1 # (old + 1) + 1 BY SMTT(20)
    <2> QED BY <1>1, <2>1, <2>2, PacketFields, SMTT(20) DEF Fits, Flip, Bits
  <1>3. ASSUME NEW i \in 1 .. Len(c), NEW j \in 1 .. Len(c), i < j
        PROVE  Behind(c[i], c[j], old + 1, cur, phase)
    <2>1. Behind(c[i], c[j], old, cur, phase) BY <1>3 DEF InOrder
    <2>2. ~Fresh(c[i], old + 1) BY SMTT(20) DEF Fresh
    <2> QED BY <2>1, <2>2 DEF Behind, Answers
  <1> QED BY <1>2, <1>3 DEF InOrder

\* The receiver's own message begins: every acknowledgement is an old one.
LEMMA OrderBegin ==
    ASSUME NEW c, NEW old, NEW new, NEW body, NEW expected, NEW cur,
           InOrder(c, old, new, body, expected, cur, "idle")
    PROVE  InOrder(c, old, new, body, expected, cur, "sent")
  <1>1. ASSUME NEW i \in 1 .. Len(c)
        PROVE  Fits(c[i], old, new, body, expected, cur, "sent")
    <2>1. Fits(c[i], old, new, body, expected, cur, "idle") BY DEF InOrder
    <2> QED BY <2>1 DEF Fits
  <1> QED BY <1>1 DEF InOrder, Behind

\* The receiver's own message is taken: nothing in the channel tells it yet.
LEMMA OrderHeard ==
    ASSUME NEW c, NEW old \in Nat, NEW body, NEW expected, NEW cur,
           InOrder(c, old, old, body, expected, cur, "sent")
    PROVE  InOrder(c, old, old, body, expected, cur, "heard")
  <1>1. ASSUME NEW i \in 1 .. Len(c)
        PROVE  Fits(c[i], old, old, body, expected, cur, "heard") /\ ~Answers(c[i], old, cur)
    <2>1. Fits(c[i], old, old, body, expected, cur, "sent") BY DEF InOrder
    <2> QED BY <2>1, SMTT(20) DEF Fits, Answers, Fresh
  <1>2. ASSUME NEW i \in 1 .. Len(c), NEW j \in 1 .. Len(c), i < j
        PROVE  Behind(c[i], c[j], old, cur, "heard")
    <2>1. Behind(c[i], c[j], old, cur, "sent") BY <1>2 DEF InOrder
    <2> QED BY <1>1, <2>1 DEF Behind
  <1> QED BY <1>1, <1>2 DEF InOrder

\* The receiver knows that its own message was taken.
LEMMA OrderKnown ==
    ASSUME NEW c \in Seq(Packets), NEW old, NEW new, NEW body, NEW expected, NEW cur \in Bits,
           NEW p, InOrder(c, old, new, body, expected, cur, "heard"),
           Answers(p, old, cur),
           \A i \in 1 .. Len(c) : Behind(p, c[i], old, cur, "heard")
    PROVE  InOrder(c, old, new, body, expected, Flip(cur), "idle")
  <1>1. ASSUME NEW i \in 1 .. Len(c)
        PROVE  Fits(c[i], old, new, body, expected, Flip(cur), "idle")
    <2>1. Fits(c[i], old, new, body, expected, cur, "heard") BY DEF InOrder
    <2>2. c[i].kind # "resend" /\ (c[i].kind = "ack" => c[i].id = cur) BY DEF Behind
    <2> QED BY <2>1, <2>2, SMTT(20) DEF Fits, Flip, Bits
  <1>2. ASSUME NEW i \in 1 .. Len(c), NEW j \in 1 .. Len(c), i < j
        PROVE  Behind(c[i], c[j], old, Flip(cur), "idle")
    <2>1. Behind(c[i], c[j], old, cur, "heard") BY <1>2 DEF InOrder
    <2> QED BY <2>1 DEF Behind
  <1> QED BY <1>1, <1>2 DEF InOrder

-----------------------------------------------------------------------------
(* What no step takes back, in the dialogue or after it.                   *)

\* One number more.
LEMMA UpToAppend ==
    ASSUME NEW n \in Nat
    PROVE  /\ Append(Link!UpTo(n), n + 1) = Link!UpTo(n + 1)
           /\ Len(Link!UpTo(n)) = n /\ Link!UpTo(n) \in Seq(Nat)
  <1>1. Link!UpTo(n) \in Seq(Nat) /\ Len(Link!UpTo(n)) = n BY SMTT(20) DEF Link!UpTo
  <1> QED BY <1>1, SMTT(20) DEF Link!UpTo

\* No number at all.
LEMMA UpToZero == Link!UpTo(0) = <<>>
  BY SMTT(20) DEF Link!UpTo

\* A history extends itself, and by one more entry.
LEMMA ExtendsAppend ==
    ASSUME NEW s \in Seq(Nat), NEW e \in Nat
    PROVE  Link!Extends(s, s) /\ Link!Extends(s, Append(s, e))
  <1>1. SubSeq(s, 1, Len(s)) = s BY SMTT(20)
  <1>2. Len(Append(s, e)) = Len(s) + 1 /\ \A i \in 1 .. Len(s) : Append(s, e)[i] = s[i]
    BY SMTT(20)
  <1>3. SubSeq(Append(s, e), 1, Len(s)) = s BY <1>2, SMTT(20)
  <1> QED BY <1>1, <1>2, <1>3, SMTT(20) DEF Link!Extends

\* Numbers only grow, and what was accepted or executed stays so.
LEMMA Monotone ==
    ASSUME Basic, [Next]_vars
    PROVE  /\ message'.n >= message.n /\ host'.request.n >= host.request.n
           /\ Link!Extends(ghost.accepted, ghost'.accepted)
           /\ Link!Extends(ghost.executed, ghost'.executed)
           /\ ghost.abandoned => ghost'.abandoned = TRUE
  <1> USE DEF Basic
  <1>1. message'.n >= message.n
    <2>1. message.n \in Nat BY Fields
    <2>2. ASSUME NEW type, Submit(type) PROVE message'.n >= message.n
      BY <2>1, <2>2, SMTT(20) DEF Submit
    <2>3. CASE UNCHANGED message BY <2>1, <2>3, SMTT(20)
    <2>4. CASE Timeout \/ DeviceFails \/ ReceiveShort
      BY <2>1, <2>3, <2>4, FailedReadCases, SMTT(20) DEF ReadsAgain, ReadsNothing
    <2>5. CASE ReceiveResend \/ ReceiveReset
      BY <2>2, <2>3, <2>5 DEF ReceiveResend, ReceiveReset, SendAgain
    <2>6. CASE Dispatch
      BY <2>2, <2>3, <2>6 DEF Dispatch
    <2>7. CASE ReceiveAck \/ ReceiveDataForAck
      BY <2>3, <2>7 DEF ReceiveAck, ReceiveDataForAck, Acknowledged
    <2>8. CASE Start
      BY <2>2, <2>3, <2>8
      DEF Start, Connect, BdPrintString, DropPrint, BdReportLoadSymbolsStateChange,
          DropSymbols, BdReportExceptionStateChange, BdPollConnection
    <2>9. CASE Host \/ Cable
      BY <2>3, <2>9
      DEF Host, Cable, HostReceive, HostRequest, HostRepeat, HostRepeatReset, HostBreakIn,
          HostReset, HostDies, Lose, Damage, target
    <2> QED BY <2>3, <2>4, <2>5, <2>6, <2>7, <2>8, <2>9
            DEF Next, SendPacket, ReceivePacket, GiveUp, SendOnce, RejectRequest, Poll, vars,
                target
  <1>2. host'.request.n >= host.request.n
    <2>1. host \in Hosts /\ host.request.n \in Nat BY HostFields DEF TypeOK
    <2>2. CASE host'.request = host.request BY <2>1, <2>2, SMTT(20)
    <2>3. CASE HostReceive
      <3>1. Head(toHost).kind = "data" => Head(toHost).body.n \in Nat
        BY <2>3, HostReceiveCases, TailFacts, DataFields DEF TypeOK
      <3>2. host'.request = host.request
        <4>1. CASE HearsReset BY <2>1, <4>1, ResyncFacts DEF HearsReset
        <4>2. CASE HearsAck BY <2>1, <4>2, KnowsFacts DEF HearsAck
        <4>3. CASE HearsEarly BY <4>3, HearingFacts, KnowsFacts DEF HearsEarly
        <4>4. CASE HearsMessage
          BY <3>1, <4>4, HearingFacts, TakeFacts DEF HearsMessage, HearsData
        <4>5. CASE HearsOld \/ HearsDamaged
          BY <4>5, HearingFacts DEF HearsOld, HearsDamaged
        <4> QED BY <2>3, <4>1, <4>2, <4>3, <4>4, <4>5, HostReceiveCases
                DEF HearsResend, HearsNothing
      <3> QED BY <2>2, <3>2
    <2>4. CASE HostRequest
      <3>1. PICK op \in {"read", "last", "continue"} : host' = Asking(host, op)
        BY <2>4, HostRequestCase
      <3>2. host'.request.n = host.request.n + 1 BY <2>1, <3>1, AskFacts, SMTT(20)
      <3> QED BY <2>1, <3>2, SMTT(20)
    <2>5. CASE HostReset BY <2>1, <2>2, <2>5, ResyncFacts DEF HostReset
    <2>6. CASE HostDies
      <3>1. host'.request = host.request BY <2>1, <2>6 DEF HostDies, Hosts
      <3> QED BY <2>2, <3>1
    <2>7. CASE Timeout \/ DeviceFails \/ ReceiveShort BY <2>2, <2>7, FailedReadCases
    <2> QED BY <2>2, <2>3, <2>4, <2>5, <2>6, <2>7
            DEF Next, SendPacket, ReceivePacket, Start, Host, Cable, GiveUp, SendOnce,
                ReceiveResend, ReceiveReset, ReceiveAck, ReceiveDataForAck, RejectRequest,
                Dispatch, Poll, Connect, BdPrintString, DropPrint,
                BdReportLoadSymbolsStateChange, DropSymbols, BdReportExceptionStateChange,
                BdPollConnection, Quiet, HostRepeat, HostRepeatReset, HostBreakIn, Lose,
                Damage, vars
  <1>3. /\ Link!Extends(ghost.accepted, ghost'.accepted)
        /\ Link!Extends(ghost.executed, ghost'.executed)
        /\ ghost.abandoned => ghost'.abandoned = TRUE
    <2>1. /\ ghost \in Ghosts /\ ghost.accepted \in Seq(Nat) /\ ghost.executed \in Seq(Nat)
          /\ ghost.abandoned \in BOOLEAN
      BY DEF TypeOK, Ghosts
    <2>2. CASE UNCHANGED ghost BY <2>1, <2>2, ExtendsAppend
    <2>3. CASE ghost' = [ghost EXCEPT !.abandoned = TRUE]
      BY <2>1, <2>3, GhostEnds, ExtendsAppend
    <2>4. CASE ghost' = [ghost EXCEPT !.abandoned = TRUE, !.gaveUp = TRUE]
      BY <2>1, <2>4, GhostEnds, ExtendsAppend
    <2>5. ASSUME NEW n \in Nat, ghost' = [ghost EXCEPT !.accepted = Append(@, n)]
          PROVE  /\ Link!Extends(ghost.accepted, ghost'.accepted)
                 /\ Link!Extends(ghost.executed, ghost'.executed)
                 /\ ghost.abandoned => ghost'.abandoned = TRUE
      <3>1. /\ ghost'.accepted = Append(ghost.accepted, n)
            /\ ghost'.executed = ghost.executed /\ ghost'.abandoned = ghost.abandoned
        BY <2>1, <2>5, GhostAccepts
      <3> QED BY <2>1, <3>1, ExtendsAppend
    <2>6. ASSUME NEW n \in Nat, ghost' = [ghost EXCEPT !.executed = Append(@, n)]
          PROVE  /\ Link!Extends(ghost.accepted, ghost'.accepted)
                 /\ Link!Extends(ghost.executed, ghost'.executed)
                 /\ ghost.abandoned => ghost'.abandoned = TRUE
      <3>1. /\ ghost'.executed = Append(ghost.executed, n)
            /\ ghost'.accepted = ghost.accepted /\ ghost'.abandoned = ghost.abandoned
        BY <2>1, <2>6, GhostExecutes
      <3> QED BY <2>1, <3>1, ExtendsAppend
    <2> QED BY <2>2, <2>3, <2>4, <2>5, <2>6, GhostStep
  <1> QED BY <1>1, <1>2, <1>3

\* After the dialogue every step is one that takes nothing back.
LEMMA AbandonedStep ==
    ASSUME Basic, [Next]_vars, ghost.abandoned
    PROVE  Link!Degraded
  <1>1. Sending' \in BOOLEAN BY SMTT(20) DEF Sending
  <1> QED BY <1>1, Monotone DEF Link!Degraded

-----------------------------------------------------------------------------
(* The dialogue: what holds until it is abandoned.                         *)

\* The number of requests carried out.
Done == Len(ghost.executed)

\* How far the target is with its message, and the host with its request.
TargetPhase == IF ~Sending THEN "idle"
               ELSE IF host.taken = message.n THEN "heard" ELSE "sent"
HostPhase == IF ~host.waiting THEN "idle"
             ELSE IF host.request.n = Done THEN "heard" ELSE "sent"

ToHostOrder ==
    InOrder(toHost, host.taken, message.n, message, host.expected, host.next, HostPhase)
ToTargetOrder ==
    InOrder(toTarget, Done, host.request.n, host.request, BdPacketIdExpected,
            BdNextPacketIdToSend.id, TargetPhase)

\* Each side is at most one message behind the other, and its bit says so.
Counts ==
    /\ message.n = host.taken \/ (message.n = host.taken + 1 /\ Sending)
    /\ ghost.accepted = Link!UpTo(host.taken)
    /\ host.request.n = Done \/ (host.request.n = Done + 1 /\ host.waiting)
    /\ ghost.executed = Link!UpTo(Done)
    /\ BdNextPacketIdToSend.id = host.expected <=> TargetPhase # "heard"
    /\ host.next = BdPacketIdExpected <=> HostPhase # "heard"

\* Whose turn it is. A request is under way only to a target that waits for
\* one, so never together with a message of its own that is.
Turns ==
    /\ HostPhase = "sent" =>
         /\ TargetPhase # "sent" /\ report # "none"
         /\ host.request.op # "read" => ~host.stopped
         /\ host.request.op # "continue" => host.replying
    /\ TargetPhase = "sent" =>
         ~host.stopped \/ (message.type = "reply" /\ host.replying)
    /\ Sending /\ message.type = "last" => ~host.stopped /\ HostPhase # "sent"
    /\ host.stopped => report # "none"
    /\ ~host.resyncing
    \* SYNC is set until the first acknowledgement.
    /\ BdNextPacketIdToSend.sync => message.n = 0 \/ (message.n = 1 /\ Sending)
    /\ host.taken = 0 => /\ host.next = 0 /\ host.expected = 0
                         /\ ~host.waiting /\ ~host.replying /\ ~host.stopped
    /\ Sending => message.n > 0

\* The debugger counts as present from the first connection attempt.
Present ==
    /\ attempts = 0 => pc = "idle" /\ script = "connect"
    /\ attempts > 0 => ~BdDebuggerNotPresent

Dialogue == ToHostOrder /\ ToTargetOrder /\ Counts /\ Turns

Talking == Basic /\ Dialogue /\ Present /\ ~ghost.abandoned

HostView == <<host.taken, host.expected, host.next, host.waiting, host.request,
              host.replying, host.stopped, host.resyncing>>

\* Whatever moves the packets only keeps the dialogue if it keeps their order.
LEMMA SameStep ==
    ASSUME Counts, Turns,
           UNCHANGED <<message, ghost, BdNextPacketIdToSend, BdPacketIdExpected, report>>,
           Sending' = Sending, UNCHANGED HostView,
           InOrder(toHost', host.taken, message.n, message, host.expected, host.next, HostPhase),
           InOrder(toTarget', Done, host.request.n, host.request, BdPacketIdExpected,
                   BdNextPacketIdToSend.id, TargetPhase)
    PROVE  Dialogue' /\ UNCHANGED Link!vars
  <1>1. /\ host'.taken = host.taken /\ host'.expected = host.expected
        /\ host'.next = host.next /\ host'.waiting = host.waiting
        /\ host'.request = host.request /\ host'.replying = host.replying
        /\ host'.stopped = host.stopped /\ host'.resyncing = host.resyncing
    BY DEF HostView
  <1>2. Done' = Done BY DEF Done
  <1>3. TargetPhase' = TargetPhase BY <1>1 DEF TargetPhase
  <1>4. HostPhase' = HostPhase BY <1>1, <1>2 DEF HostPhase
  <1>5. ToHostOrder' BY <1>1, <1>4 DEF ToHostOrder
  <1>6. ToTargetOrder' BY <1>1, <1>2, <1>3 DEF ToTargetOrder
  <1>7. Counts' BY <1>1, <1>2, <1>3, <1>4 DEF Counts
  <1>8. Turns' BY <1>1, <1>3, <1>4 DEF Turns
  <1> QED BY <1>1, <1>5, <1>6, <1>7, <1>8 DEF Dialogue, Link!vars

\* The debugger counts as present until a message is given up.
LEMMA PresentStep ==
    ASSUME Basic, Present, [Next]_vars
    PROVE  Present' \/ GiveUp
  <1>1. attempts \in Nat BY DEF Basic, TypeOK
  <1>2. CASE UNCHANGED <<attempts, BdDebuggerNotPresent>> /\ attempts > 0
    BY <1>2, SMTT(20) DEF Present
  <1>3. CASE UNCHANGED <<attempts, BdDebuggerNotPresent, pc, script>>
    BY <1>3 DEF Present
  <1>4. CASE Poll
    BY <1>1, <1>4 DEF Poll, Present
  <1>5. CASE Connect
    BY <1>1, <1>5, AttemptsAssumption, SMTT(20) DEF Connect, Present
  <1>6. CASE Timeout \/ DeviceFails \/ ReceiveShort
    BY <1>1, <1>2, <1>6, FailedReadCases DEF Present, Basic
  <1>7. CASE \/ SendOnce \/ ReceiveResend \/ ReceiveReset \/ ReceiveAck
             \/ ReceiveDataForAck \/ RejectRequest \/ Dispatch
    BY <1>1, <1>2, <1>7
    DEF SendOnce, ReceiveResend, ReceiveReset, ReceiveAck, ReceiveDataForAck, RejectRequest,
        Dispatch, Present
  <1>8. CASE \/ BdPrintString \/ DropPrint \/ BdReportLoadSymbolsStateChange \/ DropSymbols
             \/ BdReportExceptionStateChange \/ BdPollConnection
    BY <1>1, <1>2, <1>8
    DEF BdPrintString, DropPrint, BdReportLoadSymbolsStateChange, DropSymbols,
        BdReportExceptionStateChange, BdPollConnection, Present
  <1>9. CASE Host \/ Cable \/ UNCHANGED vars
    BY <1>3, <1>9
    DEF Host, Cable, HostReceive, HostRequest, HostRepeat, HostRepeatReset, HostBreakIn,
        HostReset, HostDies, Lose, Damage, target, vars
  <1> QED BY <1>4, <1>5, <1>6, <1>7, <1>8, <1>9 DEF Next, SendPacket, ReceivePacket, Start

\* What Talking says of the first packet for the target.
LEMMA TargetHead ==
    ASSUME Talking, toTarget # <<>>
    PROVE  LET p == Head(toTarget)
               fits == InOrder(Tail(toTarget), Done, host.request.n, host.request,
                               BdPacketIdExpected, BdNextPacketIdToSend.id, TargetPhase)
           IN  /\ fits /\ p \in Packets /\ p.id \in Bits /\ Tail(toTarget) \in Seq(Packets)
               /\ Fits(p, Done, host.request.n, host.request, BdPacketIdExpected,
                       BdNextPacketIdToSend.id, TargetPhase)
               /\ \A i \in 1 .. Len(Tail(toTarget)) :
                    Behind(p, Tail(toTarget)[i], Done, BdNextPacketIdToSend.id, TargetPhase)
  <1>1. toTarget \in Seq(Packets) BY DEF Talking, Basic, TypeOK
  <1>2. ToTargetOrder BY DEF Talking, Dialogue
  <1> QED BY <1>1, <1>2, OrderTail, TailFacts, PacketFields DEF ToTargetOrder

\* And of the first packet for the host.
LEMMA HostHead ==
    ASSUME Talking, toHost # <<>>
    PROVE  LET p == Head(toHost)
               fits == InOrder(Tail(toHost), host.taken, message.n, message, host.expected,
                               host.next, HostPhase)
           IN  /\ fits /\ p \in Packets /\ p.id \in Bits /\ Tail(toHost) \in Seq(Packets)
               /\ Fits(p, host.taken, message.n, message, host.expected, host.next,
                       HostPhase)
               /\ \A i \in 1 .. Len(Tail(toHost)) :
                    Behind(p, Tail(toHost)[i], host.taken, host.next, HostPhase)
  <1>1. toHost \in Seq(Packets) BY DEF Talking, Basic, TypeOK
  <1>2. ToHostOrder BY DEF Talking, Dialogue
  <1> QED BY <1>1, <1>2, OrderTail, TailFacts, PacketFields DEF ToHostOrder

\* A request with the expected id is the host's own, and still under way.
LEMMA FreshRequest ==
    ASSUME Talking, toTarget # <<>>, Head(toTarget).kind = "data",
           Head(toTarget).id = BdPacketIdExpected
    PROVE  /\ Fresh(Head(toTarget), Done) /\ Head(toTarget).body = host.request
           /\ host.request.n = Done + 1 /\ HostPhase = "sent" /\ TargetPhase # "sent"
           /\ host.waiting /\ report # "none" /\ message.n = host.taken
  <1>1. Done \in Nat /\ host.taken \in Nat
    BY Fields, HostFields DEF Talking, Basic, TypeOK, Done
  <1>2. /\ Head(toTarget).body.n = Done + 1 /\ Head(toTarget).body.n \in {Done, host.request.n}
        /\ Head(toTarget).body.n = host.request.n => Head(toTarget).body = host.request
    BY TargetHead DEF Fits
  <1>3. host.request.n = Done + 1 /\ Head(toTarget).body = host.request BY <1>1, <1>2, SMTT(20)
  <1>4. host.waiting BY <1>1, <1>3, SMTT(20) DEF Talking, Dialogue, Counts
  <1>5. HostPhase = "sent" BY <1>1, <1>3, <1>4, SMTT(20) DEF HostPhase
  <1>6. TargetPhase # "sent" /\ report # "none" BY <1>5 DEF Talking, Dialogue, Turns
  <1>7. message.n = host.taken
    BY <1>1, <1>6 DEF Talking, Dialogue, Counts, TargetPhase
  <1> QED BY <1>2, <1>3, <1>4, <1>5, <1>6, <1>7 DEF Fresh

\* A message with the expected id is the target's own, and still under way.
LEMMA FreshMessage ==
    ASSUME Talking, toHost # <<>>, Head(toHost).kind = "data",
           Head(toHost).id = host.expected
    PROVE  /\ Fresh(Head(toHost), host.taken) /\ Head(toHost).body = message
           /\ message.n = host.taken + 1 /\ TargetPhase = "sent" /\ HostPhase # "sent"
           /\ Sending /\ host.request.n = Done
  <1>1. Done \in Nat /\ host.taken \in Nat /\ host.request.n \in Nat
    BY Fields, HostFields DEF Talking, Basic, TypeOK, Done
  <1>2. /\ Head(toHost).body.n = host.taken + 1 /\ Head(toHost).body.n \in {host.taken, message.n}
        /\ Head(toHost).body.n = message.n => Head(toHost).body = message
    BY HostHead DEF Fits
  <1>3. message.n = host.taken + 1 /\ Head(toHost).body = message BY <1>1, <1>2, SMTT(20)
  <1>4. Sending BY <1>1, <1>3, SMTT(20) DEF Talking, Dialogue, Counts
  <1>5. TargetPhase = "sent" BY <1>1, <1>3, <1>4, SMTT(20) DEF TargetPhase
  <1>6. HostPhase # "sent" BY <1>5 DEF Talking, Dialogue, Turns
  <1>7. host.request.n = Done
    BY <1>1, <1>6 DEF Talking, Dialogue, Counts, HostPhase
  <1> QED BY <1>2, <1>3, <1>4, <1>5, <1>6, <1>7 DEF Fresh

\* The acknowledgement of an id that is not the expected one is a current one
\* exactly when the other side has still to hear of it.
LEMMA OldIds ==
    ASSUME Talking, NEW id \in Bits
    PROVE  /\ id # BdPacketIdExpected => (HostPhase = "heard" <=> id = host.next)
           /\ id # host.expected => (TargetPhase = "heard" <=> id = BdNextPacketIdToSend.id)
  <1>1. /\ host.next \in Bits /\ host.expected \in Bits /\ BdPacketIdExpected \in Bits
        /\ BdNextPacketIdToSend.id \in Bits
    BY Fields, HostFields DEF Talking, Basic, TypeOK
  <1> QED BY <1>1 DEF Talking, Dialogue, Counts, Bits

\* Steps of the target that leave the dialogue where it is.
LEMMA TargetSameStep ==
    ASSUME Talking,
           \/ SendOnce \/ ReceiveResend \/ RejectRequest \/ Poll
           \/ DropPrint \/ DropSymbols \/ BdPollConnection
           \/ Connect /\ UNCHANGED message
           \/ (Timeout \/ DeviceFails \/ ReceiveShort) /\ ghost' = ghost
           \/ ReceiveAck /\ ~(pc = "ack" /\ Head(toTarget).id = BdNextPacketIdToSend.id)
           \/ ReceiveDataForAck /\ Head(toTarget).id # BdPacketIdExpected
    PROVE  Dialogue' /\ UNCHANGED Link!vars
  <1> USE DEF Talking, Basic, TypeOK, Dialogue
  <1> DEFINE th == InOrder(toHost', host.taken, message.n, message, host.expected, host.next,
                           HostPhase)
             tt == InOrder(toTarget', Done, host.request.n, host.request, BdPacketIdExpected,
                           BdNextPacketIdToSend.id, TargetPhase)
  <1>1. UNCHANGED toHost => th BY DEF ToHostOrder
  <1>2. UNCHANGED toTarget => tt BY DEF ToTargetOrder
  <1>3. toTarget # <<>> /\ toTarget' = Tail(toTarget) => tt BY TargetHead
  <1>4. ASSUME NEW id \in Bits, id # BdPacketIdExpected,
               toHost' = Put(toHost, Control("ack", id))
        PROVE  th
    BY <1>4, OldIds, OrderPutAck DEF ToHostOrder
  <1> HIDE DEF th, tt
  <1>5. ASSUME th, tt, Sending' = Sending, UNCHANGED host,
               UNCHANGED <<message, ghost, BdNextPacketIdToSend, BdPacketIdExpected, report>>
        PROVE  Dialogue' /\ UNCHANGED Link!vars
    BY <1>5, SameStep DEF HostView, th, tt
  <1>6. CASE SendOnce
    <2>1. /\ toHost' = Put(toHost, Data(BdNextPacketIdToSend.id, BdNextPacketIdToSend.sync,
                                        message))
          /\ pc = "send" /\ pc' = "ack"
          /\ UNCHANGED <<toTarget, host, message, ghost, BdNextPacketIdToSend,
                         BdPacketIdExpected, report>>
      BY <1>6 DEF SendOnce
    <2>2. Sending /\ Sending' BY <2>1 DEF Sending
    <2>3. /\ message.n \in {host.taken, host.taken + 1} /\ host.taken \in Nat
          /\ message \in Bodies
      BY HostFields, Fields DEF Counts
    <2>4. BdNextPacketIdToSend.id = host.expected <=> message.n = host.taken + 1
      BY <2>2, <2>3, SMTT(20) DEF Counts, TargetPhase
    <2>5. BdNextPacketIdToSend.sync => message.n = 1
      BY <2>2, <2>3, SMTT(20) DEF Turns
    <2>6. th BY <2>1, <2>3, <2>4, <2>5, Fields, OrderPutData DEF ToHostOrder, th
    <2> QED BY <1>2, <1>5, <2>1, <2>2, <2>6
  <1>7. CASE ReceiveResend
    <2>1. /\ toTarget # <<>> /\ toTarget' = Tail(toTarget) /\ Head(toTarget).kind = "resend"
          /\ UNCHANGED <<toHost, host, ghost, BdNextPacketIdToSend, BdPacketIdExpected, report>>
      BY <1>7 DEF ReceiveResend
    <2>2. TargetPhase # "idle" BY <2>1, TargetHead DEF Fits
    <2>3. Sending /\ pc = "ack" BY <1>7, <2>2 DEF TargetPhase, Sending, ReceiveResend
    <2>4. UNCHANGED message /\ Sending'
      BY <1>7, <2>3 DEF ReceiveResend, SendAgain, Sending
    <2> QED BY <1>1, <1>3, <1>5, <2>1, <2>3, <2>4
  <1>8. CASE RejectRequest
    <2>1. /\ toTarget # <<>> /\ toTarget' = Tail(toTarget) /\ Head(toTarget).kind = "data"
          /\ UNCHANGED <<pc, message, host, ghost, BdNextPacketIdToSend, BdPacketIdExpected,
                         report>>
      BY <1>8 DEF RejectRequest
    <2>2. Sending' = Sending BY <2>1 DEF Sending
    <2>3. CASE Head(toTarget).id # BdPacketIdExpected
      BY <1>3, <1>4, <1>5, <1>8, <2>1, <2>2, <2>3, TargetHead DEF RejectRequest
    <2>4. CASE Head(toTarget).id = BdPacketIdExpected
      <3>1. toHost' = Put(toHost, Control("resend", 0)) BY <1>8, <2>4 DEF RejectRequest
      <3>2. HostPhase = "sent" BY <2>1, <2>4, FreshRequest
      <3>3. th BY <3>1, <3>2, OrderPutResend DEF ToHostOrder, th
      <3> QED BY <1>3, <1>5, <2>1, <2>2, <3>3
    <2> QED BY <2>3, <2>4
  <1>9. CASE Poll
    <2>1. tt BY <1>2, <1>3, <1>9 DEF Poll
    <2>2. Sending' = Sending BY <1>9, SMTT(20) DEF Poll, Sending
    <2> QED BY <1>1, <1>5, <1>9, <2>1, <2>2 DEF Poll
  <1>10. CASE DropPrint \/ DropSymbols \/ BdPollConnection \/ (Connect /\ UNCHANGED message)
    <2>1. CASE Connect /\ UNCHANGED message
      <3>1. ~Submit("print") BY <2>1, Fields, SMTT(20) DEF Submit
      <3>2. UNCHANGED <<pc, report>> /\ Quiet BY <2>1, <3>1 DEF Connect
      <3> QED BY <1>1, <1>2, <1>5, <2>1, <3>2 DEF Quiet, Sending
    <2>2. CASE DropPrint \/ DropSymbols \/ BdPollConnection
      BY <1>1, <1>2, <1>5, <2>2, SMTT(20)
         DEF DropPrint, DropSymbols, BdPollConnection, Quiet, Sending
    <2> QED BY <1>10, <2>1, <2>2
  <1>11. CASE (Timeout \/ DeviceFails \/ ReceiveShort) /\ ghost' = ghost
    <2>1. toTarget # <<>> => Head(toTarget).kind # "breakin" BY TargetHead DEF Fits
    <2>2. ghost' # [ghost EXCEPT !.abandoned = TRUE]
      BY <1>11, GhostEnds
    <2>3. ReadsNothing /\ UNCHANGED <<toHost, toTarget, host, BdNextPacketIdToSend,
                                      BdPacketIdExpected, report>> /\ pc \in {"ack", "reply"}
      BY <1>11, <2>1, <2>2, FailedReadCases DEF ReadsAgain
    <2>4. UNCHANGED message /\ Sending' = Sending BY <2>3, SMTT(20) DEF ReadsNothing, Sending
    <2> QED BY <1>1, <1>2, <1>5, <1>11, <2>3, <2>4
  <1>12. CASE ReceiveAck /\ ~(pc = "ack" /\ Head(toTarget).id = BdNextPacketIdToSend.id)
    BY <1>1, <1>3, <1>5, <1>12 DEF ReceiveAck, Sending
  <1>13. CASE ReceiveDataForAck /\ Head(toTarget).id # BdPacketIdExpected
    BY <1>3, <1>4, <1>5, <1>13, TargetHead DEF ReceiveDataForAck, Sending
  <1> QED BY <1>6, <1>7, <1>8, <1>9, <1>10, <1>11, <1>12, <1>13

\* A SYNC packet finds the host where it would put it.
LEMMA HearingIsHost ==
    ASSUME Talking, toHost # <<>>
    PROVE  Hearing = host
  <1> USE DEF Talking, Basic, TypeOK, Dialogue
  <1>1. CASE ~(/\ Head(toHost).kind = "data" /\ Head(toHost).sync
               /\ Head(toHost).body.n # host.taken)
    BY <1>1 DEF Hearing
  <1>2. CASE /\ Head(toHost).kind = "data" /\ Head(toHost).sync
             /\ Head(toHost).body.n # host.taken
    <2>1. Head(toHost).body.n = 1 /\ Head(toHost).body.n \in {host.taken, message.n}
      BY <1>2, HostHead DEF Fits
    <2>2. host.taken = 0
      BY <1>2, <2>1, HostFields, Fields, SMTT(20) DEF Counts
    <2>3. host.next = 0 /\ host.expected = 0 /\ ~host.waiting /\ ~host.replying
      BY <2>2 DEF Turns
    <2>4. host.waiting = FALSE /\ host.replying = FALSE BY <2>3, HostFields
    <2>5. Resynchronised(host) = host BY <2>3, <2>4 DEF Resynchronised, Hosts
    <2> QED BY <1>2, <2>5 DEF Hearing
  <1> QED BY <1>1, <1>2

\* The host sends its request again.
LEMMA RepeatOrder ==
    ASSUME Talking, host.waiting
    PROVE  InOrder(Put(toTarget, Data(host.next, FALSE, host.request)), Done, host.request.n,
                   host.request, BdPacketIdExpected, BdNextPacketIdToSend.id, TargetPhase)
  <1> USE DEF Talking, Basic, TypeOK, Dialogue
  <1>1. Done \in Nat /\ host.request.n \in {Done, Done + 1}
    BY Fields DEF Done, Counts
  <1>2. host.next = BdPacketIdExpected <=> host.request.n = Done + 1
    BY <1>1, SMTT(20) DEF Counts, HostPhase
  <1>3. host.next \in Bits /\ host.request \in Bodies BY HostFields
  <1> QED BY <1>1, <1>2, <1>3, OrderPutData DEF ToTargetOrder

\* Steps of the host and the cable that leave the dialogue where it is.
LEMMA HostSameStep ==
    ASSUME Talking,
           \/ HostReceive /\ (HearsResend \/ HearsOld \/ HearsDamaged \/ HearsNothing)
           \/ HostRepeat \/ HostDies \/ Cable \/ UNCHANGED vars
    PROVE  Dialogue' /\ UNCHANGED Link!vars
  <1> USE DEF Talking, Basic, TypeOK, Dialogue
  <1> DEFINE th == InOrder(toHost', host.taken, message.n, message, host.expected, host.next,
                           HostPhase)
             tt == InOrder(toTarget', Done, host.request.n, host.request, BdPacketIdExpected,
                           BdNextPacketIdToSend.id, TargetPhase)
  <1>1. UNCHANGED toHost => th BY DEF ToHostOrder
  <1>2. UNCHANGED toTarget => tt BY DEF ToTargetOrder
  <1>3. toTarget # <<>> /\ toTarget' = Tail(toTarget) => tt BY TargetHead
  <1>4. toHost # <<>> /\ toHost' = Tail(toHost) => th BY HostHead
  <1>5. host.waiting /\ toTarget' = Put(toTarget, Data(host.next, FALSE, host.request)) => tt
    BY RepeatOrder
  <1> HIDE DEF th, tt
  <1>6. ASSUME th, tt, UNCHANGED target, UNCHANGED HostView, UNCHANGED ghost
        PROVE  Dialogue' /\ UNCHANGED Link!vars
    <2>1. /\ Sending' = Sending
          /\ UNCHANGED <<message, BdNextPacketIdToSend, BdPacketIdExpected, report>>
      BY <1>6 DEF target, Sending
    <2> QED BY <1>6, <2>1, SameStep DEF th, tt
  <1>7. CASE HostReceive /\ (HearsResend \/ HearsOld \/ HearsDamaged \/ HearsNothing)
    <2>1. toHost # <<>> /\ toHost' = Tail(toHost) /\ UNCHANGED target
      BY <1>7, HostReceiveCases
    <2>2. Hearing = host BY <2>1, HearingIsHost
    <2>3. UNCHANGED <<host, ghost>>
      BY <1>7, <2>2 DEF HearsResend, HearsOld, HearsDamaged, HearsNothing
    <2>4. CASE HearsResend
      BY <1>4, <1>5, <1>6, <2>1, <2>3, <2>4 DEF HearsResend, HostView
    <2>5. CASE HearsOld
      <3>1. Head(toHost).id \in Bits /\ Head(toHost).id # host.expected
        BY <2>1, <2>2, <2>5, HostHead DEF HearsOld
      <3>2. tt BY <2>5, <3>1, OldIds, OrderPutAck DEF HearsOld, ToTargetOrder, tt
      <3> QED BY <1>4, <1>6, <2>1, <2>3, <3>2 DEF HostView
    <2>6. CASE HearsDamaged
      <3>1. TargetPhase = "sent"
        BY <2>1, <2>2, <2>6, FreshMessage DEF HearsDamaged, HearsData
      <3>2. tt BY <2>6, <3>1, OrderPutResend DEF HearsDamaged, ToTargetOrder, tt
      <3> QED BY <1>4, <1>6, <2>1, <2>3, <3>2 DEF HostView
    <2>7. CASE HearsNothing
      BY <1>2, <1>4, <1>6, <2>1, <2>3, <2>7 DEF HearsNothing, HostView
    <2> QED BY <1>7, <2>4, <2>5, <2>6, <2>7
  <1>8. CASE HostRepeat
    BY <1>1, <1>5, <1>6, <1>8 DEF HostRepeat, HostView
  <1>9. CASE HostDies
    <2>1. UNCHANGED HostView BY <1>9 DEF HostDies, HostView, Hosts
    <2> QED BY <1>1, <1>2, <1>6, <1>9, <2>1 DEF HostDies
  <1>10. CASE Lose
    BY <1>1, <1>2, <1>3, <1>4, <1>6, <1>10 DEF Lose, HostView
  <1>11. CASE Damage
    <2>1. /\ toHost # <<>> /\ Head(toHost).kind = "data" /\ toHost' = Damaged(toHost) => th
          /\ toTarget # <<>> /\ Head(toTarget).kind = "data" /\ toTarget' = Damaged(toTarget)
               => tt
      BY OrderDamaged DEF ToHostOrder, ToTargetOrder, th, tt
    <2> QED BY <1>1, <1>2, <1>6, <1>11, <2>1 DEF Damage, HostView
  <1>12. CASE UNCHANGED vars
    BY <1>1, <1>2, <1>6, <1>12 DEF vars, HostView
  <1> QED BY <1>7, <1>8, <1>9, <1>10, <1>11, <1>12 DEF Cable

\* The host hears that its request arrived: by an acknowledgement, or by a
\* message that answers for it.
LEMMA HostKnowsStep ==
    ASSUME Talking, HostReceive, HearsAck \/ HearsEarly
    PROVE  Dialogue' /\ UNCHANGED Link!vars
  <1> USE DEF Talking, Basic, TypeOK, Dialogue
  <1>1. toHost # <<>> /\ toHost' = Tail(toHost) /\ UNCHANGED target
    BY HostReceiveCases
  <1>2. /\ UNCHANGED <<message, BdNextPacketIdToSend, BdPacketIdExpected, report, ghost>>
        /\ Sending' = Sending
    BY <1>1 DEF target, Sending, HearsAck, HearsEarly
  <1>3. Hearing = host BY <1>1, HearingIsHost
  <1>4. host.waiting /\ host' = [host EXCEPT !.waiting = FALSE, !.next = Flip(@)]
    BY <1>3 DEF HearsAck, HearsEarly
  <1>5. /\ ~host'.waiting /\ host'.next = Flip(host.next)
        /\ host'.expected = host.expected /\ host'.replying = host.replying
        /\ host'.taken = host.taken /\ host'.stopped = host.stopped
        /\ host'.resyncing = host.resyncing /\ host'.request = host.request
    BY <1>4, KnowsFacts
  <1>6. HostPhase = "heard" /\ Answers(Head(toHost), host.taken, host.next)
    <2>1. CASE HearsAck BY <1>1, <2>1, HostHead DEF HearsAck, Fits, Answers
    <2>2. CASE HearsEarly
      <3>1. Fresh(Head(toHost), host.taken) /\ HostPhase # "sent"
        BY <1>1, <1>3, <2>2, FreshMessage DEF HearsEarly, HearsData
      <3> QED BY <1>4, <3>1 DEF HostPhase, Answers
    <2> QED BY <2>1, <2>2
  <1>7. Done' = Done /\ TargetPhase' = TargetPhase /\ HostPhase' = "idle"
    BY <1>2, <1>5 DEF Done, TargetPhase, HostPhase
  <1>8. host.next \in Bits BY HostFields
  <1>9. ToHostOrder'
    <2>1. InOrder(toHost', host.taken, message.n, message, host.expected, Flip(host.next),
                  "idle")
      BY <1>1, <1>6, <1>8, HostHead, OrderKnown
    <2> QED BY <1>2, <1>5, <1>7, <2>1 DEF ToHostOrder
  <1>10. ToTargetOrder'
    <2>1. InOrder(toTarget', Done, host.request.n, host.request, BdPacketIdExpected,
                  BdNextPacketIdToSend.id, TargetPhase)
      <3>1. CASE HearsAck BY <3>1 DEF HearsAck, ToTargetOrder
      <3>2. CASE HearsEarly
        <4>1. TargetPhase = "sent"
          BY <1>1, <1>3, <3>2, FreshMessage DEF HearsEarly, HearsData
        <4> QED BY <3>2, <4>1, OrderPutResend DEF HearsEarly, ToTargetOrder
      <3> QED BY <3>1, <3>2
    <2> QED BY <1>2, <1>5, <1>7, <2>1 DEF ToTargetOrder
  <1>11. Counts'
    <2>1. host.next # BdPacketIdExpected /\ host.request.n = Done
      BY <1>4, <1>6 DEF Counts, HostPhase
    <2>2. Flip(host.next) = BdPacketIdExpected BY <1>8, <2>1, SMTT(20) DEF Flip, Bits
    <2> QED BY <1>2, <1>5, <1>7, <2>1, <2>2 DEF Counts
  <1>12. Turns'
    BY <1>2, <1>4, <1>5, <1>7 DEF Turns
  <1> QED BY <1>2, <1>5, <1>9, <1>10, <1>11, <1>12 DEF Link!vars

\* The host takes a message.
LEMMA HostTakeStep ==
    ASSUME Talking, HostReceive, HearsMessage
    PROVE  Dialogue' /\ Link!Accept
  <1> USE DEF Talking, Basic, TypeOK, Dialogue
  <1>1. toHost # <<>> /\ toHost' = Tail(toHost) /\ UNCHANGED target
    BY HostReceiveCases
  <1>2. /\ UNCHANGED <<message, BdNextPacketIdToSend, BdPacketIdExpected, report>>
        /\ Sending' = Sending
    BY <1>1 DEF target, Sending
  <1>3. Hearing = host BY <1>1, HearingIsHost
  <1>4. /\ Head(toHost).kind = "data" /\ Head(toHost).id = host.expected /\ ~host.waiting
        /\ toTarget' = Put(toTarget, Control("ack", host.expected))
        /\ host' = Take(host, Head(toHost).body)
        /\ ghost' = [ghost EXCEPT !.accepted = Append(@, Head(toHost).body.n)]
    BY <1>3 DEF HearsMessage, HearsData
  <1>5. /\ Fresh(Head(toHost), host.taken) /\ Head(toHost).body = message
        /\ message.n = host.taken + 1 /\ TargetPhase = "sent" /\ Sending
        /\ host.request.n = Done
    BY <1>1, <1>4, FreshMessage
  <1>6. host.taken \in Nat /\ Done \in Nat /\ host.expected \in Bits
    BY HostFields, Fields DEF Done
  <1>7. /\ host'.expected = Flip(host.expected) /\ host'.taken = message.n
        /\ host'.next = host.next /\ host'.waiting = host.waiting
        /\ host'.resyncing = host.resyncing /\ host'.request = host.request
        /\ host'.stopped => host.stopped \/ message.type \in {"symbols", "exception"}
    BY <1>4, <1>5, Fields, TakeFacts, SMTT(20)
  <1>8. /\ ghost'.accepted = Append(ghost.accepted, message.n)
        /\ ghost'.executed = ghost.executed /\ ghost'.abandoned = ghost.abandoned
    BY <1>4, <1>5, Fields, GhostAccepts, SMTT(20)
  <1>9. Done' = Done /\ TargetPhase' = "heard" /\ HostPhase = "idle" /\ HostPhase' = "idle"
    BY <1>2, <1>4, <1>5, <1>7, <1>8 DEF Done, TargetPhase, HostPhase
  <1>10. BdNextPacketIdToSend.id = host.expected BY <1>5 DEF Counts
  <1>11. ToHostOrder'
    <2>1. /\ InOrder(toHost', host.taken, host.taken + 1, message, host.expected, host.next,
                     "idle")
          /\ toHost' \in Seq(Packets)
      BY <1>1, <1>5, <1>9, HostHead
    <2>2. \A i \in 1 .. Len(toHost') :
            toHost'[i].kind = "data" => toHost'[i].body.n = host.taken + 1
      BY <1>1, <1>5, HostHead DEF Behind
    <2>3. InOrder(toHost', host.taken + 1, host.taken + 1, message, Flip(host.expected),
                  host.next, "idle")
      BY <1>6, <2>1, <2>2, OrderTake
    <2> QED BY <1>2, <1>5, <1>7, <1>9, <2>3 DEF ToHostOrder
  <1>12. ToTargetOrder'
    <2>1. InOrder(toTarget, Done, Done, host.request, BdPacketIdExpected,
                  BdNextPacketIdToSend.id, "heard")
      BY <1>5, <1>6, OrderHeard DEF ToTargetOrder
    <2>2. InOrder(toTarget', Done, Done, host.request, BdPacketIdExpected,
                  BdNextPacketIdToSend.id, "heard")
      BY <1>4, <1>6, <1>10, <2>1, OrderPutAck
    <2> QED BY <1>2, <1>5, <1>7, <1>9, <2>2 DEF ToTargetOrder
  <1>13. ghost'.accepted = Link!UpTo(message.n) /\ ghost.accepted = Link!UpTo(message.n - 1)
    <2>1. message.n - 1 = host.taken BY <1>5, <1>6, SMTT(20)
    <2> QED BY <1>5, <1>6, <1>8, <2>1, UpToAppend DEF Counts
  <1>14. Counts'
    <2>1. Flip(host.expected) # host.expected BY <1>6, FlipType
    <2> QED BY <1>2, <1>5, <1>7, <1>8, <1>9, <1>10, <1>13, <2>1 DEF Counts
  <1>15. Turns'
    <2>1. message.n # 0 BY <1>5, <1>6, SMTT(20)
    <2>2. host'.stopped => report # "none"
      BY <1>5, <1>7 DEF Turns, ReportInv, Sending
    <2>3. message.type = "last" => ~host'.stopped
      BY <1>5, <1>7 DEF Turns
    <2> QED BY <1>2, <1>5, <1>7, <1>9, <2>1, <2>2, <2>3 DEF Turns
  <1> QED BY <1>2, <1>5, <1>7, <1>8, <1>11, <1>12, <1>13, <1>14, <1>15 DEF Link!Accept

\* The host makes a request.
LEMMA HostAskStep ==
    ASSUME Talking, HostRequest
    PROVE  Dialogue' /\ Link!Ask
  <1> USE DEF Talking, Basic, TypeOK, Dialogue
  <1>1. PICK op \in {"read", "last", "continue"} :
          /\ host' = Asking(host, op)
          /\ toTarget' = Put(toTarget, Data(host.next, FALSE, Request(host, op)))
    BY HostRequestCase
  <1>2. /\ host'.request \in Requests /\ host'.waiting
        /\ host'.next = host.next /\ host'.expected = host.expected
        /\ host'.taken = host.taken /\ host'.resyncing = host.resyncing
        /\ op # "continue" => host'.replying
        /\ host'.stopped => op = "read"
    BY <1>1, AskFacts
  <1>3. /\ host'.request.n = host.request.n + 1 /\ host'.request.op = op
        /\ toTarget' = Put(toTarget, Data(host.next, FALSE, host'.request))
    <2>1. host'.request = Request(host, op) BY <1>1, AskFacts
    <2>2. Request(host, op).n = host.request.n + 1 /\ Request(host, op).op = op
      BY AskFacts
    <2> QED BY ONLY <1>1, <2>1, <2>2
  <1>4. /\ host.stopped /\ ~host.waiting /\ ~host.replying
        /\ UNCHANGED <<message, BdNextPacketIdToSend, BdPacketIdExpected, report, toHost, ghost>>
        /\ Sending' = Sending
    BY DEF HostRequest, target, Sending
  <1>5. HostPhase = "idle" /\ host.request.n = Done /\ TargetPhase # "sent" /\ report # "none"
        /\ host.next = BdPacketIdExpected
    BY <1>4 DEF HostPhase, Counts, Turns
  <1>6. Done \in Nat /\ host.next \in Bits BY HostFields, Fields DEF Done
  <1>7. Done' = Done /\ TargetPhase' = TargetPhase /\ HostPhase' = "sent"
    <2>1. Done' = Done BY <1>4 DEF Done
    <2>2. host'.request.n # Done BY <1>3, <1>5, <1>6, SMTT(20)
    <2> QED BY <1>2, <1>4, <2>1, <2>2 DEF TargetPhase, HostPhase
  <1>8. ToHostOrder'
    <2>1. InOrder(toHost, host.taken, message.n, message, host.expected, host.next, "sent")
      BY <1>5, OrderBegin DEF ToHostOrder
    <2> QED BY <1>2, <1>4, <1>7, <2>1 DEF ToHostOrder
  <1>9. ToTargetOrder'
    <2>1. InOrder(toTarget, Done, Done + 1, host'.request, BdPacketIdExpected,
                  BdNextPacketIdToSend.id, TargetPhase)
      BY <1>5, <1>6, OrderSubmit DEF ToTargetOrder
    <2>2. host'.request \in Bodies /\ host'.request.n = Done + 1
      BY <1>2, <1>3, <1>5 DEF Bodies
    <2>3. InOrder(toTarget', Done, Done + 1, host'.request, BdPacketIdExpected,
                  BdNextPacketIdToSend.id, TargetPhase)
      BY <1>3, <1>5, <1>6, <2>1, <2>2, OrderPutData
    <2> QED BY <1>4, <1>7, <2>2, <2>3 DEF ToTargetOrder
  <1>10. Counts' BY <1>2, <1>3, <1>4, <1>5, <1>7 DEF Counts
  <1>11. Turns' BY <1>2, <1>3, <1>4, <1>5, <1>7 DEF Turns
  <1> QED BY <1>3, <1>4, <1>5, <1>8, <1>9, <1>10, <1>11 DEF Link!Ask, Counts

\* The target hears that its message arrived: by an acknowledgement, or by a
\* request that answers for it.
LEMMA AcknowledgedStep ==
    ASSUME Talking,
           \/ /\ ReceiveAck /\ pc = "ack" /\ Head(toTarget).id = BdNextPacketIdToSend.id
           \/ /\ ReceiveDataForAck /\ Head(toTarget).id = BdPacketIdExpected
    PROVE  Dialogue' /\ Link!Complete
  <1> USE DEF Talking, Basic, TypeOK, Dialogue
  <1>1. /\ pc = "ack" /\ toTarget # <<>> /\ toTarget' = Tail(toTarget) /\ Acknowledged
        /\ UNCHANGED <<BdPacketIdExpected, host, ghost>>
    BY DEF ReceiveAck, ReceiveDataForAck
  <1>2. /\ BdNextPacketIdToSend'.id = Flip(BdNextPacketIdToSend.id)
        /\ ~BdNextPacketIdToSend'.sync /\ UNCHANGED message
        /\ pc' \in {"idle", "poll", "reply"}
        /\ report' = "none" => \/ message.type \in {"print", "last"}
                               \/ BdDebuggerNotPresent /\ message.type \in StateChanges
    BY <1>1, AcknowledgedFacts
  <1>3. /\ Sending /\ ~Sending' /\ Sending' = FALSE BY <1>1, <1>2, Z3T(20) DEF Sending
  <1>4. ~BdDebuggerNotPresent BY <1>1, SMTT(20) DEF Present
  <1>5. TargetPhase = "heard" /\ Answers(Head(toTarget), Done, BdNextPacketIdToSend.id)
    <2>1. CASE ReceiveAck /\ Head(toTarget).id = BdNextPacketIdToSend.id
      BY <1>1, <2>1, TargetHead DEF ReceiveAck, Fits, Answers
    <2>2. CASE ReceiveDataForAck /\ Head(toTarget).id = BdPacketIdExpected
      <3>1. Fresh(Head(toTarget), Done) /\ TargetPhase # "sent"
        BY <1>1, <2>2, FreshRequest DEF ReceiveDataForAck
      <3> QED BY <1>3, <3>1 DEF TargetPhase, Answers
    <2> QED BY <2>1, <2>2
  <1>6. Done' = Done /\ HostPhase' = HostPhase /\ TargetPhase' = "idle"
    BY <1>1, <1>3 DEF Done, HostPhase, TargetPhase
  <1>7. BdNextPacketIdToSend.id \in Bits /\ host.expected \in Bits BY Fields, HostFields
  <1>8. ToTargetOrder'
    <2>1. InOrder(toTarget', Done, host.request.n, host.request, BdPacketIdExpected,
                  Flip(BdNextPacketIdToSend.id), "idle")
      BY <1>1, <1>5, <1>7, TargetHead, OrderKnown
    <2> QED BY <1>1, <1>2, <1>6, <2>1 DEF ToTargetOrder
  <1>9. ToHostOrder'
    <2>1. CASE UNCHANGED toHost BY <1>1, <1>2, <1>6, <2>1 DEF ToHostOrder
    <2>2. CASE ReceiveDataForAck /\ Head(toTarget).id = BdPacketIdExpected
      <3>1. HostPhase = "sent" /\ toHost' = Put(toHost, Control("resend", 0))
        BY <1>1, <2>2, FreshRequest DEF ReceiveDataForAck
      <3> QED BY <1>1, <1>2, <1>6, <3>1, OrderPutResend DEF ToHostOrder
    <2> QED BY <2>1, <2>2 DEF ReceiveAck
  <1>10. message.n = host.taken BY <1>3, <1>5 DEF TargetPhase
  <1>11. Counts'
    <2>1. BdNextPacketIdToSend.id # host.expected BY <1>5 DEF Counts
    <2>2. Flip(BdNextPacketIdToSend.id) = host.expected BY <1>7, <2>1, SMTT(20) DEF Flip, Bits
    <2> QED BY <1>1, <1>2, <1>6, <1>10, <2>2 DEF Counts
  <1>12. Turns'
    <2>1. HostPhase = "sent" \/ host.stopped => report' # "none"
      BY <1>2, <1>3, <1>4 DEF Turns, ReportInv
    <2> QED BY <1>1, <1>2, <1>3, <1>6, <2>1 DEF Turns
  <1> QED BY <1>1, <1>2, <1>3, <1>8, <1>9, <1>10, <1>11, <1>12 DEF Link!Complete, Counts

\* The target submits a message while no request is under way.
LEMMA SubmitStep ==
    ASSUME Talking, ~Sending, NEW type \in Types, Submit(type),
           UNCHANGED <<host, BdNextPacketIdToSend>>, ghost'.accepted = ghost.accepted,
           host.request.n = Done', ghost'.executed = Link!UpTo(Done'),
           host.next = BdPacketIdExpected' <=> HostPhase' # "heard",
           InOrder(toHost', host.taken, message.n, message, host.expected, host.next,
                   HostPhase'),
           InOrder(toTarget', Done', host.request.n, host.request, BdPacketIdExpected',
                   BdNextPacketIdToSend.id, "idle"),
           ~host.stopped \/ (type = "reply" /\ host.replying /\ report' # "none")
    PROVE  Dialogue' /\ message'.n = message.n + 1 /\ Sending' = TRUE
  <1> USE DEF Talking, Basic, TypeOK, Dialogue
  <1>1. message'.n = message.n + 1 /\ message'.type = type /\ pc' = "send"
    BY SubmitFacts
  <1>2. Sending' /\ Sending' = TRUE BY <1>1 DEF Sending
  <1>3. host.taken \in Nat /\ message.n = host.taken BY HostFields DEF Counts
  <1>4. TargetPhase = "idle" /\ TargetPhase' = "sent"
    BY <1>1, <1>2, <1>3, SMTT(20) DEF TargetPhase
  <1>5. HostPhase' # "sent" BY DEF HostPhase
  <1>6. ToHostOrder'
    <2>1. InOrder(toHost', host.taken, host.taken + 1, message', host.expected, host.next,
                  HostPhase')
      BY <1>3, OrderSubmit
    <2> QED BY <1>1, <1>3, <2>1 DEF ToHostOrder
  <1>7. ToTargetOrder'
    <2>1. InOrder(toTarget', Done', host.request.n, host.request, BdPacketIdExpected',
                  BdNextPacketIdToSend.id, "sent")
      BY OrderBegin
    <2> QED BY <1>4, <2>1 DEF ToTargetOrder
  <1>8. Counts' BY <1>1, <1>2, <1>3, <1>4 DEF Counts
  <1>9. Turns'
    <2>1. message'.n > 0 /\ (message.n = 0 => message'.n = 1) BY <1>1, <1>3, Z3T(20)
    <2>2. message'.type = "last" => ~host.stopped BY <1>1
    <2> QED BY <1>1, <1>2, <1>4, <1>5, <2>1, <2>2 DEF Turns
  <1> QED BY <1>1, <1>2, <1>6, <1>7, <1>8, <1>9

\* The target begins a message of its own accord.
LEMMA StartStep ==
    ASSUME Talking,
           \/ Connect /\ Submit("print")
           \/ BdPrintString
           \/ BdReportLoadSymbolsStateChange \/ BdReportExceptionStateChange
    PROVE  Dialogue' /\ Link!Submit
  <1> USE DEF Talking, Basic, TypeOK, Dialogue
  <1>1. PICK type \in {"print", "symbols", "exception"} : Submit(type)
    BY DEF BdPrintString, BdReportLoadSymbolsStateChange, BdReportExceptionStateChange
  <1>2. pc = "idle" /\ Quiet
    BY DEF Connect, BdPrintString, BdReportLoadSymbolsStateChange,
           BdReportExceptionStateChange
  <1>3. /\ type \in Types /\ ~Sending /\ Sending = FALSE /\ report = "none"
        /\ UNCHANGED <<host, ghost, BdNextPacketIdToSend, BdPacketIdExpected, toHost, toTarget>>
    BY <1>2, SMTT(20) DEF Types, Sending, ReportInv, Quiet
  <1>4. Done' = Done /\ HostPhase' = HostPhase /\ TargetPhase = "idle"
    BY <1>3 DEF Done, HostPhase, TargetPhase
  <1>5. ~host.stopped /\ host.request.n = Done BY <1>3 DEF Turns, Counts, HostPhase
  <1>6. Dialogue' /\ message'.n = message.n + 1 /\ Sending' = TRUE
    BY <1>1, <1>3, <1>4, <1>5, SubmitStep DEF ToHostOrder, ToTargetOrder, Counts
  <1> QED BY <1>3, <1>6 DEF Link!Submit

\* The target carries out a request: the one that is under way.
LEMMA DispatchStep ==
    ASSUME Talking, Dispatch
    PROVE  Dialogue' /\ Link!Execute
  <1> USE DEF Talking, Basic, TypeOK, Dialogue
  <1>1. /\ pc = "reply" /\ toTarget # <<>> /\ Head(toTarget).kind = "data"
        /\ Head(toTarget).id = BdPacketIdExpected /\ toTarget' = Tail(toTarget)
        /\ toHost' = Put(toHost, Control("ack", BdPacketIdExpected))
        /\ BdPacketIdExpected' = Flip(BdPacketIdExpected)
        /\ ghost' = [ghost EXCEPT !.executed = Append(@, Head(toTarget).body.n)]
        /\ UNCHANGED <<BdNextPacketIdToSend, host>>
    BY DEF Dispatch
  <1>2. /\ Fresh(Head(toTarget), Done) /\ Head(toTarget).body = host.request
        /\ host.request.n = Done + 1 /\ HostPhase = "sent" /\ host.waiting
        /\ report # "none" /\ message.n = host.taken
    BY <1>1, FreshRequest
  <1>3. Done \in Nat /\ host.taken \in Nat /\ BdPacketIdExpected \in Bits /\ host.next \in Bits
    BY HostFields, Fields DEF Done
  <1>4. ~Sending /\ Sending = FALSE /\ TargetPhase = "idle"
    BY <1>1, SMTT(20) DEF Sending, TargetPhase
  <1>5. /\ ghost'.executed = Append(ghost.executed, Done + 1)
        /\ ghost'.accepted = ghost.accepted /\ ghost'.abandoned = ghost.abandoned
    BY <1>1, <1>2, <1>3, GhostExecutes, SMTT(20)
  <1>6. ghost'.executed = Link!UpTo(Done + 1) /\ Done' = Done + 1
    <2>1. ghost'.executed = Link!UpTo(Done + 1) BY <1>3, <1>5, UpToAppend DEF Counts
    <2>2. Len(Link!UpTo(Done + 1)) = Done + 1 BY <1>3, UpToAppend, SMTT(20)
    <2>3. Done' = Len(ghost'.executed) BY DEF Done
    <2> QED BY ONLY <2>1, <2>2, <2>3
  <1>7. HostPhase' = "heard" BY <1>1, <1>2, <1>6 DEF HostPhase
  <1>8. host.next = BdPacketIdExpected /\ host.next # BdPacketIdExpected'
    BY <1>1, <1>2, <1>3, FlipType DEF Counts
  <1>9. InOrder(toTarget', Done', host.request.n, host.request, BdPacketIdExpected',
                BdNextPacketIdToSend.id, "idle")
    <2>1. /\ InOrder(toTarget', Done, Done + 1, host.request, BdPacketIdExpected,
                     BdNextPacketIdToSend.id, "idle")
          /\ toTarget' \in Seq(Packets)
      BY <1>1, <1>2, <1>4, TargetHead
    <2>2. \A i \in 1 .. Len(toTarget') :
            toTarget'[i].kind = "data" => toTarget'[i].body.n = Done + 1
      BY <1>1, <1>2, TargetHead DEF Behind
    <2>3. InOrder(toTarget', Done + 1, Done + 1, host.request, Flip(BdPacketIdExpected),
                  BdNextPacketIdToSend.id, "idle")
      BY <1>3, <2>1, <2>2, OrderTake
    <2> QED BY <1>1, <1>2, <1>6, <2>3
  <1>10. InOrder(toHost', host.taken, message.n, message, host.expected, host.next, "heard")
    <2>1. InOrder(toHost, host.taken, host.taken, message, host.expected, host.next, "heard")
      BY <1>2, <1>3, OrderHeard DEF ToHostOrder
    <2> QED BY <1>1, <1>2, <1>3, <1>8, <2>1, OrderPutAck
  <1>11. CASE Head(toTarget).body.op = "continue"
    <2>1. pc' = "idle" /\ report' = "none" /\ UNCHANGED message BY <1>11 DEF Dispatch
    <2>2. Sending' = FALSE /\ ~Sending' /\ TargetPhase' = "idle"
      BY <2>1, SMTT(20) DEF Sending, TargetPhase
    <2>3. ~host.stopped BY <1>2, <1>11 DEF Turns
    <2>4. ToHostOrder' /\ ToTargetOrder'
      BY <1>1, <1>7, <1>9, <1>10, <2>1, <2>2 DEF ToHostOrder, ToTargetOrder
    <2>5. Counts' BY <1>1, <1>2, <1>4, <1>5, <1>6, <1>7, <1>8, <2>1, <2>2 DEF Counts
    <2>6. Turns' BY <1>1, <1>4, <1>7, <2>1, <2>2, <2>3 DEF Turns
    <2>7. host.request.n - 1 = Done BY <1>2, <1>3, SMTT(20)
    <2> QED BY <1>1, <1>2, <1>4, <1>5, <1>6, <2>1, <2>2, <2>4, <2>5, <2>6, <2>7
            DEF Link!Execute, Counts
  <1>12. CASE Head(toTarget).body.op # "continue"
    <2> DEFINE type == IF Head(toTarget).body.op = "last" THEN "last" ELSE "reply"
    <2>1. Submit(type) /\ UNCHANGED report BY <1>12 DEF Dispatch
    <2>2. host.request.op \in {"read", "last", "continue"} BY HostFields DEF Requests
    <2>3. ~host.stopped \/ (type = "reply" /\ host.replying /\ report' # "none")
      BY <1>2, <1>12, <2>1, <2>2 DEF Turns
    <2>4. type \in Types BY DEF Types
    <2> HIDE DEF type
    <2>5. Dialogue' /\ message'.n = message.n + 1 /\ Sending' = TRUE
      BY <1>1, <1>2, <1>4, <1>5, <1>6, <1>7, <1>8, <1>9, <1>10, <2>1, <2>3, <2>4, SubmitStep,
         Zenon
    <2>6. host.request.n - 1 = Done BY <1>2, <1>3, SMTT(20)
    <2> QED BY <1>1, <1>2, <1>4, <1>5, <1>6, <2>5, <2>6 DEF Link!Execute, Counts
  <1> QED BY <1>11, <1>12

\* A break-in, a RESET or a failed read of a stopped target ends the dialogue,
\* and nothing that was delivered changes.
LEMMA DisturbStep ==
    ASSUME Talking, \/ (Timeout \/ DeviceFails \/ ReceiveShort) /\ ghost' # ghost
                    \/ HostBreakIn \/ HostReset
    PROVE  Link!Disturb
  <1> USE DEF Talking, Basic, TypeOK
  <1>1. host.request.n \in Nat /\ message.n \in Nat BY HostFields, Fields
  <1>2. CASE (Timeout \/ DeviceFails \/ ReceiveShort) /\ ghost' # ghost
    <2>1. ReadsAgain /\ UNCHANGED host
      BY <1>2, FailedReadCases DEF ReadsNothing
    <2>2. /\ ghost'.abandoned = TRUE /\ ghost'.accepted = ghost.accepted
          /\ ghost'.executed = ghost.executed
      BY <2>1, GhostEnds DEF ReadsAgain
    <2>3. message'.n = message.n + 1 /\ ~Sending /\ Sending' = TRUE
      BY <2>1, SMTT(20) DEF ReadsAgain, Sending
    <2>4. host'.request.n >= host.request.n BY <1>1, <2>1, SMTT(20)
    <2> QED BY ONLY <2>2, <2>3, <2>4, Zenon DEF Link!Disturb
  <1>3. CASE HostBreakIn \/ HostReset
    <2>1. /\ ghost'.abandoned = TRUE /\ ghost'.accepted = ghost.accepted
          /\ ghost'.executed = ghost.executed
      BY <1>3, GhostEnds DEF HostBreakIn, HostReset
    <2>2. host'.request = host.request BY <1>3, ResyncFacts DEF HostBreakIn, HostReset
    <2>3. UNCHANGED message /\ Sending' = Sending
      BY <1>3 DEF HostBreakIn, HostReset, target, Sending
    <2> QED BY <1>1, <2>1, <2>2, <2>3, SMTT(20) DEF Link!Disturb
  <1> QED BY <1>2, <1>3

\* A message that is given up ends it too.
LEMMA GiveUpStep ==
    ASSUME Talking, GiveUp
    PROVE  Link!GiveUp
  <1> USE DEF Talking, Basic, TypeOK
  <1>1. /\ ghost'.abandoned = TRUE /\ ghost'.accepted = ghost.accepted
        /\ ghost'.executed = ghost.executed
    BY GhostEnds DEF GiveUp
  <1>2. Sending BY DEF GiveUp, Sending
  <1>3. pc' \in {"idle", "poll", "reply"} BY <1>2, ReturnFacts DEF GiveUp
  <1>4. Sending' = FALSE BY <1>3, SMTT(20) DEF Sending
  <1> QED BY <1>1, <1>2, <1>4 DEF GiveUp, Link!GiveUp

\* The host heard a RESET or repeats one: not in a dialogue.
LEMMA NoReset ==
    ASSUME Talking
    PROVE  ~ReceiveReset /\ ~HostRepeatReset /\ ~(HostReceive /\ HearsReset)
  <1>1. ~ReceiveReset BY TargetHead DEF ReceiveReset, Fits
  <1>2. ~HostRepeatReset BY DEF HostRepeatReset, Talking, Dialogue, Turns
  <1>3. ~(HostReceive /\ HearsReset) BY HostReceiveCases, HostHead DEF HearsReset, Fits
  <1> QED BY <1>1, <1>2, <1>3

\* What holds in every state: the types, and the dialogue until it ends.
LinkInv == Basic /\ (~ghost.abandoned => Dialogue /\ Present)

\* The link starts as the abstract one does.
LEMMA LinkInit == Init => LinkInv /\ Link!Init
  <1> SUFFICES ASSUME Init PROVE LinkInv /\ Link!Init OBVIOUS
  <1>1. Basic BY InitBasic
  <1>2. /\ toHost = <<>> /\ toTarget = <<>> /\ message.n = 0 /\ pc = "idle" /\ report = "none"
        /\ host.request.n = 0 /\ host.taken = 0 /\ host.expected = 0 /\ host.next = 0
        /\ ~host.waiting /\ ~host.replying /\ ~host.stopped /\ ~host.resyncing
        /\ ghost.executed = <<>> /\ ghost.accepted = <<>> /\ ghost.abandoned = FALSE
        /\ BdNextPacketIdToSend.id = 0 /\ BdPacketIdExpected = 0
        /\ attempts = 0 /\ script = "connect"
    BY DEF Init, Resync
  <1>3. Sending = FALSE /\ Done = 0 /\ HostPhase = "idle" /\ TargetPhase = "idle"
    BY <1>2, SMTT(20) DEF Sending, Done, HostPhase, TargetPhase
  <1>4. ToHostOrder /\ ToTargetOrder BY <1>2, Z3T(20) DEF ToHostOrder, ToTargetOrder, InOrder
  <1>5. Counts BY <1>2, <1>3, UpToZero DEF Counts
  <1>6. Turns BY <1>2, <1>3 DEF Turns
  <1>7. Present BY <1>2, SMTT(20) DEF Present
  <1>8. Link!Init BY <1>2, <1>3 DEF Link!Init
  <1> QED BY <1>1, <1>4, <1>5, <1>6, <1>7, <1>8 DEF LinkInv, Dialogue

\* Every step keeps it and is a step of KdLink.
LEMMA LinkStep ==
    ASSUME LinkInv, [Next]_vars
    PROVE  LinkInv' /\ [Link!Next]_(Link!vars)
  <1>1. Basic /\ Basic' BY StepBasic DEF LinkInv
  <1>2. CASE ghost.abandoned
    BY <1>1, <1>2, AbandonedStep, Monotone DEF LinkInv, Link!Next
  <1>3. CASE ~ghost.abandoned
    <2>1. Talking BY <1>1, <1>3 DEF LinkInv, Talking
    <2>2. Present' \/ GiveUp BY <2>1, PresentStep DEF Talking
    <2>3. ASSUME Dialogue', Link!Next \/ UNCHANGED Link!vars
          PROVE  LinkInv' /\ [Link!Next]_(Link!vars)
      <3>1. CASE GiveUp
        BY <1>1, <2>3, <3>1, GhostEnds DEF LinkInv, GiveUp, Basic, TypeOK
      <3> QED BY <1>1, <2>2, <2>3, <3>1 DEF LinkInv
    <2>4. ASSUME Link!Disturb \/ Link!GiveUp
          PROVE  LinkInv' /\ [Link!Next]_(Link!vars)
      BY <1>1, <2>4 DEF LinkInv, Link!Next, Link!Disturb, Link!GiveUp
    <2>5. CASE \/ SendOnce \/ ReceiveResend \/ RejectRequest \/ Poll
               \/ DropPrint \/ DropSymbols \/ BdPollConnection
      BY <2>1, <2>3, <2>5, TargetSameStep
    <2>6. CASE Timeout \/ DeviceFails \/ ReceiveShort
      BY <2>1, <2>3, <2>4, <2>6, TargetSameStep, DisturbStep
    <2>7. CASE ReceiveAck \/ ReceiveDataForAck
      BY <2>1, <2>3, <2>7, TargetSameStep, AcknowledgedStep DEF Link!Next
    <2>8. CASE \/ Connect \/ BdPrintString \/ BdReportLoadSymbolsStateChange
               \/ BdReportExceptionStateChange
      <3>1. Connect => Submit("print") \/ UNCHANGED message BY DEF Connect
      <3> QED BY <2>1, <2>3, <2>8, <3>1, TargetSameStep, StartStep DEF Link!Next
    <2>9. CASE Dispatch BY <2>1, <2>3, <2>9, DispatchStep DEF Link!Next
    <2>10. CASE GiveUp BY <2>1, <2>4, <2>10, GiveUpStep
    <2>11. CASE HostReceive
      <3>1. CASE HearsResend \/ HearsOld \/ HearsDamaged \/ HearsNothing
        BY <2>1, <2>3, <2>11, <3>1, HostSameStep
      <3>2. CASE HearsAck \/ HearsEarly BY <2>1, <2>3, <2>11, <3>2, HostKnowsStep
      <3>3. CASE HearsMessage BY <2>1, <2>3, <2>11, <3>3, HostTakeStep DEF Link!Next
      <3> QED BY <2>1, <2>11, <3>1, <3>2, <3>3, NoReset, HostReceiveCases
    <2>12. CASE HostRequest BY <2>1, <2>3, <2>12, HostAskStep DEF Link!Next
    <2>13. CASE HostBreakIn \/ HostReset BY <2>1, <2>4, <2>13, DisturbStep
    <2>14. CASE HostRepeat \/ HostDies \/ Cable \/ UNCHANGED vars
      BY <2>1, <2>3, <2>14, HostSameStep
    <2> QED BY <2>1, <2>5, <2>6, <2>7, <2>8, <2>9, <2>10, <2>11, <2>12, <2>13, <2>14, NoReset
            DEF Next, SendPacket, ReceivePacket, Start, Host
  <1> QED BY <1>2, <1>3

\* The USB link implements KdLink (BdUsbSendPacket and BdUsbReceivePacket,
\* DebugUsb.c): for channels of every capacity and any number of lost,
\* damaged and repeated packets, each message of the target is taken exactly
\* once and in order before BdSendPacket returns, and each request is carried
\* out exactly once, until a message is given up, a break-in, a RESET or a
\* failed read (a timeout misread as a break-in, a failure of the device) that
\* makes a stopped target report anew.
THEOREM KdUsbLinkSpec == Spec => LinkSpec
  <1>1. Init => LinkInv /\ Link!Init BY LinkInit
  <1>2. LinkInv /\ [Next]_vars => LinkInv' /\ [Link!Next]_(Link!vars) BY LinkStep
  <1> QED BY <1>1, <1>2, PTL DEF Spec, LinkSpec, Link!Spec

\* A target that the host holds stopped is inside BdpSendWaitContinue
\* (BootDebugger.c) as long as the dialogue lasts: the host's belief is never
\* ahead of the code by a stale or repeated continue.
THEOREM KdUsbStoppedTargetWaits == Spec => []StoppedTargetWaits
  <1>1. Init => LinkInv BY LinkInit
  <1>2. LinkInv /\ [Next]_vars => LinkInv' BY LinkStep
  <1>3. LinkInv => StoppedTargetWaits
    BY DEF LinkInv, Dialogue, Turns, StoppedTargetWaits
  <1> QED BY <1>1, <1>2, <1>3, PTL DEF Spec

=============================================================================
