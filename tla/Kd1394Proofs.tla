---------------------------- MODULE Kd1394Proofs ----------------------------
(***************************************************************************)
(* The 1394 link keeps the promise of KdLink for every number of messages, *)
(* requests, strays and retries, and no message is torn. There is one word *)
(* of synchronisation per direction, so the argument is about who may      *)
(* touch a buffer when: in the dialogue a pending message shuts the host's *)
(* pen, a message being read is still pending, and a pending command finds *)
(* the target in a place where it will be read (IInv).                     *)
(***************************************************************************)
EXTENDS Kd1394, TLAPS

\* A leaf is Zenon's unless it names the SMT solver, which is for arithmetic.
USE ZenonT(40), SMTT(15), Z3T(15)

Nowhere == {"idle", "poll"}
StateChanges == {"symbols", "exception"}

Messages == [n : Nat, type : Types \cup {"none", "resend"}]
Commands == [n : Nat, op : {"read", "continue", "breakin", "resend", "stray"}]
SendBuffers == [pending : BOOLEAN, message : Messages]
ReceiveBuffers == [pending : BOOLEAN, command : Commands]
Hosts == [alive : BOOLEAN, reading : Messages, busy : BOOLEAN, request : Nat,
          strays : Nat, stopped : BOOLEAN, torn : BOOLEAN]
Ghosts == [accepted : Seq(Nat), executed : Seq(Nat), abandoned : BOOLEAN]

TypeOK ==
    /\ SendBuffer \in SendBuffers
    /\ ReceiveBuffer \in ReceiveBuffers
    /\ pc \in {"idle", "send", "reply", "poll"}
    /\ message \in Messages
    /\ report \in StateChanges \cup {"none"}
    /\ host \in Hosts
    /\ ghost \in Ghosts

\* Where the target can be for the report it has to make.
ReportInv ==
    /\ report = "none" => pc \in Nowhere \/ (pc = "send" /\ message.type = "print")
    /\ report # "none" => pc \in {"send", "reply"} /\ message.type \in Types \ {"print"}

\* A request that waits in the receive buffer.
Asked == ReceiveBuffer.pending /\ ReceiveBuffer.command.op \in {"read", "continue"}

\* The dialogue: what holds until it is abandoned.
Dialogue ==
    \* A pending message is the one the target waits for, or the RESEND of a
    \* target that waits for a packet; either way nothing has come in.
    /\ SendBuffer.pending =>
         /\ ~ReceiveBuffer.pending
         /\ \/ /\ pc = "send" /\ SendBuffer.message = message
               /\ ghost.accepted = Link!UpTo(message.n - 1)
            \/ /\ pc = "reply" /\ SendBuffer.message.type = "resend"
               /\ ghost.accepted = Link!UpTo(message.n)
    /\ ~SendBuffer.pending => ghost.accepted = Link!UpTo(message.n)
    /\ pc = "send" => message.n > 0 /\ message.type \in Types
    \* What the host is reading stays where it is.
    /\ host.busy => SendBuffer.pending /\ host.reading = SendBuffer.message
    /\ ~host.torn
    \* Every request but the one that waits has been carried out.
    /\ Asked => /\ ReceiveBuffer.command.n = host.request /\ host.request > 0
                /\ ghost.executed = Link!UpTo(host.request - 1)
    /\ ~Asked => ghost.executed = Link!UpTo(host.request)
    \* The host writes to a target that will read.
    /\ host.stopped \/ ReceiveBuffer.pending => report # "none"
    /\ Asked /\ ReceiveBuffer.command.op = "continue" => ~host.stopped

IInv == TypeOK /\ ReportInv /\ (~ghost.abandoned => Dialogue)

-----------------------------------------------------------------------------
(* The sequences of KdLink.                                                *)

\* One more message or request.
LEMMA UpToAppend ==
    ASSUME NEW n \in Nat, n > 0
    PROVE  Append(Link!UpTo(n - 1), n) = Link!UpTo(n)
  BY SMTT(20) DEF Link!UpTo

\* Nothing is a message or request yet.
LEMMA UpToZero == Link!UpTo(0) = <<>>
  BY SMTT(20) DEF Link!UpTo

\* What is appended to extends what was there.
LEMMA ExtendsAppend ==
    ASSUME NEW s \in Seq(Nat), NEW e \in Nat
    PROVE  Link!Extends(s, s) /\ Link!Extends(s, Append(s, e))
  <1>1. SubSeq(s, 1, Len(s)) = s
    BY SMTT(20)
  <1>2. Len(Append(s, e)) = Len(s) + 1 /\ \A i \in 1 .. Len(s) : Append(s, e)[i] = s[i]
    BY SMTT(20)
  <1>3. SubSeq(Append(s, e), 1, Len(s)) = s
    BY <1>2, SMTT(20)
  <1> QED BY <1>1, <1>2, <1>3, SMTT(20) DEF Link!Extends

-----------------------------------------------------------------------------
(* Types, and where the target is.                                         *)

Basic == TypeOK /\ ReportInv

\* The link starts with typed, empty channels.
LEMMA InitBasic == Init => Basic
  <1>1. Init => TypeOK
    BY SMTT(20)
       DEF Init, TypeOK, SendBuffers, ReceiveBuffers, Messages, Commands, Hosts, Ghosts,
           Nothing, Types, StateChanges
  <1>2. Init => ReportInv
    BY DEF Init, ReportInv, Nowhere
  <1> QED BY <1>1, <1>2 DEF Basic

\* Sending the message of a type keeps the types.
LEMMA SubmitType ==
    ASSUME TypeOK, NEW type \in Types, Submit(type)
    PROVE  /\ message' = [n |-> message.n + 1, type |-> type] /\ message' \in Messages
           /\ SendBuffer' = [pending |-> TRUE, message |-> message']
           /\ SendBuffer' \in SendBuffers
           /\ pc' = "send"
  <1>1. message' = [n |-> message.n + 1, type |-> type] /\ message' \in Messages
    BY SMTT(20) DEF Submit, TypeOK, Messages
  <1>2. SendBuffer' = [pending |-> TRUE, message |-> message'] /\ pc' = "send"
    BY DEF Submit
  <1> QED BY <1>1, <1>2 DEF SendBuffers

\* The history only grows, and what ends the dialogue is a truth value.
LEMMA GhostType ==
    ASSUME NEW g \in Ghosts, NEW n \in Nat, NEW b \in BOOLEAN
    PROVE  /\ [g EXCEPT !.accepted = Append(@, n)] \in Ghosts
           /\ [g EXCEPT !.executed = Append(@, n)] \in Ghosts
           /\ [g EXCEPT !.abandoned = b] \in Ghosts
  <1>1. Append(g.accepted, n) \in Seq(Nat) /\ Append(g.executed, n) \in Seq(Nat)
    BY SMTT(20) DEF Ghosts
  <1>2. \A q \in Seq(Nat) : [g EXCEPT !.accepted = q] \in Ghosts
    BY DEF Ghosts
  <1>3. \A q \in Seq(Nat) : [g EXCEPT !.executed = q] \in Ghosts
    BY DEF Ghosts
  <1>4. [g EXCEPT !.abandoned = b] \in Ghosts
    BY DEF Ghosts
  <1> QED BY <1>1, <1>2, <1>3, <1>4

\* What the host changes of itself.
LEMMA HostType ==
    ASSUME NEW h \in Hosts, NEW m \in Messages, NEW n \in Nat, NEW b \in BOOLEAN,
           NEW c \in BOOLEAN
    PROVE  /\ [h EXCEPT !.busy = TRUE, !.reading = m] \in Hosts
           /\ [h EXCEPT !.busy = FALSE, !.reading = m, !.torn = b, !.stopped = c] \in Hosts
           /\ [h EXCEPT !.request = n, !.stopped = b] \in Hosts
           /\ [h EXCEPT !.strays = n] \in Hosts
           /\ [h EXCEPT !.alive = b] \in Hosts
  BY DEF Hosts

\* Every step keeps the types, and a report keeps the target in
\* BdpSendWaitContinue.
LEMMA StepBasic == Basic /\ [Next]_vars => Basic'
  <1> SUFFICES ASSUME Basic, [Next]_vars PROVE Basic' OBVIOUS
  <1> USE DEF Basic, TypeOK, ReportInv, Nowhere, StateChanges
  <1>1. CASE Start
    <2>1. PICK type \in {"print", "symbols", "exception"} :
            Submit(type) /\ report' = IF type = "print" THEN "none" ELSE type
      BY <1>1 DEF Start
    <2>2. UNCHANGED <<ReceiveBuffer, host, ghost>> BY <1>1 DEF Start
    <2> QED BY <2>1, <2>2, SubmitType, SMTT(20) DEF Types
  <1>2. CASE Sent
    BY <1>2 DEF Sent, Return, Types, Messages
  <1>3. CASE PollOut
    BY <1>3 DEF PollOut
  <1>4. CASE GiveUp
    <2>1. SendBuffer' \in SendBuffers BY <1>4 DEF GiveUp, SendBuffers
    <2>2. ghost' \in Ghosts BY <1>4 DEF GiveUp, Ghosts
    <2> QED BY <1>4, <2>1, <2>2 DEF GiveUp, Return, Types, GivesUp
  <1>5. CASE ReadTimeout
    <2>1. ghost' \in Ghosts BY <1>5 DEF ReadTimeout, Ghosts
    <2>2. CASE ReportAgain
      BY <1>5, <2>1, <2>2, SubmitType, SMTT(20) DEF ReadTimeout, ReportAgain, Types
    <2>3. CASE ~ReportAgain
      BY <1>5, <2>3 DEF ReadTimeout
    <2> QED BY <2>2, <2>3
  <1>6. ASSUME Read PROVE ReceiveBuffer' \in ReceiveBuffers
    BY <1>6 DEF Read, ReceiveBuffers
  <1>7. CASE ReadBreakIn \/ ReadResend
    BY <1>6, <1>7, SubmitType, SMTT(20) DEF ReadBreakIn, ReadResend, ReportAgain, Types
  <1>8. CASE ReadStray
    <2>1. SendBuffer' \in SendBuffers BY <1>8 DEF ReadStray, SendBuffers, Messages
    <2> QED BY <1>6, <1>8, <2>1 DEF ReadStray
  <1>9. CASE ReadRequest
    <2>1. ghost' \in Ghosts
      BY <1>9, GhostType DEF ReadRequest, ReceiveBuffers, Commands
    <2>2. CASE ReceiveBuffer.command.op = "continue"
      BY <1>6, <1>9, <2>1, <2>2 DEF ReadRequest
    <2>3. CASE ReceiveBuffer.command.op # "continue"
      BY <1>6, <1>9, <2>1, <2>3, SubmitType, SMTT(20) DEF ReadRequest, Types
    <2> QED BY <2>2, <2>3
  <1>10. CASE Poll
    <2>1. ReceiveBuffer' \in ReceiveBuffers BY <1>10 DEF Poll, ReceiveBuffers
    <2> QED BY <1>10, <2>1 DEF Poll
  <1>11. CASE HostReadHeader
    <2>1. host' \in Hosts BY <1>11, HostType DEF HostReadHeader, SendBuffers
    <2> QED BY <1>11, <2>1 DEF HostReadHeader, control
  <1>12. CASE HostReadBody
    <2>1. SendBuffer' \in SendBuffers BY <1>12 DEF HostReadBody, SendBuffers
    <2> DEFINE torn == host.torn \/ host.reading # SendBuffer.message
               stopped == host.stopped \/ host.reading.type \in {"symbols", "exception"}
    <2>2. torn \in BOOLEAN /\ stopped \in BOOLEAN /\ Nothing \in Messages
      BY DEF Hosts, Nothing, Messages
    <2>3. host' = [host EXCEPT !.busy = FALSE, !.reading = Nothing, !.torn = torn,
                               !.stopped = stopped]
      BY <1>12 DEF HostReadBody
    <2> HIDE DEF torn, stopped
    <2>4. host' \in Hosts BY <2>2, <2>3, HostType
    <2>5. ghost' \in Ghosts BY <1>12, GhostType DEF HostReadBody, Hosts, Messages
    <2> QED BY <1>12, <2>1, <2>4, <2>5 DEF HostReadBody, control
  <1>13. CASE HostDies
    <2>1. host' \in Hosts BY <1>13, HostType DEF HostDies
    <2> QED BY <1>13, <2>1 DEF HostDies, control
  <1>14. ASSUME Patience PROVE ghost' \in Ghosts
    <2> DEFINE left == ghost.abandoned \/ ~host.stopped \/ SendBuffer.pending
    <2>1. left \in BOOLEAN BY DEF Ghosts, Hosts, SendBuffers
    <2>2. ghost' = [ghost EXCEPT !.abandoned = left] BY <1>14 DEF Patience
    <2> HIDE DEF left
    <2> QED BY <2>1, <2>2, GhostType
  <1>15. CASE HostRequest
    <2>1. PICK op \in {"read", "continue"} :
            /\ ReceiveBuffer' = [pending |-> TRUE,
                                 command |-> [n |-> host.request + 1, op |-> op]]
            /\ host' = [host EXCEPT !.request = @ + 1, !.stopped = op = "read"]
      BY <1>15 DEF HostRequest
    <2>2. host.request + 1 \in Nat /\ (op = "read") \in BOOLEAN BY SMTT(20) DEF Hosts
    <2>3. host' \in Hosts BY <2>1, <2>2, HostType
    <2>4. ReceiveBuffer' \in ReceiveBuffers BY <2>1, <2>2 DEF ReceiveBuffers, Commands
    <2> QED BY <1>14, <1>15, <2>3, <2>4 DEF HostRequest, control
  <1>16. CASE HostStray
    <2>1. ReceiveBuffer' \in ReceiveBuffers
      BY <1>16, SMTT(20) DEF HostStray, ReceiveBuffers, Commands
    <2>2. host.strays + 1 \in Nat BY SMTT(20) DEF Hosts
    <2>3. host' \in Hosts BY <1>16, <2>2, HostType DEF HostStray
    <2> QED BY <1>14, <1>16, <2>1, <2>3 DEF HostStray, control
  <1>17. CASE UNCHANGED vars
    BY <1>17 DEF vars, control
  <1> QED BY <1>1, <1>2, <1>3, <1>4, <1>5, <1>7, <1>8, <1>9, <1>10, <1>11, <1>12, <1>13, <1>15,
             <1>16, <1>17
          DEF Next, SendPacket, ReceivePacket, HostRead

-----------------------------------------------------------------------------
(* What no step takes back, in the dialogue or after it.                   *)

\* Numbers only grow, and what was accepted or executed stays so.
LEMMA Monotone ==
    ASSUME Basic, [Next]_vars
    PROVE  /\ message'.n >= message.n /\ host'.request >= host.request
           /\ Link!Extends(ghost.accepted, ghost'.accepted)
           /\ Link!Extends(ghost.executed, ghost'.executed)
           /\ ghost.abandoned => ghost'.abandoned
  <1> USE DEF Basic, TypeOK
  <1>1. message'.n >= message.n
    <2>1. ASSUME NEW type, Submit(type) PROVE message'.n >= message.n
      BY <2>1, SMTT(20) DEF Submit, Messages
    <2>2. CASE UNCHANGED message BY <2>2, SMTT(20) DEF Messages
    <2>3. CASE Start \/ ReadTimeout \/ ReadBreakIn \/ ReadResend \/ ReadRequest
      BY <2>1, <2>2, <2>3 DEF Start, ReadTimeout, ReadBreakIn, ReadResend, ReadRequest,
                              ReportAgain
    <2> QED BY <2>2, <2>3
            DEF Next, SendPacket, ReceivePacket, HostRead, Sent, PollOut, GiveUp,
                ReadStray, Poll, HostReadHeader, HostReadBody, HostRequest, HostStray,
                HostDies, vars, control
  <1>2. host'.request >= host.request
    <2>1. \/ UNCHANGED host \/ HostReadHeader \/ HostReadBody \/ HostRequest \/ HostStray
          \/ HostDies
      BY DEF Next, SendPacket, ReceivePacket, HostRead, Start, Sent, PollOut, GiveUp,
             ReadTimeout, ReadBreakIn, ReadResend, ReadStray, ReadRequest, Poll, vars
    <2>2. CASE HostReadBody BY <2>2, SMTT(20) DEF HostReadBody, Hosts
    <2>3. CASE HostRequest BY <2>3, SMTT(20) DEF HostRequest, Hosts
    <2>4. CASE HostReadHeader BY <2>4, SMTT(20) DEF HostReadHeader, Hosts
    <2>5. CASE HostStray BY <2>5, SMTT(20) DEF HostStray, Hosts
    <2>6. CASE HostDies BY <2>6, SMTT(20) DEF HostDies, Hosts
    <2>7. CASE UNCHANGED host BY <2>7, SMTT(20) DEF Hosts
    <2> QED BY <2>1, <2>2, <2>3, <2>4, <2>5, <2>6, <2>7
  <1>3. /\ Link!Extends(ghost.accepted, ghost'.accepted)
        /\ Link!Extends(ghost.executed, ghost'.executed)
        /\ ghost.abandoned => ghost'.abandoned
    <2>1. /\ Link!Extends(ghost.accepted, ghost.accepted)
          /\ Link!Extends(ghost.executed, ghost.executed)
      BY ExtendsAppend DEF Ghosts
    <2>2. CASE UNCHANGED ghost BY <2>1, <2>2
    <2>3. CASE ghost' = [ghost EXCEPT !.abandoned = TRUE]
      BY <2>1, <2>3 DEF Ghosts
    <2>4. CASE ReadTimeout BY <2>2, <2>3, <2>4 DEF ReadTimeout
    <2>5. CASE ReadRequest
      <3>1. ReceiveBuffer.command.n \in Nat BY DEF ReceiveBuffers, Commands
      <3>2. Link!Extends(ghost.executed, Append(ghost.executed, ReceiveBuffer.command.n))
        BY <3>1, ExtendsAppend DEF Ghosts
      <3>3. /\ ghost'.executed = Append(ghost.executed, ReceiveBuffer.command.n)
            /\ ghost'.accepted = ghost.accepted /\ ghost'.abandoned = ghost.abandoned
        BY <2>5 DEF ReadRequest, Ghosts
      <3> QED BY <2>1, <3>2, <3>3
    <2>6. CASE HostReadBody
      <3>1. host.reading.n \in Nat BY DEF Hosts, Messages
      <3>2. Link!Extends(ghost.accepted, Append(ghost.accepted, host.reading.n))
        BY <3>1, ExtendsAppend DEF Ghosts
      <3>3. CASE host.reading.type \in Types
        <4>1. /\ ghost'.accepted = Append(ghost.accepted, host.reading.n)
              /\ ghost'.executed = ghost.executed /\ ghost'.abandoned = ghost.abandoned
          BY <2>6, <3>3 DEF HostReadBody, Ghosts
        <4> QED BY <2>1, <3>2, <4>1
      <3> QED BY <2>2, <2>6, <3>3 DEF HostReadBody
    <2>7. CASE Patience
      <3>1. /\ ghost'.accepted = ghost.accepted /\ ghost'.executed = ghost.executed
            /\ ghost.abandoned => ghost'.abandoned
        BY <2>7 DEF Patience, Ghosts
      <3> QED BY <2>1, <3>1
    <2> QED BY <2>2, <2>3, <2>4, <2>5, <2>6, <2>7
            DEF Next, SendPacket, ReceivePacket, HostRead, Start, Sent, PollOut, GiveUp,
                ReadBreakIn, ReadResend, ReadStray, Poll, HostReadHeader, HostRequest,
                HostStray, HostDies, vars
  <1> QED BY <1>1, <1>2, <1>3

\* After the dialogue every step is one that takes nothing back.
LEMMA AbandonedStep ==
    ASSUME Basic, [Next]_vars, ghost.abandoned
    PROVE  Link!Degraded
  <1>1. ghost'.abandoned = TRUE
    <2>1. Basic' BY StepBasic
    <2> QED BY <2>1, Monotone DEF Basic, TypeOK, Ghosts
  <1>2. (pc = "send")' \in BOOLEAN OBVIOUS
  <1> QED BY <1>1, <1>2, Monotone DEF Link!Degraded

-----------------------------------------------------------------------------
(* The dialogue: one lemma per action.                                     *)

Talking == Basic /\ Dialogue /\ ~ghost.abandoned

\* What a submitted message does to the dialogue.
LEMMA SubmitStep ==
    ASSUME Talking, NEW type \in Types, Submit(type), ~SendBuffer.pending,
           ~ReceiveBuffer'.pending, UNCHANGED host, ghost'.accepted = ghost.accepted,
           ghost'.executed = Link!UpTo(host.request),
           host.stopped => report' # "none"
    PROVE  Dialogue'
  <1>1. /\ message' = [n |-> message.n + 1, type |-> type] /\ pc' = "send"
        /\ SendBuffer' = [pending |-> TRUE, message |-> message']
    BY SubmitType DEF Talking, Basic
  <1>2. message'.n - 1 = message.n /\ message'.n > 0 /\ message'.type \in Types
    BY <1>1, SMTT(20) DEF Talking, Basic, TypeOK, Messages
  <1>3. SendBuffer'.pending /\ SendBuffer'.message = message' BY <1>1
  <1>4. ~Asked' BY DEF Asked
  <1>5. ghost'.accepted = Link!UpTo(message'.n - 1) BY <1>2 DEF Talking, Dialogue
  <1>6. ~host.busy /\ ~host.torn BY DEF Talking, Dialogue
  <1> QED BY <1>1, <1>2, <1>3, <1>4, <1>5, <1>6 DEF Dialogue, Link!UpTo

\* BdTrap: a message from a target that is not in the debugger.
LEMMA StartStep ==
    ASSUME Talking, Start
    PROVE  Dialogue' /\ Link!Submit
  <1>1. PICK type \in {"print", "symbols", "exception"} :
          Submit(type) /\ report' = IF type = "print" THEN "none" ELSE type
    BY DEF Start
  <1>2. /\ pc = "idle" /\ UNCHANGED <<ReceiveBuffer, host, ghost>> BY DEF Start
  <1>3. report = "none" BY <1>2 DEF Talking, Basic, ReportInv
  <1>4. ~host.stopped /\ ~ReceiveBuffer.pending /\ ~SendBuffer.pending
    BY <1>2, <1>3 DEF Talking, Dialogue
  <1>5. ghost.executed = Link!UpTo(host.request)
    BY <1>4 DEF Talking, Dialogue, Asked
  <1>6. type \in Types BY DEF Types
  <1>7. Dialogue' BY <1>1, <1>2, <1>4, <1>5, <1>6, SubmitStep
  <1>8. message'.n = message.n + 1 /\ pc' = "send"
    BY <1>1, <1>6, SubmitType, SMTT(20) DEF Talking, Basic
  <1> QED BY <1>2, <1>7, <1>8 DEF Link!Submit

\* Bd1394SendPacket returns: its message was read.
LEMMA SentStep ==
    ASSUME Talking, Sent
    PROVE  Dialogue' /\ Link!Complete
  <1>1. /\ pc = "send" /\ pc' # "send"
        /\ UNCHANGED <<SendBuffer, ReceiveBuffer, message, host, ghost>>
    BY DEF Sent, Return
  <1>2. ~SendBuffer.pending
    BY DEF Sent, Picked, Talking, Dialogue
  <1>3. report' = report
    BY <1>1 DEF Sent, Return, Talking, Basic, ReportInv, Types
  <1>4. Dialogue'
    BY <1>1, <1>2, <1>3 DEF Talking, Dialogue, Asked
  <1> QED BY <1>1, <1>2, <1>4 DEF Talking, Dialogue, Link!Complete

\* Bd1394SendPacket gives up.
LEMMA GiveUpStep ==
    ASSUME Talking, GiveUp
    PROVE  ghost'.abandoned /\ Link!GiveUp
  <1>1. pc = "send" /\ pc' # "send" /\ UNCHANGED <<message, host>>
    BY DEF GiveUp, Return, GivesUp
  <1>2. /\ ghost'.abandoned = TRUE
        /\ ghost'.accepted = ghost.accepted /\ ghost'.executed = ghost.executed
    BY DEF GiveUp, Talking, Basic, TypeOK, Ghosts
  <1> QED BY <1>1, <1>2 DEF Link!GiveUp

\* The polling loop of Bd1394pReadPacket runs out: nothing happens, or the
\* stack looks like a break-in and the target reports again.
LEMMA ReadTimeoutStep ==
    ASSUME Talking, ReadTimeout
    PROVE  \/ ghost'.abandoned /\ Link!Disturb
           \/ Dialogue' /\ UNCHANGED Link!vars
  <1>1. pc = "reply" /\ UNCHANGED <<ReceiveBuffer, report, host>> BY DEF ReadTimeout
  <1>2. CASE ReportAgain /\ ghost' = [ghost EXCEPT !.abandoned = TRUE]
    <2>1. /\ ghost'.abandoned = TRUE
          /\ ghost'.accepted = ghost.accepted /\ ghost'.executed = ghost.executed
      BY <1>2 DEF Talking, Basic, TypeOK, Ghosts
    <2>2. message'.n = message.n + 1 /\ pc' = "send"
      BY <1>2 DEF ReportAgain, Submit
    <2>3. host'.request >= host.request BY <1>1, SMTT(20) DEF Talking, Basic, TypeOK, Hosts
    <2> QED BY <1>1, <2>1, <2>2, <2>3 DEF Link!Disturb
  <1>3. CASE UNCHANGED <<SendBuffer, message, pc, ghost>>
    BY <1>1, <1>3 DEF Talking, Dialogue, Asked, Link!vars
  <1> QED BY <1>2, <1>3 DEF ReadTimeout

\* A break-in or a RESEND is read: the state change is reported anew.
LEMMA ReportAgainStep ==
    ASSUME Talking, ReadBreakIn \/ ReadResend
    PROVE  Dialogue' /\ Link!Submit
  <1>1. /\ pc = "reply" /\ Submit(report) /\ UNCHANGED <<report, host, ghost>>
        /\ ReceiveBuffer.pending /\ ReceiveBuffer.command.op \in {"breakin", "resend"}
    BY DEF ReadBreakIn, ReadResend, Read, ReportAgain
  <1>2. ~ReceiveBuffer'.pending
    BY DEF ReadBreakIn, ReadResend, Read, Talking, Basic, TypeOK, ReceiveBuffers
  <1>3. report \in Types /\ report # "none"
    BY <1>1 DEF Talking, Basic, TypeOK, ReportInv, Types, StateChanges, Nowhere
  <1>4. ~SendBuffer.pending /\ ghost.executed = Link!UpTo(host.request)
    BY <1>1 DEF Talking, Dialogue, Asked
  <1>5. Dialogue' BY <1>1, <1>2, <1>3, <1>4, SubmitStep
  <1>6. message'.n = message.n + 1 /\ pc' = "send"
    BY <1>1, <1>3, SubmitType, SMTT(20) DEF Talking, Basic
  <1> QED BY <1>1, <1>5, <1>6 DEF Link!Submit

\* A stray packet is answered with a RESEND.
LEMMA ReadStrayStep ==
    ASSUME Talking, ReadStray
    PROVE  Dialogue' /\ UNCHANGED Link!vars
  <1>1. /\ pc = "reply" /\ UNCHANGED <<pc, message, report, host, ghost>>
        /\ ReceiveBuffer.pending /\ ReceiveBuffer.command.op = "stray"
        /\ SendBuffer' = [pending |-> TRUE, message |-> [n |-> 0, type |-> "resend"]]
    BY DEF ReadStray, Read
  <1>2. ~ReceiveBuffer'.pending /\ ~Asked' /\ ~Asked
    BY <1>1 DEF ReadStray, Read, Talking, Basic, TypeOK, ReceiveBuffers, Asked
  <1>3. ~SendBuffer.pending BY <1>1 DEF Talking, Dialogue
  <1>4. SendBuffer'.pending /\ SendBuffer'.message.type = "resend" BY <1>1
  <1>5. ~host.busy /\ report # "none" BY <1>1, <1>3 DEF Talking, Dialogue
  <1>6. Dialogue' BY <1>1, <1>2, <1>3, <1>4, <1>5 DEF Talking, Dialogue
  <1> QED BY <1>1, <1>6 DEF Link!vars

\* A request is read and carried out.
LEMMA ReadRequestStep ==
    ASSUME Talking, ReadRequest
    PROVE  Dialogue' /\ Link!Execute
  <1>1. /\ pc = "reply" /\ UNCHANGED host /\ Asked
        /\ ghost' = [ghost EXCEPT !.executed = Append(@, ReceiveBuffer.command.n)]
    BY DEF ReadRequest, Read, Asked
  <1>2. ~ReceiveBuffer'.pending /\ ~Asked'
    BY DEF ReadRequest, Read, Talking, Basic, TypeOK, ReceiveBuffers, Asked
  <1>3. /\ ~SendBuffer.pending /\ ReceiveBuffer.command.n = host.request
        /\ host.request > 0 /\ ghost.executed = Link!UpTo(host.request - 1)
    BY <1>1 DEF Talking, Dialogue, Asked
  <1>4. host.request \in Nat BY DEF Talking, Basic, TypeOK, Hosts
  <1>5. Append(ghost.executed, host.request) = Link!UpTo(host.request)
    BY <1>3, <1>4, UpToAppend
  <1>6. /\ ghost'.executed = Link!UpTo(host.request) /\ ghost'.accepted = ghost.accepted
        /\ ghost'.abandoned = ghost.abandoned
    BY <1>1, <1>3, <1>5 DEF Talking, Basic, TypeOK, Ghosts
  <1>7. CASE ReceiveBuffer.command.op = "continue"
    <2>1. pc' = "idle" /\ UNCHANGED <<SendBuffer, message>>
      BY <1>7 DEF ReadRequest
    <2>2. ~host.stopped /\ ~host.busy /\ ~host.torn
      BY <1>1, <1>3, <1>7 DEF Talking, Dialogue
    <2>3. Dialogue'
      BY <1>1, <1>2, <1>3, <1>6, <2>1, <2>2 DEF Talking, Dialogue
    <2> QED BY <1>1, <1>3, <1>6, <2>1, <2>3 DEF Link!Execute
  <1>8. CASE ReceiveBuffer.command.op # "continue"
    <2>1. Submit("reply") /\ UNCHANGED report BY <1>8 DEF ReadRequest
    <2>2. report # "none"
      BY <1>1 DEF Talking, Basic, ReportInv, Nowhere
    <2>3. "reply" \in Types BY DEF Types
    <2>4. Dialogue' BY <1>1, <1>2, <1>3, <1>6, <2>1, <2>2, <2>3, SubmitStep
    <2>5. message'.n = message.n + 1 /\ pc' = "send"
      BY <2>1, <2>3, SubmitType, SMTT(20) DEF Talking, Basic
    <2> QED BY <1>1, <1>3, <1>6, <2>4, <2>5 DEF Link!Execute
  <1> QED BY <1>7, <1>8

\* The target polls: in a dialogue nothing has been written to it.
LEMMA PollStep ==
    ASSUME Talking, Poll
    PROVE  Dialogue' /\ UNCHANGED Link!vars
  <1>1. /\ pc = "poll" /\ pc' = "idle" /\ UNCHANGED <<SendBuffer, message, report, host, ghost>>
    BY DEF Poll
  <1>2. report = "none" BY <1>1 DEF Talking, Basic, ReportInv
  <1>3. ~ReceiveBuffer.pending BY <1>2 DEF Talking, Dialogue
  <1>4. ReceiveBuffer' = ReceiveBuffer BY <1>3 DEF Poll
  <1>5. Dialogue' BY <1>1, <1>4 DEF Talking, Dialogue, Asked
  <1> QED BY <1>1, <1>5 DEF Link!vars

\* The host sees a pending message and reads its header.
LEMMA HostReadHeaderStep ==
    ASSUME Talking, HostReadHeader
    PROVE  Dialogue' /\ UNCHANGED Link!vars
  <1>1. /\ SendBuffer.pending /\ UNCHANGED <<SendBuffer, ReceiveBuffer, message, pc, report,
                                             ghost>>
    BY DEF HostReadHeader, control
  <1>2. /\ host'.reading = SendBuffer.message /\ host'.torn = host.torn
        /\ host'.request = host.request /\ host'.stopped = host.stopped
    BY DEF HostReadHeader, Talking, Basic, TypeOK, Hosts
  <1>3. Dialogue' BY <1>1, <1>2 DEF Talking, Dialogue, Asked
  <1> QED BY <1>1, <1>2, <1>3 DEF Link!vars

\* The host reads the rest of the message: it is still the one whose header
\* it read.
LEMMA HostReadBodyStep ==
    ASSUME Talking, HostReadBody
    PROVE  Dialogue' /\ (Link!Accept \/ UNCHANGED Link!vars)
  <1>1. host.busy /\ UNCHANGED <<ReceiveBuffer, message, pc, report>>
    BY DEF HostReadBody, control
  <1>2. SendBuffer.pending /\ host.reading = SendBuffer.message /\ ~host.torn
    BY <1>1 DEF Talking, Dialogue
  <1>3. /\ ~host'.busy /\ ~host'.torn /\ host'.request = host.request
        /\ host'.stopped => host.stopped \/ host.reading.type \in {"symbols", "exception"}
    BY <1>2 DEF HostReadBody, Talking, Basic, TypeOK, Hosts
  <1>4. ~SendBuffer'.pending
    BY DEF HostReadBody, Talking, Basic, TypeOK, SendBuffers
  <1>5. ~ReceiveBuffer.pending /\ ~Asked /\ ~Asked'
    BY <1>1, <1>2 DEF Talking, Dialogue, Asked
  <1>6. CASE pc = "send" /\ SendBuffer.message = message
    <2>1. /\ message.type \in Types /\ message.n \in Nat /\ message.n > 0
          /\ ghost.accepted = Link!UpTo(message.n - 1)
      BY <1>2, <1>6 DEF Talking, Basic, TypeOK, Messages, Dialogue
    <2>2. Append(ghost.accepted, message.n) = Link!UpTo(message.n)
      BY <2>1, UpToAppend
    <2>3. ghost' = [ghost EXCEPT !.accepted = Append(@, message.n)]
      BY <1>2, <1>6, <2>1 DEF HostReadBody
    <2>4. /\ ghost'.accepted = Link!UpTo(message.n) /\ ghost'.executed = ghost.executed
          /\ ghost'.abandoned = ghost.abandoned
      BY <2>2, <2>3 DEF Talking, Basic, TypeOK, Ghosts
    <2>5. host'.stopped => report # "none"
      <3>1. report = "none" => message.type = "print"
        BY <1>6 DEF Talking, Basic, ReportInv, Nowhere
      <3> QED BY <1>2, <1>3, <1>6, <3>1 DEF Talking, Dialogue
    <2>6. Dialogue'
      BY <1>1, <1>3, <1>4, <1>5, <2>1, <2>4, <2>5 DEF Talking, Dialogue
    <2> QED BY <1>1, <1>3, <1>6, <2>1, <2>4, <2>6 DEF Link!Accept
  <1>7. CASE pc = "reply" /\ SendBuffer.message.type = "resend"
    <2>1. host.reading.type \notin Types \cup {"symbols", "exception"}
      BY <1>2, <1>7 DEF Types
    <2>2. ghost' = ghost BY <2>1 DEF HostReadBody
    <2>3. ghost.accepted = Link!UpTo(message.n)
      BY <1>2, <1>7 DEF Talking, Dialogue
    <2>4. Dialogue'
      BY <1>1, <1>3, <1>4, <1>5, <1>7, <2>1, <2>2, <2>3 DEF Talking, Dialogue
    <2> QED BY <1>1, <1>3, <2>2, <2>4 DEF Link!vars
  <1> QED BY <1>2, <1>6, <1>7 DEF Talking, Dialogue

\* What the host writes ends the dialogue exactly when it was not patient.
LEMMA PatienceStep ==
    ASSUME Talking, Patience
    PROVE  /\ ghost'.accepted = ghost.accepted /\ ghost'.executed = ghost.executed
           /\ ghost'.abandoned = (~host.stopped \/ SendBuffer.pending)
  <1> DEFINE left == ~host.stopped \/ SendBuffer.pending
  <1>1. ghost' = [ghost EXCEPT !.abandoned = left]
    BY DEF Patience, Talking
  <1>2. left \in BOOLEAN BY DEF Talking, Basic, TypeOK, Hosts, SendBuffers
  <1> HIDE DEF left
  <1>3. /\ ghost'.accepted = ghost.accepted /\ ghost'.executed = ghost.executed
        /\ ghost'.abandoned = left
    BY <1>1 DEF Talking, Basic, TypeOK, Ghosts
  <1> QED BY <1>3 DEF left

\* The host writes a request.
LEMMA HostRequestStep ==
    ASSUME Talking, HostRequest
    PROVE  IF ghost'.abandoned THEN Link!Disturb ELSE Dialogue' /\ Link!Ask
  <1>1. /\ Patience /\ host.stopped /\ ~ReceiveBuffer.pending /\ ~host.busy
        /\ UNCHANGED <<SendBuffer, message, pc, report>>
    BY DEF HostRequest, MayWrite, control
  <1>2. PICK op \in {"read", "continue"} :
          /\ ReceiveBuffer' = [pending |-> TRUE,
                               command |-> [n |-> host.request + 1, op |-> op]]
          /\ host' = [host EXCEPT !.request = @ + 1, !.stopped = op = "read"]
    BY DEF HostRequest
  <1>3. /\ host'.request = host.request + 1 /\ host'.busy = host.busy
        /\ host'.torn = host.torn /\ (host'.stopped => op = "read")
        /\ host.request \in Nat
    BY <1>2 DEF Talking, Basic, TypeOK, Hosts
  <1>4. /\ ghost'.accepted = ghost.accepted /\ ghost'.executed = ghost.executed
        /\ ghost'.abandoned = (~host.stopped \/ SendBuffer.pending)
    BY <1>1, PatienceStep
  <1>5. /\ ReceiveBuffer'.pending /\ ReceiveBuffer'.command.op = op
        /\ ReceiveBuffer'.command.n = host'.request /\ Asked'
    BY <1>2, <1>3 DEF Asked
  <1>6. ghost.executed = Link!UpTo(host.request) /\ report # "none"
    BY <1>1 DEF Talking, Dialogue, Asked
  <1>7. CASE SendBuffer.pending
    <2>1. ghost'.abandoned = TRUE BY <1>4, <1>7
    <2>2. host'.request >= host.request BY <1>3, SMTT(20)
    <2> QED BY <1>1, <1>4, <2>1, <2>2 DEF Link!Disturb
  <1>8. CASE ~SendBuffer.pending
    <2>1. ghost'.abandoned = ghost.abandoned
      <3>1. ghost'.abandoned = FALSE BY <1>1, <1>4, <1>8
      <3> QED BY <3>1 DEF Talking, Basic, TypeOK, Ghosts
    <2>2. host'.request - 1 = host.request /\ host'.request > 0 BY <1>3, SMTT(20)
    <2>3. Dialogue'
      BY <1>1, <1>3, <1>4, <1>5, <1>6, <1>8, <2>2 DEF Talking, Dialogue
    <2> QED BY <1>1, <1>3, <1>4, <1>6, <2>1, <2>3 DEF Link!Ask, Talking
  <1> QED BY <1>7, <1>8

\* The host writes a break-in, a RESEND or a packet that does not belong.
LEMMA HostStrayStep ==
    ASSUME Talking, HostStray
    PROVE  IF ghost'.abandoned THEN Link!Disturb ELSE Dialogue' /\ UNCHANGED Link!vars
  <1>1. /\ Patience /\ ~ReceiveBuffer.pending /\ ~host.busy
        /\ UNCHANGED <<SendBuffer, message, pc, report>>
    BY DEF HostStray, MayWrite, control
  <1>2. PICK op \in {"breakin", "resend", "stray"} :
          ReceiveBuffer' = [pending |-> TRUE, command |-> [n |-> 0, op |-> op]]
    BY DEF HostStray
  <1>3. /\ host'.request = host.request /\ host'.busy = host.busy
        /\ host'.torn = host.torn /\ host'.stopped = host.stopped
        /\ host.request \in Nat
    BY DEF HostStray, Talking, Basic, TypeOK, Hosts
  <1>4. /\ ghost'.accepted = ghost.accepted /\ ghost'.executed = ghost.executed
        /\ ghost'.abandoned = (~host.stopped \/ SendBuffer.pending)
    BY <1>1, PatienceStep
  <1>5. ~Asked /\ ~Asked' BY <1>1, <1>2 DEF Asked
  <1>6. CASE ghost'.abandoned
    <2>1. ghost'.abandoned = TRUE BY <1>4, <1>6
    <2>2. host'.request >= host.request BY <1>3, SMTT(20)
    <2> QED BY <1>1, <1>4, <1>6, <2>1, <2>2 DEF Link!Disturb
  <1>7. CASE ~ghost'.abandoned
    <2>1. host.stopped /\ ~SendBuffer.pending BY <1>4, <1>7
    <2>2. ghost'.abandoned = ghost.abandoned
      <3>1. ghost'.abandoned = FALSE BY <1>4, <1>7
      <3> QED BY <3>1 DEF Talking, Basic, TypeOK, Ghosts
    <2>3. report # "none" BY <2>1 DEF Talking, Dialogue
    <2>4. Dialogue'
      BY <1>1, <1>3, <1>4, <1>5, <2>1, <2>3 DEF Talking, Dialogue
    <2> QED BY <1>1, <1>3, <1>4, <1>7, <2>2, <2>4 DEF Link!vars
  <1> QED BY <1>6, <1>7

\* Steps that leave the dialogue where it is: a turn of the polling loop, and
\* the end of the host.
LEMMA IdleStep ==
    ASSUME Talking, PollOut \/ HostDies \/ UNCHANGED vars
    PROVE  Dialogue' /\ UNCHANGED Link!vars
  <1>1. UNCHANGED <<SendBuffer, ReceiveBuffer, message, pc, report, ghost>>
    BY DEF PollOut, HostDies, vars, control
  <1>2. UNCHANGED host \/ HostDies BY DEF PollOut, vars
  <1>3. /\ host'.request = host.request /\ host'.busy = host.busy
        /\ host'.torn = host.torn /\ host'.stopped = host.stopped
        /\ host'.reading = host.reading
    BY <1>2 DEF HostDies, Talking, Basic, TypeOK, Hosts
  <1>4. Asked' = Asked BY <1>1 DEF Asked
  <1>5. Dialogue' BY <1>1, <1>3, <1>4 DEF Talking, Dialogue
  <1> QED BY <1>1, <1>3, <1>5 DEF Link!vars

-----------------------------------------------------------------------------
(* The theorems.                                                           *)

\* Every step keeps the invariant and is a step of KdLink.
LEMMA LinkStep ==
    ASSUME IInv, [Next]_vars
    PROVE  IInv' /\ [Link!Next]_(Link!vars)
  <1>1. Basic /\ Basic' BY StepBasic DEF IInv, Basic
  <1>2. CASE ghost.abandoned
    <2>1. Link!Degraded BY <1>1, <1>2, AbandonedStep
    <2>2. ghost'.abandoned BY <2>1 DEF Link!Degraded
    <2> QED BY <1>1, <2>1, <2>2 DEF IInv, Basic, Link!Next
  <1>3. CASE ~ghost.abandoned
    <2>1. Talking BY <1>1, <1>3 DEF IInv, Talking
    <2>2. (ghost'.abandoned \/ Dialogue') /\ [Link!Next]_(Link!vars)
      <3>1. CASE Start BY <2>1, <3>1, StartStep DEF Link!Next
      <3>2. CASE Sent BY <2>1, <3>2, SentStep DEF Link!Next
      <3>3. CASE GiveUp BY <2>1, <3>3, GiveUpStep DEF Link!Next
      <3>4. CASE ReadTimeout BY <2>1, <3>4, ReadTimeoutStep DEF Link!Next
      <3>5. CASE ReadBreakIn \/ ReadResend BY <2>1, <3>5, ReportAgainStep DEF Link!Next
      <3>6. CASE ReadStray BY <2>1, <3>6, ReadStrayStep
      <3>7. CASE ReadRequest BY <2>1, <3>7, ReadRequestStep DEF Link!Next
      <3>8. CASE Poll BY <2>1, <3>8, PollStep
      <3>9. CASE HostReadHeader BY <2>1, <3>9, HostReadHeaderStep
      <3>10. CASE HostReadBody BY <2>1, <3>10, HostReadBodyStep DEF Link!Next
      <3>11. CASE HostRequest BY <2>1, <3>11, HostRequestStep DEF Link!Next
      <3>12. CASE HostStray BY <2>1, <3>12, HostStrayStep DEF Link!Next
      <3>13. CASE PollOut \/ HostDies \/ UNCHANGED vars BY <2>1, <3>13, IdleStep
      <3> QED BY <3>1, <3>2, <3>3, <3>4, <3>5, <3>6, <3>7, <3>8, <3>9, <3>10, <3>11, <3>12,
                 <3>13
              DEF Next, SendPacket, ReceivePacket, HostRead
    <2> QED BY <1>1, <2>2 DEF IInv, Basic
  <1> QED BY <1>2, <1>3

\* The first state is one of a dialogue, and of KdLink.
LEMMA LinkInit == Init => IInv /\ Link!Init
  <1> SUFFICES ASSUME Init PROVE IInv /\ Link!Init OBVIOUS
  <1>1. Basic BY InitBasic
  <1>2. Link!Init BY DEF Init, Link!Init, Nothing
  <1>3. Dialogue
    BY UpToZero DEF Init, Dialogue, Asked, Nothing
  <1> QED BY <1>1, <1>2, <1>3 DEF IInv, Basic

\* Over 1394 too a patient host gets every message of the target once and in
\* order, a send returns only after its message was read, and every request
\* is carried out once (Bd1394SendPacket, Bd1394ReceivePacket), for every
\* number of messages, requests and retries and whatever the stack holds.
THEOREM Kd1394LinkSpec == Spec => LinkSpec
  <1>1. IInv /\ [Next]_vars => IInv' /\ [Link!Next]_(Link!vars) BY LinkStep
  <1> QED BY <1>1, LinkInit, PTL DEF Spec, LinkSpec, Link!Spec

\* A message is never read half old and half new (Bd1394SendPacket,
\* Bd1394pSendControlPacket) while the host is patient, for every number of
\* messages, requests, strays and retries.
THEOREM Kd1394NoTornMessage == Spec => []NoTornMessage
  <1>1. IInv => NoTornMessage BY DEF IInv, Dialogue, NoTornMessage
  <1>2. IInv /\ [Next]_vars => IInv' BY LinkStep
  <1> QED BY <1>1, <1>2, LinkInit, PTL DEF Spec
=============================================================================
