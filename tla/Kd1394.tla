------------------------------- MODULE Kd1394 -------------------------------
(***************************************************************************)
(* The debugger link over a 1394 bus (Debug1394.c). There are no packets   *)
(* on a wire: the target exports two buffers of its own memory, and the    *)
(* remote debugger reads and writes them behind its back. A Status field   *)
(* in each buffer, PENDING or not, is all the synchronisation there is.    *)
(*                                                                         *)
(* The target is Bd1394SendPacket, Bd1394ReceivePacket, Bd1394pReadPacket  *)
(* and Bd1394pSendControlPacket under BdPrintString, BdpSendWaitContinue   *)
(* and BdPollBreakIn. The debugger is external; it follows points 11 and   *)
(* 12 of the comment at the head of Debug1394.c, and reads a message in    *)
(* two steps, header first, so that a message replaced under its eyes      *)
(* shows.                                                                  *)
(***************************************************************************)
EXTENDS Naturals, Sequences

CONSTANTS
    FirstRetries,  \* initial BdRetryCount (5 in the code)
    LaterRetries,  \* BdRetryCount once a packet got through (0x14)
    RetryModulus,  \* BdNumberRetries is unsigned: 0 - 1 is RetryModulus - 1
    StackBytes,    \* what the uninitialised packet leader can look like
    HostMayDie,    \* whether the debugger may be detached
    MaxMessages,   \* bound on the messages the target submits
    MaxRequests,   \* bound on the requests of the host
    MaxStrays      \* bound on break-ins, RESENDs and packets of other types

ASSUME RetryAssumption ==
    /\ FirstRetries \in Nat \ {0} /\ LaterRetries \in Nat \ {0}
    /\ RetryModulus \in Nat
    /\ RetryModulus > FirstRetries /\ RetryModulus > LaterRetries

ASSUME StackAssumption == StackBytes \subseteq {"breakin", "other"}

VARIABLES
    SendBuffer,     \* [pending, message]
    ReceiveBuffer,  \* [pending, command]
    BdNumberRetries,
    BdRetryCount,
    BdDebuggerNotPresent,
    BdControlCPending,
    exceptionPacketTimeouted,
    pc,       \* where the target is: "idle", "send", "reply", "poll"
    message,  \* the message Bd1394SendPacket works on: [n, type]
    report,   \* the state change BdpSendWaitContinue reports, or "none"
    header,   \* packetHeader on the stack: "raw" or "packet"
    host,     \* the remote debugger
    ghost     \* the history KdLink speaks of

control == <<BdNumberRetries, BdRetryCount, BdDebuggerNotPresent,
             BdControlCPending, exceptionPacketTimeouted, pc, message,
             report, header>>
vars == <<SendBuffer, ReceiveBuffer, control, host, ghost>>

GivesUp == {"print", "symbols"}
Types == {"print", "symbols", "exception", "reply"}
Nothing == [n |-> 0, type |-> "none"]

Init ==
    /\ SendBuffer = [pending |-> FALSE, message |-> Nothing]
    /\ ReceiveBuffer = [pending |-> FALSE, command |-> [n |-> 0, op |-> "read"]]
    /\ BdNumberRetries = FirstRetries
    /\ BdRetryCount = FirstRetries
    /\ BdDebuggerNotPresent = FALSE
    /\ BdControlCPending = FALSE
    /\ exceptionPacketTimeouted = FALSE
    /\ pc = "idle"
    /\ message = Nothing
    /\ report = "none"
    /\ header = "raw"
    /\ host = [alive |-> TRUE, reading |-> Nothing, busy |-> FALSE,
               request |-> 0, strays |-> 0, stopped |-> FALSE,
               torn |-> FALSE]
    /\ ghost = [accepted |-> <<>>, executed |-> <<>>, abandoned |-> FALSE]

-----------------------------------------------------------------------------
(* Bd1394SendPacket.                                                       *)

\* The message is copied into the send buffer, which becomes PENDING. The
\* buffer's state is not looked at.
Submit(type) ==
    /\ message.n < MaxMessages
    /\ message' = [n |-> message.n + 1, type |-> type]
    /\ SendBuffer' = [pending |-> TRUE, message |-> message']
    /\ BdNumberRetries' = BdRetryCount
    /\ exceptionPacketTimeouted' = FALSE
    /\ pc' = "send"

\* What the callers do once the message is sent.
Return(notPresent) ==
    CASE message.type = "print" -> pc' = "poll" /\ UNCHANGED report
      [] message.type = "reply" -> pc' = "reply" /\ UNCHANGED report
      [] OTHER -> IF notPresent THEN pc' = "idle" /\ report' = "none"
                                ELSE pc' = "reply" /\ UNCHANGED report

\* The polling loop ends when the debugger read the message, or gave us a
\* new command.
Picked_Inverted ==
    \/ SendBuffer.pending
    \/ ReceiveBuffer.pending /\ ~exceptionPacketTimeouted
Picked_IgnoresStatus ==
    ReceiveBuffer.pending /\ ~exceptionPacketTimeouted
Picked ==
    \/ ~SendBuffer.pending
    \/ ReceiveBuffer.pending /\ ~exceptionPacketTimeouted

Sent ==
    /\ pc = "send"
    /\ ~(BdNumberRetries = 0 /\ message.type \in GivesUp)
    /\ Picked
    /\ BdRetryCount' = LaterRetries
    /\ BdDebuggerNotPresent' = FALSE
    /\ Return(FALSE)
    /\ header' = "raw"
    /\ UNCHANGED <<SendBuffer, ReceiveBuffer, BdNumberRetries, message,
                   BdControlCPending, exceptionPacketTimeouted, host, ghost>>

\* The polling loop ran out: one retry less, below zero if need be.
OneLess(n) == (n + RetryModulus - 1) % RetryModulus

\* The test for the last retry comes before the polling loop, so the count
\* reaches zero one turn earlier. The flag is for packets that are neither
\* debug I/O nor a state change.
PollOut ==
    /\ pc = "send"
    /\ ~Picked
    /\ ~(BdNumberRetries = 0 /\ message.type \in GivesUp)
    /\ BdNumberRetries' = OneLess(BdNumberRetries)
    /\ exceptionPacketTimeouted' =
         (exceptionPacketTimeouted
            \/ (OneLess(BdNumberRetries) = 0 /\ message.type = "reply"))
    /\ UNCHANGED <<SendBuffer, ReceiveBuffer, BdRetryCount, message, report,
                   BdDebuggerNotPresent, BdControlCPending, pc, header, host,
                   ghost>>

GiveUp ==
    /\ pc = "send"
    /\ BdNumberRetries = 0
    /\ message.type \in GivesUp
    /\ BdDebuggerNotPresent' = TRUE
    /\ SendBuffer' = [SendBuffer EXCEPT !.pending = FALSE]
    /\ ghost' = [ghost EXCEPT !.abandoned = TRUE]
    /\ Return(TRUE)
    /\ header' = "raw"
    /\ UNCHANGED <<ReceiveBuffer, BdNumberRetries, BdRetryCount, message,
                   BdControlCPending, exceptionPacketTimeouted, host>>

-----------------------------------------------------------------------------
(* Bd1394ReceivePacket in BdpSendWaitContinue.                             *)

\* The caller is told to send again: the state change is reported anew.
ReportAgain == Submit(report)

\* The polling loop of Bd1394pReadPacket runs out. The leader tested for a
\* break-in was never read.
ReadTimeout ==
    /\ pc = "reply"
    /\ ~ReceiveBuffer.pending
    /\ header' = "raw"
    /\ \E byte \in IF header = "raw" THEN StackBytes ELSE {"other"} :
         IF byte = "breakin"
           THEN /\ BdControlCPending' = TRUE /\ ReportAgain
                /\ ghost' = [ghost EXCEPT !.abandoned = TRUE]
           ELSE UNCHANGED <<BdControlCPending, SendBuffer, message, pc, ghost,
                            BdNumberRetries, exceptionPacketTimeouted>>
    /\ UNCHANGED <<ReceiveBuffer, BdRetryCount, BdDebuggerNotPresent, report,
                   host>>

\* Reading takes the command out: the receive buffer is free again.
Read ==
    /\ ReceiveBuffer.pending
    /\ ReceiveBuffer' = [ReceiveBuffer EXCEPT !.pending = FALSE]
    /\ BdDebuggerNotPresent' = FALSE

\* A break-in is too short for a packet, but its header was copied.
ReadBreakIn ==
    /\ pc = "reply" /\ Read
    /\ ReceiveBuffer.command.op = "breakin"
    /\ BdControlCPending' = TRUE
    /\ ReportAgain
    /\ header' = "raw"
    /\ UNCHANGED <<BdRetryCount, report, host, ghost>>

ReadResend ==
    /\ pc = "reply" /\ Read
    /\ ReceiveBuffer.command.op = "resend"
    /\ ReportAgain
    /\ header' = "raw"
    /\ UNCHANGED <<BdRetryCount, BdControlCPending, report, host, ghost>>

\* A packet of another type, or a bad one: Bd1394pSendControlPacket asks for
\* it again. It clears the send buffer without a look at its state.
ReadStray ==
    /\ pc = "reply" /\ Read
    /\ ReceiveBuffer.command.op = "stray"
    /\ SendBuffer' = [pending |-> TRUE,
                      message |-> [n |-> 0, type |-> "resend"]]
    /\ BdNumberRetries' = BdRetryCount
    /\ header' = "packet"
    /\ UNCHANGED <<BdRetryCount, BdControlCPending, exceptionPacketTimeouted,
                   pc, message, report, host, ghost>>

\* The command stays in the buffer.
ReadRequest_Kept ==
    /\ pc = "reply" /\ ReceiveBuffer.pending
    /\ UNCHANGED ReceiveBuffer
    /\ BdDebuggerNotPresent' = FALSE
    /\ ReceiveBuffer.command.op \in {"read", "continue"}
    /\ ghost' = [ghost EXCEPT !.executed = Append(@, ReceiveBuffer.command.n)]
    /\ header' = "raw"
    /\ IF ReceiveBuffer.command.op = "continue"
         THEN /\ pc' = "idle" /\ report' = "none"
              /\ BdNumberRetries' = BdRetryCount
              /\ UNCHANGED <<SendBuffer, message, exceptionPacketTimeouted>>
         ELSE Submit("reply") /\ UNCHANGED report
    /\ UNCHANGED <<BdRetryCount, BdControlCPending, host>>

ReadRequest ==
    /\ pc = "reply" /\ Read
    /\ ReceiveBuffer.command.op \in {"read", "continue"}
    /\ ghost' = [ghost EXCEPT !.executed = Append(@, ReceiveBuffer.command.n)]
    /\ header' = "raw"
    /\ IF ReceiveBuffer.command.op = "continue"
         THEN /\ pc' = "idle" /\ report' = "none"
              /\ BdNumberRetries' = BdRetryCount
              /\ UNCHANGED <<SendBuffer, message, exceptionPacketTimeouted>>
         ELSE Submit("reply") /\ UNCHANGED report
    /\ UNCHANGED <<BdRetryCount, BdControlCPending, host>>

\* BdPollBreakIn: only a break-in is taken, anything else stays where it is.
Poll ==
    /\ pc = "poll"
    /\ LET byte == /\ ~BdControlCPending
                   /\ ReceiveBuffer.pending
                   /\ ReceiveBuffer.command.op = "breakin"
       IN  /\ ReceiveBuffer' = IF byte
                                 THEN [ReceiveBuffer EXCEPT !.pending = FALSE]
                                 ELSE ReceiveBuffer
           /\ BdDebuggerNotPresent' = (BdDebuggerNotPresent /\ ~byte)
    /\ BdControlCPending' = FALSE
    /\ pc' = "idle"
    /\ UNCHANGED <<SendBuffer, BdNumberRetries, BdRetryCount, message, report,
                   exceptionPacketTimeouted, header, host, ghost>>

\* BdTrap: prints and symbol loads only with a debugger, exceptions always.
Start ==
    /\ pc = "idle"
    /\ \E type \in {"print", "symbols", "exception"} :
         /\ type \in GivesUp => ~BdDebuggerNotPresent
         /\ Submit(type)
         /\ report' = IF type = "print" THEN "none" ELSE type
    /\ UNCHANGED <<ReceiveBuffer, BdRetryCount, BdDebuggerNotPresent,
                   BdControlCPending, header, host, ghost>>

-----------------------------------------------------------------------------
(* The remote debugger: external.                                          *)

\* It sees PENDING and reads the header.
HostReadHeader ==
    /\ host.alive /\ ~host.busy
    /\ SendBuffer.pending
    /\ host' = [host EXCEPT !.busy = TRUE, !.reading = SendBuffer.message]
    /\ UNCHANGED <<SendBuffer, ReceiveBuffer, control, ghost>>

\* It reads the rest and sets NOT_PENDING.
HostReadBody ==
    /\ host.alive /\ host.busy
    /\ SendBuffer' = [SendBuffer EXCEPT !.pending = FALSE]
    /\ host' = [host EXCEPT
                  !.busy = FALSE, !.reading = Nothing,
                  !.torn = @ \/ host.reading # SendBuffer.message,
                  !.stopped = @ \/ host.reading.type \in
                                     {"symbols", "exception"}]
    /\ ghost' = IF host.reading.type \in Types
                  THEN [ghost EXCEPT !.accepted = Append(@, host.reading.n)]
                  ELSE ghost
    /\ UNCHANGED <<ReceiveBuffer, control>>

\* A patient debugger writes only to a stopped target whose message it has
\* read; the promise of the link is for it.
Patience ==
    ghost' = [ghost EXCEPT !.abandoned =
                             @ \/ ~host.stopped \/ SendBuffer.pending]

MayWrite ==
    /\ host.alive /\ ~host.busy
    /\ ~ReceiveBuffer.pending

HostRequest ==
    /\ MayWrite
    /\ host.stopped
    /\ host.request < MaxRequests
    /\ \E op \in {"read", "continue"} :
         /\ ReceiveBuffer' = [pending |-> TRUE,
                              command |-> [n |-> host.request + 1, op |-> op]]
         /\ host' = [host EXCEPT !.request = @ + 1, !.stopped = op = "read"]
    /\ Patience
    /\ UNCHANGED <<SendBuffer, control>>

HostStray ==
    /\ MayWrite
    /\ host.strays < MaxStrays
    /\ \E op \in {"breakin", "resend", "stray"} :
         ReceiveBuffer' = [pending |-> TRUE, command |-> [n |-> 0, op |-> op]]
    /\ host' = [host EXCEPT !.strays = @ + 1]
    /\ Patience
    /\ UNCHANGED <<SendBuffer, control>>

HostDies ==
    /\ HostMayDie /\ host.alive
    /\ host' = [host EXCEPT !.alive = FALSE]
    /\ UNCHANGED <<SendBuffer, ReceiveBuffer, control, ghost>>

-----------------------------------------------------------------------------
SendPacket == Sent \/ PollOut \/ GiveUp
ReceivePacket == \/ ReadTimeout \/ ReadBreakIn \/ ReadResend \/ ReadStray
                 \/ ReadRequest \/ Poll
HostRead == HostReadHeader \/ HostReadBody
Next == \/ Start \/ SendPacket \/ ReceivePacket
        \/ HostRead \/ HostRequest \/ HostStray \/ HostDies

Spec == Init /\ [][Next]_vars

\* The target polls for ever; an attached debugger reads what is pending.
FairSpec ==
    Spec /\ WF_vars(SendPacket) /\ WF_vars(ReceivePacket) /\ WF_vars(HostRead)
-----------------------------------------------------------------------------
\* Sends to a patient host keep the promise of KdLink, as those over USB do:
\* every message and every request exactly once, until the first give-up,
\* the first command written out of turn or the first timeout that the stack
\* makes look like a break-in.
Link == INSTANCE KdLink WITH
    submitted <- message.n,
    busy <- pc = "send",
    accepted <- ghost.accepted,
    asked <- host.request,
    executed <- ghost.executed,
    abandoned <- ghost.abandoned

\* The 1394 target and its host implement KdLink under that mapping.
LinkSpec == Link!Spec

\* The debugger never reads a message half of which was replaced by the next
\* one, although nothing but Status keeps the target away from the buffer.
NoTornMessage == host.torn => ghost.abandoned

\* Sending comes to an end: of a print or a symbol load with or without a
\* debugger, of a report or a reply while a debugger is attached
\* (Bd1394SendPacket, Debug1394.c:930-990).
SendsEnd ==
    /\ (pc = "send" /\ message.type \in GivesUp) ~> pc # "send"
    /\ (pc = "send" /\ message.type \notin GivesUp)
         ~> (pc # "send" \/ ~host.alive)
=============================================================================
