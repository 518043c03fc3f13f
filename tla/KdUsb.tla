------------------------------- MODULE KdUsb --------------------------------
(***************************************************************************)
(* The packet protocol of the boot debugger over the USB debug device:     *)
(* BdUsbSendPacket, BdUsbReceivePacket and BdUsbpReadDebuggerPacket of     *)
(* DebugUsb.c under their users BdPrintString, BdReportLoadSymbolsState-   *)
(* Change, BdReportExceptionStateChange, BdpSendWaitContinue and           *)
(* BdPollConnection of BootDebugger.c.                                     *)
(*                                                                         *)
(* One step of the target is one packet sent, or one packet (or timeout)   *)
(* consumed by the receive loop. The cable is a pair of bounded FIFO       *)
(* channels that may lose or damage a packet. The host is the remote       *)
(* debugger: it is not part of the repository and follows the rules that   *)
(* the target's own code expects of it.                                    *)
(***************************************************************************)
EXTENDS Naturals, Sequences

CONSTANTS
    FirstRetries,  \* initial BdRetryCount (5 in the code)
    LaterRetries,  \* BdRetryCount once a packet was acknowledged (0x14)
    RetryModulus,  \* BdNumberRetries is unsigned: 0 - 1 is RetryModulus - 1
    StackBytes,    \* what the uninitialised packet leader can look like
    Capacity,      \* packets a channel holds
    MaxAttempts,   \* connection attempts of BdpStart (10 in the code)
    MaxMessages,   \* bound on the messages the target submits
    MaxRequests,   \* bound on the requests of the host
    MaxTroubles,   \* bound on lost and damaged packets, break-in bytes,
                   \* resynchronisations, retransmissions of the host, and
                   \* failures of the device with a packet on its way
    HostMayDie     \* whether the debugger may be detached

ASSUME RetryAssumption ==
    /\ FirstRetries \in Nat \ {0} /\ LaterRetries \in Nat \ {0}
    /\ RetryModulus \in Nat /\ RetryModulus > FirstRetries
    /\ RetryModulus > LaterRetries

ASSUME AttemptsAssumption == MaxAttempts \in Nat \ {0}

ASSUME StackAssumption == StackBytes \subseteq {"breakin", "other"}

VARIABLES
    BdNextPacketIdToSend,  \* [id, sync]: bit 0 and SYNC_PACKET_ID
    BdPacketIdExpected,    \* bit 0 of the id
    BdNumberRetries,
    BdRetryCount,
    BdDebuggerNotPresent,
    BdControlCPending,
    pc,        \* where the target is: "idle", "send", "ack", "reply", "poll"
    message,   \* the message BdSendPacket works on: [n, type]
    report,    \* the state change BdpSendWaitContinue reports, or "none"
    header,    \* packetHeader on the stack: "raw" or "packet"
    script,    \* what BdpStart or BdPollConnection still has to do
    attempts,  \* connection attempts of BdpStart
    toHost,
    toTarget,
    host,      \* the remote debugger
    troubles,
    ghost      \* [accepted, executed, abandoned]: the history KdLink speaks of,
               \* and gaveUp: whether BdSendPacket ran out of retries

target == <<BdNextPacketIdToSend, BdPacketIdExpected, BdNumberRetries,
            BdRetryCount, BdDebuggerNotPresent, BdControlCPending, pc,
            message, report, header, script, attempts>>
vars == <<target, toHost, toTarget, host, troubles, ghost>>

Flip(id) == 1 - id
Initial == [id |-> 0, sync |-> FALSE]
Resync == [id |-> 0, sync |-> TRUE]

Data(id, sync, body) ==
    [kind |-> "data", id |-> id, sync |-> sync, body |-> body, good |-> TRUE]
Control(kind, id) == [kind |-> kind, id |-> id]

\* A channel that is full refuses the packet: the sender's transfer retries
\* run out and the packet is gone.
Put(channel, packet) ==
    IF Len(channel) < Capacity THEN Append(channel, packet) ELSE channel

\* One of the bounded number of things that go wrong.
Trouble == troubles < MaxTroubles /\ troubles' = troubles + 1

GivesUp == {"print", "symbols"}

Init ==
    /\ BdNextPacketIdToSend = Resync
    /\ BdPacketIdExpected = 0
    /\ BdNumberRetries = FirstRetries
    /\ BdRetryCount = FirstRetries
    /\ BdDebuggerNotPresent = TRUE
    /\ BdControlCPending = FALSE
    /\ pc = "idle"
    /\ message = [n |-> 0, type |-> "print"]
    /\ report = "none"
    /\ header = "raw"
    /\ script = "connect" /\ attempts = 0
    /\ toHost = <<>> /\ toTarget = <<>>
    /\ host = [alive |-> TRUE, next |-> 0, expected |-> 0, waiting |-> FALSE,
               replying |-> FALSE, stopped |-> FALSE, resyncing |-> FALSE,
               taken |-> 0, request |-> [n |-> 0, op |-> "read"]]
    /\ troubles = 0
    /\ ghost = [accepted |-> <<>>, executed |-> <<>>, abandoned |-> FALSE,
                gaveUp |-> FALSE]

-----------------------------------------------------------------------------
(* BdSendPacket: entry, one attempt, and the return to its caller.         *)

\* Entry of BdUsbSendPacket with a fresh message.
Submit(type) ==
    /\ message.n < MaxMessages
    /\ message' = [n |-> message.n + 1, type |-> type]
    /\ BdNumberRetries' = BdRetryCount
    /\ pc' = "send"

\* BdpSendWaitContinue serves a single request.
Return_Once(notPresent) ==
    CASE message.type = "print" -> pc' = "poll" /\ UNCHANGED report
      [] message.type \in {"reply", "last"} -> pc' = "idle" /\ report' = "none"
      [] OTHER -> IF notPresent
                    THEN pc' = "idle" /\ report' = "none"
                    ELSE pc' = "reply" /\ UNCHANGED report

\* What the callers do once BdSendPacket returned: BdPrintString polls for a
\* break-in, BdpSendWaitContinue leaves if no debugger is there and otherwise
\* waits for a request.
Return(notPresent) ==
    CASE message.type = "print" -> pc' = "poll" /\ UNCHANGED report
      [] message.type = "reply" -> pc' = "reply" /\ UNCHANGED report
      [] message.type = "last" -> pc' = "idle" /\ report' = "none"
      [] OTHER -> IF notPresent
                    THEN pc' = "idle" /\ report' = "none"
                    ELSE pc' = "reply" /\ UNCHANGED report

\* BdNumberRetries reached zero on a packet that does not report an
\* exception: the debugger is declared absent.
GiveUp ==
    /\ pc = "send"
    /\ BdNumberRetries = 0
    /\ message.type \in GivesUp
    /\ BdDebuggerNotPresent' = TRUE
    /\ BdNextPacketIdToSend' = Resync
    /\ BdPacketIdExpected' = 0
    /\ Return(TRUE)
    /\ ghost' = [ghost EXCEPT !.abandoned = TRUE, !.gaveUp = TRUE]
    /\ header' = "raw"
    /\ UNCHANGED <<BdNumberRetries, BdRetryCount, BdControlCPending, message,
                   script, attempts, toHost, toTarget, host, troubles>>

\* One turn of the send loop: the packet goes out under the current id and
\* BdUsbReceivePacket(ACKNOWLEDGE) begins.
SendOnce ==
    /\ pc = "send"
    /\ ~(BdNumberRetries = 0 /\ message.type \in GivesUp)
    /\ toHost' = Put(toHost, Data(BdNextPacketIdToSend.id,
                                  BdNextPacketIdToSend.sync, message))
    /\ pc' = "ack"
    /\ header' = "raw"
    /\ UNCHANGED <<BdNextPacketIdToSend, BdPacketIdExpected, BdNumberRetries,
                   BdRetryCount, BdDebuggerNotPresent, BdControlCPending,
                   message, report, script, attempts, toTarget, host, troubles,
                   ghost>>

\* KDP_PACKET_RECEIVED for an acknowledgement: the next id without SYNC.
Acknowledged ==
    /\ BdNextPacketIdToSend' =
         [id |-> Flip(BdNextPacketIdToSend.id), sync |-> FALSE]
    /\ BdRetryCount' = LaterRetries
    /\ Return(BdDebuggerNotPresent)
    /\ UNCHANGED message

-----------------------------------------------------------------------------
(* BdUsbReceivePacket: one turn of its loop.                               *)

\* BdNumberRetries -= 1 on an unsigned counter: a report that is never given
\* up takes it below zero.
OneLess(n) == (n + RetryModulus - 1) % RetryModulus

\* A failed read. The loop looks at packetHeader, which the read did not
\* fill in: on the first turn it is whatever the stack holds. A RESEND makes
\* BdpSendWaitContinue report the state change anew, though the host may
\* have sent a request: the promise of KdLink ends there.
FailedRead(result) ==
    \E byte \in IF header = "raw" THEN StackBytes ELSE {"other"} :
        /\ BdControlCPending' = (BdControlCPending \/ byte = "breakin")
        /\ header' = "raw"
        /\ LET final == IF byte = "breakin" THEN "resend" ELSE result IN
           /\ BdNumberRetries' =
                CASE pc = "reply" /\ final = "resend" -> BdRetryCount
                  [] result = "resend" -> BdRetryCount
                  [] final = "timeout" /\ pc = "ack" ->
                       OneLess(BdNumberRetries)
                  [] OTHER -> BdNumberRetries
           /\ IF pc = "reply" /\ final = "resend"
                THEN /\ message.n < MaxMessages
                     /\ message' = [n |-> message.n + 1, type |-> report]
                     /\ pc' = "send"
                     /\ ghost' = [ghost EXCEPT !.abandoned = TRUE]
                ELSE /\ UNCHANGED <<message, ghost>>
                     /\ pc' = IF pc = "ack" THEN "send" ELSE pc
    /\ UNCHANGED <<BdNextPacketIdToSend, BdPacketIdExpected, BdRetryCount,
                   BdDebuggerNotPresent, report, script, attempts, toHost,
                   host>>

\* Nothing arrives in time. The host may only be slow: its packets can still
\* come later.
Timeout ==
    /\ pc \in {"ack", "reply"}
    /\ toTarget = <<>>
    /\ FailedRead("timeout")
    /\ UNCHANGED <<toTarget, troubles>>

\* The device fails while it is read and has to be initialised again
\* (RESEND), or that did not succeed (TIMEOUT), whatever is on its way. A
\* send that fails is a packet that the cable loses.
DeviceFails ==
    /\ pc \in {"ack", "reply"}
    /\ \E result \in {"timeout", "resend"} : FailedRead(result)
    /\ IF toTarget = <<>> THEN UNCHANGED troubles ELSE Trouble
    /\ UNCHANGED toTarget

\* The single byte of a break-in is shorter than a packet header: the read
\* fails before the header is copied.
ReceiveShort ==
    /\ pc \in {"ack", "reply"}
    /\ toTarget # <<>> /\ Head(toTarget).kind = "breakin"
    /\ toTarget' = Tail(toTarget)
    /\ FailedRead("resend")
    /\ UNCHANGED troubles

\* The receive loop returns RESEND: the send loop sends the same message
\* again, BdpSendWaitContinue reports the state change anew.
SendAgain ==
    IF pc = "ack"
      THEN pc' = "send" /\ BdNumberRetries' = BdRetryCount /\ UNCHANGED message
      ELSE Submit(report)

ReceiveResend ==
    /\ pc \in {"ack", "reply"}
    /\ toTarget # <<>> /\ Head(toTarget).kind = "resend"
    /\ toTarget' = Tail(toTarget)
    /\ header' = "raw"
    /\ SendAgain
    /\ UNCHANGED <<BdNextPacketIdToSend, BdPacketIdExpected, BdRetryCount,
                   BdDebuggerNotPresent, BdControlCPending, report, script,
                   attempts, toHost, host, troubles, ghost>>

ReceiveReset ==
    /\ pc \in {"ack", "reply"}
    /\ toTarget # <<>> /\ Head(toTarget).kind = "reset"
    /\ toTarget' = Tail(toTarget)
    /\ BdNextPacketIdToSend' = Initial
    /\ BdPacketIdExpected' = 0
    /\ toHost' = Put(toHost, Control("reset", 0))
    /\ header' = "raw"
    /\ SendAgain
    /\ UNCHANGED <<BdRetryCount, BdDebuggerNotPresent, BdControlCPending,
                   report, script, attempts, host, troubles, ghost>>

\* The acknowledgement of another packet is taken for this one.
ReceiveAck_AnyId ==
    /\ pc = "ack"
    /\ toTarget # <<>> /\ Head(toTarget).kind = "ack"
    /\ toTarget' = Tail(toTarget)
    /\ BdNumberRetries' = BdRetryCount
    /\ header' = "raw" /\ Acknowledged
    /\ UNCHANGED <<BdPacketIdExpected, BdDebuggerNotPresent,
                   BdControlCPending, script, attempts, toHost, host, troubles,
                   ghost>>

\* The id is compared with SYNC still in it.
ReceiveAck_Unmasked ==
    /\ pc \in {"ack", "reply"}
    /\ toTarget # <<>> /\ Head(toTarget).kind = "ack"
    /\ toTarget' = Tail(toTarget)
    /\ BdNumberRetries' = BdRetryCount
    /\ IF pc = "ack" /\ [id |-> Head(toTarget).id, sync |-> FALSE]
                         = BdNextPacketIdToSend
         THEN header' = "raw" /\ Acknowledged
         ELSE /\ header' = "packet"
              /\ UNCHANGED <<BdNextPacketIdToSend, BdRetryCount, pc, message,
                             report>>
    /\ UNCHANGED <<BdPacketIdExpected, BdDebuggerNotPresent,
                   BdControlCPending, script, attempts, toHost, host, troubles,
                   ghost>>

\* An acknowledgement counts only for the id in use while one is awaited.
ReceiveAck ==
    /\ pc \in {"ack", "reply"}
    /\ toTarget # <<>> /\ Head(toTarget).kind = "ack"
    /\ toTarget' = Tail(toTarget)
    /\ BdNumberRetries' = BdRetryCount
    /\ IF pc = "ack" /\ Head(toTarget).id = BdNextPacketIdToSend.id
         THEN header' = "raw" /\ Acknowledged
         ELSE /\ header' = "packet"
              /\ UNCHANGED <<BdNextPacketIdToSend, BdRetryCount, pc, message,
                             report>>
    /\ UNCHANGED <<BdPacketIdExpected, BdDebuggerNotPresent,
                   BdControlCPending, script, attempts, toHost, host, troubles,
                   ghost>>

\* A request while an acknowledgement is awaited: one with the expected id
\* shows that the host went on, so the message arrived; the host is told to
\* send the request again. Any other id is an old request.
ReceiveDataForAck ==
    /\ pc = "ack"
    /\ toTarget # <<>> /\ Head(toTarget).kind = "data"
    /\ toTarget' = Tail(toTarget)
    /\ BdNumberRetries' = BdRetryCount
    /\ IF Head(toTarget).id = BdPacketIdExpected
         THEN /\ toHost' = Put(toHost, Control("resend", 0))
              /\ header' = "raw"
              /\ Acknowledged
         ELSE /\ toHost' = Put(toHost, Control("ack", Head(toTarget).id))
              /\ header' = "packet"
              /\ UNCHANGED <<BdNextPacketIdToSend, BdRetryCount, pc, message,
                             report>>
    /\ UNCHANGED <<BdPacketIdExpected, BdDebuggerNotPresent,
                   BdControlCPending, script, attempts, host, troubles, ghost>>

\* A request in BdpSendWaitContinue that is old or damaged.
RejectRequest ==
    /\ pc = "reply"
    /\ toTarget # <<>> /\ Head(toTarget).kind = "data"
    /\ \/ /\ Head(toTarget).id # BdPacketIdExpected
          /\ toHost' = Put(toHost, Control("ack", Head(toTarget).id))
       \/ /\ Head(toTarget).id = BdPacketIdExpected
          /\ ~Head(toTarget).good
          /\ toHost' = Put(toHost, Control("resend", 0))
    /\ toTarget' = Tail(toTarget)
    /\ BdNumberRetries' = BdRetryCount
    /\ header' = "packet"
    /\ UNCHANGED <<BdNextPacketIdToSend, BdPacketIdExpected, BdRetryCount,
                   BdDebuggerNotPresent, BdControlCPending, pc, message,
                   report, script, attempts, host, troubles, ghost>>

\* The expected id is not advanced.
Dispatch_SameId ==
    /\ pc = "reply"
    /\ toTarget # <<>> /\ Head(toTarget).kind = "data"
    /\ Head(toTarget).id = BdPacketIdExpected
    /\ Head(toTarget).good
    /\ toTarget' = Tail(toTarget)
    /\ toHost' = Put(toHost, Control("ack", Head(toTarget).id))
    /\ BdPacketIdExpected' = BdPacketIdExpected
    /\ ghost' = [ghost EXCEPT !.executed = Append(@, Head(toTarget).body.n)]
    /\ header' = "raw"
    /\ IF Head(toTarget).body.op = "continue"
         THEN /\ pc' = "idle" /\ report' = "none"
              /\ BdNumberRetries' = BdRetryCount
              /\ UNCHANGED message
         ELSE /\ Submit(IF Head(toTarget).body.op = "last" THEN "last"
                                                            ELSE "reply")
              /\ UNCHANGED report
    /\ UNCHANGED <<BdNextPacketIdToSend, BdRetryCount, BdDebuggerNotPresent,
                   BdControlCPending, script, attempts, host, troubles>>

\* A request that is taken: it is acknowledged and dispatched. A continue
\* ends BdpSendWaitContinue, any other request is answered; a
\* DbgKdWriteBreakPointExApi that asks to go on ends it after its answer.
Dispatch ==
    /\ pc = "reply"
    /\ toTarget # <<>> /\ Head(toTarget).kind = "data"
    /\ Head(toTarget).id = BdPacketIdExpected
    /\ Head(toTarget).good
    /\ toTarget' = Tail(toTarget)
    /\ toHost' = Put(toHost, Control("ack", Head(toTarget).id))
    /\ BdPacketIdExpected' = Flip(BdPacketIdExpected)
    /\ ghost' = [ghost EXCEPT !.executed = Append(@, Head(toTarget).body.n)]
    /\ header' = "raw"
    /\ IF Head(toTarget).body.op = "continue"
         THEN /\ pc' = "idle" /\ report' = "none"
              /\ BdNumberRetries' = BdRetryCount
              /\ UNCHANGED message
         ELSE /\ Submit(IF Head(toTarget).body.op = "last" THEN "last"
                                                            ELSE "reply")
              /\ UNCHANGED report
    /\ UNCHANGED <<BdNextPacketIdToSend, BdRetryCount, BdDebuggerNotPresent,
                   BdControlCPending, script, attempts, host, troubles>>

-----------------------------------------------------------------------------
(* BdPollBreakIn and the activities that start a conversation.             *)

\* A poll consumes one packet, whatever it is, and recognises only the
\* break-in byte; the device may fail. A break-in noted earlier needs no read.
Poll ==
    /\ pc = "poll"
    /\ \E works \in BOOLEAN :
       LET read == works /\ ~BdControlCPending /\ toTarget # <<>>
           byte == read /\ Head(toTarget).kind = "breakin"
           pressed == BdControlCPending \/ byte
       IN  /\ toTarget' = IF read THEN Tail(toTarget) ELSE toTarget
           /\ BdDebuggerNotPresent' = (BdDebuggerNotPresent /\ ~byte)
           /\ BdControlCPending' = FALSE
           /\ script' = CASE script = "poll" /\ pressed -> "print"
                          [] script = "poll" /\ ~pressed -> "free"
                          [] script = "print" -> "exception"
                          [] OTHER -> script
    /\ pc' = "idle"
    /\ UNCHANGED <<BdNextPacketIdToSend, BdPacketIdExpected, BdNumberRetries,
                   BdRetryCount, message, report, attempts, header, toHost,
                   host,
                   troubles, ghost>>

Quiet == UNCHANGED <<BdNextPacketIdToSend, BdPacketIdExpected, BdRetryCount,
                     BdControlCPending, header, toHost, toTarget, host,
                     troubles, ghost>>

\* BdpStart prints until one print is not given up, at most MaxAttempts
\* times, and goes on in either case.
Connect ==
    /\ pc = "idle" /\ script = "connect"
    /\ IF attempts < MaxAttempts /\ (attempts = 0 \/ BdDebuggerNotPresent)
         THEN /\ BdDebuggerNotPresent' = FALSE
              /\ attempts' = attempts + 1
              /\ Submit("print")
              /\ UNCHANGED script
         ELSE /\ script' = "symbols"
              /\ UNCHANGED <<BdDebuggerNotPresent, attempts, BdNumberRetries,
                             pc, message>>
    /\ UNCHANGED report /\ Quiet

\* DbgPrint: BdTrap drops it when no debugger is present. The one of
\* BdPollConnection is followed by the breakpoint all the same.
BdPrintString ==
    /\ pc = "idle" /\ script \in {"free", "print"}
    /\ ~BdDebuggerNotPresent
    /\ Submit("print")
    /\ UNCHANGED <<BdDebuggerNotPresent, report, script, attempts>> /\ Quiet

DropPrint ==
    /\ pc = "idle" /\ script = "print"
    /\ BdDebuggerNotPresent
    /\ script' = "exception"
    /\ UNCHANGED <<BdDebuggerNotPresent, BdNumberRetries, pc, message, report,
                   attempts>>
    /\ Quiet

\* DbgLoadImageSymbols, dropped likewise. In BdpStart the /break option
\* decides between a breakpoint and a poll.
AfterSymbols == IF script = "symbols" THEN {"exception", "poll"} ELSE {"free"}

BdReportLoadSymbolsStateChange ==
    /\ pc = "idle" /\ script \in {"symbols", "free"}
    /\ ~BdDebuggerNotPresent
    /\ Submit("symbols")
    /\ report' = "symbols"
    /\ script' \in AfterSymbols
    /\ UNCHANGED <<BdDebuggerNotPresent, attempts>> /\ Quiet

DropSymbols ==
    /\ pc = "idle" /\ script = "symbols"
    /\ BdDebuggerNotPresent
    /\ script' \in AfterSymbols
    /\ UNCHANGED <<BdDebuggerNotPresent, BdNumberRetries, pc, message, report,
                   attempts>>
    /\ Quiet

BdReportExceptionStateChange ==
    /\ pc = "idle" /\ script \in {"free", "exception"}
    /\ Submit("exception")
    /\ report' = "exception"
    /\ script' = "free"
    /\ UNCHANGED <<BdDebuggerNotPresent, attempts>> /\ Quiet

BdPollConnection ==
    /\ pc = "idle" /\ script \in {"free", "poll"}
    /\ pc' = "poll"
    /\ script' = "poll"
    /\ UNCHANGED <<BdDebuggerNotPresent, BdNumberRetries, message, report,
                   attempts>>
    /\ Quiet

-----------------------------------------------------------------------------
(* The remote debugger and the cable: external.                            *)

Resynchronised(h) ==
    [h EXCEPT !.next = 0, !.expected = 0, !.waiting = FALSE,
              !.replying = FALSE]

\* The host takes a message: a state change stops the target for it, a
\* reply answers its request.
Take(h, body) ==
    [h EXCEPT !.expected = Flip(@), !.taken = body.n,
              !.stopped = @ \/ body.type \in {"symbols", "exception"},
              !.replying = @ /\ body.type = "print"]

\* A SYNC packet starts the numbering anew, unless it repeats the packet
\* taken last. A message that meets a request of the host on its way answers
\* for the missing acknowledgement and has to be sent again.
HostReceive ==
    /\ host.alive
    /\ toHost # <<>>
    /\ toHost' = Tail(toHost)
    /\ LET p == Head(toHost)
           h == IF p.kind = "data" /\ p.sync /\ p.body.n # host.taken
                  THEN Resynchronised(host) ELSE host
           Ignore == UNCHANGED <<toTarget, host, ghost>>
           Answer(kind, id) == toTarget' = Put(toTarget, Control(kind, id))
       IN  CASE p.kind = "reset" ->
                  /\ host' = [Resynchronised(host) EXCEPT !.resyncing = FALSE]
                  /\ UNCHANGED <<toTarget, ghost>>
             [] p.kind = "ack" /\ host.waiting /\ p.id = host.next ->
                  /\ host' = [host EXCEPT !.waiting = FALSE,
                                          !.next = Flip(@)]
                  /\ UNCHANGED <<toTarget, ghost>>
             [] p.kind = "resend" /\ host.waiting ->
                  /\ toTarget' = Put(toTarget, Data(host.next, FALSE,
                                                    host.request))
                  /\ UNCHANGED <<host, ghost>>
             [] p.kind = "data" /\ ~host.resyncing ->
                  IF p.id # h.expected
                    THEN /\ Answer("ack", p.id)
                         /\ host' = h /\ UNCHANGED ghost
                  ELSE IF h.waiting
                    THEN /\ Answer("resend", 0)
                         /\ host' = [h EXCEPT !.waiting = FALSE,
                                              !.next = Flip(@)]
                         /\ UNCHANGED ghost
                  ELSE IF ~p.good
                    THEN /\ Answer("resend", 0)
                         /\ host' = h /\ UNCHANGED ghost
                    ELSE /\ Answer("ack", p.id)
                         /\ host' = Take(h, p.body)
                         /\ ghost' = [ghost EXCEPT !.accepted =
                                                     Append(@, p.body.n)]
             [] OTHER -> Ignore
    /\ UNCHANGED <<target, troubles>>

\* A stopped target is asked something, or let go.
HostRequest ==
    /\ host.alive /\ host.stopped
    /\ ~host.waiting /\ ~host.replying /\ ~host.resyncing
    /\ host.request.n < MaxRequests
    /\ \E op \in {"read", "last", "continue"} :
         LET request == [n |-> host.request.n + 1, op |-> op] IN
         /\ host' = [host EXCEPT !.request = request, !.waiting = TRUE,
                                 !.replying = op # "continue",
                                 !.stopped = op = "read"]
         /\ toTarget' = Put(toTarget, Data(host.next, FALSE, request))
    /\ UNCHANGED <<target, toHost, troubles, ghost>>

\* The host's own timeout.
HostRepeat ==
    /\ host.alive /\ host.waiting
    /\ Trouble
    /\ toTarget' = Put(toTarget, Data(host.next, FALSE, host.request))
    /\ UNCHANGED <<target, toHost, host, ghost>>

\* A RESET is repeated until it is answered; what came before the answer is
\* thrown away.
HostRepeatReset ==
    /\ host.alive /\ host.resyncing
    /\ \A i \in DOMAIN toHost : toHost[i].kind # "reset"
    /\ toTarget = <<>>
    /\ toTarget' = <<Control("reset", 0)>>
    /\ toHost' = <<>>
    /\ UNCHANGED <<target, host, troubles, ghost>>

HostBreakIn ==
    /\ host.alive /\ Trouble
    /\ toTarget' = Put(toTarget, Control("breakin", 0))
    /\ ghost' = [ghost EXCEPT !.abandoned = TRUE]
    /\ UNCHANGED <<target, toHost, host>>

HostReset ==
    /\ host.alive /\ Trouble
    /\ host' = [Resynchronised(host) EXCEPT !.resyncing = TRUE]
    /\ toTarget' = Put(toTarget, Control("reset", 0))
    /\ ghost' = [ghost EXCEPT !.abandoned = TRUE]
    /\ UNCHANGED <<target, toHost>>

\* The debugger is detached: nobody reads, nobody answers.
HostDies ==
    /\ HostMayDie /\ host.alive
    /\ host' = [host EXCEPT !.alive = FALSE]
    /\ UNCHANGED <<target, toHost, toTarget, troubles, ghost>>

\* A packet is lost, or its content is damaged.
Lose ==
    /\ Trouble
    /\ \/ toHost # <<>> /\ toHost' = Tail(toHost) /\ UNCHANGED toTarget
       \/ toTarget # <<>> /\ toTarget' = Tail(toTarget) /\ UNCHANGED toHost
    /\ UNCHANGED <<target, host, ghost>>

Damaged(channel) == <<[Head(channel) EXCEPT !.good = FALSE]>> \o Tail(channel)

Damage ==
    /\ Trouble
    /\ \/ /\ toHost # <<>> /\ Head(toHost).kind = "data"
          /\ toHost' = Damaged(toHost) /\ UNCHANGED toTarget
       \/ /\ toTarget # <<>> /\ Head(toTarget).kind = "data"
          /\ toTarget' = Damaged(toTarget) /\ UNCHANGED toHost
    /\ UNCHANGED <<target, host, ghost>>

-----------------------------------------------------------------------------
SendPacket == GiveUp \/ SendOnce
ReceivePacket == \/ Timeout \/ DeviceFails \/ ReceiveShort \/ ReceiveResend
                 \/ ReceiveReset \/ ReceiveAck \/ ReceiveDataForAck
                 \/ RejectRequest \/ Dispatch \/ Poll
Start == \/ Connect \/ BdPrintString \/ DropPrint
         \/ BdReportLoadSymbolsStateChange \/ DropSymbols
         \/ BdReportExceptionStateChange \/ BdPollConnection
Host == \/ HostReceive \/ HostRequest \/ HostRepeat \/ HostRepeatReset
        \/ HostBreakIn \/ HostReset \/ HostDies
Cable == Lose \/ Damage

Next == SendPacket \/ ReceivePacket \/ Start \/ Host \/ Cable

Spec == Init /\ [][Next]_vars

\* The target runs its loops to the end and an attached host reads.
FairSpec ==
    /\ Spec
    /\ WF_vars(SendPacket) /\ WF_vars(ReceivePacket)
    /\ WF_vars(HostReceive) /\ WF_vars(HostRepeatReset)
-----------------------------------------------------------------------------
Sending == pc \in {"send", "ack"}

\* The link keeps the promise of KdLink: every message exactly once and in
\* order, BdSendPacket returns only after its message was taken, and every
\* request is dispatched exactly once, until the first give-up, break-in,
\* RESET or failed read that makes a stopped target report anew, and whatever
\* the cable loses or damages and however often the device fails in a send.
Link == INSTANCE KdLink WITH
    submitted <- message.n,
    busy <- Sending,
    accepted <- ghost.accepted,
    asked <- host.request.n,
    executed <- ghost.executed,
    abandoned <- ghost.abandoned

\* The USB target and its host implement KdLink under that mapping.
LinkSpec == Link!Spec

\* While the host believes the target stopped, the target is inside
\* BdpSendWaitContinue: no stale or repeated continue lets it run on.
StoppedTargetWaits == host.stopped /\ ~ghost.abandoned => report # "none"

\* A request is never carried out twice (memory written twice, a breakpoint
\* set twice), whatever is lost, repeated, broken into or resynchronised,
\* until a message is given up: GiveUp sets BdPacketIdExpected back without
\* a word to the host, whose last request may come once more.
RequestsRunOnce ==
    ~ghost.gaveUp =>
        \A i, j \in DOMAIN ghost.executed :
            i < j => ghost.executed[i] < ghost.executed[j]

\* A turn of the send loop that hears nothing and does not count: the header
\* on the stack looked like a break-in, or the device failed.
Uncounted ==
    /\ pc = "ack" /\ pc' = "send" /\ UNCHANGED toTarget
    /\ BdNumberRetries' # OneLess(BdNumberRetries)

\* The device fails with an answer of the attached host on its way.
Deaf == host.alive /\ toTarget # <<>> /\ DeviceFails

\* A packet that does not report an exception comes to an end: it is
\* acknowledged, or the debugger is declared not present.
AbsentDebuggerIsDeclared ==
    (Sending /\ message.type \in GivesUp) ~> ~Sending

\* A report or a reply is retried until an attached host has taken it.
ReportsArrive ==
    (Sending /\ message.type \notin GivesUp) ~> (~Sending \/ ~host.alive)

\* Sending comes to an end: of a print or a symbol load with or without a
\* host, of a report or a reply while the host is attached
\* (BdUsbSendPacket, DebugUsb.c:2064-2153). Two things keep the loop going for
\* ever and are excepted: turns that do not count because of the unfilled
\* header (DebugUsb.c:2326) or the failed device (:2318), and a device that
\* never delivers what an attached host sends.
SendsEnd ==
    <>[][~Uncounted /\ ~Deaf]_vars => AbsentDebuggerIsDeclared /\ ReportsArrive
=============================================================================
