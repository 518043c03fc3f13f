------------------------------- MODULE KdLink -------------------------------
(***************************************************************************)
(* What the debugger link promises its two users, whatever packets, ids    *)
(* and retries are used to keep the promise: messages of the target reach  *)
(* the host once each and in order, BdSendPacket returns only after its    *)
(* message was accepted, and a request of the host is carried out once.    *)
(*                                                                         *)
(* The promise ends at the first give-up (BdDebuggerNotPresent), or when   *)
(* the host leaves the dialogue, for example with a break-in: from then on *)
(* a message may be lost, but what was delivered stays delivered.          *)
(***************************************************************************)
EXTENDS Naturals, Sequences

VARIABLES
    submitted,  \* messages handed to BdSendPacket so far, numbered from 1
    busy,       \* BdSendPacket has not returned yet
    accepted,   \* numbers of the messages the host took, in order
    asked,      \* requests the host made so far, numbered from 1
    executed,   \* numbers of the requests the target dispatched, in order
    abandoned   \* a message was given up, or the host left the dialogue

vars == <<submitted, busy, accepted, asked, executed, abandoned>>

\* The numbers 1 .. n in order: everything submitted, once each.
UpTo(n) == [i \in 1 .. n |-> i]

Init ==
    /\ submitted = 0
    /\ busy = FALSE
    /\ accepted = <<>>
    /\ asked = 0
    /\ executed = <<>>
    /\ abandoned = FALSE

Submit ==
    /\ ~busy
    /\ submitted' = submitted + 1
    /\ busy' = TRUE
    /\ UNCHANGED <<accepted, asked, executed, abandoned>>

Accept ==
    /\ busy
    /\ accepted = UpTo(submitted - 1)
    /\ accepted' = UpTo(submitted)
    /\ UNCHANGED <<submitted, busy, asked, executed, abandoned>>

Complete ==
    /\ busy
    /\ accepted = UpTo(submitted)
    /\ busy' = FALSE
    /\ UNCHANGED <<submitted, accepted, asked, executed, abandoned>>

Ask ==
    /\ executed = UpTo(asked)
    /\ asked' = asked + 1
    /\ UNCHANGED <<submitted, busy, accepted, executed, abandoned>>

\* A request is carried out only while the target sends nothing. Its reply,
\* where it has one, is submitted at once.
Execute ==
    /\ ~busy
    /\ executed = UpTo(asked - 1)
    /\ executed' = UpTo(asked)
    /\ \/ UNCHANGED <<submitted, busy>>
       \/ submitted' = submitted + 1 /\ busy' = TRUE
    /\ UNCHANGED <<accepted, asked, abandoned>>

GiveUp ==
    /\ busy
    /\ abandoned' = TRUE
    /\ busy' = FALSE
    /\ UNCHANGED <<submitted, accepted, asked, executed>>

\* The host breaks in, resynchronises or writes out of turn, or the target
\* believes so and reports again.
Disturb ==
    /\ abandoned' = TRUE
    /\ asked' >= asked
    /\ \/ UNCHANGED <<submitted, busy>>
       \/ ~busy /\ submitted' = submitted + 1 /\ busy' = TRUE
    /\ UNCHANGED <<accepted, executed>>

\* From then on nothing is ever taken back.
Extends(s, t) == Len(s) <= Len(t) /\ SubSeq(t, 1, Len(s)) = s

Degraded ==
    /\ abandoned
    /\ abandoned' = TRUE
    /\ busy' \in BOOLEAN
    /\ submitted' >= submitted
    /\ asked' >= asked
    /\ Extends(accepted, accepted')
    /\ Extends(executed, executed')

Next == Submit \/ Accept \/ Complete \/ Ask \/ Execute \/ GiveUp \/ Disturb
        \/ Degraded

Spec == Init /\ [][Next]_vars
=============================================================================
