----------------------------- MODULE Breakpoints -----------------------------
(***************************************************************************)
(* The breakpoint table of the boot debugger (BootDebugger.c).  The host   *)
(* debugger adds and removes breakpoints by handle while the loader is     *)
(* stopped; each one replaces a byte of code by the breakpoint             *)
(* instruction and remembers the byte.                                     *)
(*                                                                         *)
(* code is the program as it was loaded, memory what is there now.  An     *)
(* address that MmTranslateVirtualAddress does not resolve is unmapped;    *)
(* the host can change the page tables between two requests.               *)
(***************************************************************************)
EXTENDS Integers, FiniteSets

CONSTANTS Addresses,    \* a set of numbers
          Bytes,        \* values of a byte of code
          Int3,         \* BdBreakpointInstruction
          TableSize,    \* BREAKPOINT_TABLE_SIZE
          MaxStream     \* DBGKD_MAXSTREAM

ASSUME TableAssumption == TableSize \in Nat \ {0}
ASSUME StreamAssumption == MaxStream \in Nat \ {0}
ASSUME ByteAssumption == Int3 \in Bytes /\ 0 \in Bytes
ASSUME AddressAssumption == Addresses \subseteq Nat \ {0}

VARIABLES code, memory, mapped,
          BdBreakpointTable,
          stream,          \* the InstructionStream of the report being sent
          suspending,      \* i of BdpSuspendAllBreakpoints, 0 before BdFinalize
          BdSubsystemInitialized

breakpointVars == <<code, memory, mapped, BdBreakpointTable, stream,
                    suspending, BdSubsystemInitialized>>

NoStream == [a \in {} |-> Int3]

\* The table is indexed by handles, which are one more than the indices of the code.
Index == 1 .. TableSize
Handles == 0 .. TableSize + 1
Flags == {"IN_USE", "NEEDS_WRITE", "NEEDS_REPLACE", "SUSPENDED"}
Entry == [Address : Addresses \cup {0}, Content : Bytes, Flags : SUBSET Flags]

InUse(e) == e.Flags # {}

-----------------------------------------------------------------------------
(* One breakpoint.  An operation maps a pair of table and memory to the    *)
(* next one, so that a request for several breakpoints composes them.      *)

State(table, mem) == [table |-> table, memory |-> mem]

\* Whether BdpLowWriteContent returns TRUE.
LowWriteSucceeds(s, i) ==
    \/ "NEEDS_WRITE" \in s.table[i].Flags
    \/ s.table[i].Content = Int3
    \/ s.table[i].Address \in mapped

BdpLowWriteContent(s, i) ==
    IF "NEEDS_WRITE" \in s.table[i].Flags
    THEN State([s.table EXCEPT ![i].Flags = @ \ {"NEEDS_WRITE"}], s.memory)
    ELSE IF s.table[i].Content = Int3 THEN s
    ELSE IF s.table[i].Address \in mapped
    THEN State(s.table, [s.memory EXCEPT ![s.table[i].Address] = s.table[i].Content])
    ELSE State([s.table EXCEPT ![i].Flags = @ \cup {"NEEDS_REPLACE"}], s.memory)

FreeSlots(s) == {i \in Index : ~ InUse(s.table[i])}

\* The first free slot; a full table adds nothing and returns handle 0.  The
\* content of a slot whose write is pending is whatever the slot held before.
BdpAddBreakpoint(s, a) ==
    IF FreeSlots(s) = {} THEN s
    ELSE LET i == CHOOSE j \in FreeSlots(s) : \A k \in FreeSlots(s) : j <= k
         IN  IF a \in mapped
             THEN State([s.table EXCEPT ![i] = [Address |-> a, Content |-> s.memory[a],
                                                Flags |-> {"IN_USE"}]],
                        [s.memory EXCEPT ![a] = Int3])
             ELSE State([s.table EXCEPT ![i].Address = a,
                                        ![i].Flags = {"IN_USE", "NEEDS_WRITE"}],
                        s.memory)

\* Mutant: the entry is freed although its byte could not be put back.
BdpDeleteBreakpoint_AlwaysRemoves(s, i) ==
    IF i \notin Index \/ ~ InUse(s.table[i]) THEN s
    ELSE LET t == BdpLowWriteContent(s, i)
         IN  State([t.table EXCEPT ![i].Flags = {}], t.memory)

\* A suspended breakpoint has already been taken out of the code.
Inserted(e) == "SUSPENDED" \notin e.Flags \/ "NEEDS_REPLACE" \in e.Flags

BdpDeleteBreakpoint(s, i) ==
    IF i \notin Index \/ ~ InUse(s.table[i]) THEN s
    ELSE LET t == IF Inserted(s.table[i]) THEN BdpLowWriteContent(s, i) ELSE s
         IN  IF Inserted(s.table[i]) /\ ~ LowWriteSucceeds(s, i) THEN t
             ELSE State([t.table EXCEPT ![i].Flags = {}], t.memory)

BdpSuspendBreakpoint(s, i) ==
    IF "IN_USE" \in s.table[i].Flags /\ "SUSPENDED" \notin s.table[i].Flags
    THEN BdpLowWriteContent(
           State([s.table EXCEPT ![i].Flags = @ \cup {"SUSPENDED"}], s.memory), i)
    ELSE s

Now == State(BdBreakpointTable, memory)
Becomes(s) == BdBreakpointTable' = s.table /\ memory' = s.memory

\* A request is handled while the debugger runs, after the last report was sent.
Request == BdSubsystemInitialized /\ suspending = 0 /\ stream' = NoStream

-----------------------------------------------------------------------------
(* Requests of the host, while the debugger is running.                    *)

BdpWriteBreakpoint(a) ==
    /\ Request
    /\ Becomes(BdpAddBreakpoint(Now, a))
    /\ UNCHANGED <<code, mapped, suspending, BdSubsystemInitialized>>

BdpRestoreBreakpoint(i) ==
    /\ Request
    /\ Becomes(BdpDeleteBreakpoint(Now, i))
    /\ UNCHANGED <<code, mapped, suspending, BdSubsystemInitialized>>

\* A list of two: first the handles that are given are deleted, then the
\* addresses that are given (address 0 is none) are added.
AddIfGiven(s, a) == IF a = 0 THEN s ELSE BdpAddBreakpoint(s, a)

BdpWriteBreakPointEx(i, j, a, b) ==
    /\ Request
    /\ LET deleted == BdpDeleteBreakpoint(BdpDeleteBreakpoint(Now, i), j)
       IN  Becomes(AddIfGiven(AddIfGiven(deleted, a), b))
    /\ UNCHANGED <<code, mapped, suspending, BdSubsystemInitialized>>

BdpRestoreBreakPointEx(i, j) ==
    /\ Request
    /\ Becomes(BdpDeleteBreakpoint(BdpDeleteBreakpoint(Now, i), j))
    /\ UNCHANGED <<code, mapped, suspending, BdSubsystemInitialized>>

InRange(lower, upper) ==
    {i \in Index : /\ "IN_USE" \in BdBreakpointTable[i].Flags
                   /\ BdBreakpointTable[i].Address \in lower .. upper}

\* Mutant: the last address of the range is left out.
BdDeleteBreakpointRange_Open(s, lower, upper) ==
    LET found == InRange(lower, upper - 1)
    IN  IF found = {} THEN s
        ELSE BdpDeleteBreakpoint(s, CHOOSE i \in found : \A j \in found : i <= j)

\* returnStatus || BdpDeleteBreakpoint(...): after one success nothing more is
\* deleted, and BdpDeleteBreakpoint succeeds for every entry in use.
BdDeleteBreakpointRange(s, lower, upper) ==
    LET found == InRange(lower, upper)
    IN  IF found = {} THEN s
        ELSE BdpDeleteBreakpoint(s, CHOOSE i \in found : \A j \in found : i <= j)

\* How many bytes BdMoveMemory copies from ip on: up to the first unmapped one.
StreamLength(ip) ==
    CHOOSE n \in 0 .. MaxStream :
        /\ \A a \in ip .. ip + n - 1 : a \in mapped
        /\ n = MaxStream \/ ip + n \notin mapped

\* The loader stops at ip and reports the code there, without the breakpoints in it.
BdSetCommonState(ip) ==
    /\ BdSubsystemInitialized
    /\ suspending = 0
    /\ LET upper == ip + StreamLength(ip) - 1
       IN  /\ Becomes(BdDeleteBreakpointRange(Now, ip, upper))
           /\ stream' = [a \in ip .. upper |-> memory'[a]]
    /\ UNCHANGED <<code, mapped, suspending, BdSubsystemInitialized>>

\* The host changes the page tables.
Remap(a) ==
    /\ Request
    /\ mapped' = IF a \in mapped THEN mapped \ {a} ELSE mapped \cup {a}
    /\ UNCHANGED <<code, memory, BdBreakpointTable, suspending, BdSubsystemInitialized>>

BdFinalize ==
    /\ Request
    /\ suspending' = 1
    /\ UNCHANGED <<code, memory, mapped, BdBreakpointTable, BdSubsystemInitialized>>

\* Mutant: the loop runs over the indices of the table, not over its handles.
BdpSuspendAllBreakpoints_ByIndex ==
    /\ BdSubsystemInitialized
    /\ suspending > 0
    /\ IF suspending < TableSize
       THEN /\ Becomes(BdpSuspendBreakpoint(Now, suspending))
            /\ suspending' = suspending + 1
            /\ UNCHANGED BdSubsystemInitialized
       ELSE /\ BdSubsystemInitialized' = FALSE
            /\ UNCHANGED <<memory, BdBreakpointTable, suspending>>
    /\ UNCHANGED <<code, mapped, stream>>

\* One iteration; after the last one the device is closed.
BdpSuspendAllBreakpoints ==
    /\ BdSubsystemInitialized
    /\ suspending > 0
    /\ IF suspending \in Index
       THEN /\ Becomes(BdpSuspendBreakpoint(Now, suspending))
            /\ suspending' = suspending + 1
            /\ UNCHANGED BdSubsystemInitialized
       ELSE /\ BdSubsystemInitialized' = FALSE
            /\ UNCHANGED <<memory, BdBreakpointTable, suspending>>
    /\ UNCHANGED <<code, mapped, stream>>

-----------------------------------------------------------------------------
\* BdInitialize has cleared the table.
BreakpointInit ==
    /\ code \in [Addresses -> Bytes]
    /\ memory = code
    /\ mapped \in SUBSET Addresses
    /\ BdBreakpointTable = [i \in Index |-> [Address |-> 0, Content |-> 0, Flags |-> {}]]
    /\ stream = NoStream
    /\ suspending = 0
    /\ BdSubsystemInitialized = TRUE

BreakpointNext ==
    \/ \E a \in Addresses : BdpWriteBreakpoint(a)
    \/ \E i \in Handles : BdpRestoreBreakpoint(i)
    \/ \E i, j \in Handles, a, b \in Addresses \cup {0} : BdpWriteBreakPointEx(i, j, a, b)
    \/ \E i, j \in Handles : BdpRestoreBreakPointEx(i, j)
    \/ \E ip \in Addresses : BdSetCommonState(ip)
    \/ \E a \in Addresses : Remap(a)
    \/ BdFinalize
    \/ BdpSuspendAllBreakpoints

BreakpointSpec == BreakpointInit /\ [][BreakpointNext]_breakpointVars

-----------------------------------------------------------------------------
(* Type invariant of the breakpoint table, the code and the last report. *)
BreakpointTypes ==
    /\ code \in [Addresses -> Bytes]
    /\ memory \in [Addresses -> Bytes]
    /\ mapped \in SUBSET Addresses
    /\ BdBreakpointTable \in [Index -> Entry]
    /\ \A i \in Index : InUse(BdBreakpointTable[i]) => BdBreakpointTable[i].Address # 0
    /\ DOMAIN stream \subseteq Addresses
    /\ suspending \in 0 .. TableSize + 1
    /\ BdSubsystemInitialized \in BOOLEAN

\* Entry e remembers the byte that belongs at its address, and will put it back.
Holds(e) ==
    /\ InUse(e)
    /\ "NEEDS_WRITE" \notin e.Flags
    /\ Inserted(e)
    /\ e.Content = code[e.Address]

(* Whatever the host adds, deletes and maps, a byte of code that differs   *)
(* from the loaded program is a breakpoint instruction, and some entry of  *)
(* the table remembers the byte that BdpLowWriteContent has to put back:   *)
(* two breakpoints at one address, a full table and a failed write         *)
(* (NEEDS_REPLACE) do not lose it.                                         *)
CodeIsRecoverable ==
    \A a \in Addresses : memory[a] # code[a] =>
        /\ memory[a] = Int3
        /\ \E i \in Index : BdBreakpointTable[i].Address = a /\ Holds(BdBreakpointTable[i])

(* After BdFinalize, which is called before the kernel is started and has  *)
(* suspended every breakpoint, all the code that can be reached is as it   *)
(* was loaded.                                                             *)
CodeIsRestored ==
    ~ BdSubsystemInitialized => \A a \in mapped : memory[a] = code[a]

(* BdSetCommonState reports the code without the breakpoint in it, if      *)
(* there is one only.                                                      *)
OneBreakpointIsHidden ==
    [][\A ip \in Addresses :
          LET found == InRange(ip, ip + StreamLength(ip) - 1)
          IN  BdSetCommonState(ip) /\ (\A i, j \in found : i = j)
              => \A a \in DOMAIN stream' : stream'[a] = code[a]]_breakpointVars
=============================================================================
