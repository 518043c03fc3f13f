-------------------------- MODULE BreakpointProofs --------------------------
(***************************************************************************)
(* Proofs about the breakpoint table.  Sane is the inductive invariant, a  *)
(* predicate on the pair of table and memory that every operation of the   *)
(* table preserves; a request preserves it because it composes them.       *)
(***************************************************************************)
EXTENDS Breakpoints, WellFoundedInduction, TLAPS

\* A leaf is Zenon's unless it names the SMT solver, which is for arithmetic.
USE ZenonT(40), SMTT(15), Z3T(15)

\* The entry's byte has to be put back.
Live(e) == InUse(e) /\ "NEEDS_WRITE" \notin e.Flags /\ Inserted(e)

ShapeOK(e) ==
    \/ e.Flags = {}
    \/ /\ "IN_USE" \in e.Flags
       /\ e.Address \in Addresses
       /\ ~ ("NEEDS_WRITE" \in e.Flags /\ "NEEDS_REPLACE" \in e.Flags)
       /\ ~ ("NEEDS_WRITE" \in e.Flags /\ "SUSPENDED" \in e.Flags)
       /\ Live(e) => e.Content = code[e.Address] \/ e.Content = Int3

Sane(s) ==
    /\ s.table \in [Index -> Entry]
    /\ s.memory \in [Addresses -> Bytes]
    /\ \A i \in Index : ShapeOK(s.table[i])
    /\ \A a \in Addresses : s.memory[a] # code[a] =>
          /\ s.memory[a] = Int3
          /\ \E i \in Index : s.table[i].Address = a /\ Holds(s.table[i])

Context == code \in [Addresses -> Bytes] /\ mapped \in SUBSET Addresses

USE TableAssumption, StreamAssumption, ByteAssumption, AddressAssumption

\* Changing the flags of one entry keeps the table sane when the entry keeps its
\* shape and is not the only one that remembers a byte.
LEMMA SetFlags ==
    ASSUME Context, NEW s, Sane(s), NEW i \in Index, NEW f \in SUBSET Flags,
           ShapeOK([s.table[i] EXCEPT !.Flags = f]),
           \/ Holds([s.table[i] EXCEPT !.Flags = f])
           \/ ~ Holds(s.table[i])
           \/ s.table[i].Content = Int3
           \/ s.memory[s.table[i].Address] = code[s.table[i].Address]
    PROVE  Sane(State([s.table EXCEPT ![i].Flags = f], s.memory))
<1> DEFINE t == [s.table EXCEPT ![i].Flags = f]
<1>1. /\ t \in [Index -> Entry]
      /\ t[i] = [s.table[i] EXCEPT !.Flags = f]
      /\ \A j \in Index : j # i => t[j] = s.table[j]
      /\ \A j \in Index : t[j].Address = s.table[j].Address
      BY SMTT(20) DEF Sane, Entry
<1>2. \A j \in Index : ShapeOK(t[j])
      BY <1>1, SMTT(20) DEF Sane
<1>3. ASSUME NEW a \in Addresses, s.memory[a] # code[a]
      PROVE  s.memory[a] = Int3 /\ \E j \in Index : t[j].Address = a /\ Holds(t[j])
  <2>1. s.memory[a] = Int3
        BY <1>3 DEF Sane
  <2>2. PICK j \in Index : s.table[j].Address = a /\ Holds(s.table[j])
        BY <1>3 DEF Sane
  <2>3. CASE j # i
        BY <1>1, <2>1, <2>2, <2>3
  <2>4. CASE j = i
    <3>1. s.table[i].Content # Int3
          BY <1>3, <2>1, <2>2, <2>4 DEF Holds
    <3> QED BY <1>1, <1>3, <2>1, <2>2, <2>4, <3>1
  <2> QED BY <2>3, <2>4
<1> HIDE DEF t
<1>4. Sane(State(t, s.memory))
      BY <1>1, <1>2, <1>3 DEF Sane, State
<1> QED BY <1>4 DEF t

\* A nonempty set of handles has a smallest one.
LEMMA SmallestExists ==
    ASSUME NEW S \in SUBSET Index, S # {}
    PROVE  \E j \in S : \A k \in S : j <= k
<1> DEFINE R == {p \in Nat \X Nat : p[1] < p[2]}
<1>1. S \subseteq Nat
      BY SMTT(20) DEF Index
<1>2. PICK j \in S : \A k \in S : ~ (<<k, j>> \in R)
  <2> HIDE DEF R
  <2>1. IsWellFoundedOn(R, Nat)
        BY NatLessThanWellFounded DEF R, OpToRel
  <2> QED BY <1>1, <2>1, WFMin
<1>3. \A k \in S : ~ (k < j)
      BY <1>1, <1>2
<1> QED BY <1>1, <1>3, SMTT(20)

RestoredMemory(s, i) == [s.memory EXCEPT ![s.table[i].Address] = s.table[i].Content]

\* Writing the remembered byte back keeps the table sane.
LEMMA RestoreByte ==
    ASSUME Context, NEW s, Sane(s), NEW i \in Index,
           Live(s.table[i]), s.table[i].Content # Int3
    PROVE  /\ Sane(State(s.table, RestoredMemory(s, i)))
           /\ RestoredMemory(s, i)[s.table[i].Address] = code[s.table[i].Address]
           /\ \A a \in Addresses : s.memory[a] = code[a] => RestoredMemory(s, i)[a] = code[a]
<1> DEFINE m == RestoredMemory(s, i)
<1>1. s.table[i].Address \in Addresses /\ s.table[i].Content = code[s.table[i].Address]
      BY DEF Sane, ShapeOK, Live, InUse
<1>2. /\ m \in [Addresses -> Bytes]
      /\ m[s.table[i].Address] = code[s.table[i].Address]
      /\ \A a \in Addresses : m[a] = code[a] \/ m[a] = s.memory[a]
      BY <1>1 DEF Sane, Context, RestoredMemory
<1> HIDE DEF m
<1>3. Sane(State(s.table, m)) /\ \A a \in Addresses : s.memory[a] = code[a] => m[a] = code[a]
      BY <1>2 DEF Sane, State
<1> QED BY <1>2, <1>3 DEF m

\* BdpDeleteBreakpoint keeps the table sane, whatever handle it is given.
LEMMA DeleteSane ==
    ASSUME Context, NEW s, Sane(s), NEW h
    PROVE  Sane(BdpDeleteBreakpoint(s, h))
<1>1. CASE h \notin Index \/ ~ InUse(s.table[h])
      BY <1>1 DEF BdpDeleteBreakpoint
<1>2. CASE h \in Index /\ InUse(s.table[h])
  <2> USE <1>2
  <2> DEFINE e == s.table[h]
             r == State([s.table EXCEPT ![h].Flags = {}], s.memory)
  <2>1. e \in Entry /\ ShapeOK(e)
        BY DEF Sane
  <2>2. ShapeOK([e EXCEPT !.Flags = {}])
        BY <2>1 DEF ShapeOK, Entry
  <2>3. CASE ~ Inserted(e)
    <3>1. ~ Holds(e)
          BY <2>3 DEF Holds
    <3>2. BdpDeleteBreakpoint(s, h) = r
          BY <2>3 DEF BdpDeleteBreakpoint
    <3> QED BY <2>2, <3>1, <3>2, SetFlags
  <2>4. CASE Inserted(e) /\ "NEEDS_WRITE" \in e.Flags
    <3>1. ~ Holds(e)
          BY <2>4 DEF Holds
    <3>2. BdpDeleteBreakpoint(s, h) = r
          BY <2>4
             DEF BdpDeleteBreakpoint, BdpLowWriteContent, LowWriteSucceeds, State, Sane, Entry
    <3> QED BY <2>2, <3>1, <3>2, SetFlags
  <2>5. CASE Inserted(e) /\ "NEEDS_WRITE" \notin e.Flags /\ e.Content = Int3
    <3>1. BdpDeleteBreakpoint(s, h) = r
          BY <2>5 DEF BdpDeleteBreakpoint, BdpLowWriteContent, LowWriteSucceeds
    <3> QED BY <2>2, <2>5, <3>1, SetFlags
  <2>6. CASE Inserted(e) /\ "NEEDS_WRITE" \notin e.Flags /\ e.Content # Int3
    <3>1. Live(e)
          BY <2>6 DEF Live
    <3>2. CASE e.Address \in mapped
      <4> DEFINE m == RestoredMemory(s, h)
                 t == State(s.table, m)
      <4>1. Sane(t) /\ m[e.Address] = code[e.Address]
            BY <2>6, <3>1, RestoreByte
      <4>2. t.table = s.table /\ t.memory = m
            BY DEF State
      <4>3. BdpDeleteBreakpoint(s, h) = State([t.table EXCEPT ![h].Flags = {}], t.memory)
            BY <2>6, <3>2 DEF BdpDeleteBreakpoint, BdpLowWriteContent, LowWriteSucceeds,
                              RestoredMemory
      <4> HIDE DEF t, m
      <4> QED BY <2>2, <4>1, <4>2, <4>3, SetFlags
    <3>3. CASE e.Address \notin mapped
      <4> DEFINE f == e.Flags \cup {"NEEDS_REPLACE"}
                 n == [e EXCEPT !.Flags = f]
      <4>1. f \in SUBSET Flags
            BY <2>1 DEF Entry, Flags
      <4>2. n \in Entry /\ n.Flags = f /\ n.Address = e.Address /\ n.Content = e.Content
            BY <2>1, <4>1 DEF Entry
      <4>3. ShapeOK(n) /\ (Holds(e) => Holds(n))
            BY <2>1, <2>6, <3>1, <4>2 DEF ShapeOK, Holds, Live, InUse, Inserted
      <4>4. BdpDeleteBreakpoint(s, h) = State([s.table EXCEPT ![h].Flags = f], s.memory)
            BY <2>6, <3>3 DEF BdpDeleteBreakpoint, BdpLowWriteContent, LowWriteSucceeds, State
      <4> QED BY <4>1, <4>3, <4>4, SetFlags
    <3> QED BY <3>2, <3>3
  <2> QED BY <2>3, <2>4, <2>5, <2>6
<1> QED BY <1>1, <1>2

\* BdpAddBreakpoint keeps the table sane: the byte it saves is the program's, or
\* an inserted breakpoint whose byte another entry remembers.
LEMMA AddSane ==
    ASSUME Context, NEW s, Sane(s), NEW a \in Addresses
    PROVE  Sane(BdpAddBreakpoint(s, a))
<1>1. CASE FreeSlots(s) = {}
      BY <1>1 DEF BdpAddBreakpoint
<1>2. CASE FreeSlots(s) # {}
  <2> DEFINE i == CHOOSE j \in FreeSlots(s) : \A k \in FreeSlots(s) : j <= k
  <2>1. i \in FreeSlots(s)
    <3>1. \E j \in FreeSlots(s) : \A k \in FreeSlots(s) : j <= k
          BY <1>2, SmallestExists DEF FreeSlots, Index
    <3> QED BY <3>1
  <2>2. i \in Index /\ s.table[i].Flags = {}
        BY <2>1 DEF FreeSlots, InUse
  <2> DEFINE e == [Address |-> a, Content |-> s.memory[a], Flags |-> {"IN_USE"}]
             t == [s.table EXCEPT ![i] = e]
             m == [s.memory EXCEPT ![a] = Int3]
             p == {"IN_USE", "NEEDS_WRITE"}
             d == [s.table[i] EXCEPT !.Address = a, !.Flags = p]
             u == [s.table EXCEPT ![i].Address = a, ![i].Flags = p]
  <2>3. BdpAddBreakpoint(s, a) = IF a \in mapped THEN State(t, m) ELSE State(u, s.memory)
        BY <1>2 DEF BdpAddBreakpoint
  <2> HIDE DEF i
  <2>4. ~ Holds(s.table[i])
        BY <2>2 DEF Holds, InUse
  <2>5. CASE a \in mapped
    <3>1. e \in Entry /\ t \in [Index -> Entry] /\ m \in [Addresses -> Bytes]
          BY <2>2 DEF Sane, Entry, Flags
    <3>2. t[i] = e /\ \A j \in Index : j # i => t[j] = s.table[j]
          BY <2>2 DEF Sane
    <3>3. m[a] = Int3 /\ \A b \in Addresses : b # a => m[b] = s.memory[b]
          BY DEF Sane
    <3>4. ShapeOK(e)
          BY DEF Sane, ShapeOK
    <3>5. \A j \in Index : ShapeOK(t[j])
          BY <3>2, <3>4 DEF Sane
    <3>6. s.memory[a] = code[a] => Holds(e)
          BY DEF Holds, InUse, Inserted
    <3> HIDE DEF t, m, e
    <3>7. e.Address = a
          BY DEF e
    <3>8. ASSUME NEW b \in Addresses, m[b] # code[b]
          PROVE  m[b] = Int3 /\ \E j \in Index : t[j].Address = b /\ Holds(t[j])
      <4>1. CASE s.memory[b] # code[b]
        <5>1. PICK j \in Index : s.table[j].Address = b /\ Holds(s.table[j])
              BY <4>1 DEF Sane
        <5> QED BY <2>4, <3>2, <3>3, <4>1, <5>1 DEF Sane
      <4>2. CASE s.memory[b] = code[b]
            BY <2>2, <3>2, <3>3, <3>6, <3>7, <3>8, <4>2
      <4> QED BY <4>1, <4>2
    <3>9. Sane(State(t, m))
          BY <3>1, <3>5, <3>8 DEF Sane, State
    <3> QED BY <2>3, <2>5, <3>9
  <2>6. CASE a \notin mapped
    <3>0. p \in SUBSET Flags /\ s.table[i] \in Entry
          BY <2>2 DEF Sane, Flags
    <3>1. d \in Entry /\ u \in [Index -> Entry]
          BY <2>2, <3>0 DEF Sane, Entry
    <3>2. u[i] = d /\ \A j \in Index : j # i => u[j] = s.table[j]
          BY <2>2 DEF Sane, Entry
    <3>3. d.Address = a /\ d.Flags = p
          BY <2>2, SMTT(20) DEF Sane, Entry
    <3>4. ShapeOK(d)
          BY <3>3 DEF ShapeOK, Live
    <3> HIDE DEF d, u
    <3>5. \A j \in Index : ShapeOK(u[j])
          BY <3>2, <3>4 DEF Sane
    <3>6. \A j \in Index : Holds(s.table[j]) => u[j] = s.table[j]
          BY <2>4, <3>2
    <3>7. Sane(State(u, s.memory))
          BY <3>1, <3>5, <3>6, SMTT(20) DEF Sane, State
    <3> QED BY <2>3, <2>6, <3>7
  <2> QED BY <2>5, <2>6
<1> QED BY <1>1, <1>2

\* Where its address can be reached, the entry's byte is back in place.
Settled(s, i) ==
    Holds(s.table[i]) /\ s.table[i].Address \in mapped
        => s.memory[s.table[i].Address] = code[s.table[i].Address]

\* An entry that is not changed stays settled when no byte of code is lost.
LEMMA StaysSettled ==
    ASSUME Context, NEW s, NEW r, NEW i \in Index, Settled(r, i),
           \A j \in Index : j # i => r.table[j] = s.table[j],
           \A a \in Addresses : s.memory[a] = code[a] => r.memory[a] = code[a]
    PROVE  \A j \in Index : Settled(s, j) => Settled(r, j)
<1> SUFFICES ASSUME NEW j \in Index, j # i, Settled(s, j)
             PROVE  Settled(r, j)
    OBVIOUS
<1>1. r.table[j] = s.table[j]
      OBVIOUS
<1>2. s.table[j].Address \in mapped => s.table[j].Address \in Addresses
      BY DEF Context
<1> QED BY <1>1, <1>2 DEF Settled

\* BdpSuspendBreakpoint keeps the table sane, settles its entry and no other
\* entry is unsettled by it.
LEMMA SuspendSane ==
    ASSUME Context, NEW s, Sane(s), NEW i \in Index,
           "SUSPENDED" \notin s.table[i].Flags,
           NEW r, r = BdpSuspendBreakpoint(s, i)
    PROVE  /\ Sane(r)
           /\ \A j \in Index : j = i \/ Settled(s, j) => Settled(r, j)
           /\ \A j \in Index : j # i => r.table[j] = s.table[j]
<1> DEFINE e == s.table[i]
<1>0. e \in Entry /\ ShapeOK(e)
      BY DEF Sane
<1>1. CASE "IN_USE" \notin e.Flags
  <2>1. r = s
        BY <1>1 DEF BdpSuspendBreakpoint
  <2>2. Settled(s, i)
        BY <1>0, <1>1 DEF Settled, Holds, ShapeOK, InUse
  <2> QED BY <2>1, <2>2
<1>2. CASE "IN_USE" \in e.Flags
  <2> DEFINE g == e.Flags \cup {"SUSPENDED"}
             u == [s.table EXCEPT ![i].Flags = g]
             w == State(u, s.memory)
  <2>1. g \in SUBSET Flags
        BY <1>0 DEF Entry, Flags
  <2>2. /\ u[i].Flags = g /\ u[i].Address = e.Address /\ u[i].Content = e.Content
        /\ u[i] = [e EXCEPT !.Flags = g]
        /\ \A j \in Index : j # i => u[j] = s.table[j]
        /\ \A f : [u EXCEPT ![i].Flags = f] = [s.table EXCEPT ![i].Flags = f]
        BY <2>1, SMTT(20) DEF Sane, Entry
  <2>3. r = BdpLowWriteContent(w, i)
    <3>1. [s.table EXCEPT ![i].Flags = @ \cup {"SUSPENDED"}] = u
          OBVIOUS
    <3> QED BY <1>2, <3>1 DEF BdpSuspendBreakpoint
  <2>4. w.table = u /\ w.memory = s.memory
        BY DEF State
  <2>5. e.Address \in Addresses
        BY <1>0, <1>2 DEF ShapeOK
  <2>6. Sane(s) /\ "SUSPENDED" \notin e.Flags
        OBVIOUS
  <2> DEFINE f == IF "NEEDS_WRITE" \in e.Flags THEN g \ {"NEEDS_WRITE"}
                  ELSE IF e.Content # Int3 /\ e.Address \notin mapped
                  THEN g \cup {"NEEDS_REPLACE"} ELSE g
             m == IF "NEEDS_WRITE" \notin e.Flags /\ e.Content # Int3 /\ e.Address \in mapped
                  THEN RestoredMemory(s, i) ELSE s.memory
             v == [s.table EXCEPT ![i].Flags = f]
  <2>7. r = State(v, m)
    <3>1. [u EXCEPT ![i].Flags = @ \ {"NEEDS_WRITE"}] = [s.table EXCEPT ![i].Flags = g \ {"NEEDS_WRITE"}]
          BY <2>2
    <3>2. [u EXCEPT ![i].Flags = @ \cup {"NEEDS_REPLACE"}]
             = [s.table EXCEPT ![i].Flags = g \cup {"NEEDS_REPLACE"}]
          BY <2>2
    <3>3. "NEEDS_WRITE" \in g <=> "NEEDS_WRITE" \in e.Flags
          OBVIOUS
    <3>4. CASE "NEEDS_WRITE" \in e.Flags
          BY <2>2, <2>3, <2>4, <3>1, <3>3, <3>4 DEF BdpLowWriteContent
    <3>5. CASE "NEEDS_WRITE" \notin e.Flags /\ e.Content = Int3
          BY <2>2, <2>3, <2>4, <3>3, <3>5 DEF BdpLowWriteContent
    <3>6. CASE "NEEDS_WRITE" \notin e.Flags /\ e.Content # Int3 /\ e.Address \in mapped
          BY <2>2, <2>3, <2>4, <3>3, <3>6 DEF BdpLowWriteContent, RestoredMemory
    <3>7. CASE "NEEDS_WRITE" \notin e.Flags /\ e.Content # Int3 /\ e.Address \notin mapped
          BY <2>2, <2>3, <2>4, <3>2, <3>3, <3>7 DEF BdpLowWriteContent
    <3> QED BY <3>4, <3>5, <3>6, <3>7
  <2>8. r.table = v /\ r.memory = m
        BY <2>7, SMTT(20) DEF State
  <2>9. f \in SUBSET Flags
        BY <2>1 DEF Flags
  <2>10. /\ v[i].Flags = f /\ v[i].Address = e.Address /\ v[i].Content = e.Content
         /\ v[i] = [e EXCEPT !.Flags = f]
         /\ \A j \in Index : j # i => v[j] = s.table[j]
         BY <2>9, SMTT(20) DEF Sane, Entry
  <2>11. "NEEDS_WRITE" \notin e.Flags => Live(e)
         BY <1>2, <2>6 DEF Live, InUse, Inserted
  <2>12. "NEEDS_WRITE" \in e.Flags => "NEEDS_REPLACE" \notin e.Flags
         BY <1>0, <1>2 DEF ShapeOK
  <2>13. /\ "SUSPENDED" \in f /\ "IN_USE" \in f /\ "NEEDS_WRITE" \notin f
         /\ "NEEDS_REPLACE" \in f => "NEEDS_WRITE" \notin e.Flags
         /\ "NEEDS_WRITE" \notin e.Flags /\ e.Content # Int3 /\ e.Address \notin mapped
               => "NEEDS_REPLACE" \in f
         BY <1>2, <2>12
  <2> DEFINE t == State(s.table, m)
  <2>14. /\ Sane(t)
         /\ "NEEDS_WRITE" \notin e.Flags /\ e.Content # Int3 /\ e.Address \in mapped
               => m[e.Address] = code[e.Address]
         /\ \A a \in Addresses : s.memory[a] = code[a] => m[a] = code[a]
    <3>1. CASE "NEEDS_WRITE" \notin e.Flags /\ e.Content # Int3 /\ e.Address \in mapped
          BY <2>11, <3>1, RestoreByte, SMTT(20)
    <3>2. CASE ~ ("NEEDS_WRITE" \notin e.Flags /\ e.Content # Int3 /\ e.Address \in mapped)
          BY <3>2 DEF State, Sane
    <3> QED BY <3>1, <3>2
  <2>15. t.table = s.table /\ t.memory = m
         BY DEF State
  <2> HIDE DEF u, w, g, f, m, t
  <2>16. ShapeOK(v[i])
         BY <1>0, <1>2, <2>5, <2>10, <2>11, <2>13 DEF ShapeOK, Live, InUse, Inserted
  <2>17. \/ Holds(v[i])
         \/ ~ Holds(e)
         \/ e.Content = Int3
         \/ m[e.Address] = code[e.Address]
         BY <1>2, <2>10, <2>13, <2>14 DEF Holds, InUse, Inserted
  <2>18. Sane(r)
    <3>1. Sane(State([t.table EXCEPT ![i].Flags = f], t.memory))
      <4>1. ShapeOK([t.table[i] EXCEPT !.Flags = f])
            BY <2>10, <2>15, <2>16
      <4>2. \/ Holds([t.table[i] EXCEPT !.Flags = f])
            \/ ~ Holds(t.table[i])
            \/ t.table[i].Content = Int3
            \/ t.memory[t.table[i].Address] = code[t.table[i].Address]
            BY <2>10, <2>15, <2>17
      <4> QED BY <2>9, <2>14, <4>1, <4>2, SetFlags
    <3> QED BY <2>7, <2>15, <3>1
  <2>19. Settled(r, i)
    <3>1. CASE e.Content = Int3
      <4>1. m[e.Address] # code[e.Address] => m[e.Address] = Int3
            BY <2>5, <2>14, <2>15 DEF Sane
      <4> QED BY <2>8, <2>10, <3>1, <4>1, SMTT(20) DEF Settled, Holds
    <3>2. CASE e.Content # Int3
          BY <2>8, <2>10, <2>13, <2>14, <3>2 DEF Settled, Holds, Inserted
    <3> QED BY <3>1, <3>2
  <2>20. \A j \in Index : Settled(s, j) => Settled(r, j)
    <3>1. \A j \in Index : j # i => r.table[j] = s.table[j]
          BY <2>8, <2>10
    <3>2. \A a \in Addresses : s.memory[a] = code[a] => r.memory[a] = code[a]
          BY <2>8, <2>14
    <3> QED BY <2>19, <3>1, <3>2, StaysSettled
  <2> QED BY <2>8, <2>10, <2>18, <2>19, <2>20
<1> QED BY <1>1, <1>2

\* The number of bytes BdMoveMemory copies is the length of a mapped run.
LEMMA StreamLengthOK ==
    ASSUME Context, NEW ip \in Addresses
    PROVE  /\ StreamLength(ip) \in 0 .. MaxStream
           /\ \A a \in ip .. ip + StreamLength(ip) - 1 : a \in mapped
<1> DEFINE T == {n \in Nat : n = MaxStream \/ ip + n \notin mapped}
           R == {p \in Nat \X Nat : p[1] < p[2]}
<1>1. T \subseteq Nat /\ T # {}
      OBVIOUS
<1>2. PICK n \in T : \A k \in T : ~ (<<k, n>> \in R)
  <2> HIDE DEF R, T
  <2>1. IsWellFoundedOn(R, Nat)
        BY NatLessThanWellFounded DEF R, OpToRel
  <2> QED BY <1>1, <2>1, WFMin
<1>3. \A k \in T : n <= k
  <2> SUFFICES ASSUME NEW k \in T PROVE n <= k
      OBVIOUS
  <2>1. k \in Nat /\ n \in Nat /\ ~ (<<k, n>> \in R)
        BY <1>1, <1>2
  <2> QED BY <2>1, SMTT(20)
<1>4. n \in 0 .. MaxStream /\ (n = MaxStream \/ ip + n \notin mapped)
      BY <1>3, SMTT(20)
<1>5. ASSUME NEW a \in ip .. ip + n - 1
      PROVE  a \in mapped
  <2>1. ip \in Nat /\ a - ip \in Nat /\ a - ip < n /\ ip + (a - ip) = a
        BY <1>4, <1>5, SMTT(20)
  <2>2. a - ip \notin T
        BY <1>3, <1>4, <2>1, SMTT(20)
  <2> QED BY <2>1, <2>2
<1> QED BY <1>4, <1>5 DEF StreamLength

NotSuspended(s) == \A i \in Index : "SUSPENDED" \notin s.table[i].Flags

\* Deleting a breakpoint does not suspend one.
LEMMA DeleteNotSuspended ==
    ASSUME NEW s, Sane(s), NotSuspended(s), NEW h
    PROVE  NotSuspended(BdpDeleteBreakpoint(s, h))
<1>1. CASE h \notin Index \/ ~ InUse(s.table[h])
      BY <1>1 DEF BdpDeleteBreakpoint
<1>2. CASE h \in Index /\ InUse(s.table[h])
  <2>1. s.table \in [Index -> Entry]
        BY DEF Sane
  <2>2. \A i \in Index : "SUSPENDED" \notin BdpLowWriteContent(s, h).table[i].Flags
        BY <1>2, <2>1 DEF BdpLowWriteContent, State, NotSuspended, Entry
  <2>3. BdpLowWriteContent(s, h).table \in [Index -> Entry]
        BY <1>2, <2>1, SMTT(20) DEF BdpLowWriteContent, State, Entry, Flags
  <2> DEFINE t == IF Inserted(s.table[h]) THEN BdpLowWriteContent(s, h) ELSE s
  <2>4. t.table \in [Index -> Entry] /\ NotSuspended(t)
        BY <2>1, <2>2, <2>3 DEF NotSuspended
  <2>5. \/ BdpDeleteBreakpoint(s, h) = t
        \/ BdpDeleteBreakpoint(s, h) = State([t.table EXCEPT ![h].Flags = {}], t.memory)
        BY <1>2 DEF BdpDeleteBreakpoint
  <2> HIDE DEF t
  <2> QED BY <2>4, <2>5, SMTT(20) DEF NotSuspended, State, Entry
<1> QED BY <1>1, <1>2

\* Adding a breakpoint does not suspend one.
LEMMA AddNotSuspended ==
    ASSUME NEW s, Sane(s), NotSuspended(s), NEW a
    PROVE  NotSuspended(BdpAddBreakpoint(s, a))
<1> DEFINE i == CHOOSE j \in FreeSlots(s) : \A k \in FreeSlots(s) : j <= k
           t == [s.table EXCEPT ![i] = [Address |-> a, Content |-> s.memory[a],
                                        Flags |-> {"IN_USE"}]]
           u == [s.table EXCEPT ![i].Address = a, ![i].Flags = {"IN_USE", "NEEDS_WRITE"}]
<1>1. \/ BdpAddBreakpoint(s, a) = s
      \/ BdpAddBreakpoint(s, a) = State(t, [s.memory EXCEPT ![a] = Int3])
      \/ BdpAddBreakpoint(s, a) = State(u, s.memory)
      BY DEF BdpAddBreakpoint
<1> HIDE DEF i
<1>2. \A j \in Index : "SUSPENDED" \notin t[j].Flags /\ "SUSPENDED" \notin u[j].Flags
      BY SMTT(20) DEF Sane, NotSuspended, Entry
<1> HIDE DEF t, u
<1>3. \A m : State(t, m).table = t /\ State(u, m).table = u
      BY DEF State
<1> QED BY <1>1, <1>2, <1>3 DEF NotSuspended

\* BdFinalize has settled the entries it has passed; the others are not suspended.
Finalizing ==
    /\ ~ BdSubsystemInitialized => suspending = TableSize + 1
    /\ \A i \in Index :
          IF i < suspending THEN Settled(Now, i)
          ELSE "SUSPENDED" \notin BdBreakpointTable[i].Flags

BreakpointInv == BreakpointTypes /\ Sane(Now) /\ Finalizing

\* A request, which runs before BdFinalize and leaves a sane table without
\* suspended entries, preserves the inductive invariant.
LEMMA RequestInductive ==
    ASSUME BreakpointInv, NEW r, Sane(r), NotSuspended(r), Becomes(r), suspending = 0,
           UNCHANGED <<code, mapped, suspending, BdSubsystemInitialized>>,
           DOMAIN stream' \subseteq Addresses
    PROVE  BreakpointInv'
<1>1. BdBreakpointTable' = r.table /\ memory' = r.memory
      BY DEF Becomes
<1>2. Now'.table = r.table /\ Now'.memory = r.memory
      BY <1>1 DEF Now, State
<1>3. Sane(Now)'
      BY <1>2, SMTT(20) DEF Sane, ShapeOK, Live, Holds
<1>4. BreakpointTypes'
      BY <1>1 DEF BreakpointInv, BreakpointTypes, Sane, ShapeOK, InUse
<1>5. Finalizing'
      BY <1>1, SMTT(20) DEF BreakpointInv, Finalizing, NotSuspended, Index
<1> QED BY <1>3, <1>4, <1>5 DEF BreakpointInv

\* BreakpointInv is preserved by every step.
LEMMA BreakpointInductive == BreakpointInv /\ [BreakpointNext]_breakpointVars => BreakpointInv'
<1> SUFFICES ASSUME BreakpointInv, [BreakpointNext]_breakpointVars PROVE BreakpointInv'
    OBVIOUS
<1>0. Context /\ Sane(Now) /\ Now.table = BdBreakpointTable /\ Now.memory = memory
      BY DEF BreakpointInv, BreakpointTypes, Context, Now, State
<1>s. suspending = 0 => NotSuspended(Now)
      BY <1>0, SMTT(20) DEF BreakpointInv, Finalizing, NotSuspended, Index
<1>n. DOMAIN NoStream \subseteq Addresses
      BY DEF NoStream
<1>1. ASSUME NEW a \in Addresses, BdpWriteBreakpoint(a) PROVE BreakpointInv'
  <2> DEFINE r == BdpAddBreakpoint(Now, a)
  <2>1. Sane(r) /\ NotSuspended(r)
        BY <1>0, <1>1, <1>s, AddSane, AddNotSuspended DEF BdpWriteBreakpoint, Request
  <2> HIDE DEF r
  <2> QED BY <1>1, <1>n, <2>1, RequestInductive DEF BdpWriteBreakpoint, Request, r
<1>2. ASSUME NEW i \in Handles, BdpRestoreBreakpoint(i) PROVE BreakpointInv'
  <2> DEFINE r == BdpDeleteBreakpoint(Now, i)
  <2>1. Sane(r) /\ NotSuspended(r)
        BY <1>0, <1>2, <1>s, DeleteSane, DeleteNotSuspended DEF BdpRestoreBreakpoint, Request
  <2> HIDE DEF r
  <2> QED BY <1>2, <1>n, <2>1, RequestInductive DEF BdpRestoreBreakpoint, Request, r
<1>3. ASSUME NEW i \in Handles, NEW j \in Handles, NEW a \in Addresses \cup {0},
             NEW b \in Addresses \cup {0}, BdpWriteBreakPointEx(i, j, a, b)
      PROVE  BreakpointInv'
  <2> DEFINE d1 == BdpDeleteBreakpoint(Now, i)
             d2 == BdpDeleteBreakpoint(d1, j)
             a1 == AddIfGiven(d2, a)
             a2 == AddIfGiven(a1, b)
  <2>0. suspending = 0 /\ Becomes(a2) /\ stream' = NoStream
        BY <1>3 DEF BdpWriteBreakPointEx, Request
  <2> HIDE DEF d1, d2, a1, a2
  <2>1. Sane(d1) /\ NotSuspended(d1)
        BY <1>0, <2>0, <1>s, DeleteSane, DeleteNotSuspended DEF d1
  <2>2. Sane(d2) /\ NotSuspended(d2)
        BY <1>0, <2>1, DeleteSane, DeleteNotSuspended DEF d2
  <2>3. Sane(a1) /\ NotSuspended(a1)
        BY <1>0, <2>2, AddSane, AddNotSuspended DEF a1, AddIfGiven
  <2>4. Sane(a2) /\ NotSuspended(a2)
        BY <1>0, <2>3, AddSane, AddNotSuspended DEF a2, AddIfGiven
  <2> QED BY <1>3, <1>n, <2>0, <2>4, RequestInductive DEF BdpWriteBreakPointEx
<1>4. ASSUME NEW i \in Handles, NEW j \in Handles, BdpRestoreBreakPointEx(i, j)
      PROVE  BreakpointInv'
  <2> DEFINE d1 == BdpDeleteBreakpoint(Now, i)
             d2 == BdpDeleteBreakpoint(d1, j)
  <2>0. suspending = 0 /\ Becomes(d2) /\ stream' = NoStream
        BY <1>4 DEF BdpRestoreBreakPointEx, Request
  <2> HIDE DEF d1, d2
  <2>1. Sane(d1) /\ NotSuspended(d1)
        BY <1>0, <2>0, <1>s, DeleteSane, DeleteNotSuspended DEF d1
  <2>2. Sane(d2) /\ NotSuspended(d2)
        BY <1>0, <2>1, DeleteSane, DeleteNotSuspended DEF d2
  <2> QED BY <1>4, <1>n, <2>0, <2>2, RequestInductive DEF BdpRestoreBreakPointEx
<1>5. ASSUME NEW ip \in Addresses, BdSetCommonState(ip) PROVE BreakpointInv'
  <2> DEFINE upper == ip + StreamLength(ip) - 1
             r == BdDeleteBreakpointRange(Now, ip, upper)
  <2>0. suspending = 0 /\ Becomes(r) /\ DOMAIN stream' = ip .. upper
        BY <1>5 DEF BdSetCommonState
  <2>1. ip .. upper \subseteq Addresses
        BY <1>0, StreamLengthOK DEF Context
  <2> HIDE DEF upper
  <2>2. r = Now \/ \E h : r = BdpDeleteBreakpoint(Now, h)
        BY DEF BdDeleteBreakpointRange
  <2> HIDE DEF r
  <2>3. Sane(r) /\ NotSuspended(r)
        BY <1>0, <1>s, <2>0, <2>2, DeleteSane, DeleteNotSuspended
  <2> QED BY <1>5, <2>0, <2>1, <2>3, RequestInductive DEF BdSetCommonState
<1>6. ASSUME NEW a \in Addresses, Remap(a) PROVE BreakpointInv'
  <2>1. Sane(Now)'
        BY <1>0, <1>6, SMTT(20) DEF Remap, Now, State, Sane, ShapeOK, Live, Holds
  <2> QED
    BY <1>6, <1>n, <2>1, SMTT(20) DEF Remap, Request, BreakpointInv, BreakpointTypes, Finalizing, Index
<1>7. CASE BdFinalize
  <2>1. Sane(Now)'
        BY <1>0, <1>7, SMTT(20) DEF BdFinalize, Now, State, Sane, ShapeOK, Live, Holds
  <2>2. BreakpointTypes'
        BY <1>7, <1>n, SMTT(20) DEF BdFinalize, Request, BreakpointInv, BreakpointTypes
  <2> QED
    BY <1>7, <2>1, <2>2, SMTT(20) DEF BdFinalize, Request, BreakpointInv, Finalizing, Index
<1>8. CASE BdpSuspendAllBreakpoints
  <2>1. CASE suspending \in Index
    <3> DEFINE r == BdpSuspendBreakpoint(Now, suspending)
    <3>1. "SUSPENDED" \notin Now.table[suspending].Flags
          BY <1>0, <2>1, SMTT(20) DEF BreakpointInv, Finalizing, Index
    <3>2. /\ Sane(r)
          /\ \A j \in Index : j = suspending \/ Settled(Now, j) => Settled(r, j)
          /\ \A j \in Index : j # suspending => r.table[j] = Now.table[j]
          BY <1>0, <2>1, <3>1, SuspendSane
    <3> HIDE DEF r
    <3>3. /\ BdBreakpointTable' = r.table /\ memory' = r.memory
          /\ suspending' = suspending + 1
          /\ UNCHANGED <<code, mapped, stream, BdSubsystemInitialized>>
          BY <1>8, <2>1 DEF BdpSuspendAllBreakpoints, Becomes, r
    <3>4. Now'.table = r.table /\ Now'.memory = r.memory
          BY <3>3 DEF Now, State
    <3>5. Sane(Now)'
          BY <3>2, <3>3, <3>4, SMTT(20) DEF Sane, ShapeOK, Live, Holds
    <3>6. BreakpointTypes'
          BY <2>1, <3>2, <3>3, SMTT(20)
             DEF BreakpointInv, BreakpointTypes, Sane, ShapeOK, InUse, Index
    <3>7. BdSubsystemInitialized
          BY <1>8 DEF BdpSuspendAllBreakpoints
    <3>8. ASSUME NEW j \in Index
          PROVE  IF j < suspending' THEN Settled(Now, j)'
                 ELSE "SUSPENDED" \notin BdBreakpointTable'[j].Flags
      <4>1. CASE j < suspending'
        <5>1. j = suspending \/ Settled(Now, j)
              BY <2>1, <3>3, <4>1, SMTT(20) DEF BreakpointInv, Finalizing, Index
        <5>2. Settled(r, j)
              BY <3>2, <5>1
        <5> QED BY <3>3, <3>4, <4>1, <5>2 DEF Settled, Holds
      <4>2. CASE ~ (j < suspending')
            BY <1>0, <2>1, <3>2, <3>3, <4>2, SMTT(20) DEF BreakpointInv, Finalizing, Index
      <4> QED BY <4>1, <4>2
    <3> QED BY <3>3, <3>5, <3>6, <3>7, <3>8 DEF BreakpointInv, Finalizing
  <2>2. CASE suspending \notin Index
    <3>1. /\ UNCHANGED <<code, memory, mapped, BdBreakpointTable, stream, suspending>>
          /\ BdSubsystemInitialized' = FALSE
          /\ suspending > 0
          BY <1>8, <2>2 DEF BdpSuspendAllBreakpoints
    <3>2. suspending = TableSize + 1
          BY <2>2, <3>1, SMTT(20) DEF BreakpointInv, BreakpointTypes, Index
    <3>3. Sane(Now)' /\ \A j \in Index : Settled(Now, j)' <=> Settled(Now, j)
          BY <1>0, <3>1, SMTT(20) DEF Now, State, Sane, ShapeOK, Live, Holds, Settled
    <3>4. BreakpointTypes'
          BY <3>1 DEF BreakpointInv, BreakpointTypes
    <3> QED BY <3>1, <3>2, <3>3, <3>4 DEF BreakpointInv, Finalizing
  <2> QED BY <2>1, <2>2
<1>9. CASE UNCHANGED breakpointVars
  <2>1. UNCHANGED <<code, memory, mapped, BdBreakpointTable, stream, suspending,
                    BdSubsystemInitialized>>
        BY <1>9 DEF breakpointVars
  <2>2. Sane(Now)' /\ \A j \in Index : Settled(Now, j)' <=> Settled(Now, j)
        BY <1>0, <2>1, SMTT(20) DEF Now, State, Sane, ShapeOK, Live, Holds, Settled
  <2> QED BY <2>1, <2>2 DEF BreakpointInv, Finalizing, BreakpointTypes
<1> QED BY <1>1, <1>2, <1>3, <1>4, <1>5, <1>6, <1>7, <1>8, <1>9 DEF BreakpointNext

\* The initial state, with the table cleared by BdInitialize.
LEMMA InitIInv == BreakpointInit => BreakpointInv
<1> SUFFICES ASSUME BreakpointInit PROVE BreakpointInv
    OBVIOUS
<1>1. BreakpointTypes
      BY SMTT(20) DEF BreakpointInit, BreakpointTypes, NoStream, Entry, InUse
<1>2. Sane(Now)
      BY DEF BreakpointInit, Sane, Now, State, Entry, ShapeOK
<1>3. Finalizing
      BY SMTT(20) DEF BreakpointInit, Finalizing, Index
<1> QED BY <1>1, <1>2, <1>3 DEF BreakpointInv

\* BreakpointInv holds in every reachable state.
LEMMA IInvHolds == BreakpointSpec => []BreakpointInv
<1> QED BY InitIInv, BreakpointInductive, PTL DEF BreakpointSpec

\* The table and the code keep their types, whatever the host requests.
THEOREM BreakpointTypeOK == BreakpointSpec => []BreakpointTypes
<1>1. BreakpointInv => BreakpointTypes
      BY DEF BreakpointInv
<1> QED BY <1>1, IInvHolds, PTL

\* No request sequence loses a byte of code: a table of any size remembers every
\* byte that a breakpoint replaces (BdpAddBreakpoint, BdpDeleteBreakpoint).
THEOREM CodeRecoverable == BreakpointSpec => []CodeIsRecoverable
<1>1. BreakpointInv => CodeIsRecoverable
      BY DEF BreakpointInv, Sane, Now, State, CodeIsRecoverable
<1> QED BY <1>1, IInvHolds, PTL

\* BdFinalize leaves no breakpoint behind in the code that can be reached.
THEOREM CodeRestored == BreakpointSpec => []CodeIsRestored
<1>1. BreakpointInv => CodeIsRestored
  <2> SUFFICES ASSUME BreakpointInv, ~ BdSubsystemInitialized, NEW a \in mapped, memory[a] # code[a]
               PROVE  FALSE
      BY DEF CodeIsRestored
  <2>1. a \in Addresses
        BY DEF BreakpointInv, BreakpointTypes
  <2>2. PICK i \in Index : BdBreakpointTable[i].Address = a /\ Holds(BdBreakpointTable[i])
        BY <2>1 DEF BreakpointInv, Sane, Now, State
  <2>3. Settled(Now, i)
        BY SMTT(20) DEF BreakpointInv, Finalizing, Index
  <2> QED BY <2>2, <2>3 DEF Settled, Now, State
<1> QED BY <1>1, IInvHolds, PTL

\* Where the byte can be written back, BdpDeleteBreakpoint frees its entry only.
LEMMA DeleteFrees ==
    ASSUME NEW s, Sane(s), NEW i \in Index, InUse(s.table[i]), s.table[i].Address \in mapped
    PROVE  /\ BdpDeleteBreakpoint(s, i).table[i].Flags = {}
           /\ \A j \in Index : j # i => BdpDeleteBreakpoint(s, i).table[j] = s.table[j]
<1> DEFINE t == IF Inserted(s.table[i]) THEN BdpLowWriteContent(s, i) ELSE s
<1>1. BdpDeleteBreakpoint(s, i) = State([t.table EXCEPT ![i].Flags = {}], t.memory)
      BY DEF BdpDeleteBreakpoint, LowWriteSucceeds
<1>2. /\ t.table \in [Index -> Entry]
      /\ \A j \in Index : j # i => t.table[j] = s.table[j]
      BY SMTT(20) DEF BdpLowWriteContent, State, Sane, Entry, Flags
<1> HIDE DEF t
<1> QED BY <1>1, <1>2, SMTT(20) DEF State, Entry

\* A report contains no breakpoint that the debugger has inserted, when there is
\* at most one in the reported range (BdSetCommonState, BdDeleteBreakpointRange).
THEOREM OneBreakpointHidden == BreakpointSpec => OneBreakpointIsHidden
<1> DEFINE Hidden ==
      \A ip \in Addresses :
          LET found == InRange(ip, ip + StreamLength(ip) - 1)
          IN  BdSetCommonState(ip) /\ (\A i, j \in found : i = j)
              => \A a \in DOMAIN stream' : stream'[a] = code[a]
<1>1. ASSUME BreakpointInv PROVE Hidden
  <2> SUFFICES ASSUME NEW ip \in Addresses, BdSetCommonState(ip),
                      \A i, j \in InRange(ip, ip + StreamLength(ip) - 1) : i = j,
                      NEW a \in DOMAIN stream', stream'[a] # code[a]
               PROVE  FALSE
      OBVIOUS
  <2> DEFINE upper == ip + StreamLength(ip) - 1
             found == InRange(ip, upper)
             r == BdDeleteBreakpointRange(Now, ip, upper)
  <2>1. Context /\ Sane(Now) /\ Now.table = BdBreakpointTable /\ Now.memory = memory
        BY <1>1 DEF BreakpointInv, BreakpointTypes, Context, Now, State
  <2>2. a \in ip .. upper /\ memory' = r.memory /\ stream'[a] = memory'[a]
        BY DEF BdSetCommonState, Becomes
  <2>3. \A b \in ip .. upper : b \in mapped
        BY <2>1, StreamLengthOK
  <2>4. a \in Addresses /\ r.memory[a] # code[a]
        BY <2>1, <2>2, <2>3 DEF Context
  <2> HIDE DEF upper
  <2>5. \A k \in Index : /\ Holds(BdBreakpointTable[k])
                          /\ BdBreakpointTable[k].Address = a
                          => k \in found
        BY <2>1, <2>2 DEF Holds, InRange, Sane, ShapeOK, InUse
  <2>6. CASE found = {}
    <3>1. r = Now
          BY <2>6 DEF BdDeleteBreakpointRange
    <3> QED BY <2>1, <2>4, <2>5, <2>6, <3>1 DEF Sane
  <2>7. CASE found # {}
    <3> DEFINE i == CHOOSE k \in found : \A j \in found : k <= j
    <3>1. r = BdpDeleteBreakpoint(Now, i)
          BY <2>7 DEF BdDeleteBreakpointRange
    <3>2. i \in found
      <4>1. found \in SUBSET Index
            BY DEF InRange
      <4> HIDE DEF found
      <4>2. \E k \in found : \A j \in found : k <= j
            BY <2>7, <4>1, SmallestExists
      <4> QED BY <4>2
    <3> HIDE DEF i
    <3>3. /\ i \in Index
          /\ InUse(BdBreakpointTable[i])
          /\ BdBreakpointTable[i].Address \in mapped
          BY <2>3, <3>2 DEF InRange, InUse
    <3>4. Sane(r)
          BY <2>1, <3>1, DeleteSane
    <3>5. r.table[i].Flags = {} /\ \A j \in Index : j # i => r.table[j] = BdBreakpointTable[j]
          BY <2>1, <3>1, <3>3, DeleteFrees, SMTT(20)
    <3> HIDE DEF r
    <3>6. PICK k \in Index : r.table[k].Address = a /\ Holds(r.table[k])
          BY <2>4, <3>4 DEF Sane
    <3>7. k # i
          BY <3>5, <3>6 DEF Holds, InUse
    <3>8. k \in found
          BY <2>5, <3>5, <3>6, <3>7
    <3> QED BY <3>2, <3>7, <3>8 DEF upper
  <2> QED BY <2>6, <2>7
<1> QED BY <1>1, IInvHolds, PTL DEF OneBreakpointIsHidden
=============================================================================
