-------------------------- MODULE EchoServer_proofs --------------------------
(***************************************************************************)
(* Theorems about EchoServer, for every set of clients, number of slots and  *)
(* amount of data.                                                           *)
(***************************************************************************)
EXTENDS EchoServer, FiniteSetTheorems, SequenceTheorems, WellFoundedInduction, TLAPS

NetState == {"none", "open", "fin", "rst", "timeout", "eof", "closed"}

TypeOK == /\ variant \in {"select", "poll"}
          /\ slots \in 1..MaxSlots
          /\ net \in [Clients -> NetState]
          /\ backlog \in Seq(Clients)
          /\ sent \in [Clients -> Nat]
          /\ unread \in [Clients -> Nat]
          /\ echoed \in [Clients -> Nat]
          /\ client \in [Slot -> Clients \cup {Free}]
          /\ maxi \in 0..slots
          /\ revents \in [Slot -> BOOLEAN]
          /\ listening \in BOOLEAN
          /\ nready \in Int
          /\ i \in Nat \ {0}
          /\ n \in Nat
          /\ told \in SUBSET Slot
          /\ pc \in {"wait", "accept", "scan", "read", "write", "dead"}

Queued(c) == \E k \in DOMAIN backlog : backlog[k] = c
Connected(c) == net[c] \notin {"none", "closed"}

\* A connection waits in the backlog once, and has no slot meanwhile.
BacklogInv == /\ \A k \in DOMAIN backlog : Connected(backlog[k])
              /\ \A k, m \in DOMAIN backlog : backlog[k] = backlog[m] => k = m

\* Every connection that is not in the backlog has one slot, within maxi.
SlotInv == /\ \A s, k \in Slot : client[s] # Free /\ client[s] = client[k] => s = k
           /\ \A s \in Slot : client[s] # Free => s <= maxi
           /\ \A s \in Slot : client[s] # Free => Connected(client[s]) /\ ~Queued(client[s])
           /\ \A c \in Clients : Connected(c) => Queued(c) \/ \E s \in Slot : client[s] = c

\* The reported slots the scan has not dealt with.
Pending == {s \in told : s >= i}

Serving == pc \in {"accept", "scan", "read", "write"}

\* A reported slot keeps its connection, and its data, until the scan reaches it.  Any
\* other ready bit is that of a slot behind all the reported ones, whose revents is as
\* old as the stack.
ToldInv ==
  Serving =>
    /\ \A s \in Pending : client[s] # Free /\ revents[s]
    /\ \A s \in Pending : Readable(client[s]) \/ (pc = "write" /\ s = i)
    /\ \A s \in Slot : revents[s] => s \in told \/ \A k \in told : k < s

\* What nready counts at each point of the loop.
AcceptInv ==
  pc = "accept" =>
    /\ i = 1
    /\ nready = Cardinality(Pending) + (IF listening THEN 1 ELSE 0)
    /\ nready > 0
    /\ listening => backlog # <<>>
    /\ \A s \in Slot : revents[s] => s \in told \/ s > maxi

\* The slot that is read is a reported one.
ReadInv == pc \in {"read", "write"} => i \in Pending

IInv == /\ TypeOK
        /\ BacklogInv
        /\ SlotInv
        /\ ToldInv
        /\ AcceptInv
        /\ CountExact
        /\ ReadInv
        /\ EchoExact

-----------------------------------------------------------------------------
(* Slots *)

\* A set of slots is finite, and has a least element, which Min finds.
LEMMA SlotSet ==
  ASSUME slots \in Nat, NEW S \in SUBSET Slot
  PROVE  IsFiniteSet(S) /\ Cardinality(S) \in Nat /\ (S = {} <=> Cardinality(S) = 0)
  <1>1. IsFiniteSet(Slot)
    BY FS_Interval DEF Slot
  <1> QED
    BY <1>1, FS_Subset, FS_CardinalityType, FS_EmptySet

LEMMA LeastSlot ==
  ASSUME slots \in Nat, NEW S \in SUBSET Slot, S # {}
  PROVE  Min(S) \in S
  <1> DEFINE Less == {p \in Nat \X Nat : p[1] < p[2]}
  <1>1. IsWellFoundedOn(Less, Nat)
    BY NatLessThanWellFounded DEF OpToRel
  <1> HIDE DEF Less
  <1>2. PICK s \in S : \A k \in S : ~(<<k, s>> \in Less)
    <2>1. S \subseteq Nat
      BY DEF Slot
    <2> QED
      BY <1>1, <2>1, WFMin
  <1>3. \A k \in S : s <= k
    <2> SUFFICES ASSUME NEW k \in S, k < s PROVE FALSE
      BY DEF Slot
    <2>1. <<k, s>> \in Less
      BY DEF Less, Slot
    <2> QED
      BY <1>2, <2>1
  <1> QED
    BY <1>3 DEF Min

\* The slot a new connection gets is free.
LEMMA FreeSlot ==
  ASSUME slots \in Nat, \E s \in Slot : client[s] = Free
  PROVE  LET s == Min({k \in Slot : client[k] = Free}) IN s \in Slot /\ client[s] = Free
  <1> DEFINE S == {k \in Slot : client[k] = Free}
  <1>1. Min(S) \in S
    <2>1. S \in SUBSET Slot /\ S # {}
      OBVIOUS
    <2> HIDE DEF S
    <2> QED
      BY <2>1, LeastSlot
  <1> QED
    BY <1>1

-----------------------------------------------------------------------------
(* The parts of the invariant *)

LEMMA InitIInv == Init => IInv
  <1> SUFFICES ASSUME Init PROVE IInv
    OBVIOUS
  <1>1. revents \in [Slot -> BOOLEAN]
    BY DEF Init
  <1>2. TypeOK
    <2>1. slots \in Nat /\ maxi \in 0..slots /\ backlog \in Seq(Clients)
      BY SlotsAssumption DEF Init, SlotsAssumption
    <2>2. /\ net \in [Clients -> NetState]
          /\ client \in [Slot -> Clients \cup {Free}]
          /\ sent \in [Clients -> Nat] /\ unread \in [Clients -> Nat] /\ echoed \in [Clients -> Nat]
      BY DEF Init, NetState
    <2>3. /\ variant \in {"select", "poll"} /\ slots \in 1..MaxSlots
          /\ listening \in BOOLEAN /\ nready = 0 /\ i = 1 /\ n = 0 /\ told = {} /\ pc = "wait"
      BY DEF Init
    <2> QED
      BY <1>1, <2>1, <2>2, <2>3 DEF TypeOK
  <1>3. BacklogInv /\ SlotInv
    BY DEF Init, BacklogInv, SlotInv, Connected
  <1>4. EchoExact
    BY DEF Init, EchoExact, InHand
  <1> QED
    BY <1>2, <1>3, <1>4 DEF Init, IInv, ToldInv, Serving, AcceptInv, CountExact, ReadInv

LEMMA TypeStep == IInv /\ [Next]_vars => TypeOK'
  <1> SUFFICES ASSUME IInv, [Next]_vars PROVE TypeOK'
    OBVIOUS
  <1> USE DEF IInv, TypeOK, Goto, conn, NetState
  <1>0. UNCHANGED <<variant, slots>> /\ Slot' = Slot
    BY DEF Next, vars, Slot
  <1> USE <1>0
  <1>1. ASSUME NEW c \in Clients, Connect(c) PROVE TypeOK'
    BY <1>1 DEF Connect
  <1>2. ASSUME NEW c \in Clients, Send(c) PROVE TypeOK'
    BY <1>2 DEF Send, server
  <1>3. ASSUME NEW c \in Clients, Leave(c) PROVE TypeOK'
    BY <1>3 DEF Leave, server
  <1>4. CASE Wait
    <2>1. Cardinality(ReadySlots) \in Nat
      BY SlotSet DEF ReadySlots, Watched
    <2>2. listening' \in BOOLEAN
      BY <1>4 DEF Wait
    <2>3. revents' \in [Slot -> BOOLEAN]
      <3> SUFFICES ASSUME NEW s \in Slot
                   PROVE  (IF s <= maxi \/ variant = "select" THEN s \in ReadySlots ELSE revents[s]) \in BOOLEAN
        BY <1>4, Zenon DEF Wait
      <3>1. revents[s] \in BOOLEAN
        OBVIOUS
      <3>2. (s \in ReadySlots) \in BOOLEAN
        OBVIOUS
      <3> QED
        BY <3>1, <3>2, Zenon
    <2> QED
      BY <1>4, <2>1, <2>2, <2>3 DEF Wait, ReadySlots, Watched
  <1>5. CASE Accept
    <2>1. backlog # <<>>
      BY <1>5 DEF Accept, AcceptInv
    <2>2. Min({k \in Slot : client[k] = Free}) \in Slot
      BY <1>5, FreeSlot DEF Accept
    <2> QED
      BY <1>5, <2>1, <2>2 DEF Accept, NewMaxi, Uncount, Slot
  <1>6. CASE AcceptFails
    <2>1. Min({k \in Slot : client[k] = Free}) \in Slot
      BY <1>6, FreeSlot DEF AcceptFails
    <2> QED
      BY <1>6, <2>1 DEF AcceptFails, NewMaxi, Uncount, Slot
  <1>7. CASE NoNewClient \/ TooManyClients \/ ScanEnds \/ Skip \/ Found \/ BrokenPipe
    BY <1>7 DEF NoNewClient, TooManyClients, ScanEnds, Skip, Found, BrokenPipe
  <1>8. CASE ReadData \/ ReadEOF \/ ReadError \/ WriteBack \/ WriteFails
    <2>1. i \in Slot /\ client[i] \in Clients
      BY <1>8 DEF ReadInv, Pending, ToldInv, Serving, ReadData, ReadEOF, ReadError, WriteBack, WriteFails
    <2>2. CASE ReadData
      BY <2>1, <2>2 DEF ReadData
    <2>3. CASE ReadEOF
      BY <2>1, <2>3 DEF ReadEOF, Next1
    <2>4. CASE ReadError
      <3>1. net' \in [Clients -> NetState] /\ client' \in [Slot -> Clients \cup {Free}]
        BY <2>1, <2>4 DEF ReadError
      <3> QED
        BY <2>1, <2>4, <3>1 DEF ReadError, Next1
    <2>5. CASE WriteBack
      BY <2>1, <2>5 DEF WriteBack, Next1
    <2>6. CASE WriteFails
      BY <2>1, <2>6 DEF WriteFails, Next1
    <2> QED
      BY <1>8, <2>2, <2>3, <2>4, <2>5, <2>6
  <1>9. CASE UNCHANGED vars
    BY <1>9 DEF vars
  <1> QED
    BY <1>1, <1>2, <1>3, <1>4, <1>5, <1>6, <1>7, <1>8, <1>9 DEF Next, main

\* The slot being read or written has a connection of its own.
LEMMA CurrentSlot ==
  ASSUME IInv, pc \in {"read", "write"}
  PROVE  /\ i \in Slot /\ i \in Pending
         /\ client[i] \in Clients
         /\ Connected(client[i]) /\ ~Queued(client[i])
         /\ \A s \in Slot : s # i => client[s] # client[i]
  <1>1. i \in Pending /\ i \in Slot /\ client[i] # Free
    BY DEF IInv, ReadInv, ToldInv, Serving, Pending, TypeOK
  <1> QED
    BY <1>1 DEF IInv, TypeOK, SlotInv

\* A step that neither makes nor closes a connection, nor moves it.
LEMMA QuietConn ==
  ASSUME IInv, Slot' = Slot, UNCHANGED <<net, backlog, client>>, maxi' \in Int, maxi <= maxi'
  PROVE  BacklogInv' /\ SlotInv'
  <1>1. \A s \in Slot : s \in Int
    BY DEF Slot
  <1>2. BacklogInv'
    BY DEF IInv, BacklogInv, Connected
  <1>3. SlotInv'
    BY <1>1 DEF IInv, TypeOK, SlotInv, Connected, Queued
  <1> QED
    BY <1>2, <1>3

\* A step that changes the state of connections, but connects or closes none of them.
LEMMA KeptConn ==
  ASSUME IInv, Slot' = Slot, UNCHANGED <<backlog, client, maxi>>,
         \A c \in Clients : Connected(c)' <=> Connected(c)
  PROVE  BacklogInv' /\ SlotInv'
  <1>1. \A k \in DOMAIN backlog : backlog[k] \in Clients
    BY DEF IInv, TypeOK
  <1>2. BacklogInv'
    BY <1>1 DEF IInv, BacklogInv
  <1>3. SlotInv'
    <2>1. \A c \in Clients : Queued(c)' <=> Queued(c)
      BY DEF Queued
    <2> QED
      BY <2>1 DEF IInv, TypeOK, SlotInv
  <1> QED
    BY <1>2, <1>3

\* A step that closes the connection of the current slot.
LEMMA ClosedConn ==
  ASSUME IInv, Slot' = Slot, pc = "read", UNCHANGED <<backlog, maxi>>,
         net' = [net EXCEPT ![client[i]] = "closed"],
         client' = [client EXCEPT ![i] = Free]
  PROVE  BacklogInv' /\ SlotInv'
  <1> USE DEF IInv, TypeOK
  <1>1. /\ i \in Slot /\ client[i] \in Clients /\ ~Queued(client[i])
        /\ \A s \in Slot : s # i => client[s] # client[i]
    BY CurrentSlot
  <1>2. \A c \in Clients : Connected(c)' <=> Connected(c) /\ c # client[i]
    BY <1>1 DEF Connected
  <1>3. \A c \in Clients : Queued(c)' <=> Queued(c)
    BY DEF Queued
  <1>4. \A k \in DOMAIN backlog : backlog[k] \in Clients /\ backlog[k] # client[i]
    BY <1>1 DEF Queued
  <1>5. BacklogInv'
    BY <1>2, <1>4 DEF BacklogInv
  <1>6. SlotInv'
    BY <1>1, <1>2, <1>3, SlotsAssumption DEF SlotInv, SlotsAssumption
  <1> QED
    BY <1>5, <1>6

LEMMA ConnStep == IInv /\ [Next]_vars => BacklogInv' /\ SlotInv'
  <1> SUFFICES ASSUME IInv, [Next]_vars PROVE BacklogInv' /\ SlotInv'
    OBVIOUS
  <1>0. UNCHANGED slots /\ Slot' = Slot
    BY DEF Next, vars, Slot
  <1>1. ASSUME NEW c \in Clients, Connect(c) PROVE BacklogInv' /\ SlotInv'
    <2> USE DEF IInv, TypeOK
    <2>1. ~Connected(c) /\ backlog' = Append(backlog, c) /\ net' = [net EXCEPT ![c] = "open"]
      BY <1>1 DEF Connect, Connected
    <2>2. \A d \in Clients : Connected(d)' <=> Connected(d) \/ d = c
      BY <2>1 DEF Connected
    <2>3. /\ DOMAIN backlog = 1..Len(backlog)
          /\ DOMAIN backlog' = 1..(Len(backlog) + 1)
          /\ \A k \in 1..Len(backlog) : backlog'[k] = backlog[k] /\ backlog[k] \in Clients
          /\ backlog'[Len(backlog) + 1] = c
          /\ Len(backlog) \in Nat
      BY <2>1, AppendProperties, LenProperties
    <2>4. ~Queued(c)
      BY <2>1 DEF Queued, BacklogInv
    <2>5. \A d \in Clients : Queued(d)' <=> Queued(d) \/ d = c
      <3> SUFFICES ASSUME NEW d \in Clients
                   PROVE  (\E k \in DOMAIN backlog' : backlog'[k] = d) <=> Queued(d) \/ d = c
        BY DEF Queued
      <3>1. Queued(d) => \E k \in DOMAIN backlog' : backlog'[k] = d
        BY <2>3 DEF Queued
      <3>2. d = c => \E k \in DOMAIN backlog' : backlog'[k] = d
        <4>1. Len(backlog) + 1 \in DOMAIN backlog'
          BY <2>3
        <4> QED
          BY <2>3, <4>1
      <3>3. ASSUME NEW k \in DOMAIN backlog', backlog'[k] = d PROVE Queued(d) \/ d = c
        <4>1. CASE k \in 1..Len(backlog)
          BY <2>3, <3>3, <4>1 DEF Queued
        <4>2. CASE k = Len(backlog) + 1
          BY <2>3, <3>3, <4>2
        <4> QED
          BY <2>3, <4>1, <4>2
      <3> QED
        BY <3>1, <3>2, <3>3
    <2>6. BacklogInv'
      <3>1. \A k \in DOMAIN backlog' : net'[backlog'[k]] \notin {"none", "closed"}
        <4> SUFFICES ASSUME NEW k \in 1..(Len(backlog) + 1)
                     PROVE  net'[backlog'[k]] \notin {"none", "closed"}
          BY <2>3
        <4>1. CASE k = Len(backlog) + 1
          BY <2>1, <2>3, <4>1
        <4>2. CASE k \in 1..Len(backlog)
          BY <2>2, <2>3, <4>2 DEF BacklogInv, Connected
        <4> QED
          BY <2>3, <4>1, <4>2
      <3>2. \A k, m \in DOMAIN backlog' : backlog'[k] = backlog'[m] => k = m
        <4> SUFFICES ASSUME NEW k \in 1..(Len(backlog) + 1), NEW m \in 1..(Len(backlog) + 1),
                            backlog'[k] = backlog'[m]
                     PROVE  k = m
          BY <2>3
        <4>1. \A x \in 1..Len(backlog) : backlog'[x] # c
          BY <2>3, <2>4 DEF Queued
        <4>2. CASE k \in 1..Len(backlog) /\ m \in 1..Len(backlog)
          BY <2>3, <4>2 DEF BacklogInv
        <4> QED
          BY <2>3, <4>1, <4>2
      <3> QED
        BY <3>1, <3>2 DEF BacklogInv, Connected
    <2>7. UNCHANGED <<client, maxi>>
      BY <1>1 DEF Connect
    <2>8. \A s \in Slot : client[s] # c
      BY <2>1, SlotsAssumption DEF SlotInv, SlotsAssumption
    <2>9. SlotInv'
      BY <1>0, <2>2, <2>5, <2>7, <2>8 DEF SlotInv
    <2> QED
      BY <2>6, <2>9
  <1>2. ASSUME NEW c \in Clients, Send(c) PROVE BacklogInv' /\ SlotInv'
    BY <1>0, <1>2, QuietConn DEF Send, server, IInv, TypeOK
  <1>3. ASSUME NEW c \in Clients, Leave(c) PROVE BacklogInv' /\ SlotInv'
    <2>1. \A d \in Clients : Connected(d)' <=> Connected(d)
      BY <1>3 DEF Leave, Connected, IInv, TypeOK
    <2> QED
      BY <1>0, <1>3, <2>1, KeptConn DEF Leave, server
  <1>4. CASE Accept
    <2> USE DEF IInv, TypeOK
    <2> DEFINE s0 == Min({k \in Slot : client[k] = Free})
               c0 == Head(backlog)
    <2>1. s0 \in Slot /\ client[s0] = Free
      BY <1>4, FreeSlot DEF Accept
    <2>2. backlog # <<>>
      BY <1>4 DEF Accept, AcceptInv
    <2>3. /\ client' = [client EXCEPT ![s0] = c0]
          /\ maxi' = IF s0 > maxi THEN s0 ELSE maxi
          /\ backlog' = Tail(backlog)
          /\ UNCHANGED net
      BY <1>4 DEF Accept, NewMaxi
    <2> HIDE DEF s0
    <2>4. /\ DOMAIN backlog = 1..Len(backlog)
          /\ DOMAIN backlog' = 1..(Len(backlog) - 1)
          /\ \A k \in 1..(Len(backlog) - 1) : backlog'[k] = backlog[k + 1]
          /\ \A k \in 1..Len(backlog) : backlog[k] \in Clients
          /\ Len(backlog) \in Nat /\ Len(backlog) > 0
          /\ c0 = backlog[1]
      BY <2>2, <2>3, HeadTailProperties, LenProperties, EmptySeq
    <2> HIDE DEF c0
    <2>5. c0 \in Clients /\ Connected(c0) /\ Queued(c0)
      BY <2>4 DEF BacklogInv, Queued
    <2>6. \A d \in Clients : Queued(d)' <=> Queued(d) /\ d # c0
      <3> SUFFICES ASSUME NEW d \in Clients PROVE Queued(d)' <=> Queued(d) /\ d # c0
        OBVIOUS
      <3>1. ASSUME Queued(d)' PROVE Queued(d) /\ d # c0
        <4>1. PICK k \in 1..(Len(backlog) - 1) : backlog[k + 1] = d
          BY <2>4, <3>1 DEF Queued
        <4>2. k + 1 \in DOMAIN backlog /\ 1 \in DOMAIN backlog /\ k + 1 # 1
          BY <2>4
        <4> QED
          BY <2>4, <4>1, <4>2 DEF Queued, BacklogInv
      <3>2. ASSUME Queued(d), d # c0 PROVE Queued(d)'
        <4>1. PICK k \in 1..Len(backlog) : backlog[k] = d
          BY <2>4, <3>2 DEF Queued
        <4>2. k # 1 /\ k - 1 \in 1..(Len(backlog) - 1)
          BY <2>4, <3>2, <4>1
        <4>3. backlog'[k - 1] = d
          BY <2>4, <4>1, <4>2
        <4> QED
          BY <2>4, <4>2, <4>3 DEF Queued
      <3> QED
        BY <3>1, <3>2
    <2>7. \A d \in Clients : Connected(d)' <=> Connected(d)
      BY <2>3 DEF Connected
    <2>8. BacklogInv'
      <3>1. \A k \in DOMAIN backlog' : k + 1 \in DOMAIN backlog /\ backlog'[k] = backlog[k + 1]
        <4> SUFFICES ASSUME NEW k \in 1..(Len(backlog) - 1)
                     PROVE  k + 1 \in 1..Len(backlog) /\ backlog'[k] = backlog[k + 1]
          BY <2>4
        <4> QED
          BY <2>4
      <3>2. \A k \in DOMAIN backlog' : net[backlog'[k]] \notin {"none", "closed"}
        BY <3>1 DEF BacklogInv, Connected
      <3>3. ASSUME NEW k \in DOMAIN backlog', NEW m \in DOMAIN backlog', backlog'[k] = backlog'[m]
            PROVE  k = m
        <4>1. k + 1 = m + 1
          BY <3>1, <3>3 DEF BacklogInv
        <4>2. k \in Int /\ m \in Int
          BY <2>4
        <4> QED
          BY <4>1, <4>2
      <3> QED
        BY <2>3, <3>2, <3>3 DEF BacklogInv, Connected
    <2>9. \A s \in Slot : client[s] # c0
      BY <2>5, SlotsAssumption DEF SlotInv, SlotsAssumption
    <2>10. SlotInv'
      <3>1. \A s \in Slot : client'[s] = IF s = s0 THEN c0 ELSE client[s]
        BY <2>1, <2>3
      <3>2. \A s, k \in Slot : client'[s] # Free /\ client'[s] = client'[k] => s = k
        BY <2>9, <3>1 DEF SlotInv
      <3>3. \A s \in Slot : client'[s] # Free => s <= maxi'
        BY <2>1, <2>3, <3>1 DEF SlotInv, Slot
      <3>4. \A s \in Slot : client'[s] # Free => Connected(client'[s]) /\ (Queued(client'[s]) => client'[s] = c0)
        BY <2>5, <3>1 DEF SlotInv
      <3>5. \A s \in Slot : client'[s] # Free => client'[s] \in Clients
        BY <2>5, <3>1
      <3>6. \A c \in Clients : Connected(c) => (Queued(c) /\ c # c0) \/ \E s \in Slot : client'[s] = c
        <4> SUFFICES ASSUME NEW c \in Clients, Connected(c)
                     PROVE  (Queued(c) /\ c # c0) \/ \E s \in Slot : client'[s] = c
          OBVIOUS
        <4>1. CASE c = c0
          BY <2>1, <3>1, <4>1
        <4>2. ASSUME NEW s \in Slot, client[s] = c PROVE client'[s] = c
          BY <2>1, <3>1, <4>2, SlotsAssumption DEF SlotsAssumption
        <4> QED
          BY <4>1, <4>2 DEF SlotInv
      <3>7. (\A s \in Slot : client[s] # Free => Connected(client[s]) /\ ~Queued(client[s]))'
        <4> SUFFICES ASSUME NEW s \in Slot, client'[s] # Free
                     PROVE  /\ net'[client'[s]] \notin {"none", "closed"}
                            /\ ~\E k \in DOMAIN backlog' : backlog'[k] = client'[s]
          BY <1>0 DEF Connected, Queued
        <4>1. ~(Queued(client'[s]) /\ client'[s] # c0)
          BY <3>4
        <4> QED
          BY <2>3, <2>6, <3>4, <3>5, <4>1 DEF Connected, Queued
      <3> QED
        BY <1>0, <2>6, <2>7, <3>2, <3>3, <3>6, <3>7 DEF SlotInv
    <2> QED
      BY <2>8, <2>10
  <1>5. CASE AcceptFails
    <2>1. maxi' \in Int /\ maxi <= maxi'
      <3>1. Min({k \in Slot : client[k] = Free}) \in Slot
        BY <1>5, FreeSlot DEF AcceptFails, IInv, TypeOK
      <3> QED
        BY <1>5, <3>1 DEF AcceptFails, NewMaxi, IInv, TypeOK, Slot
    <2> QED
      BY <1>0, <1>5, <2>1, QuietConn DEF AcceptFails, conn
  <1>6. CASE Wait \/ NoNewClient \/ TooManyClients \/ ScanEnds \/ Skip \/ Found \/ ReadData \/ WriteBack \/ BrokenPipe
    <2>1. UNCHANGED <<net, backlog, client, maxi>>
      BY <1>6 DEF Wait, NoNewClient, TooManyClients, ScanEnds, Skip, Found, ReadData, WriteBack, BrokenPipe, conn
    <2> QED
      BY <1>0, <2>1, QuietConn DEF IInv, TypeOK
  <1>7. CASE ReadEOF
    BY <1>0, <1>7, ClosedConn DEF ReadEOF
  <1>8. CASE ReadError
    <2>1. CASE net' = [net EXCEPT ![client[i]] = "closed"] /\ client' = [client EXCEPT ![i] = Free]
      BY <1>0, <1>8, <2>1, ClosedConn DEF ReadError
    <2>2. CASE net' = [net EXCEPT ![client[i]] = "eof"] /\ UNCHANGED client
      <3>1. \A d \in Clients : Connected(d)' <=> Connected(d)
        BY <1>8, <2>2 DEF ReadError, Connected, IInv, TypeOK
      <3> QED
        BY <1>0, <1>8, <2>2, <3>1, KeptConn DEF ReadError
    <2> QED
      BY <1>8, <2>1, <2>2 DEF ReadError
  <1>9. CASE WriteFails
    <2>1. \A d \in Clients : Connected(d)' <=> Connected(d)
      BY <1>9 DEF WriteFails, Connected, IInv, TypeOK
    <2> QED
      BY <1>0, <1>9, <2>1, KeptConn DEF WriteFails
  <1>10. CASE UNCHANGED vars
    BY <1>0, <1>10, QuietConn DEF vars, conn, IInv, TypeOK
  <1> QED
    BY <1>1, <1>2, <1>3, <1>4, <1>5, <1>6, <1>7, <1>8, <1>9, <1>10 DEF Next, main

-----------------------------------------------------------------------------
(* The scan *)

\* A connection that can be read stays readable, whatever its client does.
LEMMA StaysReadable ==
  ASSUME IInv, NEW c \in Clients, NEW d \in Clients, Connected(d), Readable(d),
         Connect(c) \/ Send(c) \/ Leave(c)
  PROVE  Readable(d)'
  <1> USE DEF IInv, TypeOK, Readable
  <1>1. CASE Connect(c)
    BY <1>1 DEF Connect, Connected
  <1>2. CASE Send(c)
    BY <1>2 DEF Send
  <1>3. CASE Leave(c)
    BY <1>3 DEF Leave
  <1> QED
    BY <1>1, <1>2, <1>3

LEMMA PendingFinite ==
  ASSUME TypeOK
  PROVE  IsFiniteSet(Pending) /\ Cardinality(Pending) \in Nat /\ (Pending = {} <=> Cardinality(Pending) = 0)
  <1>1. Pending \in SUBSET Slot /\ slots \in Nat
    BY DEF Pending, TypeOK
  <1> HIDE DEF Pending
  <1> QED
    BY <1>1, SlotSet

\* The scan leaves the slot it has read: one reported slot less.
LEMMA NextSlot ==
  ASSUME IInv, pc \in {"read", "write"}, i' = i + 1, told' = told
  PROVE  /\ Pending' = Pending \ {i}
         /\ Cardinality(Pending') = Cardinality(Pending) - 1
         /\ Cardinality(Pending) \in Nat
  <1>1. i \in Pending
    BY CurrentSlot
  <1>2. Pending' = Pending \ {i}
    <2>1. i \in Int /\ \A s \in told : s \in Int
      BY DEF IInv, TypeOK, Slot
    <2> QED
      BY <2>1 DEF Pending
  <1> QED
    BY <1>1, <1>2, PendingFinite, FS_RemoveElement DEF IInv

LEMMA ToldStep == IInv /\ [Next]_vars => ToldInv'
  <1> SUFFICES ASSUME IInv, [Next]_vars, Serving' PROVE ToldInv'
    BY DEF ToldInv
  <1>0. UNCHANGED <<variant, slots>> /\ Slot' = Slot
    BY DEF Next, vars, Slot
  <1> USE DEF IInv
  <1>1. ASSUME NEW c \in Clients, Connect(c) \/ Send(c) \/ Leave(c) PROVE ToldInv'
    <2>1. UNCHANGED <<client, revents, i, told, pc>>
      BY <1>1 DEF Connect, Send, Leave, server
    <2>2. Pending' = Pending
      BY <2>1 DEF Pending
    <2>3. \A s \in Pending : client[s] \in Clients /\ Connected(client[s])
      BY <2>1 DEF ToldInv, Serving, SlotInv, TypeOK, Pending
    <2>4. \A s \in Pending : Readable(client[s]) => Readable(client[s])'
      BY <1>1, <2>1, <2>3, StaysReadable
    <2> QED
      BY <1>0, <2>1, <2>2, <2>4 DEF ToldInv, Serving
  <1>2. CASE Wait
    <2>1. told' = ReadySlots /\ Pending' = ReadySlots /\ UNCHANGED <<client, unread, net, maxi>>
      BY <1>2 DEF Wait, Pending, ReadySlots, Watched, Slot, conn
    <2>2. \A s \in ReadySlots : s \in Slot /\ s <= maxi /\ client[s] # Free /\ Readable(client[s])
      BY DEF ReadySlots, Watched
    <2>3. \A s \in Slot : s <= maxi \/ variant = "select" => (revents'[s] <=> s \in ReadySlots)
      BY <1>2 DEF Wait
    <2> QED
      BY <1>0, <2>1, <2>2, <2>3 DEF ToldInv, Readable, Slot, TypeOK
  <1>3. CASE Accept
    <2> DEFINE s0 == Min({k \in Slot : client[k] = Free})
    <2>1. s0 \in Slot /\ client[s0] = Free
      BY <1>3, FreeSlot DEF Accept, TypeOK
    <2>2. /\ client' = [client EXCEPT ![s0] = Head(backlog)]
          /\ UNCHANGED <<net, unread, revents, i, told>>
          /\ pc = "accept" /\ pc' # "write"
      BY <1>3 DEF Accept
    <2> HIDE DEF s0
    <2>3. Pending' = Pending
      BY <2>2 DEF Pending
    <2>4. \A s \in Pending : s \in Slot /\ s # s0
      BY <2>1, <2>2 DEF ToldInv, Serving, Pending, TypeOK
    <2>5. \A s \in Pending : client'[s] = client[s]
      BY <2>2, <2>4 DEF TypeOK
    <2> QED
      BY <1>0, <2>2, <2>3, <2>5 DEF ToldInv, Serving, Readable
  <1>4. CASE NoNewClient \/ AcceptFails \/ Found
    <2>1. /\ UNCHANGED <<net, unread, client, revents, i, told>>
          /\ Serving /\ pc # "write" /\ pc' # "write"
      BY <1>4 DEF NoNewClient, AcceptFails, Found, Goto, conn, Serving
    <2> QED
      BY <1>0, <2>1 DEF ToldInv, Pending, Readable
  <1>5. CASE TooManyClients \/ ScanEnds \/ BrokenPipe
    BY <1>5 DEF TooManyClients, ScanEnds, BrokenPipe, Goto, Serving
  <1>6. CASE Skip
    <2>1. UNCHANGED <<net, unread, client, revents, told, pc>> /\ i' = i + 1 /\ pc = "scan"
      BY <1>6 DEF Skip, conn
    <2>2. Pending' \subseteq Pending
      <3>1. i \in Int /\ \A s \in told : s \in Int
        BY DEF TypeOK, Slot
      <3> QED
        BY <2>1, <3>1 DEF Pending
    <2> QED
      BY <1>0, <2>1, <2>2 DEF ToldInv, Serving, Readable
  <1>7. CASE ReadData
    <2>1. /\ UNCHANGED <<net, client, revents, i, told>>
          /\ pc = "read" /\ pc' = "write"
          /\ unread' = [unread EXCEPT ![client[i]] = @ - n']
      BY <1>7 DEF ReadData, Goto
    <2>2. Pending' = Pending
      BY <2>1 DEF Pending
    <2>3. \A s \in Pending : s \in Slot /\ client[s] \in Clients /\ (s # i => client[s] # client[i])
      BY <2>1, CurrentSlot DEF ToldInv, Serving, TypeOK, Pending
    <2>4. \A s \in Pending : s # i => unread'[client[s]] = unread[client[s]]
      BY <2>1, <2>3 DEF TypeOK
    <2> QED
      BY <1>0, <2>1, <2>2, <2>3, <2>4 DEF ToldInv, Serving, Readable
  <1>8. CASE ReadEOF \/ ReadError \/ WriteBack \/ WriteFails
    <2>1. /\ UNCHANGED <<revents, told>>
          /\ i' = i + 1
          /\ pc \in {"read", "write"} /\ pc' # "write"
      BY <1>8 DEF ReadEOF, ReadError, WriteBack, WriteFails, Next1
    <2>2. Pending' = Pending \ {i}
      BY <2>1, NextSlot
    <2>3. \A s \in Pending' : s \in Slot /\ s # i /\ client[s] \in Clients /\ client[s] # client[i]
      BY <2>1, <2>2, CurrentSlot DEF ToldInv, Serving, TypeOK, Pending
    <2>4. \A s \in Slot : s # i => client'[s] = client[s]
      BY <1>8 DEF ReadEOF, ReadError, WriteBack, WriteFails, TypeOK
    <2>5. \A c \in Clients : c # client[i] => net'[c] = net[c] /\ unread'[c] = unread[c]
      BY <1>8 DEF ReadEOF, ReadError, WriteBack, WriteFails, TypeOK, conn
    <2> QED
      BY <1>0, <2>1, <2>2, <2>3, <2>4, <2>5 DEF ToldInv, Serving, Readable
  <1>9. CASE UNCHANGED vars
    BY <1>9 DEF vars, conn, ToldInv, Serving, Pending, Readable, Slot
  <1> QED
    BY <1>1, <1>2, <1>3, <1>4, <1>5, <1>6, <1>7, <1>8, <1>9 DEF Next, main

\* What a step of a client leaves alone.
LEMMA ClientStep ==
  ASSUME NEW c \in Clients, Connect(c) \/ Send(c) \/ Leave(c), slots' = slots
  PROVE  UNCHANGED <<client, maxi, revents, listening, nready, i, n, told, pc, Slot, Pending>>
  BY DEF Connect, Send, Leave, server, Slot, Pending

LEMMA AcceptStep == IInv /\ [Next]_vars => AcceptInv'
  <1> SUFFICES ASSUME IInv, [Next]_vars, pc' = "accept" PROVE AcceptInv'
    BY DEF AcceptInv
  <1>0. UNCHANGED <<variant, slots>> /\ Slot' = Slot
    BY DEF Next, vars, Slot
  <1> USE DEF IInv
  <1>1. ASSUME NEW c \in Clients, Connect(c) \/ Send(c) \/ Leave(c) PROVE AcceptInv'
    <2>1. UNCHANGED <<client, maxi, revents, listening, nready, i, n, told, pc, Slot, Pending>>
      BY <1>0, <1>1, ClientStep
    <2>2. backlog # <<>> => backlog' # <<>>
      <3>1. Append(backlog, c) # <<>>
        BY AppendProperties DEF TypeOK
      <3> QED
        BY <1>1, <3>1 DEF Connect, Send, Leave
    <2> QED
      BY <2>1, <2>2 DEF AcceptInv
  <1>2. CASE Wait
    <2>1. /\ told' = ReadySlots /\ Pending' = ReadySlots /\ i' = 1 /\ maxi' = maxi /\ backlog' = backlog
          /\ ReadySlots # {} \/ listening'
          /\ nready' = Cardinality(ReadySlots) + (IF listening' THEN 1 ELSE 0)
          /\ listening' = (backlog # <<>>)
      BY <1>2 DEF Wait, Pending, ReadySlots, Watched, Slot, conn
    <2>2. Cardinality(ReadySlots) \in Nat /\ (ReadySlots # {} => Cardinality(ReadySlots) > 0)
      <3>1. ReadySlots \in SUBSET Slot /\ slots \in Nat
        BY DEF ReadySlots, Watched, TypeOK
      <3> QED
        BY <3>1, SlotSet
    <2>3. \A s \in Slot : s <= maxi => (revents'[s] <=> s \in ReadySlots)
      BY <1>2 DEF Wait
    <2>4. nready' > 0
      <3>1. CASE listening'
        BY <2>1, <2>2, <3>1
      <3>2. CASE ~listening'
        BY <2>1, <2>2, <3>2
      <3> QED
        BY <3>1, <3>2
    <2>5. \A s \in Slot : revents'[s] => s \in told' \/ s > maxi'
      BY <2>1, <2>3 DEF Slot, TypeOK
    <2> QED
      BY <1>0, <2>1, <2>4, <2>5 DEF AcceptInv
  <1>3. CASE UNCHANGED vars
    BY <1>3 DEF vars, conn, AcceptInv, Pending, Slot
  <1>4. CASE NoNewClient \/ Accept \/ AcceptFails \/ TooManyClients \/ ScanEnds \/ Skip \/ Found
             \/ ReadData \/ ReadEOF \/ ReadError \/ WriteBack \/ WriteFails \/ BrokenPipe
    BY <1>4 DEF NoNewClient, Accept, AcceptFails, TooManyClients, ScanEnds, Skip, Found,
                ReadData, ReadEOF, ReadError, WriteBack, WriteFails, BrokenPipe, Goto, Next1
  <1> QED
    BY <1>1, <1>2, <1>3, <1>4 DEF Next, main

LEMMA CountStep == IInv /\ [Next]_vars => CountExact'
  <1> SUFFICES ASSUME IInv, [Next]_vars, pc' \in {"scan", "read", "write"}
               PROVE  nready' = Cardinality(Pending') /\ nready' > 0
    BY DEF CountExact, Pending
  <1>0. UNCHANGED <<variant, slots>> /\ Slot' = Slot
    BY DEF Next, vars, Slot
  <1> DEFINE Goal == nready' = Cardinality(Pending') /\ nready' > 0
  <1>a. pc \in {"scan", "read", "write"} => nready = Cardinality(Pending) /\ nready > 0
    BY DEF IInv, CountExact, Pending
  <1> USE DEF IInv
  <1>1. ASSUME NEW c \in Clients, Connect(c) \/ Send(c) \/ Leave(c) PROVE Goal
    BY <1>0, <1>a, <1>1, ClientStep
  <1>2. CASE NoNewClient
    <2>1. Pending' = Pending
      BY <1>2 DEF NoNewClient, Pending
    <2> QED
      BY <1>2, <2>1, PendingFinite DEF NoNewClient, Goto, AcceptInv
  <1>3. CASE Accept \/ AcceptFails
    <2>1. Pending' = Pending
      BY <1>3 DEF Accept, AcceptFails, Pending
    <2>2. pc = "accept" /\ listening /\ nready' = nready - 1 /\ nready' > 0
      BY <1>3 DEF Accept, AcceptFails, Uncount, TypeOK
    <2> QED
      BY <2>1, <2>2, PendingFinite DEF AcceptInv
  <1>4. CASE Skip
    <2>1. /\ UNCHANGED <<told, nready>> /\ i' = i + 1 /\ pc = "scan"
          /\ client[i] = Free \/ ~revents[i]
      BY <1>4 DEF Skip
    <2>2. i \notin Pending
      BY <2>1 DEF ToldInv, Serving
    <2>3. Pending' = Pending
      <3>1. i \in Int /\ \A s \in told : s \in Int
        BY DEF TypeOK, Slot
      <3> QED
        BY <2>1, <2>2, <3>1 DEF Pending
    <2> QED
      BY <1>a, <2>1, <2>3
  <1>5. CASE Found \/ ReadData
    <2>1. Pending' = Pending /\ nready' = nready /\ pc \in {"scan", "read"}
      BY <1>5 DEF Found, ReadData, Goto, Pending
    <2> QED
      BY <1>a, <2>1
  <1>6. CASE ReadEOF \/ ReadError \/ WriteBack \/ WriteFails
    <2>1. /\ told' = told /\ i' = i + 1
          /\ pc \in {"read", "write"}
          /\ nready' = nready - 1
          /\ pc' = IF nready' <= 0 THEN "wait" ELSE "scan"
      BY <1>6 DEF ReadEOF, ReadError, WriteBack, WriteFails, Next1
    <2>2. Cardinality(Pending') = Cardinality(Pending) - 1 /\ Cardinality(Pending) \in Nat
      BY <2>1, NextSlot
    <2>3. nready' > 0
      BY <2>1 DEF TypeOK
    <2> QED
      BY <1>a, <2>1, <2>2, <2>3
  <1>7. CASE Wait \/ TooManyClients \/ ScanEnds \/ BrokenPipe
    BY <1>7 DEF Wait, TooManyClients, ScanEnds, BrokenPipe, Goto
  <1>8. CASE UNCHANGED vars
    BY <1>a, <1>8 DEF vars, Pending
  <1> QED
    BY <1>1, <1>2, <1>3, <1>4, <1>5, <1>6, <1>7, <1>8 DEF Next, main

\* As the count is positive a reported slot is still to come, so that a ready bit the
\* scan meets is that of a reported slot and not a stale one.
LEMMA ReadStep == IInv /\ [Next]_vars => ReadInv'
  <1> SUFFICES ASSUME IInv, [Next]_vars, pc' \in {"read", "write"} PROVE i' \in Pending'
    BY DEF ReadInv
  <1>0. slots' = slots
    BY DEF Next, vars
  <1> USE DEF IInv
  <1>1. ASSUME NEW c \in Clients, Connect(c) \/ Send(c) \/ Leave(c) PROVE i' \in Pending'
    BY <1>0, <1>1, ClientStep DEF ReadInv
  <1>2. CASE Found
    <2>1. UNCHANGED <<i, told>> /\ pc = "scan" /\ i <= maxi /\ revents[i]
      BY <1>2 DEF Found, Goto
    <2>2. Pending # {}
      <3>1. Cardinality(Pending) > 0
        BY <2>1 DEF CountExact, Pending
      <3> QED
        BY <3>1, FS_EmptySet
    <2>3. i \in Slot
      BY <2>1 DEF TypeOK, Slot
    <2>4. PICK k \in Pending : k >= i
      BY <2>2 DEF Pending
    <2>5. i \in told
      BY <2>1, <2>3, <2>4 DEF ToldInv, Serving, Pending, Slot, TypeOK
    <2> QED
      BY <2>1, <2>5 DEF Pending, TypeOK
  <1>3. CASE ReadData
    BY <1>3 DEF ReadData, Goto, ReadInv, Pending
  <1>4. CASE UNCHANGED vars
    BY <1>4 DEF vars, ReadInv, Pending
  <1>5. CASE Wait \/ NoNewClient \/ Accept \/ AcceptFails \/ TooManyClients \/ ScanEnds \/ Skip
             \/ ReadEOF \/ ReadError \/ WriteBack \/ WriteFails \/ BrokenPipe
    BY <1>5 DEF Wait, NoNewClient, Accept, AcceptFails, TooManyClients, ScanEnds, Skip,
                ReadEOF, ReadError, WriteBack, WriteFails, BrokenPipe, Goto, Next1
  <1> QED
    BY <1>1, <1>2, <1>3, <1>4, <1>5 DEF Next, main

-----------------------------------------------------------------------------
(* The data *)

LEMMA EchoStep == IInv /\ [Next]_vars => EchoExact'
  <1> SUFFICES ASSUME IInv, [Next]_vars PROVE EchoExact'
    OBVIOUS
  <1> DEFINE Exact(c) == /\ echoed[c] + InHand(c) + unread[c] <= sent[c]
                         /\ net[c] \in {"open", "fin"} => echoed[c] + InHand(c) + unread[c] = sent[c]
  <1> SUFFICES ASSUME NEW d \in Clients PROVE Exact(d)'
    BY DEF EchoExact
  <1>0. Exact(d) /\ InHand(d) \in Nat
    BY DEF IInv, EchoExact, InHand, TypeOK
  <1> USE DEF IInv, TypeOK
  <1>1. ASSUME NEW c \in Clients, Connect(c) PROVE Exact(d)'
    <2>1. InHand(d)' = InHand(d)
      BY <1>1 DEF Connect, InHand
    <2>2. CASE c = d
      <3>1. InHand(d) = 0
        BY <1>1, <2>2, CurrentSlot DEF Connect, Connected, InHand
      <3> QED
        BY <1>1, <2>1, <2>2, <3>1 DEF Connect
    <2>3. CASE c # d
      BY <1>0, <1>1, <2>1, <2>3 DEF Connect
    <2> QED
      BY <2>2, <2>3
  <1>2. ASSUME NEW c \in Clients, Send(c) PROVE Exact(d)'
    <2>1. InHand(d)' = InHand(d)
      BY <1>2 DEF Send, server, InHand
    <2> QED
      BY <1>0, <1>2, <2>1 DEF Send, server
  <1>3. ASSUME NEW c \in Clients, Leave(c) PROVE Exact(d)'
    <2>1. InHand(d)' = InHand(d)
      BY <1>3 DEF Leave, server, InHand
    <2> QED
      BY <1>0, <1>3, <2>1 DEF Leave, server
  <1>4. CASE Wait \/ NoNewClient \/ Accept \/ AcceptFails \/ TooManyClients \/ ScanEnds \/ Skip \/ Found
    <2>1. UNCHANGED <<net, sent, unread, echoed>> /\ pc # "write" /\ pc' # "write"
      BY <1>4 DEF Wait, NoNewClient, Accept, AcceptFails, TooManyClients, ScanEnds, Skip, Found, Goto, conn
    <2>2. InHand(d)' = 0 /\ InHand(d) = 0
      BY <2>1 DEF InHand
    <2> QED
      BY <1>0, <2>1, <2>2
  <1>5. CASE ReadData
    <2>1. client[i] \in Clients
      BY <1>5, CurrentSlot DEF ReadData, Goto
    <2>2. InHand(d) = 0 /\ InHand(d)' = IF client[i] = d THEN n' ELSE 0
      BY <1>5 DEF ReadData, Goto, InHand
    <2> QED
      BY <1>0, <1>5, <2>1, <2>2 DEF ReadData
  <1>6. CASE ReadEOF \/ ReadError
    <2>1. client[i] \in Clients /\ UNCHANGED <<sent, unread, echoed>> /\ pc = "read" /\ pc' # "write"
      BY <1>6, CurrentSlot DEF ReadEOF, ReadError, Next1
    <2>2. InHand(d) = 0 /\ InHand(d)' = 0
      BY <2>1 DEF InHand
    <2>3. net'[d] \in {"open", "fin"} => net[d] \in {"open", "fin"}
      BY <1>6, <2>1 DEF ReadEOF, ReadError
    <2> QED
      BY <1>0, <2>1, <2>2, <2>3
  <1>7. CASE WriteBack
    <2>1. client[i] \in Clients /\ pc = "write" /\ pc' # "write"
      BY <1>7, CurrentSlot DEF WriteBack, Next1
    <2>2. InHand(d)' = 0 /\ InHand(d) = IF client[i] = d THEN n ELSE 0
      BY <2>1 DEF InHand
    <2> QED
      BY <1>0, <1>7, <2>1, <2>2 DEF WriteBack, conn
  <1>8. CASE WriteFails
    <2>1. client[i] \in Clients /\ pc = "write" /\ pc' # "write"
      BY <1>8, CurrentSlot DEF WriteFails, Next1
    <2>2. InHand(d)' = 0 /\ InHand(d) = IF client[i] = d THEN n ELSE 0
      BY <2>1 DEF InHand
    <2> QED
      BY <1>0, <1>8, <2>1, <2>2 DEF WriteFails
  <1>9. CASE BrokenPipe
    <2>1. /\ UNCHANGED <<net, sent, unread, echoed>> /\ pc = "write" /\ pc' = "dead"
          /\ net[client[i]] \in {"rst", "timeout"}
      BY <1>9 DEF BrokenPipe, Goto, conn
    <2>2. InHand(d)' = 0 /\ InHand(d) = IF client[i] = d THEN n ELSE 0
      BY <2>1 DEF InHand
    <2> QED
      BY <1>0, <2>1, <2>2
  <1>10. CASE UNCHANGED vars
    <2>1. InHand(d)' = InHand(d)
      BY <1>10 DEF vars, InHand
    <2> QED
      BY <1>0, <1>10, <2>1 DEF vars, conn
  <1> QED
    BY <1>1, <1>2, <1>3, <1>4, <1>5, <1>6, <1>7, <1>8, <1>9, <1>10 DEF Next, main

-----------------------------------------------------------------------------
(* The theorems *)

LEMMA StepIInv == IInv /\ [Next]_vars => IInv'
  BY TypeStep, ConnStep, ToldStep, AcceptStep, CountStep, ReadStep, EchoStep DEF IInv

THEOREM Invariance == Spec => []IInv
  BY InitIInv, StepIInv, PTL DEF Spec

\* Every variable keeps its range, for any number of clients and slots.
THEOREM TypeCorrect == Spec => []TypeOK
  BY Invariance, PTL DEF IInv

\* No read of the loop blocks, although the ready bits of slots above maxi are those
\* the stack had: the count stops the scan before it comes to them.
THEOREM ReadsNeverBlock == Spec => []NeverBlocks
  <1>1. IInv => NeverBlocks
    BY DEF IInv, ReadInv, ToldInv, Serving, NeverBlocks
  <1> QED
    BY Invariance, <1>1, PTL

\* Each connection has one slot, and nready is the number of reported slots to come.
THEOREM SlotsAreSound == Spec => []SlotsSound
  <1>1. ASSUME IInv PROVE SlotsSound
    <2> USE DEF IInv, TypeOK
    <2>1. {client[s] : s \in Slot} \ {Free}
            = {c \in Clients : net[c] \notin {"none", "closed"} /\ \A k \in DOMAIN backlog : backlog[k] # c}
      <3>1. ASSUME NEW s \in Slot, client[s] # Free
            PROVE  /\ client[s] \in Clients /\ net[client[s]] \notin {"none", "closed"}
                   /\ \A k \in DOMAIN backlog : backlog[k] # client[s]
        BY <1>1, <3>1 DEF SlotInv, Connected, Queued
      <3>2. ASSUME NEW c \in Clients, net[c] \notin {"none", "closed"}, \A k \in DOMAIN backlog : backlog[k] # c
            PROVE  c # Free /\ \E s \in Slot : client[s] = c
        BY <1>1, <3>2, SlotsAssumption DEF SlotInv, Connected, Queued, SlotsAssumption
      <3> QED
        BY <3>1, <3>2
    <2> QED
      BY <1>1, <2>1 DEF SlotsSound, SlotInv
  <1> QED
    BY Invariance, <1>1, PTL

\* What is echoed, in hand and unread adds up to what the client sent.
THEOREM EchoIsExact == Spec => []EchoExact
  BY Invariance, PTL DEF IInv

-----------------------------------------------------------------------------
(* The refinement of EchoService *)

LEMMA ServesInit == Init => Service!Init
  <1> SUFFICES ASSUME Init PROVE Service!Init
    OBVIOUS
  <1>1. ASSUME NEW c \in Clients PROVE Phase(c) = "closed" /\ Taken(c) = FALSE
    BY SlotsAssumption DEF SlotsAssumption, Init, Phase, Taken
  <1> QED
    BY <1>1 DEF Init, Service!Init

\* A step that leaves the connections and the slots alone, and echoes nothing.
LEMMA ServesQuiet ==
  ASSUME UNCHANGED <<net, sent, echoed, client, slots>>
  PROVE  UNCHANGED Service!vars
  BY DEF Service!vars, Phase, Taken, Slot

\* What EchoService sees of a step that concerns the connection d only.
LEMMA ServesOne ==
  ASSUME NEW d \in Clients,
         \A c \in Clients \ {d} : Phase(c)' = Phase(c) /\ Taken(c)' = Taken(c)
  PROVE  /\ [c \in Clients |-> Phase(c)]' = [[c \in Clients |-> Phase(c)] EXCEPT ![d] = Phase(d)']
         /\ [c \in Clients |-> Taken(c)]' = [[c \in Clients |-> Taken(c)] EXCEPT ![d] = Taken(d)']
  OBVIOUS

\* The slots are those of other connections, or stay.
LEMMA SameTaken ==
  ASSUME UNCHANGED <<client, slots>>, NEW c PROVE Taken(c)' = Taken(c)
  BY DEF Taken, Slot

LEMMA SamePhase ==
  ASSUME NEW c, net'[c] = net[c] PROVE Phase(c)' = Phase(c)
  BY DEF Phase

\* The clients' steps are those of EchoService.
LEMMA ServesClients ==
  ASSUME IInv, NEW d \in Clients, Connect(d) \/ Send(d) \/ Leave(d), UNCHANGED slots
  PROVE  Service!Connect(d) \/ Service!Send(d) \/ Service!Leave(d) \/ UNCHANGED Service!vars
  <1> USE DEF IInv, TypeOK
  <1>1. UNCHANGED client
    BY DEF Connect, Send, Leave, server
  <1>2. \A c \in Clients \ {d} : Phase(c)' = Phase(c)
    <2>1. \A c \in Clients \ {d} : net'[c] = net[c]
      BY DEF Connect, Send, Leave
    <2> QED
      BY <2>1, SamePhase
  <1>3. \A c \in Clients : Taken(c)' = Taken(c)
    BY <1>1, SameTaken
  <1>4. /\ [c \in Clients |-> Phase(c)]' = [[c \in Clients |-> Phase(c)] EXCEPT ![d] = Phase(d)']
        /\ [c \in Clients |-> Taken(c)]' = [c \in Clients |-> Taken(c)]
    BY <1>2, <1>3, ServesOne
  <1>5. CASE Connect(d)
    <2>1. Phase(d) = "closed" /\ Phase(d)' = "open"
      BY <1>5 DEF Connect, Phase
    <2> QED
      BY <1>4, <1>5, <2>1 DEF Connect, Service!Connect, Service!Turns
  <1>6. CASE Send(d)
    <2>1. Phase(d) = "open" /\ Phase(d)' = Phase(d)
      BY <1>6, SamePhase DEF Send, Phase
    <2> QED
      BY <1>4, <1>6, <2>1 DEF Send, server, Service!Send
  <1>7. CASE Leave(d)
    <2>0. UNCHANGED <<sent, echoed>>
      BY <1>7 DEF Leave, server
    <2>1. PICK how \in {"fin", "rst", "timeout"} : how # net[d] /\ net' = [net EXCEPT ![d] = how]
      BY <1>7 DEF Leave
    <2>2. net[d] \in {"open", "fin"} /\ net'[d] = how
      BY <1>7, <2>1 DEF Leave
    <2>3. \/ Phase(d) = "open" /\ Phase(d)' = "finished"
          \/ Phase(d) \in {"open", "finished"} /\ Phase(d)' = "failed"
      BY <2>1, <2>2 DEF Phase
    <2> QED
      BY <1>4, <2>0, <2>3 DEF Service!Leave, Service!Turns
  <1> QED
    BY <1>5, <1>6, <1>7

\* A connection is in no slot before it is accepted.
LEMMA ServesAccept ==
  ASSUME IInv, Accept, UNCHANGED slots
  PROVE  \E d \in Clients : Service!Take(d)
  <1> USE DEF IInv, TypeOK
  <1>1. PICK s \in Slot : s = Min({k \in Slot : client[k] = Free}) /\ client[s] = Free
    <2>1. slots \in Nat /\ \E s \in Slot : client[s] = Free
      BY SlotsAssumption DEF Accept, SlotsAssumption
    <2> QED
      BY <2>1, FreeSlot
  <1>2. PICK d \in Clients : d = Head(backlog) /\ Queued(d) /\ Connected(d)
    <2>1. backlog # <<>>
      BY DEF Accept, AcceptInv
    <2>2. 1 \in DOMAIN backlog /\ Head(backlog) = backlog[1] /\ Head(backlog) \in Clients
      BY <2>1
    <2> QED
      BY <2>2 DEF BacklogInv, Queued
  <1>3. UNCHANGED <<net, sent, echoed>> /\ client' = [client EXCEPT ![s] = d]
    BY <1>1, <1>2 DEF Accept
  <1>4. ~Taken(d)
    BY <1>2, SlotsAssumption DEF Taken, SlotInv, SlotsAssumption
  <1>5. Taken(d)' = TRUE
    BY <1>1, <1>3 DEF Taken, Slot
  <1>6. \A c \in Clients \ {d} : Phase(c)' = Phase(c) /\ Taken(c)' = Taken(c)
    <2> SUFFICES ASSUME NEW c \in Clients, c # d PROVE Phase(c)' = Phase(c) /\ Taken(c)' = Taken(c)
      OBVIOUS
    <2>1. Taken(c)' <=> Taken(c)
      BY <1>1, <1>3, SlotsAssumption DEF Taken, Slot, SlotsAssumption
    <2>2. Taken(c)' \in BOOLEAN /\ Taken(c) \in BOOLEAN
      BY DEF Taken
    <2> QED
      BY <1>3, <2>1, <2>2, SamePhase
  <1>7. Phase(d)' = Phase(d) /\ Phase(d) \in {"open", "finished", "failed"}
    BY <1>2, <1>3, SamePhase DEF Connected, NetState, Phase
  <1>8. Service!Take(d)
    BY <1>3, <1>4, <1>5, <1>6, <1>7, ServesOne DEF Service!Take
  <1> QED
    BY <1>8

\* The server leaves a connection whose slot it frees.
LEMMA ServesClose ==
  ASSUME IInv, pc = "read", UNCHANGED <<slots, sent, echoed>>,
         net' = [net EXCEPT ![client[i]] = "closed"],
         client' = [client EXCEPT ![i] = Free],
         \/ net[client[i]] \in {"rst", "timeout", "eof"}
         \/ net[client[i]] = "fin" /\ echoed[client[i]] = sent[client[i]]
  PROVE  \E d \in Clients : Service!Close(d)
  <1> USE DEF IInv, TypeOK
  <1>0. PICK d \in Clients : d = client[i]
    BY CurrentSlot
  <1>1. /\ i \in Slot /\ client[i] = d /\ \A s \in Slot : s # i => client[s] # d
        /\ net' = [net EXCEPT ![d] = "closed"]
    BY <1>0, CurrentSlot
  <1>2. Taken(d) = TRUE /\ Taken(d)' = FALSE
    BY <1>1, SlotsAssumption DEF Taken, Slot, SlotsAssumption
  <1>3. Phase(d)' = "closed"
    BY <1>1 DEF Phase
  <1>4. Phase(d) = "failed" \/ (Phase(d) = "finished" /\ echoed[d] = sent[d])
    BY <1>1 DEF Phase
  <1>5. \A c \in Clients \ {d} : Phase(c)' = Phase(c) /\ Taken(c)' = Taken(c)
    <2> SUFFICES ASSUME NEW c \in Clients, c # d PROVE Phase(c)' = Phase(c) /\ Taken(c)' = Taken(c)
      OBVIOUS
    <2>1. Taken(c)' <=> Taken(c)
      BY <1>1, SlotsAssumption DEF Taken, Slot, SlotsAssumption
    <2>2. Taken(c)' \in BOOLEAN /\ Taken(c) \in BOOLEAN
      BY DEF Taken
    <2> QED
      BY <1>1, <2>1, <2>2, SamePhase
  <1>6. Service!Close(d)
    BY <1>1, <1>2, <1>3, <1>4, <1>5, ServesOne DEF Service!Close, Service!Turns
  <1> QED
    BY <1>1, <1>6

\* A failing connection changes its state, but is not yet left.
LEMMA ServesFailed ==
  ASSUME IInv, UNCHANGED <<slots, sent, echoed, client>>, NEW d \in Clients,
         net[d] \in {"rst", "timeout"}, net' = [net EXCEPT ![d] = "eof"]
  PROVE  UNCHANGED Service!vars
  <1>1. \A c \in Clients : Phase(c)' = Phase(c)
    BY DEF IInv, TypeOK, Phase
  <1>2. \A c \in Clients : Taken(c)' = Taken(c)
    BY SameTaken
  <1> QED
    BY <1>1, <1>2 DEF Service!vars

LEMMA ServesRead ==
  ASSUME IInv, ReadEOF \/ ReadError, UNCHANGED slots
  PROVE  (\E d \in Clients : Service!Close(d)) \/ UNCHANGED Service!vars
  <1>1. /\ client[i] \in Clients /\ pc = "read" /\ unread[client[i]] = 0
        /\ InHand(client[i]) = 0
    BY CurrentSlot DEF ReadEOF, ReadError, InHand
  <1>2. UNCHANGED <<sent, echoed>>
    BY DEF ReadEOF, ReadError
  <1>3. CASE ReadEOF
    <2>1. net[client[i]] = "fin" => echoed[client[i]] = sent[client[i]]
      BY <1>1 DEF IInv, TypeOK, EchoExact
    <2> QED
      BY <1>1, <1>2, <1>3, <2>1, ServesClose DEF ReadEOF
  <1>4. CASE ReadError
    <2>1. CASE net' = [net EXCEPT ![client[i]] = "closed"] /\ client' = [client EXCEPT ![i] = Free]
      BY <1>1, <1>2, <1>4, <2>1, ServesClose DEF ReadError
    <2>2. CASE net' = [net EXCEPT ![client[i]] = "eof"] /\ UNCHANGED client
      BY <1>1, <1>2, <1>4, <2>2, ServesFailed DEF ReadError
    <2> QED
      BY <1>4, <2>1, <2>2 DEF ReadError
  <1> QED
    BY <1>3, <1>4

LEMMA ServesWrite ==
  ASSUME IInv, WriteBack, UNCHANGED slots
  PROVE  (\E d \in Clients : Service!Echo(d)) \/ UNCHANGED Service!vars
  <1> USE DEF IInv, TypeOK
  <1> DEFINE d == client[i]
  <1>1. /\ i \in Slot /\ d \in Clients /\ pc = "write" /\ net[d] \in {"open", "fin"}
        /\ echoed' = [echoed EXCEPT ![d] = @ + n]
        /\ UNCHANGED <<net, sent, client>>
    BY CurrentSlot DEF WriteBack, conn
  <1>2. InHand(d) = n
    BY <1>1 DEF InHand
  <1>3. echoed[d] + n + unread[d] = sent[d]
    BY <1>1, <1>2 DEF EchoExact
  <1>4. Phase(d) \in {"open", "finished"} /\ Taken(d)
    BY <1>1 DEF Phase, Taken
  <1>5. /\ [c \in Clients |-> Phase(c)]' = [c \in Clients |-> Phase(c)]
        /\ [c \in Clients |-> Taken(c)]' = [c \in Clients |-> Taken(c)]
    BY <1>1 DEF Phase, Taken, Slot
  <1> HIDE DEF d
  <1>6. CASE n = 0
    <2>1. echoed' = echoed
      BY <1>1, <1>6
    <2> QED
      BY <1>1, <1>5, <2>1 DEF Service!vars
  <1>7. CASE n # 0
    <2>1. n \in 1..(sent[d] - echoed[d])
      BY <1>1, <1>3, <1>7
    <2> QED
      BY <1>1, <1>4, <1>5, <2>1 DEF Service!Echo
  <1> QED
    BY <1>6, <1>7

LEMMA ServesStep == IInv /\ [Next]_vars => [Service!Next]_(Service!vars)
  <1> SUFFICES ASSUME IInv, [Next]_vars PROVE [Service!Next]_(Service!vars)
    OBVIOUS
  <1>0. UNCHANGED slots
    BY DEF Next, vars
  <1>1. ASSUME NEW d \in Clients, Connect(d) \/ Send(d) \/ Leave(d)
        PROVE  [Service!Next]_(Service!vars)
    BY <1>0, <1>1, ServesClients DEF Service!Next
  <1>2. CASE Accept
    BY <1>0, <1>2, ServesAccept DEF Service!Next
  <1>3. CASE ReadEOF \/ ReadError
    BY <1>0, <1>3, ServesRead DEF Service!Next
  <1>4. CASE WriteBack
    BY <1>0, <1>4, ServesWrite DEF Service!Next
  <1>5. CASE WriteFails
    <2>1. client[i] \in Clients
      BY <1>5, CurrentSlot DEF WriteFails
    <2> QED
      BY <1>0, <1>5, <2>1, ServesFailed DEF WriteFails
  <1>6. CASE \/ Wait \/ NoNewClient \/ AcceptFails \/ TooManyClients \/ ScanEnds \/ Skip \/ Found
             \/ ReadData \/ BrokenPipe \/ UNCHANGED vars
    <2>1. UNCHANGED <<net, sent, echoed, client>>
      BY <1>6 DEF Wait, NoNewClient, AcceptFails, TooManyClients, ScanEnds, Skip, Found,
                  ReadData, BrokenPipe, vars, conn
    <2> QED
      BY <1>0, <2>1, ServesQuiet
  <1> QED
    BY <1>1, <1>2, <1>3, <1>4, <1>5, <1>6 DEF Next, main

\* The select and the poll server are an echo service: with any number of clients,
\* each gets back what it sent, once, before its connection is closed.
THEOREM ImplementsEcho == Spec => Serves
  BY Invariance, ServesInit, ServesStep, PTL DEF Spec, Serves, Service!Spec

=============================================================================
