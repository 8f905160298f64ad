------------------------ MODULE SignalsServer_proofs ------------------------
(***************************************************************************)
(* Theorems about the programs of SignalsServer: the server, for every set   *)
(* of clients, of processes and amount of data, and the programs of Signals, *)
(* however often the user sends a signal.                                    *)
(***************************************************************************)
EXTENDS SignalsServer, SequenceTheorems, TLAPS

-----------------------------------------------------------------------------
(* The server *)

TypeOK == /\ restart \in BOOLEAN
          /\ net \in [Clients -> {"none", "open", "fin", "rst"}]
          /\ backlog \in Seq(Clients)
          /\ sent \in [Clients -> Nat]
          /\ unread \in [Clients -> Nat]
          /\ echoed \in [Clients -> Nat]
          /\ parent \in {"accept", "fork", "close", "exit", "quit", "interrupting", "interrupted"}
          /\ connfd \in Clients \cup {None}
          /\ errno \in {"none", "EINTR", "ECHILD"}
          /\ handler \in BOOLEAN
          /\ sigchld \in BOOLEAN
          /\ child \in [Pids -> {"none", "read", "write", "zombie"}]
          /\ sockfd \in [Pids -> Clients \cup {None}]
          /\ n \in [Pids -> Nat]
          /\ fds \in [Server!Procs -> SUBSET Clients]

\* A connection waits in the backlog once, and nobody has a descriptor for it yet.
BacklogInv == /\ \A k \in DOMAIN backlog : Server!Closed(backlog[k])
              /\ \A k, m \in DOMAIN backlog : backlog[k] = backlog[m] => k = m

\* Who works on a connection has one to work on.
WorkInv == /\ \A p \in Pids : Server!Running(p) => sockfd[p] \in Clients
           /\ parent \in {"fork", "close"} => connfd \in Clients

\* The connection that main is about to fork for has no child yet.
ForkInv == parent = "fork" => \A p \in Pids : Server!Running(p) => sockfd[p] # connfd

IInv == /\ TypeOK
        /\ BacklogInv
        /\ WorkInv
        /\ ForkInv
        /\ Server!DescriptorsExact
        /\ Server!NoZombieForgotten
        /\ Server!EchoExact

-----------------------------------------------------------------------------

LEMMA LeqReflexive == \A i \in Nat : i <= i
  OBVIOUS

LEMMA Shift == ASSUME NEW m \in Nat, NEW k \in 1..(m - 1)
               PROVE  k \in Int /\ k + 1 \in 1..m /\ k + 1 # 1 /\ 1 \in 1..m
  OBVIOUS

LEMMA InitIInv == Server!Init => IInv
  <1> SUFFICES ASSUME Server!Init PROVE IInv
    OBVIOUS
  <1>1. TypeOK
    <2>1. backlog \in Seq(Clients)
      BY EmptySeq DEF Server!Init
    <2>2. restart \in BOOLEAN /\ handler \in BOOLEAN /\ sigchld \in BOOLEAN
      BY Zenon DEF Server!Init
    <2>3. /\ net \in [Clients -> {"none", "open", "fin", "rst"}]
          /\ sent \in [Clients -> Nat] /\ unread \in [Clients -> Nat] /\ echoed \in [Clients -> Nat]
          /\ child \in [Pids -> {"none", "read", "write", "zombie"}]
          /\ sockfd \in [Pids -> Clients \cup {None}] /\ n \in [Pids -> Nat]
          /\ fds \in [Server!Procs -> SUBSET Clients]
          /\ parent = "accept" /\ connfd = None /\ errno = "none"
      BY DEF Server!Init
    <2> QED
      BY <2>1, <2>2, <2>3 DEF TypeOK
  <1>2. Server!EchoExact
    <2> SUFFICES ASSUME NEW c \in Clients
                 PROVE  echoed[c] + Server!InHand(c) + unread[c] = sent[c] /\ sent[c] \in Nat
      BY Zenon, LeqReflexive DEF Server!EchoExact
    <2>1. {p \in Pids : child[p] = "write" /\ sockfd[p] = c} = {}
      BY DEF Server!Init
    <2>2. Server!InHand(c) = 0
      BY <2>1 DEF Server!InHand
    <2>3. echoed[c] = 0 /\ unread[c] = 0 /\ sent[c] = 0
      BY DEF Server!Init
    <2> QED
      BY <2>2, <2>3
  <1> QED
    BY <1>1, <1>2 DEF Server!Init, IInv, BacklogInv, WorkInv, ForkInv, Server!DescriptorsExact, Server!Running, Server!Procs, Server!NoZombieForgotten

LEMMA TypeStep ==
  ASSUME IInv, [Server!Next]_(Server!vars)
  PROVE  TypeOK'
  <1> USE DEF IInv, TypeOK, Server!network, Server!server, Server!children, Server!Main, Server!Procs, Server!Running
  <1>1. ASSUME NEW c \in Clients, Server!Connect(c), UNCHANGED restart PROVE TypeOK'
    BY <1>1 DEF Server!Connect
  <1>2. ASSUME NEW c \in Clients, Server!Send(c), UNCHANGED restart PROVE TypeOK'
    BY <1>2 DEF Server!Send
  <1>3. ASSUME NEW c \in Clients, Server!Leave(c), UNCHANGED restart PROVE TypeOK'
    <2>1. net' \in [Clients -> {"none", "open", "fin", "rst"}]
      BY <1>3 DEF Server!Leave
    <2>2. unread' \in [Clients -> Nat]
      <3>1. CASE unread' = unread
        BY <3>1
      <3>2. ASSUME NEW kept \in {0, unread[c]}, unread' = [unread EXCEPT ![c] = kept]
            PROVE  unread' \in [Clients -> Nat]
        <4>1. kept \in Nat
          OBVIOUS
        <4> QED
          BY <3>2, <4>1
      <3> QED
        BY <1>3, <3>1, <3>2 DEF Server!Leave
    <2> QED
      BY <1>3, <2>1, <2>2 DEF Server!Leave
  <1>4. CASE Server!Accept
    <2>1. Head(backlog) \in Clients /\ Tail(backlog) \in Seq(Clients)
      BY <1>4, HeadTailProperties DEF Server!Accept
    <2> QED
      BY <1>4, <2>1 DEF Server!Accept
  <1>5. CASE Server!AcceptError \/ Server!Interrupted
    BY <1>5 DEF Server!AcceptError, Server!Interrupted
  <1>6. CASE Server!ForkChild
    BY <1>6 DEF Server!ForkChild
  <1>7. CASE Server!ForkFails \/ Server!ParentCloses
    BY <1>7 DEF Server!ForkFails, Server!ParentCloses
  <1>8. CASE Server!Deliver
    BY <1>8 DEF Server!Deliver
  <1>9. CASE Server!HandlerReturns
    BY <1>9 DEF Server!HandlerReturns
  <1>10. ASSUME NEW p \in Pids, Server!Reap(p) PROVE TypeOK'
    BY <1>10 DEF Server!Reap
  <1>11. ASSUME NEW p \in Pids, Server!ReadData(p) PROVE TypeOK'
    <2>1. sockfd[p] \in Clients
      BY <1>11 DEF Server!ReadData, WorkInv
    <2> QED
      BY <1>11, <2>1 DEF Server!ReadData
  <1>12. ASSUME NEW p \in Pids, Server!WriteBack(p) PROVE TypeOK'
    <2>1. sockfd[p] \in Clients
      BY <1>12 DEF Server!WriteBack, WorkInv
    <2> QED
      BY <1>12, <2>1 DEF Server!WriteBack
  <1>13. ASSUME NEW p \in Pids, Server!WriteFails(p) PROVE TypeOK'
    BY <1>13 DEF Server!WriteFails
  <1>14. ASSUME NEW p \in Pids, Server!ChildExits(p) \/ Server!ChildKilled(p) PROVE TypeOK'
    <2>1. Server!Ends(p)
      BY <1>14 DEF Server!ChildExits, Server!ChildKilled
    <2> QED
      BY <2>1 DEF Server!Ends
  <1>15. CASE UNCHANGED Server!vars
    BY <1>15 DEF Server!vars
  <1> QED
    BY <1>1, <1>2, <1>3, <1>4, <1>5, <1>6, <1>7, <1>8, <1>9, <1>10, <1>11, <1>12, <1>13, <1>14, <1>15
       DEF Server!Next, Server!main, Server!sig_child_handler, Server!str_echo

-----------------------------------------------------------------------------
(* Descriptors and zombies *)

\* A step that touches no descriptor, process or connection of main.
LEMMA QuietStep ==
  ASSUME IInv,
         UNCHANGED <<backlog, connfd, sockfd, fds>>,
         \A p \in Pids : Server!Running(p)' <=> Server!Running(p),
         parent' # parent => {parent, parent'} \cap {"fork", "close"} = {} \/ (parent = "fork" /\ parent' = "close")
  PROVE  BacklogInv' /\ WorkInv' /\ ForkInv' /\ Server!DescriptorsExact'
  <1> USE DEF IInv
  <1>1. BacklogInv'
    BY DEF BacklogInv, Server!Closed
  <1>2. WorkInv'
    BY DEF WorkInv
  <1>3. ForkInv'
    BY DEF ForkInv
  <1>4. Server!DescriptorsExact'
    BY DEF Server!DescriptorsExact
  <1> QED
    BY <1>1, <1>2, <1>3, <1>4

\* A child that ends closes its descriptor.
LEMMA EndsStep ==
  ASSUME IInv, NEW p \in Pids, Server!Ends(p)
  PROVE  BacklogInv' /\ WorkInv' /\ ForkInv' /\ Server!DescriptorsExact'
  <1> USE DEF IInv, TypeOK, Server!Ends, Server!network, Server!Procs
  <1>1. UNCHANGED <<backlog, connfd, parent>>
    OBVIOUS
  <1>2. \A q \in Pids : /\ Server!Running(q)' <=> Server!Running(q) /\ q # p
                        /\ q # p => sockfd'[q] = sockfd[q]
    BY DEF Server!Running
  <1>3. \A q \in Server!Procs : fds'[q] = IF q = p THEN {} ELSE fds[q]
    OBVIOUS
  <1>4. p # Parent
    BY ForkAssumption DEF Server!ServerAssumption
  <1>5. BacklogInv'
    BY <1>1, <1>3 DEF BacklogInv, Server!Closed
  <1>6. WorkInv'
    BY <1>1, <1>2 DEF WorkInv
  <1>7. ForkInv'
    BY <1>1, <1>2 DEF ForkInv
  <1>8. Server!DescriptorsExact'
    BY <1>1, <1>2, <1>3, <1>4 DEF Server!DescriptorsExact
  <1> QED
    BY <1>5, <1>6, <1>7, <1>8

LEMMA DescriptorStep ==
  ASSUME IInv, [Server!Next]_(Server!vars)
  PROVE  BacklogInv' /\ WorkInv' /\ ForkInv' /\ Server!DescriptorsExact'
  <1> DEFINE Goal == BacklogInv' /\ WorkInv' /\ ForkInv' /\ Server!DescriptorsExact'
  <1> USE DEF IInv, TypeOK, Server!network, Server!server, Server!children
  <1>1. ASSUME NEW c \in Clients, Server!Connect(c) PROVE Goal
    <2>1. Server!Closed(c) /\ ~Server!Waiting(c) /\ backlog' = Append(backlog, c) /\ UNCHANGED <<Server!server, Server!children, fds>>
      BY <1>1 DEF Server!Connect
    <2>2. /\ DOMAIN backlog' = 1..(Len(backlog) + 1) /\ DOMAIN backlog = 1..Len(backlog)
          /\ \A k \in 1..Len(backlog) : backlog'[k] = backlog[k]
          /\ backlog'[Len(backlog) + 1] = c
          /\ Len(backlog) \in Nat
      BY <2>1, AppendProperties, LenProperties
    <2>3. \A k \in 1..(Len(backlog) + 1) : k \in 1..Len(backlog) \/ k = Len(backlog) + 1
      BY <2>2
    <2>4. \A k \in 1..Len(backlog) : backlog[k] # c
      BY <2>1, <2>2 DEF Server!Waiting
    <2>5. \A k \in DOMAIN backlog' : \A p \in Server!Procs : backlog'[k] \notin fds[p]
      BY <2>1, <2>2, <2>3 DEF BacklogInv, Server!Closed
    <2>6. ASSUME NEW k \in DOMAIN backlog', NEW m \in DOMAIN backlog', backlog'[k] = backlog'[m]
          PROVE  k = m
      <3>1. CASE k \in 1..Len(backlog) /\ m \in 1..Len(backlog)
        BY <2>2, <2>6, <3>1 DEF BacklogInv
      <3> QED
        BY <2>2, <2>3, <2>4, <2>6, <3>1
    <2>7. BacklogInv'
      BY <2>1, <2>5, <2>6 DEF BacklogInv, Server!Closed
    <2> QED
      BY <2>1, <2>7 DEF WorkInv, ForkInv, Server!DescriptorsExact, Server!Running
  <1>2. ASSUME NEW c \in Clients, Server!Send(c) \/ Server!Leave(c) PROVE Goal
    <2>1. UNCHANGED <<backlog, Server!server, Server!children, fds>>
      BY <1>2 DEF Server!Send, Server!Leave
    <2> QED
      BY <2>1, QuietStep DEF Server!Running
  <1>3. CASE Server!Accept
    <2> DEFINE c == Head(backlog)
    <2>1. /\ parent = "accept" /\ parent' = "fork"
          /\ connfd' = c /\ backlog' = Tail(backlog)
          /\ fds' = [fds EXCEPT ![Parent] = @ \cup {c}]
          /\ UNCHANGED <<child, sockfd>>
      BY <1>3 DEF Server!Accept, Server!Main
    <2>2. /\ DOMAIN backlog = 1..Len(backlog)
          /\ DOMAIN backlog' = 1..(Len(backlog) - 1)
          /\ \A k \in 1..(Len(backlog) - 1) : backlog'[k] = backlog[k + 1]
          /\ \A k \in 1..Len(backlog) : backlog[k] \in Clients
          /\ Len(backlog) \in Nat /\ Len(backlog) > 0
          /\ c = backlog[1]
      BY <1>3, <2>1, HeadTailProperties, LenProperties, EmptySeq DEF Server!Accept
    <2> HIDE DEF c
    <2>3. c \in Clients /\ Server!Closed(c)
      <3>1. 1 \in DOMAIN backlog
        BY <2>2
      <3> QED
        BY <2>2, <3>1 DEF BacklogInv
    <2>4. ASSUME NEW k \in DOMAIN backlog'
          PROVE  /\ k \in Int /\ k + 1 \in DOMAIN backlog /\ k + 1 # 1 /\ 1 \in DOMAIN backlog
                 /\ backlog'[k] = backlog[k + 1]
      <3>1. k \in 1..(Len(backlog) - 1)
        BY <2>2, <2>4
      <3>2. k \in Int /\ k + 1 \in 1..Len(backlog) /\ k + 1 # 1 /\ 1 \in 1..Len(backlog)
        BY <2>2, <3>1, Shift
      <3>3. backlog'[k] = backlog[k + 1]
        BY <2>2, <3>1
      <3> QED
        BY <2>2, <3>2, <3>3
    <2>5. \A k \in DOMAIN backlog' : Server!Closed(backlog'[k]) /\ backlog'[k] # c
      BY <2>2, <2>4 DEF BacklogInv
    <2>6. \A p \in Server!Procs : fds'[p] = IF p = Parent THEN fds[p] \cup {c} ELSE fds[p]
      BY <2>1 DEF Server!Procs
    <2>7. BacklogInv'
      <3>1. \A k \in DOMAIN backlog' : \A p \in Server!Procs : backlog'[k] \notin fds'[p]
        BY <2>5, <2>6 DEF Server!Closed
      <3>2. ASSUME NEW k \in DOMAIN backlog', NEW m \in DOMAIN backlog', backlog'[k] = backlog'[m]
            PROVE  k = m
        <4>1. k + 1 = m + 1
          BY <2>4, <3>2 DEF BacklogInv
        <4> QED
          BY <2>4, <3>2, <4>1
      <3> QED
        BY <3>1, <3>2 DEF BacklogInv, Server!Closed
    <2>8. WorkInv'
      BY <2>1, <2>3 DEF WorkInv, Server!Running
    <2>9. ForkInv'
      <3>1. \A p \in Pids : Server!Running(p) => sockfd[p] # c
        BY <2>3 DEF Server!Closed, Server!DescriptorsExact, Server!Procs
      <3> QED
        BY <2>1, <3>1 DEF ForkInv, Server!Running
    <2>10. Server!DescriptorsExact'
      <3>1. \A p \in Pids : fds'[p] = fds[p]
        BY <2>6, ForkAssumption DEF Server!Procs, Server!ServerAssumption
      <3>2. fds'[Parent] = {c}
        BY <2>1, <2>6 DEF Server!Procs, Server!DescriptorsExact
      <3> QED
        BY <2>1, <3>1, <3>2 DEF Server!DescriptorsExact, Server!Running
    <2> QED
      BY <2>7, <2>8, <2>9, <2>10
  <1>4. CASE Server!AcceptError \/ Server!Interrupted \/ Server!ForkFails \/ Server!Deliver \/ Server!HandlerReturns
    <2>1. UNCHANGED <<backlog, connfd, sockfd, fds, child>>
      BY <1>4 DEF Server!AcceptError, Server!Interrupted, Server!ForkFails, Server!Deliver, Server!HandlerReturns
    <2>2. parent' # parent => {parent, parent'} \cap {"fork", "close"} = {} \/ (parent = "fork" /\ parent' = "close")
      BY <1>4 DEF Server!AcceptError, Server!Interrupted, Server!ForkFails, Server!Deliver, Server!HandlerReturns, Server!Main
    <2> QED
      BY <2>1, <2>2, QuietStep DEF Server!Running
  <1>5. CASE Server!ForkChild
    <2>1. PICK p \in Pids : /\ child[p] = "none"
                            /\ child' = [child EXCEPT ![p] = "read"]
                            /\ sockfd' = [sockfd EXCEPT ![p] = connfd]
                            /\ fds' = [fds EXCEPT ![p] = fds[Parent]]
      BY <1>5 DEF Server!ForkChild
    <2>2. parent = "fork" /\ parent' = "close" /\ UNCHANGED <<backlog, connfd>> /\ connfd \in Clients
      BY <1>5 DEF Server!ForkChild, Server!Main, WorkInv
    <2>3. p # Parent /\ fds[Parent] = {connfd}
      BY <2>2, ForkAssumption DEF Server!ServerAssumption, Server!DescriptorsExact
    <2>4. \A q \in Pids : /\ Server!Running(q)' <=> Server!Running(q) \/ q = p
                          /\ sockfd'[q] = IF q = p THEN connfd ELSE sockfd[q]
      BY <2>1 DEF Server!Running
    <2>5. \A q \in Server!Procs : fds'[q] = IF q = p THEN {connfd} ELSE fds[q]
      BY <2>1, <2>3 DEF Server!Procs
    <2>6. BacklogInv'
      BY <2>2, <2>3, <2>5 DEF BacklogInv, Server!Closed, Server!Procs
    <2>7. WorkInv'
      BY <2>2, <2>4 DEF WorkInv
    <2>8. Server!DescriptorsExact'
      <3>1. \A q \in Pids : q \in Server!Procs
        BY DEF Server!Procs
      <3>2. (\A q \in Pids : fds[q] = IF Server!Running(q) THEN {sockfd[q]} ELSE {})'
        BY <2>4, <2>5, <3>1 DEF Server!DescriptorsExact
      <3>3. fds'[Parent] = {connfd'}
        BY <2>2, <2>3, <2>5 DEF Server!Procs
      <3>4. (\A q, r \in Pids : Server!Running(q) /\ Server!Running(r) /\ sockfd[q] = sockfd[r] => q = r)'
        BY <2>2, <2>4 DEF Server!DescriptorsExact, ForkInv
      <3> QED
        BY <2>2, <3>2, <3>3, <3>4 DEF Server!DescriptorsExact
    <2> QED
      BY <2>2, <2>6, <2>7, <2>8 DEF ForkInv
  <1>6. CASE Server!ParentCloses
    <2>1. /\ parent = "close" /\ parent' = "accept" /\ UNCHANGED <<backlog, child, sockfd>>
          /\ fds' = [fds EXCEPT ![Parent] = @ \ {connfd}]
      BY <1>6 DEF Server!ParentCloses, Server!Main
    <2>2. \A q \in Server!Procs : fds'[q] = IF q = Parent THEN {} ELSE fds[q]
      BY <2>1 DEF Server!Procs, Server!DescriptorsExact
    <2>3. BacklogInv'
      BY <2>1, <2>2 DEF BacklogInv, Server!Closed
    <2>4. Server!DescriptorsExact'
      BY <2>1, <2>2, ForkAssumption DEF Server!DescriptorsExact, Server!Running, Server!Procs, Server!ServerAssumption
    <2> QED
      BY <2>1, <2>3, <2>4 DEF WorkInv, ForkInv, Server!Running
  <1>7. ASSUME NEW p \in Pids, Server!Reap(p) PROVE Goal
    <2>1. UNCHANGED <<backlog, connfd, sockfd, fds, parent>>
      BY <1>7 DEF Server!Reap
    <2>2. \A q \in Pids : Server!Running(q)' <=> Server!Running(q)
      BY <1>7 DEF Server!Reap, Server!Running
    <2> QED
      BY <2>1, <2>2, QuietStep
  <1>8. ASSUME NEW p \in Pids, Server!ReadData(p) \/ Server!WriteBack(p) \/ Server!WriteFails(p) PROVE Goal
    <2>1. UNCHANGED <<backlog, connfd, sockfd, fds, parent>>
      BY <1>8 DEF Server!ReadData, Server!WriteBack, Server!WriteFails
    <2>2. \A q \in Pids : Server!Running(q)' <=> Server!Running(q)
      BY <1>8 DEF Server!ReadData, Server!WriteBack, Server!WriteFails, Server!Running
    <2> QED
      BY <2>1, <2>2, QuietStep
  <1>9. ASSUME NEW p \in Pids, Server!ChildExits(p) \/ Server!ChildKilled(p) PROVE Goal
    <2>1. Server!Ends(p)
      BY <1>9 DEF Server!ChildExits, Server!ChildKilled
    <2> QED
      BY <2>1, EndsStep
  <1>10. CASE UNCHANGED Server!vars
    BY <1>10, QuietStep DEF Server!vars, Server!Running
  <1> QED
    BY <1>1, <1>2, <1>3, <1>4, <1>5, <1>6, <1>7, <1>8, <1>9, <1>10
       DEF Server!Next, Server!main, Server!sig_child_handler, Server!str_echo

\* The signal is raised with each zombie, and cleared only when the handler starts,
\* whose loop ends only when there is no zombie.
LEMMA ZombieStep ==
  ASSUME IInv, [Server!Next]_(Server!vars)
  PROVE  Server!NoZombieForgotten'
  <1> USE DEF IInv, TypeOK, Server!NoZombieForgotten, Server!Up, Server!network, Server!server, Server!children
  <1>1. ASSUME NEW c \in Clients, Server!Connect(c) \/ Server!Send(c) \/ Server!Leave(c) PROVE Server!NoZombieForgotten'
    BY <1>1 DEF Server!Connect, Server!Send, Server!Leave
  <1>2. CASE Server!Accept \/ Server!ForkFails \/ Server!ParentCloses \/ Server!Interrupted \/ Server!AcceptError
    BY <1>2 DEF Server!Accept, Server!ForkFails, Server!ParentCloses, Server!Interrupted, Server!AcceptError, Server!Main
  <1>3. CASE Server!ForkChild
    <2>1. \A p \in Pids : child'[p] = "zombie" => child[p] = "zombie"
      BY <1>3 DEF Server!ForkChild
    <2> QED
      BY <1>3, <2>1 DEF Server!ForkChild, Server!Main
  <1>4. CASE Server!Deliver \/ Server!HandlerReturns
    BY <1>4 DEF Server!Deliver, Server!HandlerReturns, Server!NoneLeft
  <1>5. ASSUME NEW p \in Pids, Server!Reap(p) PROVE Server!NoZombieForgotten'
    BY <1>5 DEF Server!Reap
  <1>6. ASSUME NEW p \in Pids, Server!ReadData(p) \/ Server!WriteBack(p) \/ Server!WriteFails(p) PROVE Server!NoZombieForgotten'
    <2>1. \A q \in Pids : child'[q] = "zombie" => child[q] = "zombie"
      BY <1>6 DEF Server!ReadData, Server!WriteBack, Server!WriteFails
    <2> QED
      BY <1>6, <2>1 DEF Server!ReadData, Server!WriteBack, Server!WriteFails
  <1>7. ASSUME NEW p \in Pids, Server!ChildExits(p) \/ Server!ChildKilled(p) PROVE Server!NoZombieForgotten'
    BY <1>7 DEF Server!ChildExits, Server!ChildKilled, Server!Ends
  <1>8. CASE UNCHANGED Server!vars
    BY <1>8 DEF Server!vars
  <1> QED
    BY <1>1, <1>2, <1>3, <1>4, <1>5, <1>6, <1>7, <1>8 DEF Server!Next, Server!main, Server!sig_child_handler, Server!str_echo

-----------------------------------------------------------------------------
(* The data *)

Writing(p) == child[p] = "write"

\* As a connection has one child, what is in hand of it is that child's n.
LEMMA InHandIs ==
  ASSUME NEW c, \A p, q \in Pids : Writing(p) /\ Writing(q) /\ sockfd[p] = c /\ sockfd[q] = c => p = q
  PROVE  /\ \A p \in Pids : Writing(p) /\ sockfd[p] = c => Server!InHand(c) = n[p]
         /\ (\A p \in Pids : ~(Writing(p) /\ sockfd[p] = c)) => Server!InHand(c) = 0
  <1> DEFINE P == {p \in Pids : child[p] = "write" /\ sockfd[p] = c}
  <1>1. ASSUME NEW p \in Pids, Writing(p), sockfd[p] = c PROVE Server!InHand(c) = n[p]
    <2>1. P = {p}
      BY <1>1 DEF Writing
    <2>2. (CHOOSE q \in P : TRUE) = p
      BY <2>1
    <2> QED
      BY <2>1, <2>2 DEF Server!InHand
  <1>2. ASSUME \A p \in Pids : ~(Writing(p) /\ sockfd[p] = c) PROVE Server!InHand(c) = 0
    <2>1. P = {}
      BY <1>2 DEF Writing
    <2> QED
      BY <2>1 DEF Server!InHand
  <1> QED
    BY <1>1, <1>2

\* The same after a step.
LEMMA InHandIsNext ==
  ASSUME NEW c, (\A p, q \in Pids : Writing(p) /\ Writing(q) /\ sockfd[p] = c /\ sockfd[q] = c => p = q)'
  PROVE  /\ \A p \in Pids : Writing(p)' /\ sockfd'[p] = c => Server!InHand(c)' = n'[p]
         /\ (\A p \in Pids : ~(Writing(p)' /\ sockfd'[p] = c)) => Server!InHand(c)' = 0
  <1> DEFINE P == {p \in Pids : child'[p] = "write" /\ sockfd'[p] = c}
  <1>1. ASSUME NEW p \in Pids, Writing(p)', sockfd'[p] = c PROVE Server!InHand(c)' = n'[p]
    <2>1. P = {p}
      BY <1>1 DEF Writing
    <2>2. (CHOOSE q \in P : TRUE) = p
      BY <2>1
    <2> QED
      BY <2>1, <2>2 DEF Server!InHand
  <1>2. ASSUME \A p \in Pids : ~(Writing(p)' /\ sockfd'[p] = c) PROVE Server!InHand(c)' = 0
    <2>1. P = {}
      BY <1>2 DEF Writing
    <2> QED
      BY <2>1 DEF Server!InHand
  <1> QED
    BY <1>1, <1>2

LEMMA EchoStep ==
  ASSUME IInv, [Server!Next]_(Server!vars), TypeOK', Server!DescriptorsExact'
  PROVE  Server!EchoExact'
  <1> DEFINE Exact(c) == /\ echoed[c] + Server!InHand(c) + unread[c] <= sent[c]
                         /\ net[c] # "rst" => echoed[c] + Server!InHand(c) + unread[c] = sent[c]
  <1> SUFFICES ASSUME NEW c \in Clients PROVE Exact(c)'
    BY DEF Server!EchoExact
  <1>a. \A p, q \in Pids : Writing(p) /\ Writing(q) /\ sockfd[p] = c /\ sockfd[q] = c => p = q
    BY DEF IInv, Server!DescriptorsExact, Server!Running, Writing
  <1>b. (\A p, q \in Pids : Writing(p) /\ Writing(q) /\ sockfd[p] = c /\ sockfd[q] = c => p = q)'
    BY DEF Server!DescriptorsExact, Server!Running, Writing
  <1>c. /\ \A p \in Pids : Writing(p) /\ sockfd[p] = c => Server!InHand(c) = n[p]
        /\ (\A p \in Pids : ~(Writing(p) /\ sockfd[p] = c)) => Server!InHand(c) = 0
    BY <1>a, InHandIs
  <1>d. /\ \A p \in Pids : Writing(p)' /\ sockfd'[p] = c => Server!InHand(c)' = n'[p]
        /\ (\A p \in Pids : ~(Writing(p)' /\ sockfd'[p] = c)) => Server!InHand(c)' = 0
    BY <1>b, InHandIsNext
  <1> DEFINE Kept == \A p \in Pids : /\ Writing(p)' /\ sockfd'[p] = c <=> Writing(p) /\ sockfd[p] = c
                                     /\ Writing(p) /\ sockfd[p] = c => n'[p] = n[p]
  <1>k. Kept => Server!InHand(c)' = Server!InHand(c)
    BY <1>c, <1>d
  <1> HIDE DEF Kept
  <1>e. /\ Exact(c)
        /\ Server!InHand(c) \in Nat /\ echoed[c] \in Nat /\ unread[c] \in Nat /\ sent[c] \in Nat
    <2>1. Exact(c)
      BY DEF IInv, Server!EchoExact
    <2>2. \A p \in Pids : n[p] \in Nat
      BY DEF IInv, TypeOK
    <2>3. Server!InHand(c) \in Nat
      BY <1>c, <2>2
    <2> QED
      BY <2>1, <2>3 DEF IInv, TypeOK
  <1> USE DEF IInv, TypeOK, Server!network, Server!server, Server!children
  <1>1. ASSUME NEW d \in Clients, Server!Connect(d) PROVE Exact(c)'
    <2>1. UNCHANGED <<Server!children, fds>>
      BY <1>1 DEF Server!Connect
    <2>2. Server!InHand(c)' = Server!InHand(c)
      BY <1>k, <2>1 DEF Kept, Writing
    <2>3. CASE c = d
      <3>1. \A p \in Pids : ~(Writing(p) /\ sockfd[p] = c)
        BY <1>1, <2>3 DEF Server!Connect, Server!Closed, Server!DescriptorsExact, Server!Running, Writing, Server!Procs
      <3> QED
        BY <1>1, <1>c, <2>2, <2>3, <3>1 DEF Server!Connect
    <2>4. CASE c # d
      BY <1>1, <1>e, <2>2, <2>4 DEF Server!Connect
    <2> QED
      BY <2>3, <2>4
  <1>2. ASSUME NEW d \in Clients, Server!Send(d) \/ Server!Leave(d) PROVE Exact(c)'
    <2>1. UNCHANGED <<Server!children, fds>>
      BY <1>2 DEF Server!Send, Server!Leave
    <2>2. Server!InHand(c)' = Server!InHand(c)
      BY <1>k, <2>1 DEF Kept, Writing
    <2>3. CASE Server!Send(d)
      <3>1. /\ UNCHANGED <<net, echoed>>
            /\ sent'[c] = IF c = d THEN sent[c] + 1 ELSE sent[c]
            /\ unread'[c] = IF c = d THEN unread[c] + 1 ELSE unread[c]
        BY <2>3 DEF Server!Send
      <3>2. CASE c = d
        BY <1>e, <2>2, <3>1, <3>2
      <3>3. CASE c # d
        BY <1>e, <2>2, <3>1, <3>3
      <3> QED
        BY <3>2, <3>3
    <2>4. CASE Server!Leave(d)
      <3>1. UNCHANGED <<echoed, sent>>
        BY <2>4 DEF Server!Leave
      <3>2. \/ net'[c] # "rst" /\ net[c] # "rst" /\ unread'[c] = unread[c]
            \/ net'[c] = net[c] /\ unread'[c] = unread[c]
            \/ net'[c] = "rst" /\ unread'[c] \in {0, unread[c]}
        BY <2>4 DEF Server!Leave
      <3> QED
        BY <1>e, <2>2, <3>1, <3>2
    <2> QED
      BY <1>2, <2>3, <2>4
  <1>3. CASE Server!Accept \/ Server!AcceptError \/ Server!Interrupted \/ Server!ForkFails \/ Server!ParentCloses \/ Server!Deliver \/ Server!HandlerReturns
    <2>1. UNCHANGED <<net, sent, unread, echoed, child, sockfd, n>>
      BY <1>3 DEF Server!Accept, Server!AcceptError, Server!Interrupted, Server!ForkFails, Server!ParentCloses, Server!Deliver, Server!HandlerReturns
    <2>2. Server!InHand(c)' = Server!InHand(c)
      BY <1>k, <2>1 DEF Kept, Writing
    <2> QED
      BY <1>e, <2>1, <2>2
  <1>4. CASE Server!ForkChild
    <2>1. UNCHANGED <<net, sent, unread, echoed, n>>
      BY <1>4 DEF Server!ForkChild
    <2>2. Kept
      BY <1>4 DEF Server!ForkChild, Kept, Writing
    <2> QED
      BY <1>e, <1>k, <2>1, <2>2
  <1>5. ASSUME NEW p \in Pids, Server!Reap(p) PROVE Exact(c)'
    <2>1. UNCHANGED <<net, sent, unread, echoed, n, sockfd>>
      BY <1>5 DEF Server!Reap
    <2>2. Kept
      BY <1>5 DEF Server!Reap, Kept, Writing
    <2> QED
      BY <1>e, <1>k, <2>1, <2>2
  <1>6. ASSUME NEW p \in Pids, Server!ReadData(p) PROVE Exact(c)'
    <2>1. /\ UNCHANGED <<net, sent, echoed, sockfd>>
          /\ child[p] = "read" /\ child' = [child EXCEPT ![p] = "write"]
      BY <1>6 DEF Server!ReadData
    <2>2. PICK k \in 1..unread[sockfd[p]] : /\ n' = [n EXCEPT ![p] = k]
                                            /\ unread' = [unread EXCEPT ![sockfd[p]] = @ - k]
      BY <1>6 DEF Server!ReadData
    <2>3. CASE sockfd[p] = c
      <3>1. Server!InHand(c) = 0
        BY <1>c, <2>1, <2>3 DEF Server!DescriptorsExact, Server!Running, Writing
      <3>2. Server!InHand(c)' = k
        BY <1>d, <2>1, <2>2, <2>3 DEF Writing
      <3> QED
        BY <1>e, <2>1, <2>2, <2>3, <3>1, <3>2
    <2>4. CASE sockfd[p] # c
      <3>1. Kept
        BY <2>1, <2>2, <2>4 DEF Kept, Writing
      <3>2. unread'[c] = unread[c]
        BY <2>2, <2>4
      <3> QED
        BY <1>e, <1>k, <2>1, <3>1, <3>2
    <2> QED
      BY <2>3, <2>4
  <1>7. ASSUME NEW p \in Pids, Server!WriteBack(p) \/ Server!WriteFails(p) \/ Server!ChildKilled(p) PROVE Exact(c)'
    <2>1. /\ UNCHANGED <<net, sent, unread>>
          /\ child[p] = "write" /\ child'[p] # "write"
          /\ \A q \in Pids : q # p => child'[q] = child[q] /\ n'[q] = n[q] /\ sockfd'[q] = sockfd[q]
          /\ ~Server!WriteBack(p) => net[sockfd[p]] = "rst"
      BY <1>7 DEF Server!WriteBack, Server!WriteFails, Server!ChildKilled, Server!Ends
    <2>2. CASE sockfd[p] = c
      <3>1. Server!InHand(c) = n[p] /\ Server!InHand(c)' = 0
        BY <1>a, <1>c, <1>d, <2>1, <2>2 DEF Writing
      <3>2. CASE Server!WriteBack(p)
        BY <1>e, <2>1, <2>2, <3>1, <3>2 DEF Server!WriteBack
      <3>3. CASE Server!WriteFails(p) \/ Server!ChildKilled(p)
        <4>1. echoed' = echoed /\ net[c] = "rst"
          BY <2>2, <3>3 DEF Server!WriteFails, Server!ChildKilled, Server!Ends
        <4> QED
          BY <1>e, <2>1, <3>1, <4>1
      <3> QED
        BY <1>7, <3>2, <3>3
    <2>3. CASE sockfd[p] # c
      <3>1. Kept
        BY <2>1, <2>3 DEF Kept, Writing
      <3>2. echoed'[c] = echoed[c]
        BY <1>7, <2>3 DEF Server!WriteBack, Server!WriteFails, Server!ChildKilled, Server!Ends
      <3> QED
        BY <1>e, <1>k, <2>1, <3>1, <3>2
    <2> QED
      BY <2>2, <2>3
  <1>8. ASSUME NEW p \in Pids, Server!ChildExits(p) PROVE Exact(c)'
    <2>1. UNCHANGED Server!network
      BY <1>8 DEF Server!ChildExits, Server!Ends
    <2>2. Kept
      BY <1>8 DEF Server!ChildExits, Server!Ends, Kept, Writing
    <2> QED
      BY <1>e, <1>k, <2>1, <2>2
  <1>9. CASE UNCHANGED Server!vars
    <2>1. UNCHANGED <<Server!network, Server!children>>
      BY <1>9 DEF Server!vars
    <2>2. Kept
      BY <2>1 DEF Kept, Writing
    <2> QED
      BY <1>e, <1>k, <2>1, <2>2
  <1> QED
    BY <1>1, <1>2, <1>3, <1>4, <1>5, <1>6, <1>7, <1>8, <1>9 DEF Server!Next, Server!main, Server!sig_child_handler, Server!str_echo

-----------------------------------------------------------------------------
(* The theorems *)

LEMMA StepIInv == ASSUME IInv, [Server!Next]_(Server!vars) PROVE IInv'
  BY TypeStep, DescriptorStep, ZombieStep, EchoStep DEF IInv

THEOREM Invariance == AllSpec => []IInv
  <1>1. AllInit => IInv
    BY InitIInv DEF AllInit
  <1>2. [AllNext]_allvars => [Server!Next]_(Server!vars)
    BY DEF AllNext, allvars, server, Server!vars, Server!network, Server!server, Server!children
  <1>3. IInv /\ [AllNext]_allvars => IInv'
    BY <1>2, StepIInv
  <1> QED
    BY <1>1, <1>3, PTL DEF AllSpec

\* No child is left a zombie for good: while the server is up its SIGCHLD is pending, or
\* the handler is in its loop.  Each connection has one child, and a descriptor where it
\* is used and nowhere else.
THEOREM ChildrenAreExact == AllSpec => []ChildrenExact
  <1>1. IInv => ChildrenExact
    BY DEF IInv, ChildrenExact
  <1> QED
    BY <1>1, Invariance, PTL

\* What a child echoed, has in hand and has not read adds up to what its client sent.
THEOREM ChildrenEchoExactly == AllSpec => []ChildrenEcho
  <1>1. IInv => ChildrenEcho
    BY DEF IInv, ChildrenEcho
  <1> QED
    BY <1>1, Invariance, PTL

-----------------------------------------------------------------------------
(* The children as an echo service *)

\* A client that no child serves yet has connected, and nothing has been echoed to it.
FreshInv == \A c \in Clients : Server!Waiting(c) \/ (parent = "fork" /\ connfd = c) =>
              echoed[c] = 0 /\ net[c] # "none"

Held(c) == Server!Waiting(c) \/ (parent = "fork" /\ connfd = c) \/ Server!Taken(c)

LEMMA PhaseIs == \A c : /\ ~Held(c) => Server!Phase(c) = IF net[c] = "open" THEN "refused" ELSE "closed"
                        /\ Held(c) => Server!Phase(c) = IF net[c] = "fin" THEN "finished"
                                                        ELSE IF net[c] = "rst" THEN "failed" ELSE "open"
  BY DEF Held, Server!Phase

LEMMA PhaseNext == \A c : /\ ~Held(c)' => Server!Phase(c)' = IF net'[c] = "open" THEN "refused" ELSE "closed"
                          /\ Held(c)' => Server!Phase(c)' = IF net'[c] = "fin" THEN "finished"
                                                            ELSE IF net'[c] = "rst" THEN "failed" ELSE "open"
  BY DEF Held, Server!Phase

\* What a service sees of a connection depends on these.
LEMMA SameService ==
  ASSUME NEW c, Held(c)' <=> Held(c), net'[c] = net[c] PROVE Server!Phase(c)' = Server!Phase(c)
  BY PhaseIs, PhaseNext

LEMMA TakenSame ==
  ASSUME NEW c, \A p \in Pids : Server!Running(p)' /\ sockfd'[p] = c <=> Server!Running(p) /\ sockfd[p] = c
  PROVE  Server!Taken(c)' = Server!Taken(c)
  BY DEF Server!Taken

\* A connection is held by the backlog, by main or by one child.
LEMMA HeldOnce ==
  ASSUME IInv
  PROVE  /\ \A c \in Clients : Server!Closed(c) /\ ~Server!Waiting(c) => ~Held(c)
         /\ \A p \in Pids : Server!Running(p) =>
              /\ ~Server!Waiting(sockfd[p]) /\ ~(parent = "fork" /\ connfd = sockfd[p])
              /\ \A q \in Pids : Server!Running(q) /\ sockfd[q] = sockfd[p] => q = p
         /\ parent = "fork" => ~Server!Waiting(connfd) /\ ~Server!Taken(connfd)
  <1> USE DEF IInv
  <1>1. \A p \in Pids : Server!Running(p) => sockfd[p] \in fds[p]
    BY DEF Server!DescriptorsExact
  <1>2. parent = "fork" => connfd \in fds[Parent]
    BY DEF Server!DescriptorsExact
  <1>3. \A c : Server!Waiting(c) => Server!Closed(c)
    BY DEF Server!Waiting, BacklogInv
  <1>4. \A c \in Clients : Server!Closed(c) /\ ~Server!Waiting(c) => ~Held(c)
    BY <1>1, <1>2 DEF Held, Server!Closed, Server!Procs, Server!Taken
  <1>5. \A p \in Pids : Server!Running(p) => ~Server!Waiting(sockfd[p])
    BY <1>1, <1>3 DEF Server!Closed, Server!Procs
  <1>6. parent = "fork" => ~Server!Waiting(connfd)
    BY <1>2, <1>3 DEF Server!Closed, Server!Procs
  <1>7. \A p \in Pids : Server!Running(p) => ~(parent = "fork" /\ connfd = sockfd[p])
    BY DEF ForkInv
  <1>8. parent = "fork" => ~Server!Taken(connfd)
    BY DEF ForkInv, Server!Taken
  <1>9. \A p, q \in Pids : Server!Running(p) /\ Server!Running(q) /\ sockfd[q] = sockfd[p] => q = p
    BY DEF Server!DescriptorsExact
  <1> QED
    BY <1>4, <1>5, <1>6, <1>7, <1>8, <1>9

LEMMA ServesInit == Server!Init => Server!Service!Init /\ FreshInv
  <1> SUFFICES ASSUME Server!Init PROVE Server!Service!Init /\ FreshInv
    OBVIOUS
  <1>1. \A c \in Clients : ~Held(c) /\ Server!Taken(c) = FALSE
    BY DEF Server!Init, Held, Server!Waiting, Server!Taken, Server!Running
  <1>2. \A c \in Clients : Server!Phase(c) = "closed"
    BY <1>1, PhaseIs DEF Server!Init
  <1>3. FreshInv
    BY DEF FreshInv, Server!Init, Server!Waiting
  <1> QED
    BY <1>1, <1>2, <1>3 DEF Server!Init, Server!Service!Init

\* What a service sees of a step that concerns the connection d only.
LEMMA ServesOne ==
  ASSUME NEW d \in Clients,
         \A c \in Clients \ {d} : Server!Phase(c)' = Server!Phase(c) /\ Server!Taken(c)' = Server!Taken(c)
  PROVE  /\ [c \in Clients |-> Server!Phase(c)]' = [[c \in Clients |-> Server!Phase(c)] EXCEPT ![d] = Server!Phase(d)']
         /\ [c \in Clients |-> Server!Taken(c)]' = [[c \in Clients |-> Server!Taken(c)] EXCEPT ![d] = Server!Taken(d)']
  OBVIOUS

\* A step that leaves the connections, and who holds them, alone.
LEMMA ServesQuiet ==
  ASSUME UNCHANGED <<net, sent, echoed>>,
         \A c \in Clients : (Held(c)' <=> Held(c)) /\ Server!Taken(c)' = Server!Taken(c)
  PROVE  UNCHANGED Server!Service!vars
  <1>1. \A c \in Clients : Server!Phase(c)' = Server!Phase(c)
    BY SameService
  <1> QED
    BY <1>1 DEF Server!Service!vars

\* The steps of main and of the handler that touch no connection.
LEMMA ServesIdle ==
  ASSUME UNCHANGED <<net, backlog, sent, echoed, child, sockfd>>,
         connfd' = connfd \/ parent # "fork", parent' = "fork" <=> parent = "fork"
  PROVE  UNCHANGED Server!Service!vars /\ (FreshInv => FreshInv')
  <1>1. \A c \in Clients : Server!Waiting(c)' = Server!Waiting(c)
    BY DEF Server!Waiting
  <1>2. \A c \in Clients : Server!Taken(c)' = Server!Taken(c)
    BY DEF Server!Taken, Server!Running
  <1>3. \A c \in Clients : Held(c)' <=> Held(c)
    BY <1>1, <1>2 DEF Held
  <1>4. FreshInv => FreshInv'
    BY <1>1 DEF FreshInv
  <1> QED
    BY <1>2, <1>3, <1>4, ServesQuiet

LEMMA ServesClients ==
  ASSUME IInv, FreshInv, NEW d \in Clients, Server!Connect(d) \/ Server!Send(d) \/ Server!Leave(d)
  PROVE  [Server!Service!Next]_(Server!Service!vars) /\ FreshInv'
  <1> DEFINE Goal == [Server!Service!Next]_(Server!Service!vars) /\ FreshInv'
  <1> USE DEF IInv, TypeOK
  <1>1. UNCHANGED <<parent, connfd, child, sockfd, fds>> /\ \A c \in Clients \ {d} : net'[c] = net[c]
    BY DEF Server!Connect, Server!Send, Server!Leave, Server!server, Server!children
  <1>2. \A c \in Clients : Server!Taken(c)' = Server!Taken(c)
    BY <1>1 DEF Server!Taken, Server!Running
  <1>3. ASSUME \A c \in Clients \ {d} : Held(c)' <=> Held(c)
        PROVE  /\ [c \in Clients |-> Server!Phase(c)]' = [[c \in Clients |-> Server!Phase(c)] EXCEPT ![d] = Server!Phase(d)']
               /\ [c \in Clients |-> Server!Taken(c)]' = [c \in Clients |-> Server!Taken(c)]
    <2>1. \A c \in Clients \ {d} : Server!Phase(c)' = Server!Phase(c)
      BY <1>1, <1>3, SameService
    <2> QED
      BY <1>2, <2>1, ServesOne
  <1>4. ASSUME backlog' = backlog
        PROVE  /\ \A c \in Clients : Server!Waiting(c)' = Server!Waiting(c)
               /\ \A c \in Clients : Held(c)' <=> Held(c)
    <2>1. \A c \in Clients : Server!Waiting(c)' = Server!Waiting(c)
      BY <1>4 DEF Server!Waiting
    <2> QED
      BY <1>1, <1>2, <2>1 DEF Held
  <1>5. CASE Server!Connect(d)
    <2>1. /\ ~Held(d) /\ net[d] # "open" /\ net'[d] = "open"
          /\ sent' = [sent EXCEPT ![d] = 0] /\ echoed' = [echoed EXCEPT ![d] = 0]
          /\ backlog' = Append(backlog, d)
      BY <1>5, HeldOnce DEF Server!Connect
    <2>2. \A c \in Clients : Server!Waiting(c)' <=> Server!Waiting(c) \/ c = d
      <3>1. /\ DOMAIN backlog' = 1..(Len(backlog) + 1) /\ DOMAIN backlog = 1..Len(backlog)
            /\ \A k \in 1..Len(backlog) : backlog'[k] = backlog[k]
            /\ backlog'[Len(backlog) + 1] = d
            /\ Len(backlog) \in Nat
        BY <2>1, AppendProperties, LenProperties
      <3>2. \A k \in 1..(Len(backlog) + 1) : k \in 1..Len(backlog) \/ k = Len(backlog) + 1
        BY <3>1
      <3>3. Len(backlog) + 1 \in DOMAIN backlog' /\ \A k \in DOMAIN backlog : k \in DOMAIN backlog'
        BY <3>1
      <3> QED
        BY <3>1, <3>2, <3>3 DEF Server!Waiting
    <2>3. (\A c \in Clients \ {d} : Held(c)' <=> Held(c)) /\ Held(d)'
      BY <1>1, <1>2, <2>2 DEF Held
    <2>4. Server!Phase(d) = "closed" /\ Server!Phase(d)' = "open"
      BY <2>1, <2>3, PhaseIs, PhaseNext
    <2>5. Server!Service!Connect(d)
      BY <1>3, <2>1, <2>3, <2>4 DEF Server!Service!Connect, Server!Service!Turns
    <2>6. FreshInv'
      BY <1>1, <2>1, <2>2 DEF FreshInv
    <2> QED
      BY <2>5, <2>6 DEF Server!Service!Next
  <1>6. CASE Server!Send(d)
    <2>1. UNCHANGED <<net, backlog, echoed>> /\ net[d] = "open" /\ sent' = [sent EXCEPT ![d] = @ + 1]
      BY <1>6 DEF Server!Send
    <2>2. \A c \in Clients : (Held(c)' <=> Held(c)) /\ Server!Phase(c)' = Server!Phase(c)
      BY <1>4, <2>1, SameService
    <2>3. Server!Phase(d) \in {"open", "refused"}
      BY <2>1, PhaseIs
    <2>4. Server!Service!Send(d)
      BY <1>2, <2>1, <2>2, <2>3 DEF Server!Service!Send
    <2>5. FreshInv'
      BY <1>1, <1>4, <2>1 DEF FreshInv
    <2> QED
      BY <2>4, <2>5 DEF Server!Service!Next
  <1>7. CASE Server!Leave(d)
    <2>1. /\ UNCHANGED <<backlog, sent, echoed>>
          /\ \/ net[d] = "open" /\ net'[d] \in {"fin", "rst"}
             \/ net[d] = "fin" /\ net'[d] = "rst"
      BY <1>7 DEF Server!Leave
    <2>2. \A c \in Clients : Held(c)' <=> Held(c)
      BY <1>4, <2>1
    <2>3. FreshInv'
      BY <1>1, <1>4, <2>1 DEF FreshInv
    <2>4. \/ Server!Phase(d) = "open" /\ Server!Phase(d)' = "finished"
          \/ Server!Phase(d) \in {"open", "finished"} /\ Server!Phase(d)' = "failed"
          \/ Server!Phase(d) = "refused" /\ Server!Phase(d)' = "closed"
          \/ Server!Phase(d)' = Server!Phase(d)
      BY <2>1, <2>2, PhaseIs, PhaseNext
    <2>5. Server!Service!Leave(d) \/ UNCHANGED Server!Service!vars
      BY <1>3, <2>1, <2>2, <2>4 DEF Server!Service!Leave, Server!Service!Turns, Server!Service!vars
    <2> QED
      BY <2>3, <2>5 DEF Server!Service!Next
  <1> QED
    BY <1>5, <1>6, <1>7

\* main takes a connection from the backlog in its own hands.
LEMMA ServesAccept ==
  ASSUME IInv, FreshInv, Server!Accept
  PROVE  UNCHANGED Server!Service!vars /\ FreshInv'
  <1> USE DEF IInv, TypeOK, Server!network, Server!children
  <1>1. PICK d \in Clients : d = Head(backlog)
    BY EmptySeq, HeadTailProperties DEF Server!Accept
  <1>2. /\ parent = "accept" /\ parent' = "fork" /\ connfd' = d /\ backlog' = Tail(backlog)
        /\ UNCHANGED <<net, sent, echoed, child, sockfd>>
    BY <1>1 DEF Server!Accept, Server!Main
  <1>3. /\ DOMAIN backlog = 1..Len(backlog)
        /\ DOMAIN backlog' = 1..(Len(backlog) - 1)
        /\ \A k \in 1..(Len(backlog) - 1) : backlog'[k] = backlog[k + 1]
        /\ Len(backlog) \in Nat /\ Len(backlog) > 0
        /\ d = backlog[1]
    BY <1>1, <1>2, HeadTailProperties, LenProperties, EmptySeq DEF Server!Accept
  <1>4. \A c \in Clients \ {d} : Server!Waiting(c)' <=> Server!Waiting(c)
    <2> SUFFICES ASSUME NEW c \in Clients, c # d PROVE Server!Waiting(c)' <=> Server!Waiting(c)
      OBVIOUS
    <2>1. ASSUME Server!Waiting(c) PROVE Server!Waiting(c)'
      <3>1. PICK k \in 1..Len(backlog) : backlog[k] = c
        BY <1>3, <2>1 DEF Server!Waiting
      <3>2. k # 1
        BY <1>3, <3>1
      <3>3. k - 1 \in 1..(Len(backlog) - 1) /\ (k - 1) + 1 = k
        BY <1>3, <3>2
      <3>4. backlog'[k - 1] = c /\ k - 1 \in DOMAIN backlog'
        BY <1>3, <3>1, <3>3
      <3> QED
        BY <3>4 DEF Server!Waiting
    <2>2. ASSUME Server!Waiting(c)' PROVE Server!Waiting(c)
      <3>1. PICK k \in 1..(Len(backlog) - 1) : backlog'[k] = c
        BY <1>3, <2>2 DEF Server!Waiting
      <3>2. k + 1 \in DOMAIN backlog /\ backlog[k + 1] = c
        BY <1>3, <3>1
      <3> QED
        BY <3>2 DEF Server!Waiting
    <2> QED
      BY <2>1, <2>2
  <1>5. Server!Waiting(d)
    <2>1. 1 \in DOMAIN backlog
      BY <1>3
    <2> QED
      BY <1>3, <2>1 DEF Server!Waiting
  <1>6. \A c \in Clients : Server!Taken(c)' = Server!Taken(c)
    BY <1>2 DEF Server!Taken, Server!Running
  <1>7. \A c \in Clients : Held(c)' <=> Held(c)
    BY <1>2, <1>4, <1>5, <1>6 DEF Held
  <1>8. FreshInv'
    <2> SUFFICES ASSUME NEW c \in Clients, Server!Waiting(c)' \/ c = d PROVE echoed'[c] = 0 /\ net'[c] # "none"
      BY <1>2 DEF FreshInv
    <2> QED
      BY <1>2, <1>4, <1>5 DEF FreshInv
  <1> QED
    BY <1>2, <1>6, <1>7, <1>8, ServesQuiet

\* A child takes the connection from main; if there is none, nobody does.
LEMMA ServesFork ==
  ASSUME IInv, FreshInv, Server!ForkChild \/ Server!ForkFails
  PROVE  [Server!Service!Next]_(Server!Service!vars) /\ FreshInv'
  <1> USE DEF IInv, TypeOK, Server!network, Server!children
  <1>0. PICK d \in Clients : d = connfd
    BY DEF Server!ForkChild, Server!ForkFails, Server!Main, WorkInv
  <1>1. /\ parent = "fork" /\ parent' = "close" /\ UNCHANGED <<net, backlog, sent, echoed, connfd>>
        /\ echoed[d] = 0 /\ net[d] # "none"
    BY <1>0 DEF Server!ForkChild, Server!ForkFails, Server!Main, FreshInv
  <1>2. \A c \in Clients : Server!Waiting(c)' = Server!Waiting(c)
    BY <1>1 DEF Server!Waiting
  <1>3. FreshInv'
    BY <1>1, <1>2 DEF FreshInv
  <1>4. Held(d) /\ ~Server!Waiting(d) /\ Server!Taken(d) = FALSE
    BY <1>0, <1>1, HeldOnce DEF Held, Server!Taken
  <1>5. ASSUME \A c \in Clients \ {d} : Server!Taken(c)' = Server!Taken(c)
        PROVE  /\ [c \in Clients |-> Server!Phase(c)]' = [[c \in Clients |-> Server!Phase(c)] EXCEPT ![d] = Server!Phase(d)']
               /\ [c \in Clients |-> Server!Taken(c)]' = [[c \in Clients |-> Server!Taken(c)] EXCEPT ![d] = Server!Taken(d)']
    <2>1. \A c \in Clients \ {d} : Held(c)' <=> Held(c)
      BY <1>0, <1>1, <1>2, <1>5 DEF Held
    <2>2. \A c \in Clients \ {d} : Server!Phase(c)' = Server!Phase(c)
      BY <1>1, <2>1, SameService
    <2> QED
      BY <1>5, <2>2, ServesOne
  <1>6. CASE Server!ForkChild
    <2>1. PICK p \in Pids : /\ child[p] = "none"
                            /\ child' = [child EXCEPT ![p] = "read"]
                            /\ sockfd' = [sockfd EXCEPT ![p] = d]
      BY <1>0, <1>6 DEF Server!ForkChild
    <2>2. \A c \in Clients \ {d} : Server!Taken(c)' = Server!Taken(c)
      <3>1. \A c \in Clients \ {d} : \A q \in Pids :
              Server!Running(q)' /\ sockfd'[q] = c <=> Server!Running(q) /\ sockfd[q] = c
        BY <2>1 DEF Server!Running
      <3> QED
        BY <3>1, TakenSame
    <2>3. Server!Taken(d)' = TRUE
      BY <2>1 DEF Server!Taken, Server!Running
    <2>4. Held(d)'
      BY <2>3 DEF Held
    <2>5. Server!Phase(d)' = Server!Phase(d) /\ Server!Phase(d) \in {"open", "finished", "failed"}
      BY <1>1, <1>4, <2>4, PhaseIs, PhaseNext
    <2>6. Server!Service!Take(d)
      BY <1>1, <1>4, <1>5, <2>2, <2>3, <2>5 DEF Server!Service!Take
    <2> QED
      BY <1>3, <2>6 DEF Server!Service!Next
  <1>7. CASE Server!ForkFails
    <2>1. \A c \in Clients : Server!Taken(c)' = Server!Taken(c)
      BY <1>7 DEF Server!ForkFails, Server!Taken, Server!Running
    <2>2. ~Held(d)'
      BY <1>1, <1>2, <1>4, <2>1 DEF Held
    <2>3. \/ Server!Phase(d) = "open" /\ Server!Phase(d)' = "refused"
          \/ Server!Phase(d) \in {"finished", "failed"} /\ Server!Phase(d)' = "closed"
      BY <1>1, <1>4, <2>2, PhaseIs, PhaseNext
    <2>4. [c \in Clients |-> Server!Taken(c)]' = [c \in Clients |-> Server!Taken(c)]
      BY <2>1
    <2>5. Server!Service!Refuse(d)
      BY <1>1, <1>4, <1>5, <2>1, <2>3, <2>4 DEF Server!Service!Refuse, Server!Service!Turns
    <2> QED
      BY <1>3, <2>5 DEF Server!Service!Next
  <1> QED
    BY <1>6, <1>7

\* A child that goes on keeps its connection.
LEMMA ServesOn ==
  ASSUME IInv, FreshInv, NEW p \in Pids,
         Server!ReadData(p) \/ Server!WriteBack(p) \/ Server!WriteFails(p) \/ Server!Reap(p)
  PROVE  [Server!Service!Next]_(Server!Service!vars) /\ FreshInv'
  <1> USE DEF IInv, TypeOK, Server!network, Server!server
  <1>1. UNCHANGED <<net, backlog, sent, parent, connfd, sockfd>>
    BY DEF Server!ReadData, Server!WriteBack, Server!WriteFails, Server!Reap
  <1>2. \A q \in Pids : Server!Running(q)' <=> Server!Running(q)
    BY DEF Server!ReadData, Server!WriteBack, Server!WriteFails, Server!Reap, Server!Running
  <1>3. \A c \in Clients : Server!Waiting(c)' = Server!Waiting(c)
    BY <1>1 DEF Server!Waiting
  <1>4. \A c \in Clients : Server!Taken(c)' = Server!Taken(c)
    BY <1>1, <1>2, TakenSame
  <1>5. \A c \in Clients : Held(c)' <=> Held(c)
    BY <1>1, <1>3, <1>4 DEF Held
  <1>6. CASE echoed' = echoed
    <2>1. FreshInv'
      BY <1>1, <1>3, <1>6 DEF FreshInv
    <2> QED
      BY <1>1, <1>4, <1>5, <1>6, <2>1, ServesQuiet
  <1>7. CASE Server!WriteBack(p)
    <2>0. PICK d \in Clients : d = sockfd[p]
      BY <1>7 DEF WorkInv, Server!WriteBack, Server!Running
    <2>1. /\ Writing(p) /\ Server!Running(p) /\ net[d] # "rst"
          /\ echoed' = [echoed EXCEPT ![d] = @ + n[p]]
      BY <1>7, <2>0 DEF Server!WriteBack, Writing, Server!Running
    <2>2. Server!InHand(d) = n[p]
      <3>1. \A q, r \in Pids : Writing(q) /\ Writing(r) /\ sockfd[q] = d /\ sockfd[r] = d => q = r
        BY DEF Server!DescriptorsExact, Server!Running, Writing
      <3> QED
        BY <2>0, <2>1, <3>1, InHandIs
    <2>3. echoed[d] + n[p] + unread[d] = sent[d]
      BY <2>1, <2>2 DEF Server!EchoExact
    <2>4. Server!Taken(d) = TRUE
      BY <2>0, <2>1 DEF Server!Taken
    <2>5. Held(d) /\ ~Server!Waiting(d) /\ ~(parent = "fork" /\ connfd = d)
      BY <2>0, <2>1, <2>4, HeldOnce DEF Held
    <2>6. FreshInv'
      BY <1>1, <1>3, <2>1, <2>5 DEF FreshInv
    <2>7. Server!Phase(d) \in {"open", "finished"}
      BY <2>1, <2>5, PhaseIs
    <2>8. \A c \in Clients : Server!Phase(c)' = Server!Phase(c)
      BY <1>1, <1>5, SameService
    <2>9. CASE n[p] = 0
      <3>1. echoed' = echoed
        BY <2>1, <2>9
      <3> QED
        BY <1>6, <3>1
    <2>10. CASE n[p] # 0
      <3>1. n[p] \in 1..(sent[d] - echoed[d])
        BY <2>3, <2>10
      <3>2. Server!Service!Echo(d)
        BY <1>1, <1>4, <2>1, <2>4, <2>7, <2>8, <3>1 DEF Server!Service!Echo
      <3> QED
        BY <2>6, <3>2 DEF Server!Service!Next
    <2> QED
      BY <2>9, <2>10
  <1> QED
    BY <1>6, <1>7 DEF Server!ReadData, Server!WriteFails, Server!Reap

\* A child leaves its connection when it has failed, or when all has been echoed.
LEMMA ServesEnds ==
  ASSUME IInv, FreshInv, NEW p \in Pids, Server!ChildExits(p) \/ Server!ChildKilled(p)
  PROVE  (\E d \in Clients : Server!Service!Close(d)) /\ FreshInv'
  <1> USE DEF IInv, TypeOK, Server!network
  <1>0. PICK d \in Clients : d = sockfd[p]
    BY DEF WorkInv, Server!ChildExits, Server!ChildKilled, Server!Running
  <1>1. /\ UNCHANGED <<net, backlog, sent, echoed, parent, connfd>>
        /\ child' = [child EXCEPT ![p] = "zombie"] /\ sockfd' = [sockfd EXCEPT ![p] = None]
        /\ Server!Running(p) /\ net[d] \in {"fin", "rst"}
    BY <1>0 DEF Server!ChildExits, Server!ChildKilled, Server!Ends, Server!Running
  <1>2. net[d] = "fin" => echoed[d] = sent[d]
    <2>1. CASE Server!ChildExits(p)
      <3>1. \A q, r \in Pids : Writing(q) /\ Writing(r) /\ sockfd[q] = d /\ sockfd[r] = d => q = r
        BY DEF Server!DescriptorsExact, Server!Running, Writing
      <3>2. \A q \in Pids : ~(Writing(q) /\ sockfd[q] = d)
        BY <1>0, <1>1, <2>1 DEF Server!ChildExits, Server!DescriptorsExact, Server!Running, Writing
      <3>3. Server!InHand(d) = 0 /\ unread[d] = 0
        BY <1>0, <2>1, <3>1, <3>2, InHandIs DEF Server!ChildExits
      <3>4. net[d] # "rst" => echoed[d] + Server!InHand(d) + unread[d] = sent[d]
        BY DEF Server!EchoExact
      <3> QED
        BY <3>3, <3>4
    <2>2. CASE Server!ChildKilled(p)
      BY <1>0, <2>2 DEF Server!ChildKilled
    <2> QED
      BY <2>1, <2>2
  <1>3. \A c \in Clients : Server!Waiting(c)' = Server!Waiting(c)
    BY <1>1 DEF Server!Waiting
  <1>4. FreshInv'
    BY <1>1, <1>3 DEF FreshInv
  <1>5. Server!Taken(d) = TRUE /\ Held(d) /\ ~Server!Waiting(d) /\ ~(parent = "fork" /\ connfd = d)
    BY <1>0, <1>1, HeldOnce DEF Server!Taken, Held
  <1>6. Server!Taken(d)' = FALSE
    <2>1. \A q \in Pids : Server!Running(q)' => q # p /\ Server!Running(q) /\ sockfd'[q] = sockfd[q]
      BY <1>1 DEF Server!Running
    <2>2. \A q \in Pids : ~(Server!Running(q)' /\ sockfd'[q] = d)
      BY <1>0, <1>1, <2>1, HeldOnce
    <2> QED
      BY <2>2 DEF Server!Taken
  <1>7. \A c \in Clients \ {d} : Server!Taken(c)' = Server!Taken(c)
    <2>1. \A c \in Clients \ {d} : \A q \in Pids :
            Server!Running(q)' /\ sockfd'[q] = c <=> Server!Running(q) /\ sockfd[q] = c
      BY <1>0, <1>1, ForkAssumption DEF Server!Running, Server!ServerAssumption
    <2> QED
      BY <2>1, TakenSame
  <1>8. (\A c \in Clients \ {d} : Held(c)' <=> Held(c)) /\ ~Held(d)'
    BY <1>1, <1>3, <1>5, <1>6, <1>7 DEF Held
  <1>9. \A c \in Clients \ {d} : Server!Phase(c)' = Server!Phase(c)
    BY <1>1, <1>8, SameService
  <1>10. /\ Server!Phase(d) = "failed" \/ (Server!Phase(d) = "finished" /\ echoed[d] = sent[d])
         /\ Server!Phase(d)' = "closed"
    BY <1>1, <1>2, <1>5, <1>8, PhaseIs, PhaseNext
  <1>11. Server!Service!Close(d)
    BY <1>1, <1>5, <1>6, <1>7, <1>9, <1>10, ServesOne DEF Server!Service!Close, Server!Service!Turns
  <1> QED
    BY <1>4, <1>11

LEMMA ServesStep ==
  ASSUME IInv, FreshInv, [Server!Next]_(Server!vars)
  PROVE  [Server!Service!Next]_(Server!Service!vars) /\ FreshInv'
  <1> DEFINE Goal == [Server!Service!Next]_(Server!Service!vars) /\ FreshInv'
  <1>1. ASSUME NEW c \in Clients, Server!Connect(c) \/ Server!Send(c) \/ Server!Leave(c) PROVE Goal
    BY <1>1, ServesClients
  <1>2. CASE Server!Accept
    BY <1>2, ServesAccept
  <1>3. CASE Server!ForkChild \/ Server!ForkFails
    BY <1>3, ServesFork
  <1>4. CASE \/ Server!AcceptError \/ Server!Interrupted \/ Server!ParentCloses
             \/ Server!Deliver \/ Server!HandlerReturns \/ UNCHANGED Server!vars
    <2>1. UNCHANGED <<net, backlog, sent, echoed, child, sockfd>> /\ (connfd' = connfd \/ parent # "fork")
      BY <1>4 DEF Server!AcceptError, Server!Interrupted, Server!ParentCloses, Server!Deliver, Server!HandlerReturns,
                  Server!Main, Server!vars, Server!network, Server!server, Server!children
    <2>2. parent' = "fork" <=> parent = "fork"
      BY <1>4 DEF Server!AcceptError, Server!Interrupted, Server!ParentCloses, Server!Deliver, Server!HandlerReturns,
                  Server!Main, Server!vars, Server!server
    <2> QED
      BY <2>1, <2>2, ServesIdle
  <1>5. ASSUME NEW p \in Pids, Server!Reap(p) \/ Server!ReadData(p) \/ Server!WriteBack(p) \/ Server!WriteFails(p) PROVE Goal
    BY <1>5, ServesOn
  <1>6. ASSUME NEW p \in Pids, Server!ChildExits(p) \/ Server!ChildKilled(p) PROVE Goal
    BY <1>6, ServesEnds DEF Server!Service!Next
  <1> QED
    BY <1>1, <1>2, <1>3, <1>4, <1>5, <1>6
       DEF Server!Next, Server!main, Server!sig_child_handler, Server!str_echo

\* The parent and its children are an echo service: with any number of clients and of
\* processes, and whatever signals interrupt, each client gets back what it sent, once,
\* before its child leaves the connection.
THEOREM ChildrenImplementEcho == AllSpec => ChildrenServe
  <1>1. AllInit => Server!Service!Init /\ FreshInv
    BY ServesInit DEF AllInit
  <1>2. [AllNext]_allvars => [Server!Next]_(Server!vars)
    BY DEF AllNext, allvars, server, Server!vars, Server!network, Server!server, Server!children
  <1>3. IInv /\ FreshInv /\ [AllNext]_allvars => [Server!Service!Next]_(Server!Service!vars) /\ FreshInv'
    BY <1>2, ServesStep
  <1> QED
    BY <1>1, <1>3, Invariance, PTL DEF AllSpec, ChildrenServe, Server!Serves, Server!Service!Spec

-----------------------------------------------------------------------------
(* What the programs are made of *)

NoHandler == {"SIG_DFL", "SIG_IGN"}

\* the handlers a program installs
HandlersOf == [
  sleep1 |-> {<<"ALRM", "nop">>},
  sig_test4 |-> {<<"ALRM", "alarm_sig_handler3">>},
  sleep2_again |-> {<<"ALRM", "alarm_sig_handler3">>},
  sig_test5 |-> {<<"INT", "sig_int1">>, <<"ALRM", "alarm_sig_handler3">>},
  sig_test6 |-> {<<"ALRM", "alarm_sig_handler5">>},
  sig_child_test |-> {<<"CHLD", "sig_child_handler">>},
  sig_proc_mask_test1 |-> {<<"QUIT", "sig_quit_handler">>},
  sig_setjmp_test2 |-> {<<"USR1", "sig_usr1">>, <<"ALRM", "nop">>},
  sig_suspend_test1 |-> {<<"INT", "nop">>},
  sig_suspend_test2 |-> {<<"INT", "int_signal_handler2">>, <<"QUIT", "int_signal_handler2">>},
  tell_wait |-> {<<"USR1", "usr_signal_handler">>, <<"USR2", "usr_signal_handler">>},
  system_m1 |-> {},
  system_test1 |-> {<<"INT", "nop">>, <<"CHLD", "nop">>},
  system_waits |-> {<<"INT", "nop">>, <<"CHLD", "sig_child_handler">>},
  abort1 |-> {<<"ABRT", "nop">>},
  abnormal_terminal_test |-> {<<"INT", "sig_catch">>, <<"QUIT", "sig_catch">>, <<"TERM", "sig_catch">>},
  getpass_test |-> {}]

\* the signals that can reach its processes
PendingOf == [
  sleep1 |-> {"ALRM"}, sig_test4 |-> {"ALRM"}, sleep2_again |-> {"ALRM"}, sig_test5 |-> {"INT", "ALRM"},
  sig_test6 |-> {"ALRM"}, sig_child_test |-> {"CHLD"}, sig_proc_mask_test1 |-> {"QUIT"},
  sig_setjmp_test2 |-> {"USR1", "ALRM"}, sig_suspend_test1 |-> {"INT", "USR1"},
  sig_suspend_test2 |-> {"INT", "QUIT"}, tell_wait |-> {"USR1", "USR2", "CHLD"},
  system_m1 |-> {"INT", "QUIT", "CHLD"}, system_test1 |-> {"INT", "QUIT", "CHLD"},
  system_waits |-> {"INT", "QUIT", "CHLD"}, abort1 |-> {"INT", "ABRT"},
  abnormal_terminal_test |-> {"INT", "QUIT", "TSTP", "TERM"}, getpass_test |-> {"INT", "QUIT", "TSTP", "TERM"}]

\* what a child runs
Kid == [sig_child_test |-> "sleeper", tell_wait |-> "tell_wait_child",
        system_m1 |-> "system_child", system_test1 |-> "system_child", system_waits |-> "system_child"]
Forkers == {"sig_child_test", "tell_wait", "system_m1", "system_test1", "system_waits"}

MainCode(p) == IF p = "parent" THEN program ELSE Kid[program]

CallOps == {"signal", "ignore", "restore", "unignore", "block", "setmask", "oldmask", "alarm", "compute", "setjmp",
            "flag", "flag_on", "return_unless_flag", "skip_if_flag", "back", "fork", "go",
            "tcgetattr", "tcsetattr", "tcrestore", "confirm", "give_up", "ttystate", "skip_if_state"}
TtyOps == {"tcgetattr", "tcsetattr", "tcrestore", "confirm", "give_up", "ttystate", "skip_if_state"}
SkipOps == {"skip_if_flag", "fork", "tcgetattr", "tcsetattr", "tcrestore", "confirm", "skip_if_state"}

\* where a function may go on after its call i
Succ(c, i) ==
  LET x == Code[c][i] IN
  IF x.op = "back" THEN {i - x.n}
  ELSE IF x.op = "go" THEN {i + k : k \in x.set}
  ELSE IF x.op = "give_up" THEN {i + 1 + x.skip}
  ELSE IF x.op = "return_unless_flag" THEN {i + 1, i + Len(Code[c])}
  ELSE IF x.op \in SkipOps THEN {i + 1, i + 1 + x.skip}
  ELSE {i + 1}

Jumpers == {"alarm_sig_handler3", "alarm_sig_handler5"}

Modes == {"none", "normal", "raw", "cbreak", "noecho", "partly", "garbage"}

\* what the calls of function c in program P look like
InstrOK(P, c, i) ==
  LET x == Code[c][i] IN
  \/ x.op \in {"pause", "sleep", "read", "command", "compute", "flag_on"}
  \/ x.op = "exit" /\ c \in {"sig_catch", "getpass_test"}
  \/ x.op = "ttystate" /\ x.state \in {"RESET", "CBREAK", "RAW"}
  \/ x.op = "tcsetattr" /\ x.skip \in Nat /\ x.mode \in Modes
  \/ x.op = "signal" /\ x.sig \in Sigs /\ ((x.handler = "SIG_DFL" /\ c \in {"sig_quit_handler", "abort1"}) \/ <<x.sig, x.handler>> \in HandlersOf[P])
  \/ x.op \in {"ignore", "restore", "unignore"} /\ x.sig \in Sigs
  \/ x.op = "sigsuspend" /\ x.set \in SUBSET Sigs
  \/ x.op \in {"block", "setmask"} /\ x.set \in SUBSET Sigs /\ c = P
  \/ x.op = "oldmask" /\ (c = P \/ (P \in Forkers /\ c = Kid[P]))
  \/ x.op = "alarm" /\ "ALRM" \in PendingOf[P] /\ (x.on = FALSE \/ x.on = TRUE) /\ c \in {P, "sig_usr1"}
  \/ x.op = "kill" /\ x.sig \in PendingOf[P] /\ x.to \in Procs /\ P \in {"tell_wait", "abort1"}
  \/ x.op = "flag" /\ (x.value = FALSE \/ x.value = TRUE)
  \/ x.op = "return_unless_flag"
  \/ x.op \in {"skip_if_flag", "tcgetattr", "tcrestore", "confirm", "give_up", "skip_if_state"} /\ x.skip \in Nat
  \/ x.op = "setjmp" /\ x.skip \in Nat /\ (x.savemask = FALSE \/ x.savemask = TRUE) /\ c = P
  \/ x.op = "fork" /\ x.skip \in Nat /\ P \in Forkers /\ c = P /\ x.code = Kid[P]
  \/ x.op = "back" /\ x.n \in Nat /\ i - x.n \in Nat \ {0}
  \/ x.op = "go" /\ \A k \in x.set : k \in Int /\ i + k \in Nat \ {0}
  \/ x.op = "longjmp" /\ c \in Jumpers \cup {"sig_usr1"}
  \/ x.op = "wait" /\ c # "system_child" /\ P \in Forkers

Handlers(P) == {h[2] : h \in HandlersOf[P]}
InCode(P, c) == \/ c = P
                \/ P \in Forkers /\ c = Kid[P]
                \/ \E s \in Sigs : <<s, c>> \in HandlersOf[P]

(* Types *)

Status == {"none", "running", "reaped", "exited"} \cup Sigs
FrameType == [code : DOMAIN Code, pc : Nat \ {0}, sig : Sigs \cup {"none"}, restore : SUBSET Sigs]
JmpType == [set : BOOLEAN, depth : Nat, pc : Nat, savemask : BOOLEAN, mask : SUBSET Sigs]
Actions == NoHandler \cup DOMAIN Code
ProcType == [status : Status, stack : Seq(FrameType), inside : BOOLEAN,
             mask : SUBSET Sigs, before : SUBSET Sigs, oldmask : SUBSET Sigs, pending : SUBSET Sigs,
             disp : [Sigs -> Actions], saved : [Sigs -> Actions],
             alarm : BOOLEAN, rings : 0..2, flag : BOOLEAN, jmp : JmpType,
             result : Status \cup {"ECHILD"}]
TtyType == [mode : Modes, saved : Modes, ttystate : {"RESET", "CBREAK", "RAW"}, failed : BOOLEAN]

SigTypeOK == /\ program \in Mains
             /\ proc \in [Procs -> ProcType]
             /\ tty \in TtyType
             /\ user \in Nat

(* What processes are made of *)
StackOK(p) ==
  Running(p) =>
    /\ Len(proc[p].stack) > 0
    /\ proc[p].stack[1].code = MainCode(p)
    /\ \A k \in 2..Len(proc[p].stack) : <<proc[p].stack[k].sig, proc[p].stack[k].code>> \in HandlersOf[program]
    /\ proc[p].inside => MoreToDo(p) /\ Instr(p).op \in Blocking

HandlersOK(p) ==
  \A s \in Sigs :
    /\ proc[p].disp[s] \in NoHandler \/ <<s, proc[p].disp[s]>> \in HandlersOf[program]
    /\ proc[p].saved[s] \in NoHandler \/ <<s, proc[p].saved[s]>> \in HandlersOf[program]

PendingOK(p) == /\ proc[p].pending \subseteq PendingOf[program]
                /\ proc[p].alarm => "ALRM" \in PendingOf[program]

\* setjmp is called by a main function
JmpOK(p) == proc[p].jmp.set => proc[p].jmp.depth = 1 /\ proc[p].jmp.pc > 0

CodesInv ==
  /\ SigTypeOK
  /\ proc["child"].status # "none" => program \in Forkers
  /\ proc["parent"].status \notin {"none", "reaped"}
  /\ \A p \in Procs : StackOK(p) /\ HandlersOK(p) /\ PendingOK(p) /\ JmpOK(p)

Sound(P, c) == Len(Code[c]) \in Nat /\ \A i \in 1..Len(Code[c]) : InstrOK(P, c, i)

-----------------------------------------------------------------------------
(* What a step may do *)

Fields == {"status", "stack", "inside", "mask", "before", "oldmask", "pending", "disp", "saved", "alarm", "rings", "flag",
           "jmp", "result"}

\* r is q, but for some fields
Keeps(q, r, changed) == \A f \in Fields \ changed : r[f] = q[f]

\* the top function goes on at j
Moved(s, t, j) ==
  /\ Len(t) = Len(s)
  /\ \A k \in 1..Len(s) : /\ t[k].code = s[k].code /\ t[k].sig = s[k].sig /\ t[k].restore = s[k].restore
                          /\ t[k].pc = IF k = Len(s) THEN j ELSE s[k].pc

Rest(p) == \A o \in Procs \ {p} : proc'[o] = proc[o]
Still == UNCHANGED <<program, user, tty>>

\* what the call of p makes of it, but for the stack
Effect(p, r) ==
  LET q == proc[p]
      x == Instr(p)
  IN /\ Keeps(q, r, {"stack", "mask", "oldmask", "pending", "disp", "saved", "alarm", "flag", "jmp"})
     /\ r.mask = IF x.op = "block" THEN q.mask \cup x.set
                 ELSE IF x.op = "setmask" THEN x.set
                 ELSE IF x.op = "oldmask" THEN q.oldmask ELSE q.mask
     /\ r.oldmask = IF x.op = "block" THEN q.mask ELSE q.oldmask
     /\ r.pending = IF x.op = "ignore" THEN q.pending \ {x.sig} ELSE q.pending
     /\ \A s \in Sigs :
          /\ r.disp[s] = IF x.op \notin {"signal", "ignore", "restore", "unignore"} \/ s # x.sig THEN q.disp[s]
                         ELSE IF x.op = "signal" THEN x.handler
                         ELSE IF x.op = "ignore" THEN "SIG_IGN"
                         ELSE IF x.op = "restore" THEN q.saved[s]
                         ELSE IF q.disp[s] = "SIG_IGN" THEN "SIG_DFL" ELSE q.disp[s]
          /\ r.saved[s] = IF x.op = "ignore" /\ s = x.sig THEN q.disp[s] ELSE q.saved[s]
     /\ x.op = "alarm" => r.alarm = x.on
     /\ x.op # "alarm" => r.alarm = q.alarm
     /\ x.op = "flag" => r.flag = x.value
     /\ x.op \notin {"flag", "flag_on"} => r.flag = q.flag
     /\ x.op = "setjmp" => /\ r.jmp.set = TRUE /\ r.jmp.depth = Len(q.stack)
                           /\ r.jmp.pc = Top(p).pc + 1 + x.skip
                           /\ r.jmp.savemask = x.savemask /\ r.jmp.mask = q.mask
     /\ x.op # "setjmp" => r.jmp = q.jmp

Calling(p) == Running(p) /\ MoreToDo(p) /\ ~proc[p].inside /\ Deliverable(p) = {}

\* p makes a call that neither blocks nor concerns another process
Call(p) ==
  LET q == proc[p]
      x == Instr(p)
  IN /\ Calling(p) /\ x.op \in CallOps
     /\ \E j \in Succ(Top(p).code, Top(p).pc) :
          /\ Moved(q.stack, proc'[p].stack, j)
          /\ x.op = "skip_if_flag" => j = Top(p).pc + (IF q.flag THEN 1 + x.skip ELSE 1)
          /\ x.op = "return_unless_flag" => j = Top(p).pc + (IF q.flag THEN 1 ELSE Len(Code[Top(p).code]))
          /\ x.op = "fork" => program # "tell_wait" /\ j = Top(p).pc + 1 + x.skip
     /\ Effect(p, proc'[p])
     /\ IF x.op \in TtyOps THEN Terminal(p) ELSE tty' = tty
     /\ Rest(p)

\* s reaches q, or not
Gets(q, r, s) == r.pending = IF q.status # "running" \/ (Ignored(q, s) /\ s \notin q.mask) THEN q.pending
                            ELSE q.pending \cup {s}

Kills(p) ==
  LET x == Instr(p) IN
  /\ Calling(p) /\ x.op = "kill"
  /\ \A z \in Procs :
       /\ Keeps(proc[z], proc'[z], {"stack", "pending"})
       /\ IF z = p THEN Moved(proc[z].stack, proc'[z].stack, Top(p).pc + 1) ELSE proc'[z].stack = proc[z].stack
       /\ IF z = x.to THEN Gets(proc[z], proc'[z], x.sig) ELSE proc'[z].pending = proc[z].pending
  /\ tty' = tty

Forks ==
  LET x == Instr("parent") IN
  /\ Calling("parent") /\ x.op = "fork"
  /\ Keeps(proc["parent"], proc'["parent"], {"stack"})
  /\ Moved(proc["parent"].stack, proc'["parent"].stack, Top("parent").pc + 1)
  /\ Keeps(proc["parent"], proc'["child"], {"stack", "pending", "alarm"})
  /\ proc'["child"].stack = <<Frame(x.code, "none", {})>>
  /\ proc'["child"].pending = {} /\ proc'["child"].alarm = FALSE
  /\ tty' = tty

Jumps(p) ==
  LET q == proc[p]
      r == proc'[p]
  IN /\ Calling(p) /\ Instr(p).op = "longjmp"
     /\ q.jmp.set
     /\ Keeps(q, r, {"stack", "mask"})
     /\ r.mask = IF q.jmp.savemask THEN q.jmp.mask ELSE q.mask
     /\ q.jmp.depth = 1 => /\ Len(r.stack) = 1 /\ r.stack[1].code = q.stack[1].code
                           /\ r.stack[1].pc = q.jmp.pc
     /\ tty' = tty
     /\ Rest(p)

Enters(p) ==
  LET q == proc[p]
      r == proc'[p]
      x == Instr(p)
  IN /\ Calling(p) /\ x.op \in Blocking
     /\ Keeps(q, r, {"inside", "before", "mask", "disp"})
     /\ r.inside = TRUE
     /\ x.op = "sigsuspend" => r.before = q.mask /\ r.mask = x.set
     /\ x.op # "sigsuspend" => r.mask = q.mask
     /\ \A s \in Sigs : r.disp[s] \in {q.disp[s]} \cup NoHandler
     /\ x.op # "command" => r.disp = q.disp
     /\ tty' = tty
     /\ Rest(p)

Leaves(p) ==
  LET q == proc[p]
      r == proc'[p]
      x == Instr(p)
  IN /\ Running(p) /\ MoreToDo(p) /\ x.op \in {"sleep", "command", "read"} /\ q.inside
     /\ Keeps(q, r, {"inside", "stack"})
     /\ r.inside = FALSE
     /\ Moved(q.stack, r.stack, Top(p).pc + 1)
     /\ tty' = tty
     /\ Rest(p)

Reaps ==
  LET q == proc["parent"]
      r == proc'["parent"]
      c == proc["child"]
  IN /\ Running("parent") /\ MoreToDo("parent") /\ Instr("parent").op = "wait" /\ q.inside
     /\ ~Running("child")
     /\ Keeps(q, r, {"inside", "stack", "result"})
     /\ r.inside = FALSE
     /\ Moved(q.stack, r.stack, Top("parent").pc + 1)
     /\ r.result = IF ~InMain("parent") THEN q.result ELSE IF Zombie("child") THEN c.status ELSE "ECHILD"
     /\ proc'["child"] = IF Zombie("child") THEN [Idle EXCEPT !.status = "reaped"] ELSE c
     /\ tty' = tty

Handles(p) ==
  LET q == proc[p]
      r == proc'[p]
      interrupted == q.inside /\ Instr(p).op \in Interruptible
      l == Len(q.stack)
  IN \E s \in Deliverable(p) :
       /\ Running(p) /\ q.disp[s] \notin NoHandler
       /\ Keeps(q, r, {"stack", "inside", "mask", "pending", "rings"})
       /\ r.inside = FALSE /\ r.mask = q.mask \cup {s} /\ r.pending = q.pending \ {s}
       /\ r.rings = IF s = "ALRM" /\ q.rings < 2 THEN q.rings + 1 ELSE q.rings
       /\ Len(r.stack) = l + 1
       /\ \A k \in 1..l : /\ r.stack[k].code = q.stack[k].code /\ r.stack[k].sig = q.stack[k].sig
                          /\ r.stack[k].restore = q.stack[k].restore
                          /\ r.stack[k].pc = IF k = l /\ interrupted THEN q.stack[k].pc + 1 ELSE q.stack[k].pc
       /\ r.stack[l + 1] = Frame(q.disp[s], s, IF q.inside /\ Instr(p).op = "sigsuspend" THEN q.before ELSE q.mask)
       /\ tty' = tty
       /\ Rest(p)

Returns(p) ==
  LET q == proc[p]
      r == proc'[p]
  IN /\ Running(p) /\ ~MoreToDo(p) /\ Deliverable(p) = {} /\ Len(q.stack) > 1
     /\ Keeps(q, r, {"stack", "mask"})
     /\ r.mask = Top(p).restore
     /\ Len(r.stack) = Len(q.stack) - 1
     /\ \A k \in 1..(Len(q.stack) - 1) : r.stack[k] = q.stack[k]
     /\ tty' = tty
     /\ Rest(p)

\* p ends of itself or by a signal; the parent gets SIGCHLD
Dies(p) ==
  /\ Running(p)
  /\ \E how \in {"exited"} \cup Deliverable(p) :
       /\ how = "exited" => \/ MoreToDo(p) /\ Instr(p).op = "exit"
                            \/ ~MoreToDo(p) /\ InMain(p) /\ Deliverable(p) = {}
       /\ how # "exited" => proc[p].disp[how] = "SIG_DFL" /\ how # "CHLD"
       /\ proc'[p].status = how
       /\ Keeps(Idle, proc'[p], {"status", "mask", "disp", "result"})
       /\ Keeps(proc[p], proc'[p], Fields \ {"mask", "disp", "result"})
  /\ p = "child" => /\ Keeps(proc["parent"], proc'["parent"], {"pending"})
                    /\ Gets(proc["parent"], proc'["parent"], "CHLD")
  /\ p = "parent" => proc'["child"] = proc["child"]
  /\ tty' = tty

\* signals come, or go because they are ignored
SignalsCome ==
  /\ \A z \in Procs :
       /\ Keeps(proc[z], proc'[z], {"pending", "alarm"})
       /\ proc'[z].alarm => proc[z].alarm
       /\ \A s \in proc'[z].pending \ proc[z].pending :
            /\ Running(z) /\ (Ignored(proc[z], s) => s \in proc[z].mask)
            /\ (s = "ALRM" /\ proc[z].alarm) \/ (program \in DOMAIN Sent /\ s \in Sent[program])
       /\ \A s \in proc[z].pending \ proc'[z].pending : Ignored(proc[z], s)
  /\ tty' = tty

Shapes == /\ program' = program
          /\ \/ Forks \/ Reaps \/ SignalsCome
             \/ \E p \in Procs : \/ Call(p) \/ Kills(p) \/ Jumps(p) \/ Enters(p) \/ Leaves(p) \/ Handles(p)
                               \/ Returns(p) \/ Dies(p)

-----------------------------------------------------------------------------
(* Jumps and masks *)

Jumping == {"sig_test4", "sleep2_again", "sig_test5", "sig_test6"}

\* what the main function blocks, and where
Masked == [sig_proc_mask_test1 |-> {"QUIT"}, sig_suspend_test1 |-> {"INT"}, sig_suspend_test2 |-> {"QUIT"},
           tell_wait |-> {"USR1", "USR2"}, system_m1 |-> {"CHLD"}, system_test1 |-> {"CHLD"},
           system_waits |-> {"CHLD"}, getpass_test |-> {"INT", "TSTP"}, abort1 |-> Sigs \ {"ABRT"}]
InMask(P, i) == \/ P = "sig_proc_mask_test1" /\ i \in 3..4
                \/ P = "sig_suspend_test1" /\ i \in 3..5
                \/ P = "sig_suspend_test2" /\ i \in 4..8
                \/ P = "tell_wait" /\ i \in 4..10
                \/ P = "system_m1" /\ i \in 4..8
                \/ P \in {"system_test1", "system_waits"} /\ i \in 6..10
                \/ P = "getpass_test" /\ i \in 2..7
                \/ P = "abort1" /\ i > 2
MaskAt(P, i) == IF InMask(P, i) THEN Masked[P] ELSE {}

MaskOK(P, i) ==
  LET x == Code[P][i] IN
  \/ x.op = "block" /\ ~InMask(P, i) /\ InMask(P, i + 1) /\ x.set = Masked[P] /\ P \notin Jumping
  \/ x.op = "setmask" /\ InMask(P, i + 1) /\ x.set = Masked[P] /\ P \notin Jumping
  \/ x.op = "oldmask" /\ ~InMask(P, i + 1) /\ P \notin Jumping
  \/ x.op = "setjmp" /\ ~InMask(P, i) /\ ~InMask(P, i + 1) /\ ~InMask(P, i + 1 + x.skip)
                     /\ ((P \notin Jumping /\ x.savemask = TRUE) \/ (P \in Jumping /\ x.savemask = FALSE))
  \/ x.op \notin {"block", "setmask", "oldmask", "setjmp"} /\ \A j \in Succ(P, i) : InMask(P, j) <=> InMask(P, i)

\* from where on a place to jump to is noted
SetAt == [sig_test4 |-> 3, sleep2_again |-> 3, sig_test5 |-> 4, sig_test6 |-> 3, sig_setjmp_test2 |-> 4]
JumpOK(P, i) == LET x == Code[P][i] IN
                \/ i >= SetAt[P]
                \/ i = SetAt[P] - 1 /\ x.op = "setjmp"
                \/ i < SetAt[P] - 1 /\ x.op = "signal"

\* the mask of the main function of the parent: kept for it while a handler runs, or
\* while it is in sigsuspend
MainMask == LET q == proc["parent"] IN
  IF Len(q.stack) > 1 THEN q.stack[2].restore
  ELSE IF q.inside /\ Instr("parent").op = "sigsuspend" THEN q.before ELSE q.mask

OldMaskOK == proc["parent"].oldmask = {}
JmpMaskOK == LET j == proc["parent"].jmp IN
             j.set /\ program \notin Jumping => j.savemask /\ j.mask = {} /\ ~InMask(program, j.pc)
MainMaskOK == Running("parent") /\ program \notin Jumping => MainMask = MaskAt(program, proc["parent"].stack[1].pc)
MaskInv == OldMaskOK /\ JmpMaskOK /\ MainMaskOK

\* a place to jump to is noted before SIGALRM can come, before canjump is set, and
\* before a handler jumps
JumpInv ==
  LET q == proc["parent"] IN
  ~q.jmp.set =>
    /\ program \in Jumping => ~q.alarm /\ "ALRM" \notin q.pending
    /\ program = "sig_setjmp_test2" => ~q.flag
    /\ Running("parent") =>
         /\ program \in DOMAIN SetAt => q.stack[1].pc < SetAt[program]
         /\ \A k \in 2..Len(q.stack) : /\ q.stack[k].code \notin Jumpers
                                       /\ q.stack[k].code = "sig_usr1" => q.stack[k].pc \notin 2..5

Again == "sleep2_again"
OnceInv ==
  LET q == proc["parent"]
      at == q.stack[1].pc
  IN program \in {Again, "sig_test6"} =>
       /\ q.rings <= 1
       /\ q.jmp.set => ~q.jmp.savemask
       /\ q.status = "running" =>
            /\ Len(q.stack) <= 2
            /\ q.rings = 0 => Len(q.stack) = 1
            /\ q.rings = 1 => "ALRM" \in q.mask
            /\ Len(q.stack) = 2 => q.stack[2].pc = 1
       /\ program = Again =>
            /\ q.status = "running"
            /\ at <= 9
            /\ q.rings = 0 => at <= 4
            /\ at >= 2 \/ q.jmp.set => q.disp["ALRM"] = "alarm_sig_handler3"
            /\ q.jmp.set /\ (at <= 7 \/ Len(q.stack) = 2) => q.jmp.pc = 5

\* The programs with a critical region, in which no handler runs.
Regions == {"sig_proc_mask_test1", "sig_suspend_test1"}
QuietInv == program \in Regions /\ Running("parent") /\ proc["parent"].stack[1].pc \in {3, 4} =>
              Len(proc["parent"].stack) = 1

-----------------------------------------------------------------------------
(* Parents and children *)

\* The child exists only while the parent waits for it, and before that the parent
\* ignores the signals of the terminal; o are the calls before those of system_m1.
Systems == {"system_m1", "system_test1", "system_waits"}
Before == IF program = "system_m1" THEN 0 ELSE 2
First == IF program = "system_m1" THEN "SIG_DFL" ELSE "nop"
SystemRuns ==
  LET q == proc["parent"]
      at == q.stack[1].pc
      o == Before
  IN /\ at <= o + 4 => proc["child"].status = "none"
     /\ proc["child"].status = "reaped" => at >= o + 6 /\ q.result \notin {"none", "ECHILD"}
     /\ at < o + 2 \/ at > o + 6 => q.disp["INT"] = IF at >= 2 THEN First ELSE "SIG_DFL"
     /\ at >= o + 2 /\ at <= o + 6 => q.disp["INT"] = "SIG_IGN"
     /\ at < o + 3 \/ at > o + 7 => q.disp["QUIT"] = "SIG_DFL"
     /\ at >= o + 3 /\ at <= o + 7 => q.disp["QUIT"] = "SIG_IGN"
     /\ at >= o + 2 => q.saved["INT"] = First
     /\ at >= o + 3 => q.saved["QUIT"] = "SIG_DFL"
SystemInv ==
  program \in Systems =>
    /\ proc["child"].status \notin {"none", "reaped"} =>
         Running("parent") /\ proc["parent"].stack[1].pc = Before + 5 /\ Len(proc["parent"].stack) = 1
    /\ Running("parent") => SystemRuns

\* With TELL and WAIT: what shows that the other process has come so far.
Called == "usr_signal_handler"
Signalled(p, s) == \/ proc[p].flag \/ s \in proc[p].pending \/ Len(proc[p].stack) > 1
ChildCame == proc["child"].status = "exited" \/ (Running("child") /\ proc["child"].stack[1].pc > 1)
ParentCame == Running("parent") => proc["parent"].stack[1].pc >= 6
TellInv ==
  LET q == proc["parent"]
      c == proc["child"]
  IN program = "tell_wait" =>
       /\ q.status \in {"running", "exited"} /\ c.status \in {"none", "running", "exited"}
       /\ "USR1" \notin q.pending /\ "USR2" \notin c.pending
       /\ c.status = "none" <=> Running("parent") /\ q.stack[1].pc <= 4
       /\ Running("parent") => /\ q.stack[1].pc >= 2 => q.disp["USR1"] = Called
                               /\ q.stack[1].pc >= 3 => q.disp["USR2"] = Called
       /\ Running("child") => c.disp["USR1"] = Called /\ c.disp["USR2"] = Called
       /\ Signalled("parent", "USR2") \/ (Running("parent") => q.stack[1].pc > 8) => ChildCame
       /\ c.status = "exited" \/ (Running("child") /\ (Signalled("child", "USR1") \/ c.stack[1].pc >= 5)) => ParentCame

-----------------------------------------------------------------------------
(* How programs end *)

AbortInv ==
  LET q == proc["parent"]
      at == q.stack[1].pc
  IN program = "abort1" /\ Running("parent") =>
       /\ Len(q.stack) <= 2
       /\ Len(q.stack) = 2 => "ABRT" \in q.mask
       /\ at >= 2 => q.disp["ABRT"] # "SIG_IGN"
       /\ at >= 3 => Sigs \ {"ABRT"} \subseteq q.mask
       /\ at >= 5 => q.disp["ABRT"] = "SIG_DFL" /\ Len(q.stack) = 1
       /\ at >= 7 => "ABRT" \in q.pending

\* What tty_reset needs to know of terminal t when it is called.
Safe(t) == /\ t.ttystate = "RESET" => t.mode = "normal"
           /\ t.ttystate # "RESET" => t.saved = "normal"
\* What holds of it when the main function stands at i, unless a call that was to restore
\* it has failed.
TtyAt(i, t) ==
  ~t.failed =>
    /\ i \in 1..6 \cup 14..17 \cup {25, 26, 29} \/ i >= 30 => t.mode = "normal"
    /\ i \in 6..29 => t.saved = "normal"
    /\ i \in 1..9 \cup 15..20 \cup {26} \/ i >= 30 => t.ttystate = "RESET"
    /\ i \in 10..14 \cup {24, 25} \cup 27..29 => t.ttystate # "RESET"
    /\ i \in 21..23 => Safe(t)
\* What holds when it stands at i and a handler at its call k.
CatchAt(i, k, t) ==
  /\ k \in 1..4
  /\ ~t.failed =>
       /\ i <= 3 => t.mode = "normal" /\ t.ttystate = "RESET"
       /\ i \in 7..9 \cup 18..20 \/ (Safe(t) /\ (k = 2 => t.ttystate # "RESET") /\ (k \in {3, 4} => t.mode = "normal"))
Catches(s) == proc["parent"].disp[s] = "sig_catch"
TtyInv ==
  LET q == proc["parent"]
      at == q.stack[1].pc
      k == q.stack[Len(q.stack)].pc
  IN program = "abnormal_terminal_test" /\ Running("parent") =>
       /\ (at >= 2 => Catches("INT")) /\ (at >= 3 => Catches("QUIT")) /\ (at >= 4 => Catches("TERM"))
       /\ Len(q.stack) = 1 => TtyAt(at, tty)
       /\ Len(q.stack) > 1 => CatchAt(at, k, tty)
GetpassInv ==
  LET at == proc["parent"].stack[1].pc
  IN program = "getpass_test" /\ Running("parent") =>
       /\ at <= 3 => tty.mode = "normal"
       /\ at >= 3 => tty.saved \in {"normal", "garbage"}
       /\ at >= 7 => tty.mode = "normal" \/ tty.failed \/ tty.saved = "garbage"

-----------------------------------------------------------------------------
(* The functions *)

LEMMA CodeIs ==
  /\ Code["nop"] = <<>>
  /\ Code["alarm_sig_handler3"] = <<longjmp>>
  /\ Code["alarm_sig_handler5"] = <<longjmp>>
  /\ Code["sleep1"] = sleep1
  /\ Code["sig_test4"] = sig_test4
  /\ Code["sleep2_again"] = sleep2_again
  /\ Code["sig_test5"] = sig_test5
  /\ Code["sig_int1"] = sig_int1
  /\ Code["sig_test6"] = sig_test6
  /\ Code["sig_child_test"] = sig_child_test
  /\ Code["sleeper"] = sleeper
  /\ Code["sig_child_handler"] = sig_child_handler
  /\ Code["sig_proc_mask_test1"] = sig_proc_mask_test1
  /\ Code["sig_quit_handler"] = sig_quit_handler
  /\ Code["sig_setjmp_test2"] = sig_setjmp_test2
  /\ Code["sig_usr1"] = sig_usr1
  /\ Code["sig_suspend_test1"] = sig_suspend_test1
  /\ Code["sig_suspend_test2"] = sig_suspend_test2
  /\ Code["int_signal_handler2"] = int_signal_handler2
  /\ Code["usr_signal_handler"] = usr_signal_handler
  /\ Code["tell_wait"] = tell_wait
  /\ Code["tell_wait_child"] = tell_wait_child
  /\ Code["system_m1"] = system_m1
  /\ Code["system_test1"] = system_test1
  /\ Code["system_waits"] = system_waits
  /\ Code["system_child"] = system_child
  /\ Code["abort1"] = abort1
  /\ Code["abnormal_terminal_test"] = abnormal_terminal_test
  /\ Code["sig_catch"] = sig_catch
  /\ Code["getpass_test"] = getpass_test
  BY DEF Code

LEMMA HandlersAre ==
  /\ HandlersOf["sleep1"] = {<<"ALRM", "nop">>}
  /\ HandlersOf["sig_test4"] = {<<"ALRM", "alarm_sig_handler3">>}
  /\ HandlersOf["sleep2_again"] = {<<"ALRM", "alarm_sig_handler3">>}
  /\ HandlersOf["sig_test5"] = {<<"INT", "sig_int1">>, <<"ALRM", "alarm_sig_handler3">>}
  /\ HandlersOf["sig_test6"] = {<<"ALRM", "alarm_sig_handler5">>}
  /\ HandlersOf["sig_child_test"] = {<<"CHLD", "sig_child_handler">>}
  /\ HandlersOf["sig_proc_mask_test1"] = {<<"QUIT", "sig_quit_handler">>}
  /\ HandlersOf["sig_setjmp_test2"] = {<<"USR1", "sig_usr1">>, <<"ALRM", "nop">>}
  /\ HandlersOf["sig_suspend_test1"] = {<<"INT", "nop">>}
  /\ HandlersOf["sig_suspend_test2"] = {<<"INT", "int_signal_handler2">>, <<"QUIT", "int_signal_handler2">>}
  /\ HandlersOf["tell_wait"] = {<<"USR1", "usr_signal_handler">>, <<"USR2", "usr_signal_handler">>}
  /\ HandlersOf["system_m1"] = {}
  /\ HandlersOf["system_test1"] = {<<"INT", "nop">>, <<"CHLD", "nop">>}
  /\ HandlersOf["system_waits"] = {<<"INT", "nop">>, <<"CHLD", "sig_child_handler">>}
  /\ HandlersOf["abort1"] = {<<"ABRT", "nop">>}
  /\ HandlersOf["abnormal_terminal_test"] = {<<"INT", "sig_catch">>, <<"QUIT", "sig_catch">>, <<"TERM", "sig_catch">>}
  /\ HandlersOf["getpass_test"] = {}
  BY DEF HandlersOf

LEMMA PendingAre ==
  /\ PendingOf["sleep1"] = {"ALRM"}
  /\ PendingOf["sig_test4"] = {"ALRM"}
  /\ PendingOf["sleep2_again"] = {"ALRM"}
  /\ PendingOf["sig_test5"] = {"INT", "ALRM"}
  /\ PendingOf["sig_test6"] = {"ALRM"}
  /\ PendingOf["sig_child_test"] = {"CHLD"}
  /\ PendingOf["sig_proc_mask_test1"] = {"QUIT"}
  /\ PendingOf["sig_setjmp_test2"] = {"USR1", "ALRM"}
  /\ PendingOf["sig_suspend_test1"] = {"INT", "USR1"}
  /\ PendingOf["sig_suspend_test2"] = {"INT", "QUIT"}
  /\ PendingOf["tell_wait"] = {"USR1", "USR2", "CHLD"}
  /\ PendingOf["system_m1"] = {"INT", "QUIT", "CHLD"}
  /\ PendingOf["system_test1"] = {"INT", "QUIT", "CHLD"}
  /\ PendingOf["system_waits"] = {"INT", "QUIT", "CHLD"}
  /\ PendingOf["abort1"] = {"INT", "ABRT"}
  /\ PendingOf["abnormal_terminal_test"] = {"INT", "QUIT", "TSTP", "TERM"}
  /\ PendingOf["getpass_test"] = {"INT", "QUIT", "TSTP", "TERM"}
  BY DEF PendingOf

LEMMA KidAre ==
  /\ Kid["sig_child_test"] = "sleeper"
  /\ Kid["tell_wait"] = "tell_wait_child"
  /\ Kid["system_m1"] = "system_child"
  /\ Kid["system_test1"] = "system_child"
  /\ Kid["system_waits"] = "system_child"
  BY DEF Kid

LEMMA TerminalCalls ==
  LET c == Code["abnormal_terminal_test"] IN
  /\ Len(c) = 29
  /\ \A i \in {1, 2, 3} : c[i].op = "signal" /\ c[i].handler = "sig_catch"
  /\ c[1].sig = "INT" /\ c[2].sig = "QUIT" /\ c[3].sig = "TERM"
  /\ c[4].op = "skip_if_state" /\ c[4].states = {"CBREAK", "RAW"} /\ c[4].skip = 25
  /\ c[5].op = "tcgetattr" /\ c[5].skip = 24
  /\ c[6].op = "tcsetattr" /\ c[6].mode = "raw" /\ c[6].skip = 23
  /\ c[7].op = "confirm" /\ c[7].mode = "raw" /\ c[7].skip = 1
  /\ c[8].op = "give_up" /\ c[8].skip = 21
  /\ c[9].op = "ttystate" /\ c[9].state = "RAW"
  /\ c[10].op = "read" /\ c[21].op = "read"
  /\ c[11].op = "go" /\ c[11].set = {-1, 1, 16}
  /\ \A i \in {12, 23, 27} : c[i].op = "skip_if_state" /\ c[i].states = {"RESET"} /\ c[i].skip = 2
  /\ \A i \in {13, 24, 28} : c[i].op = "tcrestore"
  /\ c[13].skip = 16 /\ c[24].skip = 5 /\ c[28].skip = 1
  /\ \A i \in {14, 25, 29} : c[i].op = "ttystate" /\ c[i].state = "RESET"
  /\ c[15].op = "skip_if_state" /\ c[15].states = {"CBREAK", "RAW"} /\ c[15].skip = 5
  /\ c[16].op = "tcgetattr" /\ c[16].skip = 4
  /\ c[17].op = "tcsetattr" /\ c[17].mode = "cbreak" /\ c[17].skip = 3
  /\ c[18].op = "confirm" /\ c[18].mode = "cbreak" /\ c[18].skip = 1
  /\ c[19].op = "give_up" /\ c[19].skip = 1
  /\ c[20].op = "ttystate" /\ c[20].state = "CBREAK"
  /\ c[22].op = "go" /\ c[22].set = {-1, 1}
  /\ c[26].op = "go" /\ c[26].set = {4}
  BY CodeIs DEF abnormal_terminal_test, tty_raw, tty_cbreak, tty_reset, tty_set,
     signal, skip_if_state, tcgetattr, tcsetattr, confirm, give_up, ttystate, read, go, tcrestore


LEMMA CallsSound == \A P \in Mains : \A c : InCode(P, c) => Sound(P, c)
  <1>1. \A c : InCode("sleep1", c) => Sound("sleep1", c)
    <2>1. Sound("sleep1", "sleep1")
      BY CodeIs, HandlersAre, PendingAre DEF Sound, InstrOK, sleep1, signal, alarm, pause, Sigs
    <2>2. Sound("sleep1", "nop")
      BY CodeIs DEF Sound
    <2> QED
      BY <2>1, <2>2, HandlersAre, KidAre DEF InCode, Forkers, Sigs
  <1>2. \A c : InCode("sig_test4", c) => Sound("sig_test4", c)
    <2>1. Sound("sig_test4", "sig_test4")
      BY CodeIs, HandlersAre, PendingAre DEF Sound, InstrOK, sig_test4, sleep2, signal, setjmp,
      alarm, pause, Sigs
    <2>2. Sound("sig_test4", "alarm_sig_handler3")
      BY CodeIs DEF Sound, InstrOK, longjmp, Jumpers
    <2> QED
      BY <2>1, <2>2, HandlersAre, KidAre DEF InCode, Forkers, Sigs
  <1>3. \A c : InCode("sleep2_again", c) => Sound("sleep2_again", c)
    <2>1. Sound("sleep2_again", "sleep2_again")
      BY CodeIs, HandlersAre, PendingAre DEF Sound, InstrOK, sleep2_again, sleep2, signal,
      setjmp, alarm, pause, Sigs
    <2>2. Sound("sleep2_again", "alarm_sig_handler3")
      BY CodeIs DEF Sound, InstrOK, longjmp, Jumpers
    <2> QED
      BY <2>1, <2>2, HandlersAre, KidAre DEF InCode, Forkers, Sigs
  <1>4. \A c : InCode("sig_test5", c) => Sound("sig_test5", c)
    <2>1. Sound("sig_test5", "sig_test5")
      BY CodeIs, HandlersAre, PendingAre DEF Sound, InstrOK, sig_test5, signal, sleep2, setjmp,
      alarm, pause, Sigs
    <2>2. Sound("sig_test5", "sig_int1")
      BY CodeIs DEF Sound, InstrOK, sig_int1, compute
    <2>3. Sound("sig_test5", "alarm_sig_handler3")
      BY CodeIs DEF Sound, InstrOK, longjmp, Jumpers
    <2> QED
      BY <2>1, <2>2, <2>3, HandlersAre, KidAre DEF InCode, Forkers, Sigs
  <1>5. \A c : InCode("sig_test6", c) => Sound("sig_test6", c)
    <2>1. Sound("sig_test6", "sig_test6")
      BY CodeIs, HandlersAre, PendingAre DEF Sound, InstrOK, sig_test6, signal, setjmp, alarm,
      read, Sigs
    <2>2. Sound("sig_test6", "alarm_sig_handler5")
      BY CodeIs DEF Sound, InstrOK, longjmp, Jumpers
    <2> QED
      BY <2>1, <2>2, HandlersAre, KidAre DEF InCode, Forkers, Sigs
  <1>6. \A c : InCode("sig_child_test", c) => Sound("sig_child_test", c)
    <2>1. Sound("sig_child_test", "sig_child_test")
      BY CodeIs, HandlersAre, KidAre DEF Sound, InstrOK, sig_child_test, signal, fork, pause,
      sleep, Sigs, Forkers
    <2>2. Sound("sig_child_test", "sleeper")
      BY CodeIs, KidAre DEF Sound, InstrOK, sleeper, sleep
    <2>3. Sound("sig_child_test", "sig_child_handler")
      BY CodeIs, HandlersAre DEF Sound, InstrOK, sig_child_handler, signal, wait, Sigs, Forkers
    <2> QED
      BY <2>1, <2>2, <2>3, HandlersAre, KidAre DEF InCode, Forkers, Sigs
  <1>7. \A c : InCode("sig_proc_mask_test1", c) => Sound("sig_proc_mask_test1", c)
    <2>1. Sound("sig_proc_mask_test1", "sig_proc_mask_test1")
      BY CodeIs, HandlersAre DEF Sound, InstrOK, sig_proc_mask_test1, signal, SIG_BLOCK, sleep,
      SETMASK_oldmask, Sigs, Forkers
    <2>2. Sound("sig_proc_mask_test1", "sig_quit_handler")
      BY CodeIs, HandlersAre DEF Sound, InstrOK, sig_quit_handler, signal, Sigs
    <2> QED
      BY <2>1, <2>2, HandlersAre, KidAre DEF InCode, Forkers, Sigs
  <1>8. \A c : InCode("sig_setjmp_test2", c) => Sound("sig_setjmp_test2", c)
    <2>1. Sound("sig_setjmp_test2", "sig_setjmp_test2")
      BY CodeIs, HandlersAre DEF Sound, InstrOK, sig_setjmp_test2, signal, sigsetjmp, flag,
      pause, back, Sigs
    <2>2. Sound("sig_setjmp_test2", "sig_usr1")
      BY CodeIs, PendingAre DEF Sound, InstrOK, sig_usr1, return_unless_flag, alarm, compute,
      flag, longjmp, Jumpers
    <2>3. Sound("sig_setjmp_test2", "nop")
      BY CodeIs DEF Sound
    <2> QED
      BY <2>1, <2>2, <2>3, HandlersAre, KidAre DEF InCode, Forkers, Sigs
  <1>9. \A c : InCode("sig_suspend_test1", c) => Sound("sig_suspend_test1", c)
    <2>1. Sound("sig_suspend_test1", "sig_suspend_test1")
      BY CodeIs, HandlersAre DEF Sound, InstrOK, sig_suspend_test1, signal, SIG_BLOCK, sleep,
      sigsuspend, SETMASK_oldmask, Sigs, Forkers
    <2>2. Sound("sig_suspend_test1", "nop")
      BY CodeIs DEF Sound
    <2> QED
      BY <2>1, <2>2, HandlersAre, KidAre DEF InCode, Forkers, Sigs
  <1>10. \A c : InCode("sig_suspend_test2", c) => Sound("sig_suspend_test2", c)
    <2>1. Sound("sig_suspend_test2", "sig_suspend_test2")
      BY CodeIs, HandlersAre DEF Sound, InstrOK, sig_suspend_test2, signal, SIG_BLOCK,
      skip_if_flag, sigsuspend, back, flag, SETMASK_oldmask, Sigs, Forkers
    <2>2. Sound("sig_suspend_test2", "int_signal_handler2")
      BY CodeIs DEF Sound, InstrOK, int_signal_handler2, flag_on
    <2> QED
      BY <2>1, <2>2, HandlersAre, KidAre DEF InCode, Forkers, Sigs
  <1>11. \A c : InCode("tell_wait", c) => Sound("tell_wait", c)
    <2>1. Sound("tell_wait", "tell_wait")
      BY CodeIs, HandlersAre, PendingAre, KidAre DEF Sound, InstrOK, tell_wait, TELL_WAIT,
      signal, SIG_BLOCK, fork, TELL_CHILD, kill, WAIT_CHILD, skip_if_flag, sigsuspend, back,
      flag, SETMASK_oldmask, Sigs, Procs, Forkers
    <2>2. Sound("tell_wait", "tell_wait_child")
      BY CodeIs, PendingAre, KidAre DEF Sound, InstrOK, tell_wait_child, TELL_PARENT, kill,
      WAIT_PARENT, skip_if_flag, sigsuspend, back, SETMASK_oldmask, Sigs, Procs, Forkers
    <2>3. Sound("tell_wait", "usr_signal_handler")
      BY CodeIs DEF Sound, InstrOK, usr_signal_handler, flag
    <2> QED
      BY <2>1, <2>2, <2>3, HandlersAre, KidAre DEF InCode, Forkers, Sigs
  <1>12. \A c : InCode("system_m1", c) => Sound("system_m1", c)
    <2>1. Sound("system_m1", "system_m1")
      BY CodeIs, KidAre DEF Sound, InstrOK, system_m1, sigaction_ignore, SIG_BLOCK, fork, wait,
      sigaction_restore, SETMASK_oldmask, Sigs, Forkers
    <2>2. Sound("system_m1", "system_child")
      BY CodeIs, KidAre DEF Sound, InstrOK, system_child, sigaction_restore, SETMASK_oldmask,
      command, Sigs, Forkers
    <2> QED
      BY <2>1, <2>2, HandlersAre, KidAre DEF InCode, Forkers, Sigs
  <1>13. \A c : InCode("system_test1", c) => Sound("system_test1", c)
    <2>1. Sound("system_test1", "system_test1")
      BY CodeIs, HandlersAre, KidAre DEF Sound, InstrOK, system_test1, signal, system_m1,
      sigaction_ignore, SIG_BLOCK, fork, wait, sigaction_restore, SETMASK_oldmask, Sigs, Forkers
    <2>2. Sound("system_test1", "system_child")
      BY CodeIs, KidAre DEF Sound, InstrOK, system_child, sigaction_restore, SETMASK_oldmask,
      command, Sigs, Forkers
    <2>3. Sound("system_test1", "nop")
      BY CodeIs DEF Sound
    <2> QED
      BY <2>1, <2>2, <2>3, HandlersAre, KidAre DEF InCode, Forkers, Sigs
  <1>14. \A c : InCode("system_waits", c) => Sound("system_waits", c)
    <2>1. Sound("system_waits", "system_waits")
      BY CodeIs, HandlersAre, KidAre DEF Sound, InstrOK, system_waits, signal, system_m1,
      sigaction_ignore, SIG_BLOCK, fork, wait, sigaction_restore, SETMASK_oldmask, Sigs, Forkers
    <2>2. Sound("system_waits", "system_child")
      BY CodeIs, KidAre DEF Sound, InstrOK, system_child, sigaction_restore, SETMASK_oldmask,
      command, Sigs, Forkers
    <2>3. Sound("system_waits", "nop")
      BY CodeIs DEF Sound
    <2>4. Sound("system_waits", "sig_child_handler")
      BY CodeIs, HandlersAre DEF Sound, InstrOK, sig_child_handler, signal, wait, Sigs, Forkers
    <2> QED
      BY <2>1, <2>2, <2>3, <2>4, HandlersAre, KidAre DEF InCode, Forkers, Sigs
  <1>15. \A c : InCode("abort1", c) => Sound("abort1", c)
    <2>1. Sound("abort1", "abort1")
      BY CodeIs, HandlersAre, PendingAre DEF Sound, InstrOK, abort1, sigaction_unignore,
      SIG_SETMASK, kill, signal, Sigs, Procs
    <2>2. Sound("abort1", "nop")
      BY CodeIs DEF Sound
    <2> QED
      BY <2>1, <2>2, HandlersAre, KidAre DEF InCode, Forkers, Sigs
  <1>16. \A c : InCode("abnormal_terminal_test", c) => Sound("abnormal_terminal_test", c)
    <2>1. Sound("abnormal_terminal_test", "abnormal_terminal_test")
      <3>1. \A k \in {1, 2, 3} : InstrOK("abnormal_terminal_test", "abnormal_terminal_test", k)
        BY TerminalCalls, HandlersAre DEF InstrOK, Sigs
      <3>2. \A k \in 4..29 : InstrOK("abnormal_terminal_test", "abnormal_terminal_test", k)
        BY TerminalCalls DEF InstrOK, Modes
      <3>3. Len(Code["abnormal_terminal_test"]) = 29
        BY TerminalCalls
      <3> QED
        BY <3>1, <3>2, <3>3 DEF Sound
    <2>2. Sound("abnormal_terminal_test", "sig_catch")
      BY CodeIs DEF Sound, InstrOK, sig_catch, tty_reset, skip_if_state, tcrestore, ttystate,
      exit
    <2> QED
      BY <2>1, <2>2, HandlersAre, KidAre DEF InCode, Forkers, Sigs
  <1>17. \A c : InCode("getpass_test", c) => Sound("getpass_test", c)
    <2>1. Sound("getpass_test", "getpass_test")
      BY CodeIs DEF Sound, InstrOK, getpass_test, getpass_m, SIG_BLOCK, tcgetattr, tcsetattr,
      read, go, tcrestore, SETMASK_oldmask, exit, Sigs, Forkers, Modes
    <2> QED
      BY <2>1, HandlersAre, KidAre DEF InCode, Forkers, Sigs
  <1> QED
    BY <1>1, <1>2, <1>3, <1>4, <1>5, <1>6, <1>7, <1>8, <1>9, <1>10, <1>11, <1>12, <1>13, <1>14,
    <1>15, <1>16, <1>17 DEF Mains

-----------------------------------------------------------------------------
(* What a call finds and makes of a process *)

LEMMA AdvanceFacts ==
  ASSUME NEW q \in ProcType, Len(q.stack) > 0, NEW m \in Int, q.stack[Len(q.stack)].pc + m > 0
  PROVE  /\ Advance(q, m) \in ProcType
         /\ Keeps(q, Advance(q, m), {"stack"})
         /\ Moved(q.stack, Advance(q, m).stack, q.stack[Len(q.stack)].pc + m)
  <1> DEFINE l == Len(q.stack)
             f == q.stack[l]
             g == [f EXCEPT !.pc = @ + m]
             t == [q.stack EXCEPT ![l] = g]
             r == Advance(q, m)
  <1>1. q.stack \in Seq(FrameType) /\ l \in 1..Len(q.stack) /\ f \in FrameType
    BY DEF ProcType
  <1>2. /\ g \in FrameType /\ g.pc = f.pc + m
        /\ g.code = f.code /\ g.sig = f.sig /\ g.restore = f.restore
    <2>1. f.pc + m \in Nat \ {0}
      BY <1>1 DEF FrameType
    <2> HIDE DEF f
    <2> QED
      BY <1>1, <2>1 DEF FrameType
  <1>3. t \in Seq(FrameType) /\ Len(t) = Len(q.stack)
    BY <1>1, <1>2
  <1>4. r = [q EXCEPT !.stack = t]
    BY DEF Advance
  <1>5. r \in ProcType /\ r.stack = t
    BY <1>3, <1>4 DEF ProcType
  <1>6. Keeps(q, r, {"stack"})
    BY <1>4 DEF Keeps, Fields, ProcType
  <1>7. Moved(q.stack, t, f.pc + m)
    BY <1>1, <1>2 DEF Moved
  <1> QED
    BY <1>5, <1>6, <1>7

LEMMA MainsAndHandlers ==
  ASSUME NEW P \in Mains
  PROVE  /\ \A s, h : <<s, h>> \in HandlersOf[P] => s \in Sigs /\ h \in DOMAIN Code /\ h \notin Mains
         /\ P \in Forkers => Kid[P] \in DOMAIN Code /\ Kid[P] \notin Mains
         /\ P \in DOMAIN Code
         /\ PendingOf[P] \subseteq Sigs
         /\ P \in DOMAIN Sent => Sent[P] \subseteq PendingOf[P]
  <1>1. P \in DOMAIN Code
    BY DEF Mains, Code
  <1>2. \A s, h : <<s, h>> \in HandlersOf[P] => s \in Sigs /\ h \in DOMAIN Code /\ h \notin Mains
    <2>1. \A s, h : <<s, h>> \in HandlersOf[P] => s \in Sigs /\ h \notin Mains
      BY HandlersAre DEF Mains, Sigs
    <2>2. \A s, h : <<s, h>> \in HandlersOf[P] =>
            h \in {"nop", "alarm_sig_handler3", "alarm_sig_handler5", "sig_int1", "sig_child_handler", "sig_quit_handler",
                   "sig_usr1", "int_signal_handler2", "usr_signal_handler", "sig_catch"}
      BY HandlersAre DEF Mains
    <2>3. {"nop", "alarm_sig_handler3", "alarm_sig_handler5", "sig_int1", "sig_child_handler", "sig_quit_handler",
           "sig_usr1", "int_signal_handler2", "usr_signal_handler", "sig_catch"} \subseteq DOMAIN Code
      BY DEF Code
    <2> QED
      BY <2>1, <2>2, <2>3
  <1>3. P \in Forkers => Kid[P] \in DOMAIN Code /\ Kid[P] \notin Mains
    <2>1. {"sleeper", "tell_wait_child", "system_child"} \subseteq DOMAIN Code
      BY DEF Code
    <2> QED
      BY <2>1, KidAre DEF Forkers, Mains
  <1>4. PendingOf[P] \subseteq Sigs
    BY PendingAre DEF Mains, Sigs
  <1>5. P \in DOMAIN Sent => Sent[P] \subseteq PendingOf[P]
    BY PendingAre DEF Mains, Sent
  <1> QED
    BY <1>1, <1>2, <1>3, <1>4, <1>5

\* Where a running process stands.
LEMMA Stands ==
  ASSUME CodesInv, NEW p \in Procs, Running(p)
  PROVE  /\ proc[p] \in ProcType
         /\ Len(proc[p].stack) \in Nat \ {0}
         /\ Top(p) = proc[p].stack[Len(proc[p].stack)]
         /\ Top(p) \in FrameType
         /\ InCode(program, Top(p).code)
         /\ Top(p).code \in DOMAIN Code
         /\ Top(p).code = program <=> p = "parent" /\ Len(proc[p].stack) = 1
         /\ MoreToDo(p) => /\ Top(p).pc \in 1..Len(Code[Top(p).code])
                           /\ Len(Code[Top(p).code]) \in Nat
                           /\ InstrOK(program, Top(p).code, Top(p).pc)
  <1> DEFINE q == proc[p]
             l == Len(q.stack)
  <1>1. q \in ProcType /\ program \in Mains
    BY DEF CodesInv, SigTypeOK
  <1>2. q.stack \in Seq(FrameType) /\ l \in Nat
    BY <1>1 DEF ProcType
  <1>3. l > 0 /\ q.stack[1].code = MainCode(p)
    BY DEF CodesInv, StackOK
  <1>4. Top(p) = q.stack[l] /\ Top(p) \in FrameType
    BY <1>2, <1>3 DEF Top, Last
  <1>5. p = "child" => program \in Forkers
    BY DEF CodesInv, Running
  <1>6. l = 1 => Top(p).code = MainCode(p)
    BY <1>3, <1>4
  <1>7. l # 1 => <<Top(p).sig, Top(p).code>> \in HandlersOf[program]
    <2>1. \A k \in 2..l : <<q.stack[k].sig, q.stack[k].code>> \in HandlersOf[program]
      BY DEF CodesInv, StackOK
    <2> HIDE DEF l
    <2>2. l # 1 => l \in 2..l
      BY <1>2, <1>3
    <2> QED
      BY <2>1, <2>2, <1>4
  <1>8. InCode(program, Top(p).code)
    <2>1. CASE l = 1
      BY <2>1, <1>5, <1>6 DEF MainCode, InCode, Procs
    <2>2. CASE l # 1
      BY <2>2, <1>1, <1>7, MainsAndHandlers DEF InCode
    <2> QED
      BY <2>1, <2>2
  <1>9. Top(p).code = program <=> p = "parent" /\ l = 1
    <2>1. CASE l = 1
      BY <2>1, <1>1, <1>5, <1>6, MainsAndHandlers DEF MainCode, Procs
    <2>2. CASE l # 1
      BY <2>2, <1>1, <1>7, MainsAndHandlers
    <2> QED
      BY <2>1, <2>2
  <1>10. Top(p).code \in DOMAIN Code /\ Top(p).pc \in Nat \ {0}
    BY <1>4 DEF FrameType
  <1>11. Sound(program, Top(p).code)
    BY <1>1, <1>8, CallsSound
  <1>12. MoreToDo(p) => /\ Top(p).pc \in 1..Len(Code[Top(p).code])
                        /\ InstrOK(program, Top(p).code, Top(p).pc)
    BY <1>10, <1>11 DEF Sound, MoreToDo
  <1> QED
    BY <1>1, <1>2, <1>3, <1>4, <1>8, <1>9, <1>10, <1>11, <1>12 DEF Sound

LEMMA Made ==
  ASSUME CodesInv, NEW p \in Procs, Running(p), NEW r \in ProcType, r.stack = proc[p].stack,
         NEW m \in Int, Top(p).pc + m > 0, proc' = [proc EXCEPT ![p] = Advance(r, m)]
  PROVE  /\ proc' \in [Procs -> ProcType]
         /\ Keeps(r, proc'[p], {"stack"})
         /\ Moved(proc[p].stack, proc'[p].stack, Top(p).pc + m)
         /\ Rest(p)
  <1>1. Len(r.stack) > 0 /\ r.stack[Len(r.stack)] = Top(p)
    BY Stands
  <1>2. /\ Advance(r, m) \in ProcType
        /\ Keeps(r, Advance(r, m), {"stack"})
        /\ Moved(r.stack, Advance(r, m).stack, Top(p).pc + m)
    BY <1>1, AdvanceFacts
  <1>3. proc \in [Procs -> ProcType]
    BY DEF CodesInv, SigTypeOK
  <1> HIDE DEF Advance
  <1> QED
    BY <1>2, <1>3 DEF Rest

LEMMA EffectKept ==
  ASSUME NEW p, NEW r, NEW t, Effect(p, r), Keeps(r, t, {"stack"})
  PROVE  Effect(p, t)
  BY DEF Effect, Keeps, Fields

\* The call of p makes r of it, and p goes on m calls further.
CallMade(p, r, m) ==
  /\ Calling(p) /\ Instr(p).op \in CallOps
  /\ r \in ProcType /\ r.stack = proc[p].stack /\ Effect(p, r)
  /\ m \in Int /\ Top(p).pc + m \in Succ(Top(p).code, Top(p).pc) /\ Top(p).pc + m > 0
  /\ Instr(p).op = "skip_if_flag" => m = IF proc[p].flag THEN 1 + Instr(p).skip ELSE 1
  /\ Instr(p).op = "return_unless_flag" => m = IF proc[p].flag THEN 1 ELSE Len(Code[Top(p).code])
  /\ Instr(p).op = "fork" => program # "tell_wait" /\ m = 1 + Instr(p).skip
  /\ proc' = [proc EXCEPT ![p] = Advance(r, m)]
  /\ IF Instr(p).op \in TtyOps THEN Terminal(p) ELSE tty' = tty

LEMMA CallsMade ==
  ASSUME CodesInv, NEW p \in Procs, NEW r, NEW m, CallMade(p, r, m)
  PROVE  Call(p) /\ proc' \in [Procs -> ProcType]
  <1>1. Running(p) /\ r \in ProcType /\ m \in Int /\ Effect(p, r)
    BY DEF Calling, CallMade
  <1>2. /\ proc' \in [Procs -> ProcType]
        /\ Keeps(r, proc'[p], {"stack"})
        /\ Moved(proc[p].stack, proc'[p].stack, Top(p).pc + m)
        /\ Rest(p)
    BY <1>1, Made DEF CallMade
  <1>3. Effect(p, proc'[p])
    BY <1>1, <1>2, EffectKept
  <1>4. Top(p).pc \in Nat /\ (Instr(p).op = "fork" => Instr(p).skip \in Nat)
    <2>1. InstrOK(program, Top(p).code, Top(p).pc) /\ Top(p) \in FrameType
      BY Stands DEF Calling, CallMade
    <2> QED
      BY <2>1 DEF InstrOK, FrameType, Instr
  <1> QED
    BY <1>1, <1>2, <1>3, <1>4 DEF Call, CallMade

LEMMA HandlersExist ==
  ASSUME CodesInv, NEW s, NEW h, <<s, h>> \in HandlersOf[program]
  PROVE  s \in Sigs /\ h \in Actions
  BY MainsAndHandlers DEF CodesInv, SigTypeOK, Actions

LEMMA SignalStep == ASSUME CodesInv, NEW p \in Procs, Signal(p)
                    PROVE  Call(p) /\ proc' \in [Procs -> ProcType] /\ UNCHANGED <<program, user, tty>>
  <1> DEFINE q == proc[p]
             x == Instr(p)
             r == [q EXCEPT !.disp[x.sig] = x.handler]
  <1>1. /\ Calling(p) /\ x.op = "signal" /\ proc' = [proc EXCEPT ![p] = Advance(r, 1)]
        /\ UNCHANGED <<program, user, tty>>
    BY DEF Signal, Does, Calls, Calling
  <1>2. q \in ProcType /\ Top(p) \in FrameType /\ InstrOK(program, Top(p).code, Top(p).pc)
    BY <1>1, Stands DEF Calling
  <1>3. x.sig \in Sigs /\ x.handler \in Actions
    BY <1>1, <1>2, HandlersExist DEF InstrOK, Instr, Actions, NoHandler
  <1>4. r \in ProcType /\ r.stack = q.stack /\ Keeps(q, r, {"disp"}) /\ r.disp = [q.disp EXCEPT ![x.sig] = x.handler]
    BY <1>2, <1>3 DEF ProcType, Keeps, Fields
  <1>5. Effect(p, r)
    <2> HIDE DEF r
    <2>1. q.disp \in [Sigs -> Actions]
      BY <1>2 DEF ProcType
    <2> QED
      BY <1>1, <1>3, <1>4, <2>1 DEF Effect, Keeps, Fields
  <1>6. Succ(Top(p).code, Top(p).pc) = {Top(p).pc + 1} /\ Top(p).pc + 1 > 0
    BY <1>1, <1>2 DEF Succ, Instr, SkipOps, FrameType
  <1>7. CallMade(p, r, 1)
    BY <1>1, <1>4, <1>5, <1>6 DEF CallMade, CallOps, TtyOps
  <1> QED
    BY <1>1, <1>7, CallsMade

LEMMA IgnoreStep == ASSUME CodesInv, NEW p \in Procs, Ignore(p)
                    PROVE  Call(p) /\ proc' \in [Procs -> ProcType] /\ UNCHANGED <<program, user, tty>>
  <1> DEFINE q == proc[p]
             x == Instr(p)
             r == [q EXCEPT !.saved[x.sig] = q.disp[x.sig], !.disp[x.sig] = "SIG_IGN", !.pending = @ \ {x.sig}]
  <1>1. /\ Calling(p) /\ x.op = "ignore" /\ proc' = [proc EXCEPT ![p] = Advance(r, 1)]
        /\ UNCHANGED <<program, user, tty>>
    BY DEF Ignore, Does, Calls, Calling
  <1>2. q \in ProcType /\ Top(p) \in FrameType /\ InstrOK(program, Top(p).code, Top(p).pc)
    BY <1>1, Stands DEF Calling
  <1>3. x.sig \in Sigs
    BY <1>1, <1>2, HandlersExist DEF InstrOK, Instr, Actions, NoHandler
  <1>4. r \in ProcType /\ r.stack = q.stack /\ Keeps(q, r, {"disp", "saved", "pending"}) /\ /\ r.disp = [q.disp EXCEPT ![x.sig] = "SIG_IGN"]
        /\ r.saved = [q.saved EXCEPT ![x.sig] = q.disp[x.sig]] /\ r.pending = q.pending \ {x.sig}
    BY <1>2, <1>3 DEF ProcType, Keeps, Fields, Actions, NoHandler
  <1>5. Effect(p, r)
    <2> HIDE DEF r
    <2>1. q.disp \in [Sigs -> Actions] /\ q.saved \in [Sigs -> Actions]
      BY <1>2 DEF ProcType
    <2> QED
      BY <1>1, <1>3, <1>4, <2>1 DEF Effect, Keeps, Fields
  <1>6. Succ(Top(p).code, Top(p).pc) = {Top(p).pc + 1} /\ Top(p).pc + 1 > 0
    BY <1>1, <1>2 DEF Succ, Instr, SkipOps, FrameType
  <1> HIDE DEF r
  <1>7. CallMade(p, r, 1)
    BY <1>1, <1>4, <1>5, <1>6 DEF CallMade, CallOps, TtyOps
  <1> QED
    BY <1>1, <1>7, CallsMade

LEMMA RestoreStep == ASSUME CodesInv, NEW p \in Procs, Restore(p)
                    PROVE  Call(p) /\ proc' \in [Procs -> ProcType] /\ UNCHANGED <<program, user, tty>>
  <1> DEFINE q == proc[p]
             x == Instr(p)
             r == [q EXCEPT !.disp[x.sig] = q.saved[x.sig]]
  <1>1. /\ Calling(p) /\ x.op = "restore" /\ proc' = [proc EXCEPT ![p] = Advance(r, 1)]
        /\ UNCHANGED <<program, user, tty>>
    BY DEF Restore, Does, Calls, Calling
  <1>2. q \in ProcType /\ Top(p) \in FrameType /\ InstrOK(program, Top(p).code, Top(p).pc)
    BY <1>1, Stands DEF Calling
  <1>3. x.sig \in Sigs
    BY <1>1, <1>2, HandlersExist DEF InstrOK, Instr, Actions, NoHandler
  <1>4. r \in ProcType /\ r.stack = q.stack /\ Keeps(q, r, {"disp"}) /\ r.disp = [q.disp EXCEPT ![x.sig] = q.saved[x.sig]]
    BY <1>2, <1>3 DEF ProcType, Keeps, Fields
  <1>5. Effect(p, r)
    <2> HIDE DEF r
    <2>1. q.disp \in [Sigs -> Actions] /\ q.saved \in [Sigs -> Actions]
      BY <1>2 DEF ProcType
    <2> QED
      BY <1>1, <1>3, <1>4, <2>1 DEF Effect, Keeps, Fields
  <1>6. Succ(Top(p).code, Top(p).pc) = {Top(p).pc + 1} /\ Top(p).pc + 1 > 0
    BY <1>1, <1>2 DEF Succ, Instr, SkipOps, FrameType
  <1> HIDE DEF r
  <1>7. CallMade(p, r, 1)
    BY <1>1, <1>4, <1>5, <1>6 DEF CallMade, CallOps, TtyOps
  <1> QED
    BY <1>1, <1>7, CallsMade

LEMMA UnignoreStep == ASSUME CodesInv, NEW p \in Procs, Unignore(p)
                    PROVE  Call(p) /\ proc' \in [Procs -> ProcType] /\ UNCHANGED <<program, user, tty>>
  <1> DEFINE q == proc[p]
             x == Instr(p)
             r == [q EXCEPT !.disp[x.sig] = IF @ = "SIG_IGN" THEN "SIG_DFL" ELSE @]
  <1>1. /\ Calling(p) /\ x.op = "unignore" /\ proc' = [proc EXCEPT ![p] = Advance(r, 1)]
        /\ UNCHANGED <<program, user, tty>>
    BY DEF Unignore, Does, Calls, Calling
  <1>2. q \in ProcType /\ Top(p) \in FrameType /\ InstrOK(program, Top(p).code, Top(p).pc)
    BY <1>1, Stands DEF Calling
  <1>3. x.sig \in Sigs
    BY <1>1, <1>2, HandlersExist DEF InstrOK, Instr, Actions, NoHandler
  <1>4. r \in ProcType /\ r.stack = q.stack /\ Keeps(q, r, {"disp"}) /\ r.disp = [q.disp EXCEPT ![x.sig] = IF @ = "SIG_IGN" THEN "SIG_DFL" ELSE @]
    BY <1>2, <1>3 DEF ProcType, Keeps, Fields, Actions, NoHandler
  <1>5. Effect(p, r)
    <2> HIDE DEF r
    <2>1. q.disp \in [Sigs -> Actions] /\ q.saved \in [Sigs -> Actions]
      BY <1>2 DEF ProcType
    <2> QED
      BY <1>1, <1>3, <1>4, <2>1 DEF Effect, Keeps, Fields
  <1>6. Succ(Top(p).code, Top(p).pc) = {Top(p).pc + 1} /\ Top(p).pc + 1 > 0
    BY <1>1, <1>2 DEF Succ, Instr, SkipOps, FrameType
  <1> HIDE DEF r
  <1>7. CallMade(p, r, 1)
    BY <1>1, <1>4, <1>5, <1>6 DEF CallMade, CallOps, TtyOps
  <1> QED
    BY <1>1, <1>7, CallsMade

LEMMA BlockStep == ASSUME CodesInv, NEW p \in Procs, Block(p)
                    PROVE  Call(p) /\ proc' \in [Procs -> ProcType] /\ UNCHANGED <<program, user, tty>>
  <1> DEFINE q == proc[p]
             x == Instr(p)
             r == [q EXCEPT !.oldmask = q.mask, !.mask = @ \cup x.set]
  <1>1. /\ Calling(p) /\ x.op = "block" /\ proc' = [proc EXCEPT ![p] = Advance(r, 1)]
        /\ UNCHANGED <<program, user, tty>>
    BY DEF Block, Does, Calls, Calling
  <1>2. q \in ProcType /\ Top(p) \in FrameType /\ InstrOK(program, Top(p).code, Top(p).pc)
    BY <1>1, Stands DEF Calling
  <1>3. x.set \in SUBSET Sigs
    BY <1>1, <1>2, HandlersExist DEF InstrOK, Instr, Actions, NoHandler
  <1>4. r \in ProcType /\ r.stack = q.stack /\ Keeps(q, r, {"mask", "oldmask"}) /\ r.oldmask = q.mask /\ r.mask = q.mask \cup x.set
    BY <1>2, <1>3 DEF ProcType, Keeps, Fields
  <1>5. Effect(p, r)
    <2> HIDE DEF r
    <2>1. q.disp \in [Sigs -> Actions] /\ q.saved \in [Sigs -> Actions]
      BY <1>2 DEF ProcType
    <2> QED
      BY <1>1, <1>3, <1>4, <2>1 DEF Effect, Keeps, Fields
  <1>6. Succ(Top(p).code, Top(p).pc) = {Top(p).pc + 1} /\ Top(p).pc + 1 > 0
    BY <1>1, <1>2 DEF Succ, Instr, SkipOps, FrameType
  <1> HIDE DEF r
  <1>7. CallMade(p, r, 1)
    BY <1>1, <1>4, <1>5, <1>6 DEF CallMade, CallOps, TtyOps
  <1> QED
    BY <1>1, <1>7, CallsMade

LEMMA SetMaskStep == ASSUME CodesInv, NEW p \in Procs, Does(p, "setmask", Advance([proc[p] EXCEPT !.mask = Instr(p).set], 1))
                    PROVE  Call(p) /\ proc' \in [Procs -> ProcType] /\ UNCHANGED <<program, user, tty>>
  <1> DEFINE q == proc[p]
             x == Instr(p)
             r == [q EXCEPT !.mask = x.set]
  <1>1. /\ Calling(p) /\ x.op = "setmask" /\ proc' = [proc EXCEPT ![p] = Advance(r, 1)]
        /\ UNCHANGED <<program, user, tty>>
    BY DEF Does, Does, Calls, Calling
  <1>2. q \in ProcType /\ Top(p) \in FrameType /\ InstrOK(program, Top(p).code, Top(p).pc)
    BY <1>1, Stands DEF Calling
  <1>3. x.set \in SUBSET Sigs
    BY <1>1, <1>2, HandlersExist DEF InstrOK, Instr, Actions, NoHandler
  <1>4. r \in ProcType /\ r.stack = q.stack /\ Keeps(q, r, {"mask"}) /\ r.mask = x.set
    BY <1>2, <1>3 DEF ProcType, Keeps, Fields
  <1>5. Effect(p, r)
    <2> HIDE DEF r
    <2>1. q.disp \in [Sigs -> Actions] /\ q.saved \in [Sigs -> Actions]
      BY <1>2 DEF ProcType
    <2> QED
      BY <1>1, <1>3, <1>4, <2>1 DEF Effect, Keeps, Fields
  <1>6. Succ(Top(p).code, Top(p).pc) = {Top(p).pc + 1} /\ Top(p).pc + 1 > 0
    BY <1>1, <1>2 DEF Succ, Instr, SkipOps, FrameType
  <1> HIDE DEF r
  <1>7. CallMade(p, r, 1)
    BY <1>1, <1>4, <1>5, <1>6 DEF CallMade, CallOps, TtyOps
  <1> QED
    BY <1>1, <1>7, CallsMade

LEMMA OldMaskStep == ASSUME CodesInv, NEW p \in Procs, Does(p, "oldmask", Advance([proc[p] EXCEPT !.mask = proc[p].oldmask], 1))
                    PROVE  Call(p) /\ proc' \in [Procs -> ProcType] /\ UNCHANGED <<program, user, tty>>
  <1> DEFINE q == proc[p]
             x == Instr(p)
             r == [q EXCEPT !.mask = q.oldmask]
  <1>1. /\ Calling(p) /\ x.op = "oldmask" /\ proc' = [proc EXCEPT ![p] = Advance(r, 1)]
        /\ UNCHANGED <<program, user, tty>>
    BY DEF Does, Does, Calls, Calling
  <1>2. q \in ProcType /\ Top(p) \in FrameType /\ InstrOK(program, Top(p).code, Top(p).pc)
    BY <1>1, Stands DEF Calling
  <1>3. TRUE
    BY <1>1, <1>2, HandlersExist DEF InstrOK, Instr, Actions, NoHandler
  <1>4. r \in ProcType /\ r.stack = q.stack /\ Keeps(q, r, {"mask"}) /\ r.mask = q.oldmask
    BY <1>2, <1>3 DEF ProcType, Keeps, Fields
  <1>5. Effect(p, r)
    <2> HIDE DEF r
    <2>1. q.disp \in [Sigs -> Actions] /\ q.saved \in [Sigs -> Actions]
      BY <1>2 DEF ProcType
    <2> QED
      BY <1>1, <1>3, <1>4, <2>1 DEF Effect, Keeps, Fields
  <1>6. Succ(Top(p).code, Top(p).pc) = {Top(p).pc + 1} /\ Top(p).pc + 1 > 0
    BY <1>1, <1>2 DEF Succ, Instr, SkipOps, FrameType
  <1> HIDE DEF r
  <1>7. CallMade(p, r, 1)
    BY <1>1, <1>4, <1>5, <1>6 DEF CallMade, CallOps, TtyOps
  <1> QED
    BY <1>1, <1>7, CallsMade

LEMMA AlarmStep == ASSUME CodesInv, NEW p \in Procs, Alarm(p)
                    PROVE  Call(p) /\ proc' \in [Procs -> ProcType] /\ UNCHANGED <<program, user, tty>>
  <1> DEFINE q == proc[p]
             x == Instr(p)
             r == [q EXCEPT !.alarm = x.on]
  <1>1. /\ Calling(p) /\ x.op = "alarm" /\ proc' = [proc EXCEPT ![p] = Advance(r, 1)]
        /\ UNCHANGED <<program, user, tty>>
    BY DEF Alarm, Does, Calls, Calling
  <1>2. q \in ProcType /\ Top(p) \in FrameType /\ InstrOK(program, Top(p).code, Top(p).pc)
    BY <1>1, Stands DEF Calling
  <1>3. x.on \in BOOLEAN
    BY <1>1, <1>2, HandlersExist DEF InstrOK, Instr, Actions, NoHandler
  <1>4. r \in ProcType /\ r.stack = q.stack /\ Keeps(q, r, {"alarm"}) /\ r.alarm = x.on
    BY <1>2, <1>3 DEF ProcType, Keeps, Fields
  <1>5. Effect(p, r)
    <2> HIDE DEF r
    <2>1. q.disp \in [Sigs -> Actions] /\ q.saved \in [Sigs -> Actions]
      BY <1>2 DEF ProcType
    <2> QED
      BY <1>1, <1>3, <1>4, <2>1 DEF Effect, Keeps, Fields
  <1>6. Succ(Top(p).code, Top(p).pc) = {Top(p).pc + 1} /\ Top(p).pc + 1 > 0
    BY <1>1, <1>2 DEF Succ, Instr, SkipOps, FrameType
  <1> HIDE DEF r
  <1>7. CallMade(p, r, 1)
    BY <1>1, <1>4, <1>5, <1>6 DEF CallMade, CallOps, TtyOps
  <1> QED
    BY <1>1, <1>7, CallsMade

LEMMA SetjmpStep == ASSUME CodesInv, NEW p \in Procs, Setjmp(p)
                    PROVE  Call(p) /\ proc' \in [Procs -> ProcType] /\ UNCHANGED <<program, user, tty>>
  <1> DEFINE q == proc[p]
             x == Instr(p)
             j == [set |-> TRUE, depth |-> Len(q.stack), pc |-> Top(p).pc + 1 + x.skip,
                   savemask |-> x.savemask, mask |-> q.mask]
             r == [q EXCEPT !.jmp = j]
  <1>1. /\ Calling(p) /\ x.op = "setjmp" /\ proc' = [proc EXCEPT ![p] = Advance(r, 1)]
        /\ UNCHANGED <<program, user, tty>>
    BY DEF Setjmp, Does, Calls, Calling
  <1>2. q \in ProcType /\ Top(p) \in FrameType /\ Len(q.stack) \in Nat /\ InstrOK(program, Top(p).code, Top(p).pc)
    BY <1>1, Stands DEF Calling
  <1>3. j \in JmpType
    <2>1. x.skip \in Nat /\ x.savemask \in BOOLEAN
      BY <1>1, <1>2 DEF InstrOK, Instr
    <2>2. Top(p).pc + 1 + x.skip \in Nat
      BY <1>2, <2>1 DEF FrameType
    <2>3. q.mask \in SUBSET Sigs
      BY <1>2 DEF ProcType
    <2> QED
      BY <1>2, <2>1, <2>2, <2>3 DEF JmpType
  <1>4. r \in ProcType /\ r.stack = q.stack /\ Keeps(q, r, {"jmp"}) /\ r.jmp = j
    <2> HIDE DEF j
    <2> QED
      BY <1>2, <1>3 DEF ProcType, Keeps, Fields
  <1>5. Effect(p, r)
    <2> HIDE DEF r
    <2>1. q.disp \in [Sigs -> Actions] /\ q.saved \in [Sigs -> Actions]
      BY <1>2 DEF ProcType
    <2> QED
      BY <1>1, <1>4, <2>1 DEF Effect, Keeps, Fields
  <1>6. Succ(Top(p).code, Top(p).pc) = {Top(p).pc + 1} /\ Top(p).pc + 1 > 0
    BY <1>1, <1>2 DEF Succ, Instr, SkipOps, FrameType
  <1> HIDE DEF r
  <1>7. CallMade(p, r, 1)
    BY <1>1, <1>4, <1>5, <1>6 DEF CallMade, CallOps, TtyOps
  <1> QED
    BY <1>1, <1>7, CallsMade

LEMMA FlagSetStep == ASSUME CodesInv, NEW p \in Procs, Does(p, "flag", Advance([proc[p] EXCEPT !.flag = Instr(p).value], 1))
                    PROVE  Call(p) /\ proc' \in [Procs -> ProcType] /\ UNCHANGED <<program, user, tty>>
  <1> DEFINE q == proc[p]
             x == Instr(p)
             r == [q EXCEPT !.flag = x.value]
  <1>1. /\ Calling(p) /\ x.op = "flag" /\ proc' = [proc EXCEPT ![p] = Advance(r, 1)]
        /\ UNCHANGED <<program, user, tty>>
    BY DEF Does, Does, Calls, Calling
  <1>2. q \in ProcType /\ Top(p) \in FrameType /\ InstrOK(program, Top(p).code, Top(p).pc)
    BY <1>1, Stands DEF Calling
  <1>3. x.value \in BOOLEAN
    BY <1>1, <1>2, HandlersExist DEF InstrOK, Instr, Actions, NoHandler
  <1>4. r \in ProcType /\ r.stack = q.stack /\ Keeps(q, r, {"flag"}) /\ r.flag = x.value
    BY <1>2, <1>3 DEF ProcType, Keeps, Fields
  <1>5. Effect(p, r)
    <2> HIDE DEF r
    <2>1. q.disp \in [Sigs -> Actions] /\ q.saved \in [Sigs -> Actions]
      BY <1>2 DEF ProcType
    <2> QED
      BY <1>1, <1>3, <1>4, <2>1 DEF Effect, Keeps, Fields
  <1>6. Succ(Top(p).code, Top(p).pc) = {Top(p).pc + 1} /\ Top(p).pc + 1 > 0
    BY <1>1, <1>2 DEF Succ, Instr, SkipOps, FrameType
  <1> HIDE DEF r
  <1>7. CallMade(p, r, 1)
    BY <1>1, <1>4, <1>5, <1>6 DEF CallMade, CallOps, TtyOps
  <1> QED
    BY <1>1, <1>7, CallsMade

LEMMA FlagOnStep == ASSUME CodesInv, NEW p \in Procs, Does(p, "flag_on", Advance([proc[p] EXCEPT !.flag = @ \/ Top(p).sig = Instr(p).sig], 1))
                    PROVE  Call(p) /\ proc' \in [Procs -> ProcType] /\ UNCHANGED <<program, user, tty>>
  <1> DEFINE q == proc[p]
             x == Instr(p)
             r == [q EXCEPT !.flag = @ \/ Top(p).sig = x.sig]
  <1>1. /\ Calling(p) /\ x.op = "flag_on" /\ proc' = [proc EXCEPT ![p] = Advance(r, 1)]
        /\ UNCHANGED <<program, user, tty>>
    BY DEF Does, Does, Calls, Calling
  <1>2. q \in ProcType /\ Top(p) \in FrameType /\ InstrOK(program, Top(p).code, Top(p).pc)
    BY <1>1, Stands DEF Calling
  <1>3. TRUE
    BY <1>1, <1>2, HandlersExist DEF InstrOK, Instr, Actions, NoHandler
  <1>4. r \in ProcType /\ r.stack = q.stack /\ Keeps(q, r, {"flag"}) /\ TRUE
    BY <1>2, <1>3 DEF ProcType, Keeps, Fields
  <1>5. Effect(p, r)
    <2> HIDE DEF r
    <2>1. q.disp \in [Sigs -> Actions] /\ q.saved \in [Sigs -> Actions]
      BY <1>2 DEF ProcType
    <2> QED
      BY <1>1, <1>3, <1>4, <2>1 DEF Effect, Keeps, Fields
  <1>6. Succ(Top(p).code, Top(p).pc) = {Top(p).pc + 1} /\ Top(p).pc + 1 > 0
    BY <1>1, <1>2 DEF Succ, Instr, SkipOps, FrameType
  <1> HIDE DEF r
  <1>7. CallMade(p, r, 1)
    BY <1>1, <1>4, <1>5, <1>6 DEF CallMade, CallOps, TtyOps
  <1> QED
    BY <1>1, <1>7, CallsMade

LEMMA SuccPositive ==
  ASSUME NEW P, NEW c, NEW i \in Nat \ {0}, InstrOK(P, c, i), Len(Code[c]) \in Nat \ {0}, NEW j \in Succ(c, i)
  PROVE  j \in Nat \ {0}
  <1> DEFINE x == Code[c][i]
  <1>1. CASE x.op = "back"
    BY <1>1 DEF InstrOK, Succ
  <1>2. CASE x.op = "go"
    BY <1>2 DEF InstrOK, Succ
  <1>3. CASE x.op = "give_up"
    BY <1>3 DEF InstrOK, Succ
  <1>4. CASE x.op = "return_unless_flag"
    BY <1>4 DEF Succ
  <1>5. CASE x.op \in SkipOps
    <2>1. x.skip \in Nat
      BY <1>5 DEF InstrOK, SkipOps
    <2>2. Succ(c, i) = {i + 1, i + 1 + x.skip}
      BY <1>5 DEF Succ, SkipOps
    <2> QED
      BY <2>1, <2>2
  <1>6. CASE x.op \notin {"back", "go", "give_up", "return_unless_flag"} \cup SkipOps
    BY <1>6 DEF Succ
  <1> QED
    BY <1>1, <1>2, <1>3, <1>4, <1>5, <1>6

\* p goes on m calls further, and changes nothing else of itself.
Goes(p, m) ==
  /\ Calling(p) /\ m \in Int /\ proc' = [proc EXCEPT ![p] = Advance(proc[p], m)]
  /\ Instr(p).op \in TtyOps \cup {"compute", "return_unless_flag", "skip_if_flag", "back", "go", "fork"}
  /\ Top(p).pc + m \in Succ(Top(p).code, Top(p).pc)
  /\ Instr(p).op = "skip_if_flag" => m = IF proc[p].flag THEN 1 + Instr(p).skip ELSE 1
  /\ Instr(p).op = "return_unless_flag" => m = IF proc[p].flag THEN 1 ELSE Len(Code[Top(p).code])
  /\ Instr(p).op = "fork" => program # "tell_wait" /\ m = 1 + Instr(p).skip
  /\ IF Instr(p).op \in TtyOps THEN Terminal(p) ELSE tty' = tty

LEMMA Going ==
  ASSUME CodesInv, NEW p \in Procs, NEW m, Goes(p, m)
  PROVE  Call(p) /\ proc' \in [Procs -> ProcType]
  <1> DEFINE q == proc[p]
             x == Instr(p)
  <1>1. q \in ProcType /\ Top(p) \in FrameType /\ InstrOK(program, Top(p).code, Top(p).pc) /\ Len(Code[Top(p).code]) \in Nat
        /\ Top(p).pc \in 1..Len(Code[Top(p).code])
    BY Stands DEF Calling, Goes
  <1>2. Effect(p, q)
    BY DEF Effect, Keeps, Fields, TtyOps, Goes
  <1>3. Top(p).pc + m \in Nat \ {0}
    BY <1>1, SuccPositive DEF Goes
  <1>4. CallMade(p, q, m)
    BY <1>1, <1>2, <1>3 DEF CallMade, CallOps, TtyOps, Goes
  <1> QED
    BY <1>4, CallsMade

LEMMA ComputeStep == ASSUME CodesInv, NEW p \in Procs, Compute(p)
                     PROVE  Call(p) /\ proc' \in [Procs -> ProcType] /\ UNCHANGED <<program, user, tty>>
  <1>1. /\ Calling(p) /\ Instr(p).op = "compute" /\ proc' = [proc EXCEPT ![p] = Advance(proc[p], 1)]
        /\ UNCHANGED <<program, user, tty>>
    BY DEF Compute, Does, Calls, Calling
  <1>2. Top(p).pc + 1 \in Succ(Top(p).code, Top(p).pc)
    BY <1>1 DEF Succ, Instr, SkipOps
  <1>3. Goes(p, 1)
    BY <1>1, <1>2 DEF Goes, TtyOps
  <1> QED
    BY <1>1, <1>3, Going

LEMMA FlagStep == ASSUME CodesInv, NEW p \in Procs, Flag(p)
                  PROVE  Call(p) /\ proc' \in [Procs -> ProcType] /\ UNCHANGED <<program, user, tty>>
  <1> DEFINE m1 == IF proc[p].flag THEN 1 ELSE Len(Code[Top(p).code])
             m2 == IF proc[p].flag THEN 1 + Instr(p).skip ELSE 1
  <1>1. CASE Does(p, "return_unless_flag", Advance(proc[p], m1))
    <2>1. /\ Calling(p) /\ Instr(p).op = "return_unless_flag" /\ proc' = [proc EXCEPT ![p] = Advance(proc[p], m1)]
          /\ UNCHANGED <<program, user, tty>>
      BY <1>1 DEF Does, Calls, Calling
    <2>2. Len(Code[Top(p).code]) \in Nat
      BY <2>1, Stands DEF Calling
    <2>3. m1 \in Int /\ Top(p).pc + m1 \in Succ(Top(p).code, Top(p).pc)
      BY <2>1, <2>2 DEF Succ, Instr, SkipOps
    <2> HIDE DEF m1
    <2>4. Goes(p, m1)
      BY <2>1, <2>3 DEF Goes, TtyOps, m1
    <2> QED
      BY <2>1, <2>4, Going
  <1>2. CASE Does(p, "skip_if_flag", Advance(proc[p], m2))
    <2>1. /\ Calling(p) /\ Instr(p).op = "skip_if_flag" /\ proc' = [proc EXCEPT ![p] = Advance(proc[p], m2)]
          /\ UNCHANGED <<program, user, tty>>
      BY <1>2 DEF Does, Calls, Calling
    <2>2. Instr(p).skip \in Nat /\ Top(p).pc \in Nat
      BY <2>1, Stands DEF Calling, InstrOK, Instr, FrameType
    <2>3. m2 \in Int /\ Top(p).pc + m2 \in Succ(Top(p).code, Top(p).pc)
      BY <2>1, <2>2 DEF Succ, Instr, SkipOps
    <2> HIDE DEF m2
    <2>4. Goes(p, m2)
      BY <2>1, <2>3 DEF Goes, TtyOps, m2
    <2> QED
      BY <2>1, <2>4, Going
  <1> QED
    BY <1>1, <1>2, FlagSetStep, FlagOnStep DEF Flag

LEMMA BackStep == ASSUME CodesInv, NEW p \in Procs, Back(p)
                  PROVE  Call(p) /\ proc' \in [Procs -> ProcType] /\ UNCHANGED <<program, user, tty>>
  <1> DEFINE q == proc[p]
             by == Instr(p).n
  <1>1. Running(p) /\ MoreToDo(p) /\ Instr(p).op = "back" /\ Deliverable(p) = {} /\ UNCHANGED <<program, user, tty>>
    BY DEF Back, Calls
  <1>2. ~q.inside
    BY <1>1 DEF CodesInv, StackOK, Blocking, Interruptible
  <1>3. /\ q \in ProcType /\ Top(p) \in FrameType /\ Top(p) = q.stack[Len(q.stack)] /\ Len(q.stack) \in Nat \ {0}
        /\ InstrOK(program, Top(p).code, Top(p).pc)
    BY <1>1, Stands
  <1>4. by \in Nat /\ Top(p).pc \in Nat
    BY <1>1, <1>3 DEF InstrOK, Instr, FrameType
  <1>5. proc' = [proc EXCEPT ![p] = Advance(q, 0 - by)]
    <2>1. Top(p).pc - by = Top(p).pc + (0 - by)
      BY <1>4
    <2>2. proc' = [proc EXCEPT ![p] = [q EXCEPT !.stack[Len(q.stack)].pc = Top(p).pc - by]]
      BY <1>3 DEF Back
    <2>3. Advance(q, 0 - by) = [q EXCEPT !.stack[Len(q.stack)].pc = Top(p).pc + (0 - by)]
      BY <1>3 DEF Advance
    <2> QED
      BY <2>1, <2>2, <2>3
  <1>6. Top(p).pc + (0 - by) \in Succ(Top(p).code, Top(p).pc)
    BY <1>1, <1>4 DEF Succ, Instr
  <1>7. Goes(p, 0 - by)
    BY <1>1, <1>2, <1>4, <1>5, <1>6 DEF Goes, TtyOps, Calling
  <1> QED
    BY <1>1, <1>7, Going

LEMMA GoStep == ASSUME CodesInv, NEW p \in Procs, Go(p)
                PROVE  Call(p) /\ proc' \in [Procs -> ProcType] /\ UNCHANGED <<program, user, tty>>
  <1>1. PICK by \in Instr(p).set : Calls(p, "go") /\ Does(p, "go", Advance(proc[p], by))
    BY DEF Go
  <1>2. /\ Calling(p) /\ Instr(p).op = "go" /\ proc' = [proc EXCEPT ![p] = Advance(proc[p], by)]
        /\ UNCHANGED <<program, user, tty>>
    BY <1>1 DEF Does, Calls, Calling
  <1>3. by \in Int /\ Top(p).pc + by \in Succ(Top(p).code, Top(p).pc)
    <2>1. InstrOK(program, Top(p).code, Top(p).pc)
      BY <1>2, Stands DEF Calling
    <2>2. by \in Int
      BY <1>2, <2>1 DEF InstrOK, Instr
    <2> QED
      BY <1>2, <2>2 DEF Instr, Succ
  <1>4. Goes(p, by)
    BY <1>2, <1>3 DEF Goes, TtyOps
  <1> QED
    BY <1>2, <1>4, Going

LEMMA NotInside ==
  ASSUME CodesInv, NEW p \in Procs, Running(p), MoreToDo(p), Instr(p).op \notin Blocking
  PROVE  ~proc[p].inside
  BY DEF CodesInv, StackOK

LEMMA TerminalStep == ASSUME CodesInv, NEW p \in Procs, Terminal(p)
                      PROVE  Call(p) /\ proc' \in [Procs -> ProcType] /\ tty' \in TtyType /\ UNCHANGED <<program, user>>
  <1> DEFINE x == Instr(p)
  <1>1. PICK op, m, used :
             /\ op \in TtyOps /\ m \in {1, 1 + x.skip}
             /\ Uses(p, op, m, used)
             /\ op = "give_up" => m = 1 + x.skip
             /\ op \notin SkipOps \cup {"give_up"} => m = 1
             /\ \/ used = tty
                \/ used = [tty EXCEPT !.saved = tty.mode]
                \/ used = [tty EXCEPT !.saved = "garbage"]
                \/ used \in {Restored, HalfRestored, NotRestored}
                \/ op = "tcsetattr" /\ \E mode \in {x.mode, "partly"} : used = [tty EXCEPT !.mode = mode]
                \/ op = "ttystate" /\ used = [tty EXCEPT !.ttystate = x.state]
    BY DEF Terminal, TtyOps, SkipOps
  <1>2. /\ Running(p) /\ MoreToDo(p) /\ x.op = op /\ Deliverable(p) = {} /\ UNCHANGED <<program, user>>
        /\ proc' = [proc EXCEPT ![p] = Advance(proc[p], m)] /\ tty' = used
    BY <1>1 DEF Uses, Calls
  <1>3. Calling(p)
    <2>1. x.op \notin Blocking
      BY <1>1, <1>2 DEF TtyOps, Blocking, Interruptible
    <2>2. ~proc[p].inside
      BY <1>2, <2>1, NotInside
    <2> QED
      BY <1>2, <2>2 DEF Calling
  <1>4. InstrOK(program, Top(p).code, Top(p).pc) /\ Top(p).pc \in Nat
    BY <1>3, Stands DEF Calling, FrameType
  <1>5. m \in Int /\ (op \in SkipOps \cup {"give_up"} => x.skip \in Nat)
    <2>1. op \in {"tcgetattr", "tcsetattr", "tcrestore", "confirm", "give_up", "skip_if_state"} => x.skip \in Nat
      BY <1>2, <1>4 DEF InstrOK, Instr
    <2>2. op \in SkipOps \cup {"give_up"} => op \in {"tcgetattr", "tcsetattr", "tcrestore", "confirm", "give_up", "skip_if_state"}
      BY <1>1 DEF TtyOps, SkipOps
    <2> QED
      BY <1>1, <2>1, <2>2
  <1>6. Top(p).pc + m \in Succ(Top(p).code, Top(p).pc)
    <2>1. CASE op = "give_up"
      BY <1>1, <1>2, <1>4, <2>1 DEF Succ, Instr, InstrOK
    <2>2. CASE op \in SkipOps
      <3>1. Succ(Top(p).code, Top(p).pc) = {Top(p).pc + 1, Top(p).pc + 1 + x.skip}
        BY <1>2, <2>2 DEF Succ, Instr, SkipOps
      <3> QED
        BY <1>1, <1>4, <1>5, <2>2, <3>1
    <2>3. CASE op \notin SkipOps \cup {"give_up"}
      BY <1>1, <1>2, <1>4, <2>3 DEF Succ, Instr, TtyOps
    <2> QED
      BY <2>1, <2>2, <2>3
  <1>7. Goes(p, m)
    <2>1. /\ op \notin {"skip_if_flag", "return_unless_flag", "fork"}
          /\ Terminal(p) /\ op \in TtyOps
      BY <1>1 DEF TtyOps
    <2>2. Instr(p).op = op
      BY <1>2
    <2> QED
      BY <1>2, <1>3, <1>5, <1>6, <2>1, <2>2 DEF Goes
  <1>8. tty' \in TtyType
    <2>1. op = "tcsetattr" => x.mode \in Modes
      BY <1>2, <1>4 DEF InstrOK, Instr
    <2>2. op = "ttystate" => x.state \in {"RESET", "CBREAK", "RAW"}
      BY <1>2, <1>4 DEF InstrOK, Instr
    <2>3. tty \in TtyType
      BY DEF CodesInv, SigTypeOK
    <2> QED
      BY <1>1, <1>2, <2>1, <2>2, <2>3 DEF TtyType, Modes, Restored, HalfRestored, NotRestored
  <1> QED
    BY <1>2, <1>7, <1>8, Going

LEMMA ForkStep == ASSUME CodesInv, NEW p \in Procs, Fork(p)
                  PROVE  (Forks \/ Call(p)) /\ proc' \in [Procs -> ProcType] /\ UNCHANGED <<program, user, tty>>
  <1> DEFINE q == proc[p]
             x == Instr(p)
             c == [q EXCEPT !.stack = <<Frame(x.code, "none", {})>>, !.pending = {}, !.alarm = FALSE]
  <1>1. Running(p) /\ MoreToDo(p) /\ x.op = "fork" /\ Deliverable(p) = {} /\ UNCHANGED <<program, user, tty>>
    BY DEF Fork, Calls
  <1>2. Calling(p)
    BY <1>1, NotInside DEF Calling, Blocking, Interruptible
  <1>3. /\ q \in ProcType /\ Top(p) \in FrameType /\ InstrOK(program, Top(p).code, Top(p).pc)
        /\ (Top(p).code = program <=> p = "parent" /\ Len(q.stack) = 1)
    BY <1>1, Stands
  <1>4. p = "parent" /\ x.code = Kid[program] /\ program \in Forkers /\ x.skip \in Nat /\ Top(p).pc \in Nat
    BY <1>1, <1>3 DEF InstrOK, Instr, FrameType
  <1>5. CASE proc' = [parent |-> Advance(proc[p], 1), child |-> c]
    <2>1. Kid[program] \in DOMAIN Code
      BY <1>4, MainsAndHandlers DEF CodesInv, SigTypeOK
    <2>2. Frame(x.code, "none", {}) \in FrameType
      BY <1>4, <2>1 DEF Frame, FrameType
    <2>3. <<Frame(x.code, "none", {})>> \in Seq(FrameType)
      BY <2>2
    <2>4. /\ c \in ProcType /\ Keeps(q, c, {"stack", "pending", "alarm"})
          /\ c.stack = <<Frame(x.code, "none", {})>> /\ c.pending = {} /\ c.alarm = FALSE
      <3> HIDE DEF Frame
      <3> QED
        BY <1>3, <2>3 DEF ProcType, Keeps, Fields
    <2>5. /\ Advance(q, 1) \in ProcType
          /\ Keeps(q, Advance(q, 1), {"stack"})
          /\ Moved(q.stack, Advance(q, 1).stack, Top(p).pc + 1)
      <3>1. Len(q.stack) > 0 /\ q.stack[Len(q.stack)] = Top(p)
        BY <1>1, Stands
      <3> QED
        BY <1>3, <1>4, <3>1, AdvanceFacts
    <2> HIDE DEF c
    <2>6. proc'["parent"] = Advance(q, 1) /\ proc'["child"] = c /\ proc' \in [Procs -> ProcType]
      BY <1>5, <2>4, <2>5 DEF Procs
    <2> QED
      BY <1>1, <1>2, <1>4, <2>4, <2>5, <2>6 DEF Forks
  <1>6. CASE program # "tell_wait" /\ proc' = [proc EXCEPT ![p] = Advance(@, 1 + x.skip)]
    <2>1. Top(p).pc + (1 + x.skip) \in Succ(Top(p).code, Top(p).pc)
      BY <1>1, <1>4 DEF Succ, Instr, SkipOps
    <2>2. Goes(p, 1 + x.skip)
      BY <1>1, <1>2, <1>4, <1>6, <2>1 DEF Goes, TtyOps
    <2> QED
      BY <1>1, <2>2, Going
  <1> QED
    BY <1>4, <1>5, <1>6 DEF Fork

LEMMA SentFacts ==
  ASSUME NEW q \in ProcType, NEW s \in Sigs
  PROVE  Sent_to(q, s) \in ProcType /\ Keeps(q, Sent_to(q, s), {"pending"}) /\ Gets(q, Sent_to(q, s), s)
  BY DEF Sent_to, Gets, ProcType, Keeps, Fields

LEMMA KillStep == ASSUME CodesInv, NEW p \in Procs, Kill(p)
                  PROVE  Kills(p) /\ proc' \in [Procs -> ProcType] /\ UNCHANGED <<program, user, tty>>
  <1> DEFINE q == proc[p]
             x == Instr(p)
             called == [proc EXCEPT ![p] = Advance(@, 1)]
  <1>1. Running(p) /\ MoreToDo(p) /\ x.op = "kill" /\ Deliverable(p) = {} /\ UNCHANGED <<program, user, tty>>
    BY DEF Kill, Calls
  <1>2. Calling(p)
    BY <1>1, NotInside DEF Calling, Blocking, Interruptible
  <1>3. q \in ProcType /\ Top(p) \in FrameType /\ InstrOK(program, Top(p).code, Top(p).pc)
        /\ Len(q.stack) > 0 /\ q.stack[Len(q.stack)] = Top(p)
    BY <1>1, Stands
  <1>4. x.to \in Procs /\ x.sig \in Sigs /\ Top(p).pc \in Nat
    <2>1. x.to \in Procs /\ x.sig \in PendingOf[program] /\ Top(p).pc \in Nat
      BY <1>1, <1>3 DEF InstrOK, Instr, FrameType
    <2> QED
      BY <2>1, MainsAndHandlers DEF CodesInv, SigTypeOK
  <1>5. /\ Advance(q, 1) \in ProcType
        /\ Keeps(q, Advance(q, 1), {"stack"})
        /\ Moved(q.stack, Advance(q, 1).stack, Top(p).pc + 1)
    BY <1>3, <1>4, AdvanceFacts
  <1>6. called \in [Procs -> ProcType] /\ called[p] = Advance(q, 1) /\ \A z \in Procs \ {p} : called[z] = proc[z]
    <2> HIDE DEF Advance
    <2> QED
      BY <1>5 DEF CodesInv, SigTypeOK
  <1>7. proc' = [called EXCEPT ![x.to] = Sent_to(@, x.sig)]
    BY DEF Kill
  <1> HIDE DEF called
  <1>8. /\ proc' \in [Procs -> ProcType]
        /\ proc'[x.to] = Sent_to(called[x.to], x.sig) /\ \A z \in Procs \ {x.to} : proc'[z] = called[z]
    <2>1. Sent_to(called[x.to], x.sig) \in ProcType
      BY <1>4, <1>6, SentFacts
    <2> QED
      BY <1>4, <1>6, <1>7, <2>1
  <1>9. ASSUME NEW z \in Procs
        PROVE  /\ Keeps(proc[z], proc'[z], {"stack", "pending"})
               /\ IF z = p THEN Moved(proc[z].stack, proc'[z].stack, Top(p).pc + 1) ELSE proc'[z].stack = proc[z].stack
               /\ IF z = x.to THEN Gets(proc[z], proc'[z], x.sig) ELSE proc'[z].pending = proc[z].pending
    <2>1. /\ Keeps(proc[z], called[z], {"stack"})
          /\ IF z = p THEN Moved(proc[z].stack, called[z].stack, Top(p).pc + 1) ELSE called[z] = proc[z]
      <3>1. CASE z = p
        BY <1>5, <1>6, <3>1
      <3>2. CASE z # p
        BY <1>6, <3>2 DEF Keeps
      <3> QED
        BY <3>1, <3>2
    <2>2. CASE z = x.to
      <3>1. Keeps(called[z], proc'[z], {"pending"}) /\ Gets(called[z], proc'[z], x.sig)
        BY <1>4, <1>6, <1>8, <2>2, SentFacts
      <3>2. Keeps(proc[z], proc'[z], {"stack", "pending"}) /\ proc'[z].stack = called[z].stack
        BY <2>1, <3>1 DEF Keeps, Fields
      <3>3. Gets(proc[z], proc'[z], x.sig)
        BY <2>1, <3>1 DEF Gets, Ignored, Keeps, Fields
      <3> QED
        BY <2>1, <2>2, <3>2, <3>3
    <2>3. CASE z # x.to
      BY <1>8, <2>1, <2>3 DEF Keeps, Fields
    <2> QED
      BY <2>2, <2>3
  <1> QED
    BY <1>1, <1>2, <1>8, <1>9 DEF Kills

LEMMA LongjmpStep == ASSUME CodesInv, NEW p \in Procs, Longjmp(p)
                     PROVE  Jumps(p) /\ proc' \in [Procs -> ProcType] /\ UNCHANGED <<program, user, tty>>
  <1> DEFINE q == proc[p]
             j == q.jmp
             t == [SubSeq(q.stack, 1, j.depth) EXCEPT ![j.depth].pc = j.pc]
             r == [q EXCEPT !.stack = t, !.mask = IF j.savemask THEN j.mask ELSE @]
  <1>1. /\ Calling(p) /\ Instr(p).op = "longjmp" /\ j.set /\ proc' = [proc EXCEPT ![p] = r]
        /\ UNCHANGED <<program, user, tty>>
    BY DEF Longjmp, Does, Calls, Calling
  <1>2. q \in ProcType /\ q.stack \in Seq(FrameType) /\ Len(q.stack) \in Nat \ {0}
    BY <1>1, Stands DEF Calling, ProcType
  <1>3. j.depth = 1 /\ j.pc \in Nat \ {0} /\ j.mask \in SUBSET Sigs
    BY <1>1, <1>2 DEF CodesInv, JmpOK, ProcType, JmpType
  <1>4. q.stack[1] \in FrameType
    BY <1>2
  <1>5. [q.stack[1] EXCEPT !.pc = j.pc] \in FrameType /\ [q.stack[1] EXCEPT !.pc = j.pc].pc = j.pc
        /\ [q.stack[1] EXCEPT !.pc = j.pc].code = q.stack[1].code
    BY <1>3, <1>4 DEF FrameType
  <1>6. t \in Seq(FrameType) /\ Len(t) = 1 /\ t[1] = [q.stack[1] EXCEPT !.pc = j.pc]
    <2> DEFINE u == SubSeq(q.stack, 1, 1)
    <2>1. u \in Seq(FrameType) /\ Len(u) = 1 /\ u[1] = q.stack[1]
      BY <1>2
    <2>2. t = [u EXCEPT ![1] = [u[1] EXCEPT !.pc = j.pc]]
      BY <1>3
    <2> HIDE DEF u, t
    <2> QED
      BY <1>5, <2>1, <2>2
  <1>7. t \in Seq(FrameType) /\ Len(t) = 1 /\ t[1].pc = j.pc /\ t[1].code = q.stack[1].code
    BY <1>5, <1>6
  <1> HIDE DEF t
  <1>8. /\ r \in ProcType /\ Keeps(q, r, {"stack", "mask"}) /\ r.stack = t
        /\ r.mask = IF j.savemask THEN j.mask ELSE q.mask
    BY <1>2, <1>3, <1>7 DEF ProcType, Keeps, Fields
  <1> HIDE DEF r
  <1>9. proc' \in [Procs -> ProcType] /\ proc'[p] = r /\ Rest(p)
    BY <1>1, <1>8 DEF CodesInv, SigTypeOK, Rest
  <1> QED
    BY <1>1, <1>7, <1>8, <1>9 DEF Jumps

LEMMA EndsFacts ==
  ASSUME CodesInv, NEW p \in Procs, Running(p), NEW how \in Status, Ends(p, how)
  PROVE  /\ proc' \in [Procs -> ProcType]
         /\ proc'[p].status = how
         /\ Keeps(Idle, proc'[p], {"status", "mask", "disp", "result"})
         /\ Keeps(proc[p], proc'[p], Fields \ {"mask", "disp", "result"})
         /\ p = "child" => /\ Keeps(proc["parent"], proc'["parent"], {"pending"})
                           /\ Gets(proc["parent"], proc'["parent"], "CHLD")
         /\ p = "parent" => proc'["child"] = proc["child"]
  <1> DEFINE q == proc[p]
             e == [Idle EXCEPT !.status = how, !.mask = q.mask, !.disp = q.disp, !.result = q.result]
  <1>1. proc \in [Procs -> ProcType] /\ q \in ProcType
    BY DEF CodesInv, SigTypeOK
  <1>2. Idle \in ProcType
    <2>1. <<>> \in Seq(FrameType)
      BY EmptySeq
    <2> QED
      BY <2>1 DEF Idle, ProcType, Status, Actions, NoHandler, JmpType
  <1>3. /\ e \in ProcType /\ e.status = how /\ e.mask = q.mask /\ e.disp = q.disp /\ e.result = q.result
        /\ Keeps(Idle, e, {"status", "mask", "disp", "result"})
    BY <1>1, <1>2 DEF ProcType, Keeps, Fields
  <1>4. Keeps(q, e, Fields \ {"mask", "disp", "result"})
    BY <1>3 DEF Keeps, Fields
  <1>5. /\ Sent_to(proc["parent"], "CHLD") \in ProcType
        /\ Keeps(proc["parent"], Sent_to(proc["parent"], "CHLD"), {"pending"})
        /\ Gets(proc["parent"], Sent_to(proc["parent"], "CHLD"), "CHLD")
    BY <1>1, SentFacts DEF Procs, Sigs
  <1>6. proc' = IF p = "child" THEN [parent |-> Sent_to(proc["parent"], "CHLD"), child |-> e]
                ELSE [proc EXCEPT ![p] = e]
    BY DEF Ends
  <1> HIDE DEF e
  <1>7. CASE p = "child"
    <2>1. proc'["parent"] = Sent_to(proc["parent"], "CHLD") /\ proc'["child"] = e /\ proc' \in [Procs -> ProcType]
      BY <1>3, <1>5, <1>6, <1>7 DEF Procs
    <2> QED
      BY <1>3, <1>4, <1>5, <1>7, <2>1
  <1>8. CASE p = "parent"
    <2>1. proc'["child"] = proc["child"] /\ proc'["parent"] = e /\ proc' \in [Procs -> ProcType]
      BY <1>1, <1>3, <1>6, <1>8 DEF Procs
    <2> QED
      BY <1>3, <1>4, <1>8, <2>1
  <1> QED
    BY <1>7, <1>8 DEF Procs

LEMMA ExitStep == ASSUME CodesInv, NEW p \in Procs, Exit(p)
                  PROVE  Dies(p) /\ proc' \in [Procs -> ProcType] /\ UNCHANGED <<program, user, tty>>
  <1>1. Running(p) /\ MoreToDo(p) /\ Instr(p).op = "exit" /\ Ends(p, "exited") /\ UNCHANGED <<program, user, tty>>
    BY DEF Exit, Calls
  <1>2. "exited" \in Status
    BY DEF Status
  <1> QED
    BY <1>1, <1>2, EndsFacts DEF Dies

LEMMA ReturnStep == ASSUME CodesInv, NEW p \in Procs, Return(p)
                    PROVE  (Dies(p) \/ Returns(p)) /\ proc' \in [Procs -> ProcType] /\ UNCHANGED <<program, user, tty>>
  <1> DEFINE q == proc[p]
             r == [q EXCEPT !.stack = Front(@), !.mask = Top(p).restore]
  <1>1. Running(p) /\ ~MoreToDo(p) /\ Deliverable(p) = {} /\ UNCHANGED <<program, user, tty>>
    BY DEF Return
  <1>2. CASE InMain(p)
    <2>1. "exited" \in Status /\ Ends(p, "exited")
      BY <1>2 DEF Status, Return
    <2> QED
      BY <1>1, <1>2, <2>1, EndsFacts DEF Dies
  <1>3. CASE ~InMain(p)
    <2>0. q \in ProcType /\ Len(q.stack) \in Nat \ {0} /\ Top(p) \in FrameType /\ q.stack \in Seq(FrameType)
      BY <1>1, Stands DEF ProcType
    <2>1. q \in ProcType /\ Len(q.stack) \in Nat \ {0} /\ Top(p) \in FrameType /\ q.stack \in Seq(FrameType) /\ Len(q.stack) > 1
      <3>1. Len(q.stack) # 1
        BY <1>3 DEF InMain
      <3> DEFINE l == Len(q.stack)
      <3>2. l \in Nat \ {0} /\ l # 1
        BY <2>0, <3>1
      <3> HIDE DEF l
      <3>3. l > 1
        BY <3>2
      <3> QED
        BY <2>0, <3>3 DEF l
    <2>2. /\ Front(q.stack) \in Seq(FrameType) /\ Len(Front(q.stack)) = Len(q.stack) - 1
          /\ \A k \in 1..(Len(q.stack) - 1) : Front(q.stack)[k] = q.stack[k]
      BY <2>1 DEF Front
    <2>3. /\ r \in ProcType /\ Keeps(q, r, {"stack", "mask"}) /\ r.stack = Front(q.stack) /\ r.mask = Top(p).restore
      <3>1. Top(p).restore \in SUBSET Sigs
        BY <2>1 DEF FrameType
      <3> HIDE DEF Front
      <3> QED
        BY <2>1, <2>2, <3>1 DEF ProcType, Keeps, Fields
    <2>4. proc' = [proc EXCEPT ![p] = r]
      BY <1>3 DEF Return
    <2> HIDE DEF r
    <2>5. proc' \in [Procs -> ProcType] /\ proc'[p] = r /\ Rest(p)
      BY <2>3, <2>4 DEF CodesInv, SigTypeOK, Rest
    <2> QED
      BY <1>1, <2>1, <2>2, <2>3, <2>5 DEF Returns
  <1> QED
    BY <1>2, <1>3

LEMMA DeliverStep == ASSUME CodesInv, NEW p \in Procs, Deliver(p)
                     PROVE  (SignalsCome \/ Dies(p) \/ Handles(p)) /\ proc' \in [Procs -> ProcType] /\ UNCHANGED <<program, user, tty>>
  <1> DEFINE q == proc[p]
  <1>1. PICK s \in Deliverable(p) :
               \/ Ignored(q, s) /\ proc' = [proc EXCEPT ![p].pending = @ \ {s}]
               \/ ~Ignored(q, s) /\ q.disp[s] = "SIG_DFL" /\ Ends(p, s)
               \/ q.disp[s] \notin {"SIG_DFL", "SIG_IGN"} /\ Handle(p, s)
    BY DEF Deliver
  <1>2. /\ Running(p) /\ UNCHANGED <<program, user, tty>> /\ q \in ProcType /\ s \in Sigs /\ s \in q.pending /\ s \notin q.mask
        /\ proc \in [Procs -> ProcType]
    BY <1>1 DEF Deliver, Deliverable, ProcType, CodesInv, SigTypeOK
  <1>3. CASE Ignored(q, s) /\ proc' = [proc EXCEPT ![p].pending = @ \ {s}]
    <2> DEFINE r == [q EXCEPT !.pending = @ \ {s}]
    <2>1. r \in ProcType /\ Keeps(q, r, {"pending"}) /\ r.pending = q.pending \ {s}
      BY <1>2 DEF ProcType, Keeps, Fields
    <2>2. proc' = [proc EXCEPT ![p] = r]
      BY <1>3
    <2> HIDE DEF r
    <2>3. proc' \in [Procs -> ProcType] /\ proc'[p] = r /\ Rest(p)
      BY <1>2, <2>1, <2>2 DEF Rest
    <2>4. ASSUME NEW z \in Procs
          PROVE  /\ Keeps(proc[z], proc'[z], {"pending", "alarm"})
                 /\ proc'[z].alarm => proc[z].alarm
                 /\ proc'[z].pending \ proc[z].pending = {}
                 /\ \A u \in proc[z].pending \ proc'[z].pending : Ignored(proc[z], u)
      <3>1. CASE z = p
        BY <1>3, <2>1, <2>3, <3>1 DEF Keeps, Fields
      <3>2. CASE z # p
        BY <2>3, <3>2 DEF Rest, Keeps
      <3> QED
        BY <3>1, <3>2
    <2>5. SignalsCome
      BY <1>2, <2>4 DEF SignalsCome
    <2> QED
      BY <1>2, <2>3, <2>5
  <1>4. CASE ~Ignored(q, s) /\ q.disp[s] = "SIG_DFL" /\ Ends(p, s)
    <2>1. s \in Status /\ s # "CHLD" /\ s # "exited"
      BY <1>2, <1>4 DEF Status, Ignored, Sigs
    <2> QED
      BY <1>1, <1>2, <1>4, <2>1, EndsFacts DEF Dies
  <1>5. CASE q.disp[s] \notin {"SIG_DFL", "SIG_IGN"} /\ Handle(p, s)
    <2> DEFINE interrupted == q.inside /\ Instr(p).op \in Interruptible
               suspended == q.inside /\ Instr(p).op = "sigsuspend"
               below == (IF interrupted THEN Advance(q, 1) ELSE q).stack
               restore == IF suspended THEN q.before ELSE q.mask
               f == Frame(q.disp[s], s, restore)
               l == Len(q.stack)
               r == [q EXCEPT !.stack = Append(below, f), !.inside = FALSE, !.mask = @ \cup {s}, !.pending = @ \ {s},
                              !.rings = IF s = "ALRM" /\ @ < 2 THEN @ + 1 ELSE @]
    <2>1. proc' = [proc EXCEPT ![p] = r]
      BY <1>5 DEF Handle
    <2>2. l \in Nat \ {0} /\ Top(p) = q.stack[l] /\ Top(p) \in FrameType /\ q.stack \in Seq(FrameType)
      BY <1>2, Stands DEF ProcType
    <2>3. f \in FrameType
      <3>1. q.disp[s] \in DOMAIN Code /\ restore \in SUBSET Sigs
        BY <1>2, <1>5 DEF ProcType, Actions, NoHandler
      <3> HIDE DEF restore
      <3> QED
        BY <1>2, <3>1 DEF Frame, FrameType
    <2>4. /\ below \in Seq(FrameType) /\ Len(below) = l
          /\ \A k \in 1..l : /\ below[k].code = q.stack[k].code /\ below[k].sig = q.stack[k].sig
                             /\ below[k].restore = q.stack[k].restore
                             /\ below[k].pc = IF k = l /\ interrupted THEN q.stack[k].pc + 1 ELSE q.stack[k].pc
      <3>1. CASE interrupted
        <4>1. Top(p).pc + 1 > 0
          BY <2>2 DEF FrameType
        <4>2. /\ Advance(q, 1) \in ProcType
              /\ Moved(q.stack, Advance(q, 1).stack, Top(p).pc + 1)
          BY <1>2, <2>2, <4>1, AdvanceFacts
        <4> QED
          BY <2>2, <3>1, <4>2 DEF ProcType, Moved
      <3>2. CASE ~interrupted
        BY <2>2, <3>2
      <3> QED
        BY <3>1, <3>2
    <2> HIDE DEF below, f, interrupted
    <2>5. /\ Append(below, f) \in Seq(FrameType) /\ Len(Append(below, f)) = l + 1 /\ Append(below, f)[l + 1] = f
          /\ \A k \in 1..l : Append(below, f)[k] = below[k]
      BY <2>2, <2>3, <2>4
    <2> DEFINE t == Append(below, f)
    <2> HIDE DEF t
    <2>6. /\ r \in ProcType /\ Keeps(q, r, {"stack", "inside", "mask", "pending", "rings"})
          /\ r.inside = FALSE /\ r.mask = q.mask \cup {s} /\ r.pending = q.pending \ {s} /\ r.stack = t
          /\ r.rings = IF s = "ALRM" /\ q.rings < 2 THEN q.rings + 1 ELSE q.rings
      <3>1. t \in Seq(FrameType)
        BY <2>5 DEF t
      <3>2. r = [q EXCEPT !.stack = t, !.inside = FALSE, !.mask = @ \cup {s}, !.pending = @ \ {s},
                              !.rings = IF s = "ALRM" /\ @ < 2 THEN @ + 1 ELSE @]
        BY DEF t
      <3> DEFINE g == IF s = "ALRM" /\ q.rings < 2 THEN q.rings + 1 ELSE q.rings
                 a == q.mask \cup {s}
                 b == q.pending \ {s}
      <3>3. g \in 0..2 /\ a \in SUBSET Sigs /\ b \in SUBSET Sigs /\ q \in ProcType
        BY <1>2 DEF ProcType
      <3>4. r = [q EXCEPT !.stack = t, !.inside = FALSE, !.mask = a, !.pending = b, !.rings = g]
        BY <1>2, <3>2 DEF ProcType
      <3> HIDE DEF r, g, a, b
      <3>5. /\ r \in ProcType /\ Keeps(q, r, {"stack", "inside", "mask", "pending", "rings"})
            /\ r.inside = FALSE /\ r.mask = a /\ r.pending = b /\ r.stack = t /\ r.rings = g
        BY <3>1, <3>3, <3>4 DEF ProcType, Keeps, Fields
      <3> QED
        BY <3>5 DEF a, b, g
    <2> HIDE DEF r
    <2>7. proc' \in [Procs -> ProcType] /\ proc'[p] = r /\ Rest(p)
      BY <1>2, <2>1, <2>6 DEF Rest
    <2>8. /\ Len(r.stack) = l + 1
          /\ \A k \in 1..l : /\ r.stack[k].code = q.stack[k].code /\ r.stack[k].sig = q.stack[k].sig
                             /\ r.stack[k].restore = q.stack[k].restore
                             /\ r.stack[k].pc = IF k = l /\ interrupted THEN q.stack[k].pc + 1 ELSE q.stack[k].pc
          /\ r.stack[l + 1] = f
      BY <2>4, <2>5, <2>6 DEF t
    <2>9. Handles(p)
      BY <1>1, <1>2, <1>5, <2>6, <2>7, <2>8 DEF Handles, NoHandler, f, interrupted
    <2> QED
      BY <1>2, <2>7, <2>9
  <1> QED
    BY <1>1, <1>3, <1>4, <1>5

LEMMA EnterStep == ASSUME CodesInv, NEW p \in Procs, Enter(p)
                   PROVE  Enters(p) /\ proc' \in [Procs -> ProcType] /\ UNCHANGED <<program, user, tty>>
  <1> DEFINE q == proc[p]
             x == Instr(p)
             b == IF x.op = "sigsuspend" THEN q.mask ELSE {}
             m == IF x.op = "sigsuspend" THEN x.set ELSE q.mask
             d == IF x.op # "command" THEN q.disp
                  ELSE [s \in Sigs |-> IF q.disp[s] = "SIG_IGN" THEN "SIG_IGN" ELSE "SIG_DFL"]
             r == [q EXCEPT !.inside = TRUE, !.before = b, !.mask = m, !.disp = d]
  <1>1. /\ Calling(p) /\ x.op \in Blocking /\ UNCHANGED <<program, user, tty>> /\ Running(p) /\ MoreToDo(p)
        /\ proc' = [proc EXCEPT ![p].inside = TRUE,
                                ![p].before = IF Instr(p).op = "sigsuspend" THEN proc[p].mask ELSE {},
                                ![p].mask = IF Instr(p).op = "sigsuspend" THEN Instr(p).set ELSE @,
                                ![p].disp = IF Instr(p).op # "command" THEN @
                                            ELSE [s \in Sigs |-> IF @[s] = "SIG_IGN" THEN "SIG_IGN" ELSE "SIG_DFL"]]
    BY DEF Enter, Calling
  <1>2. q \in ProcType /\ proc \in [Procs -> ProcType] /\ InstrOK(program, Top(p).code, Top(p).pc)
    BY <1>1, Stands DEF CodesInv, SigTypeOK
  <1>3. x.op = "sigsuspend" => x.set \in SUBSET Sigs
    BY <1>2 DEF InstrOK, Instr
  <1>4. b \in SUBSET Sigs /\ m \in SUBSET Sigs
    BY <1>2, <1>3 DEF ProcType
  <1>5. d \in [Sigs -> Actions] /\ \A s \in Sigs : d[s] \in {q.disp[s]} \cup NoHandler
    BY <1>2 DEF ProcType, Actions, NoHandler
  <1>6. proc' = [proc EXCEPT ![p] = r]
    BY <1>1, <1>2 DEF ProcType
  <1>7. (x.op # "command" => d = q.disp) /\ (x.op = "sigsuspend" => b = q.mask /\ m = x.set) /\ (x.op # "sigsuspend" => m = q.mask)
    OBVIOUS
  <1> HIDE DEF b, m, d
  <1>8. /\ r \in ProcType /\ Keeps(q, r, {"inside", "before", "mask", "disp"})
        /\ r.inside = TRUE /\ r.before = b /\ r.mask = m /\ r.disp = d
    BY <1>2, <1>4, <1>5 DEF ProcType, Keeps, Fields
  <1> HIDE DEF r
  <1>9. proc' \in [Procs -> ProcType] /\ proc'[p] = r /\ Rest(p)
    BY <1>2, <1>6, <1>8 DEF Rest
  <1> QED
    BY <1>1, <1>5, <1>7, <1>8, <1>9 DEF Enters

LEMMA LeaveStep ==
  ASSUME CodesInv, NEW p \in Procs, NEW op \in {"sleep", "command", "read"}, Calls(p, op), Leave(p, proc[p])
  PROVE  Leaves(p) /\ proc' \in [Procs -> ProcType] /\ UNCHANGED <<program, user, tty>>
  <1> DEFINE q == proc[p]
             r == [q EXCEPT !.inside = FALSE]
  <1>1. /\ Running(p) /\ MoreToDo(p) /\ Instr(p).op \in {"sleep", "command", "read"} /\ q.inside
        /\ UNCHANGED <<program, user, tty>> /\ proc' = [proc EXCEPT ![p] = Advance(r, 1)]
    BY DEF Calls, Leave
  <1>2. q \in ProcType /\ proc \in [Procs -> ProcType] /\ Top(p).pc \in Nat
    BY <1>1, Stands DEF CodesInv, SigTypeOK, FrameType
  <1>3. r \in ProcType /\ Keeps(q, r, {"inside"}) /\ r.inside = FALSE /\ r.stack = q.stack
    BY <1>2 DEF ProcType, Keeps, Fields
  <1> HIDE DEF r
  <1>4. /\ proc' \in [Procs -> ProcType]
        /\ Keeps(r, proc'[p], {"stack"})
        /\ Moved(q.stack, proc'[p].stack, Top(p).pc + 1)
        /\ Rest(p)
    <2>1. Top(p).pc + 1 > 0 /\ Len(q.stack) > 0 /\ q.stack[Len(q.stack)] = Top(p)
      BY <1>1, <1>2, Stands
    <2>2. /\ Advance(r, 1) \in ProcType
          /\ Keeps(r, Advance(r, 1), {"stack"})
          /\ Moved(q.stack, Advance(r, 1).stack, Top(p).pc + 1)
      BY <1>3, <2>1, AdvanceFacts
    <2> HIDE DEF Advance
    <2> QED
      BY <1>1, <1>2, <2>2 DEF Rest
  <1>5. Keeps(q, proc'[p], {"inside", "stack"}) /\ proc'[p].inside = FALSE
    BY <1>3, <1>4 DEF Keeps, Fields
  <1> QED
    BY <1>1, <1>4, <1>5 DEF Leaves

LEMMA ReapStep == ASSUME CodesInv, Reap
                  PROVE  Reaps /\ proc' \in [Procs -> ProcType] /\ UNCHANGED <<program, user, tty>>
  <1> DEFINE p == "parent"
             q == proc[p]
             c == proc["child"]
             how == IF Zombie("child") THEN c.status ELSE "ECHILD"
             w == IF InMain(p) THEN [q EXCEPT !.result = how] ELSE q
             r == [w EXCEPT !.inside = FALSE]
             d == IF Zombie("child") THEN [Idle EXCEPT !.status = "reaped"] ELSE c
  <1>1. /\ Running(p) /\ MoreToDo(p) /\ Instr(p).op = "wait" /\ q.inside /\ ~Running("child")
        /\ UNCHANGED <<program, user, tty>>
        /\ proc' = [parent |-> Advance(r, 1), child |-> d]
    BY DEF Reap, Calls
  <1>2. q \in ProcType /\ c \in ProcType /\ Top(p) \in FrameType /\ Top(p) = q.stack[Len(q.stack)] /\ Len(q.stack) \in Nat \ {0}
    <2>1. q \in ProcType /\ c \in ProcType
      BY DEF CodesInv, SigTypeOK, Procs
    <2> QED
      BY <1>1, <2>1, Stands DEF Procs
  <1>3. how \in Status \cup {"ECHILD"}
    BY <1>2 DEF ProcType
  <1>4. d \in ProcType
    <2>1. <<>> \in Seq(FrameType)
      BY EmptySeq
    <2>2. Idle \in ProcType
      BY <2>1 DEF Idle, ProcType, Status, Actions, NoHandler, JmpType
    <2> HIDE DEF Idle
    <2> QED
      BY <1>2, <2>2 DEF ProcType, Status
  <1>5. w \in ProcType /\ Keeps(q, w, {"result"}) /\ w.result = (IF ~InMain(p) THEN q.result ELSE how)
    <2> HIDE DEF how
    <2>1. CASE InMain(p)
      BY <2>1, <1>2, <1>3 DEF ProcType, Keeps, Fields
    <2>2. CASE ~InMain(p)
      BY <2>2, <1>2 DEF Keeps
    <2> QED
      BY <2>1, <2>2
  <1> HIDE DEF w
  <1>6. r \in ProcType /\ Keeps(q, r, {"inside", "result"}) /\ r.inside = FALSE /\ r.stack = q.stack
        /\ r.result = (IF ~InMain(p) THEN q.result ELSE how)
    BY <1>5 DEF ProcType, Keeps, Fields
  <1> HIDE DEF r
  <1>7. Top(p).pc + 1 > 0
    BY <1>2 DEF FrameType
  <1>8. /\ Advance(r, 1) \in ProcType
        /\ Keeps(r, Advance(r, 1), {"stack"})
        /\ Moved(q.stack, Advance(r, 1).stack, Top(p).pc + 1)
    BY <1>2, <1>6, <1>7, AdvanceFacts
  <1> HIDE DEF d
  <1>9. proc'[p] = Advance(r, 1) /\ proc'["child"] = d /\ proc' \in [Procs -> ProcType]
    BY <1>1, <1>4, <1>8 DEF Procs
  <1>10. Keeps(q, proc'[p], {"inside", "stack", "result"}) /\ proc'[p].inside = FALSE
         /\ proc'[p].result = (IF ~InMain(p) THEN q.result ELSE how)
    BY <1>6, <1>8, <1>9 DEF Keeps, Fields
  <1> QED
    BY <1>1, <1>8, <1>9, <1>10 DEF Reaps, d

\* What a signal sent from outside does to a process.
Comes(q, r) == /\ Keeps(q, r, {"pending", "alarm"})
               /\ r.alarm => q.alarm
               /\ \A s \in r.pending \ q.pending :
                    /\ q.status = "running" /\ (Ignored(q, s) => s \in q.mask)
                    /\ (s = "ALRM" /\ q.alarm) \/ (program \in DOMAIN Sent /\ s \in Sent[program])
               /\ \A s \in q.pending \ r.pending : Ignored(q, s)

LEMMA AlarmComes == ASSUME CodesInv, NEW p \in Procs, AlarmRings(p)
                    PROVE  SignalsCome /\ proc' \in [Procs -> ProcType] /\ UNCHANGED <<program, user, tty>>
  <1> DEFINE q == proc[p]
             a == [q EXCEPT !.alarm = FALSE]
             r == Sent_to(a, "ALRM")
  <1>1. q \in ProcType /\ proc \in [Procs -> ProcType] /\ q.status = "running" /\ q.alarm
        /\ UNCHANGED <<program, user, tty>> /\ proc' = [proc EXCEPT ![p] = r]
    BY DEF AlarmRings, Running, CodesInv, SigTypeOK
  <1>2. a \in ProcType /\ Keeps(q, a, {"alarm"}) /\ a.alarm = FALSE
    BY <1>1 DEF ProcType, Keeps, Fields
  <1> HIDE DEF a
  <1>3. r \in ProcType /\ Keeps(a, r, {"pending"}) /\ Gets(a, r, "ALRM")
    BY <1>2, SentFacts DEF Sigs
  <1>4. Comes(q, r)
    <2>1. Keeps(q, r, {"pending", "alarm"}) /\ r.alarm = FALSE
      BY <1>2, <1>3 DEF Keeps, Fields
    <2>2. a.status = q.status /\ a.disp = q.disp /\ a.mask = q.mask /\ a.pending = q.pending
      BY <1>2 DEF Keeps, Fields
    <2>3. r.pending = IF Ignored(q, "ALRM") /\ "ALRM" \notin q.mask THEN q.pending ELSE q.pending \cup {"ALRM"}
      BY <1>1, <1>3, <2>2 DEF Gets, Ignored
    <2>4. ~r.alarm
      BY <2>1
    <2> HIDE DEF r, q
    <2> QED
      BY <1>1, <2>1, <2>3, <2>4 DEF Comes
  <1> HIDE DEF r
  <1>5. proc' \in [Procs -> ProcType] /\ proc'[p] = r /\ \A z \in Procs \ {p} : proc'[z] = proc[z]
    BY <1>1, <1>3
  <1>6. ASSUME NEW z \in Procs
        PROVE  Comes(proc[z], proc'[z])
    BY <1>4, <1>5 DEF Comes, Keeps
  <1> QED
    BY <1>1, <1>5, <1>6 DEF SignalsCome, Comes, Running

LEMMA UserComes == ASSUME CodesInv, UserSends
                   PROVE  SignalsCome /\ proc' \in [Procs -> ProcType] /\ UNCHANGED <<program, tty>> /\ user' \in Nat
  <1>1. PICK s \in Sent[program] :
               proc' = [p \in Procs |-> IF p = "parent" \/ s # "USR1" THEN Sent_to(proc[p], s) ELSE proc[p]]
    BY DEF UserSends
  <1>2. program \in DOMAIN Sent /\ UNCHANGED <<program, tty>> /\ user' \in Nat
    BY DEF UserSends, CodesInv, SigTypeOK
  <1>3. s \in Sigs
    BY <1>1, <1>2, MainsAndHandlers DEF CodesInv, SigTypeOK
  <1>4. ASSUME NEW z \in Procs
        PROVE  proc'[z] \in ProcType /\ Comes(proc[z], proc'[z])
    <2>1. proc[z] \in ProcType
      BY DEF CodesInv, SigTypeOK
    <2>2. CASE proc'[z] = proc[z]
      BY <2>1, <2>2 DEF Comes, Keeps
    <2>3. CASE proc'[z] = Sent_to(proc[z], s)
      <3>1. proc'[z] \in ProcType /\ Keeps(proc[z], proc'[z], {"pending"}) /\ Gets(proc[z], proc'[z], s)
        BY <1>3, <2>1, <2>3, SentFacts
      <3>2. Keeps(proc[z], proc'[z], {"pending", "alarm"}) /\ proc'[z].alarm = proc[z].alarm
        BY <3>1 DEF Keeps, Fields
      <3> QED
        BY <1>1, <1>2, <3>1, <3>2 DEF Comes, Gets
    <2> QED
      BY <1>1, <2>2, <2>3
  <1>5. proc' \in [Procs -> ProcType]
    BY <1>1, <1>4
  <1> QED
    BY <1>2, <1>4, <1>5 DEF SignalsCome, Comes, Running

-----------------------------------------------------------------------------
(* Every step has one of the shapes *)

\* Every step has one of the shapes.
LEMMA StepShapes == ASSUME CodesInv, Next PROVE Shapes /\ SigTypeOK'
  <1>1. program \in Mains /\ tty \in TtyType /\ user \in Nat
    BY DEF CodesInv, SigTypeOK
  <1>2. CASE UserSends
    BY <1>1, <1>2, UserComes DEF Shapes, SigTypeOK
  <1>3. ASSUME NEW p \in Procs, Input(p)
        PROVE  Shapes /\ SigTypeOK'
    <2>1. Calls(p, "read") /\ Leave(p, proc[p])
      BY <1>3 DEF Input
    <2> QED
      BY <1>1, <2>1, LeaveStep DEF Shapes, SigTypeOK
  <1>4. ASSUME NEW p \in Procs, AlarmRings(p)
        PROVE  Shapes /\ SigTypeOK'
    BY <1>1, <1>4, AlarmComes DEF Shapes, SigTypeOK
  <1>5. ASSUME NEW p \in Procs, Step(p)
        PROVE  Shapes /\ SigTypeOK'
    <2> DEFINE Made1 == proc' \in [Procs -> ProcType] /\ UNCHANGED <<program, user, tty>>
    <2>1. CASE Call(p) /\ Made1
      BY <1>1, <2>1 DEF Shapes, SigTypeOK
    <2>2. SetMask(p) => Call(p) /\ Made1
      BY SetMaskStep, OldMaskStep DEF SetMask
    <2>3. (Signal(p) \/ Ignore(p) \/ Restore(p) \/ Unignore(p) \/ Block(p) \/ SetMask(p) \/ Go(p)
           \/ Alarm(p) \/ Compute(p) \/ Setjmp(p) \/ Flag(p) \/ Back(p)) => Call(p) /\ Made1
      BY <2>2, SignalStep, IgnoreStep, RestoreStep, UnignoreStep, BlockStep, GoStep, AlarmStep,
         ComputeStep, SetjmpStep, FlagStep, BackStep
    <2>4. Terminal(p) => Shapes /\ SigTypeOK'
      BY <1>1, TerminalStep DEF Shapes, SigTypeOK
    <2>5. Exit(p) \/ Return(p) \/ Deliver(p) =>
            (SignalsCome \/ Dies(p) \/ Handles(p) \/ Returns(p)) /\ Made1
      BY ExitStep, ReturnStep, DeliverStep
    <2>6. Kill(p) \/ Longjmp(p) \/ Fork(p) => (Kills(p) \/ Jumps(p) \/ Forks \/ Call(p)) /\ Made1
      BY KillStep, LongjmpStep, ForkStep
    <2>7. Enter(p) => Enters(p) /\ Made1
      BY EnterStep
    <2>8. Completes(p) => Leaves(p) /\ Made1
      BY LeaveStep DEF Completes
    <2>9. Reap => Reaps /\ Made1
      BY ReapStep
    <2>10. CASE (SignalsCome \/ Dies(p) \/ Handles(p) \/ Returns(p) \/ Kills(p) \/ Jumps(p) \/ Forks \/ Enters(p)
                 \/ Leaves(p) \/ Reaps) /\ Made1
      BY <1>1, <2>10 DEF Shapes, SigTypeOK
    <2> HIDE DEF Made1
    <2> QED
      BY <1>5, <2>1, <2>3, <2>4, <2>5, <2>6, <2>7, <2>8, <2>9, <2>10 DEF Step
  <1> QED
    BY <1>2, <1>3, <1>4, <1>5 DEF Next

-----------------------------------------------------------------------------
(* The invariant of the shapes *)

\* What is kept of the invariant where a step leaves the fields it is about.
LEMMA StackSame ==
  ASSUME CodesInv, NEW p \in Procs, program' = program, proc'[p].status = proc[p].status,
         proc'[p].stack = proc[p].stack, proc'[p].inside = proc[p].inside
  PROVE  StackOK(p)'
  BY DEF CodesInv, StackOK, Running, MoreToDo, Instr, Top, MainCode

LEMMA StackMoved ==
  ASSUME CodesInv, NEW p \in Procs, Running(p), program' = program, NEW j,
         Moved(proc[p].stack, proc'[p].stack, j), ~proc'[p].inside
  PROVE  StackOK(p)'
  <1> DEFINE s == proc[p].stack
             t == proc'[p].stack
  <1>1. /\ Len(s) \in Nat \ {0} /\ s[1].code = MainCode(p)
        /\ \A k \in 2..Len(s) : <<s[k].sig, s[k].code>> \in HandlersOf[program]
    <2>1. Len(s) \in Nat \ {0}
      BY Stands
    <2> QED
      BY <2>1 DEF CodesInv, StackOK
  <1>2. Len(t) = Len(s) /\ \A k \in 1..Len(s) : t[k].code = s[k].code /\ t[k].sig = s[k].sig
    BY DEF Moved
  <1> HIDE DEF s, t
  <1>3. Len(t) > 0 /\ t[1].code = MainCode(p) /\ \A k \in 2..Len(t) : <<t[k].sig, t[k].code>> \in HandlersOf[program]
    BY <1>1, <1>2
  <1> QED
    BY <1>3 DEF StackOK, MainCode, t

LEMMA HandlersSame ==
  ASSUME CodesInv, NEW p \in Procs, program' = program,
         NEW z \in Procs, proc'[p].disp = proc[z].disp, proc'[p].saved = proc[z].saved
  PROVE  HandlersOK(p)'
  BY DEF CodesInv, HandlersOK

LEMMA PendingLess ==
  ASSUME CodesInv, NEW p \in Procs, program' = program, proc'[p].pending \subseteq proc[p].pending \cup PendingOf[program],
         proc'[p].alarm => proc[p].alarm
  PROVE  PendingOK(p)'
  BY DEF CodesInv, PendingOK

LEMMA JmpSame ==
  ASSUME CodesInv, NEW p \in Procs, NEW z \in Procs, proc'[p].jmp = proc[z].jmp
  PROVE  JmpOK(p)'
  BY DEF CodesInv, JmpOK

ProcOK(p) == StackOK(p) /\ HandlersOK(p) /\ PendingOK(p) /\ JmpOK(p)

\* the statuses
ChildOK == proc["child"].status # "none" => program \in Forkers
ParentOK == proc["parent"].status \notin {"none", "reaped"}

LEMMA ProcSame ==
  ASSUME CodesInv, NEW p \in Procs, program' = program, proc'[p] = proc[p]
  PROVE  ProcOK(p)'
  BY StackSame, HandlersSame, PendingLess, JmpSame DEF ProcOK

LEMMA StatusSame ==
  ASSUME CodesInv, program' = program, \A p \in Procs : proc'[p].status = proc[p].status
  PROVE  (ChildOK /\ ParentOK)'
  BY DEF ChildOK, ParentOK, CodesInv, Procs

LEMMA CallOK ==
  ASSUME CodesInv, NEW p \in Procs, Call(p), program' = program
  PROVE  (ChildOK /\ ParentOK /\ \A z \in Procs : ProcOK(z))'
  <1> DEFINE q == proc[p]
             r == proc'[p]
             x == Instr(p)
  <1>1. /\ Running(p) /\ MoreToDo(p) /\ ~q.inside /\ Effect(p, r) /\ Rest(p)
        /\ Keeps(q, r, {"stack", "mask", "oldmask", "pending", "disp", "saved", "alarm", "flag", "jmp"})
        /\ \E j : Moved(q.stack, r.stack, j)
    BY DEF Call, Calling, Effect
  <1>2. InstrOK(program, Top(p).code, Top(p).pc) /\ Top(p).pc \in Nat \ {0} /\ q \in ProcType
        /\ (Top(p).code = program <=> p = "parent" /\ Len(q.stack) = 1)
        /\ program \in Mains
    BY <1>1, Stands DEF FrameType, CodesInv, SigTypeOK
  <1>3. r.status = q.status /\ ~r.inside
    BY <1>1 DEF Keeps, Fields
  <1>4. StackOK(p)'
    BY <1>1, <1>3, StackMoved
  <1>5. HandlersOK(p)'
    <2>1. ASSUME NEW s \in Sigs
          PROVE  /\ r.disp[s] \in NoHandler \/ <<s, r.disp[s]>> \in HandlersOf[program]
                 /\ r.saved[s] \in NoHandler \/ <<s, r.saved[s]>> \in HandlersOf[program]
      <3>1. /\ q.disp[s] \in NoHandler \/ <<s, q.disp[s]>> \in HandlersOf[program]
            /\ q.saved[s] \in NoHandler \/ <<s, q.saved[s]>> \in HandlersOf[program]
        BY DEF CodesInv, HandlersOK
      <3>2. x.op = "signal" => x.handler = "SIG_DFL" \/ <<x.sig, x.handler>> \in HandlersOf[program]
        BY <1>2 DEF InstrOK, Instr
      <3> QED
        BY <1>1, <3>1, <3>2 DEF Effect, NoHandler
    <2> QED
      BY <2>1 DEF HandlersOK
  <1>6. PendingOK(p)'
    <2>1. x.op = "alarm" => "ALRM" \in PendingOf[program]
      BY <1>2 DEF InstrOK, Instr
    <2>2. r.pending \subseteq q.pending /\ (x.op # "alarm" => r.alarm = q.alarm)
      BY <1>1 DEF Effect
    <2>3. q.pending \subseteq PendingOf[program] /\ (q.alarm => "ALRM" \in PendingOf[program])
      BY DEF CodesInv, PendingOK
    <2> QED
      BY <2>1, <2>2, <2>3 DEF PendingOK
  <1>7. JmpOK(p)'
    <2>1. CASE x.op = "setjmp"
      <3>1. Top(p).code = program /\ x.skip \in Nat
        BY <1>2, <2>1 DEF InstrOK, Instr
      <3>2. r.jmp.depth = 1 /\ r.jmp.pc = Top(p).pc + 1 + x.skip
        BY <1>1, <1>2, <2>1, <3>1 DEF Effect
      <3> QED
        BY <1>2, <3>1, <3>2 DEF JmpOK
    <2>2. CASE x.op # "setjmp"
      BY <1>1, <2>2, JmpSame DEF Effect
    <2> QED
      BY <2>1, <2>2
  <1>8. \A z \in Procs : ProcOK(z)'
    BY <1>1, <1>4, <1>5, <1>6, <1>7, ProcSame DEF Rest, ProcOK
  <1>9. \A z \in Procs : proc'[z].status = proc[z].status
    BY <1>1, <1>3 DEF Rest
  <1> QED
    BY <1>8, <1>9, StatusSame

OthersOK == (ChildOK /\ ParentOK /\ \A z \in Procs : ProcOK(z))'

LEMMA KillsOK == ASSUME CodesInv, NEW p \in Procs, Kills(p), program' = program PROVE OthersOK
  <1> DEFINE x == Instr(p)
  <1>1. /\ Running(p) /\ ~proc[p].inside
        /\ \A z \in Procs :
             /\ Keeps(proc[z], proc'[z], {"stack", "pending"})
             /\ IF z = p THEN Moved(proc[z].stack, proc'[z].stack, Top(p).pc + 1) ELSE proc'[z].stack = proc[z].stack
             /\ IF z = x.to THEN Gets(proc[z], proc'[z], x.sig) ELSE proc'[z].pending = proc[z].pending
    BY DEF Kills, Calling
  <1>2. x.sig \in PendingOf[program]
    <2>1. InstrOK(program, Top(p).code, Top(p).pc) /\ x.op = "kill"
      BY <1>1, Stands DEF Kills, Calling
    <2> QED
      BY <2>1 DEF InstrOK, Instr
  <1>3. ASSUME NEW z \in Procs PROVE ProcOK(z)' /\ proc'[z].status = proc[z].status
    <2>1. /\ proc'[z].status = proc[z].status /\ proc'[z].inside = proc[z].inside
          /\ proc'[z].disp = proc[z].disp /\ proc'[z].saved = proc[z].saved /\ proc'[z].jmp = proc[z].jmp
          /\ proc'[z].alarm = proc[z].alarm
      BY <1>1 DEF Keeps, Fields
    <2>2. StackOK(z)'
      BY <1>1, <2>1, StackMoved, StackSame
    <2>3. PendingOK(z)'
      <3>1. CASE z = x.to
        <4>1. Gets(proc[z], proc'[z], x.sig)
          BY <1>1, <3>1
        <4> QED
          BY <1>2, <2>1, <4>1, PendingLess DEF Gets
      <3>2. CASE z # x.to
        BY <1>1, <2>1, <3>2, PendingLess
      <3> QED
        BY <3>1, <3>2
    <2> QED
      BY <2>1, <2>2, <2>3, HandlersSame, JmpSame DEF ProcOK
  <1> QED
    BY <1>3, StatusSame DEF OthersOK

LEMMA ForksOK == ASSUME CodesInv, Forks, program' = program PROVE OthersOK
  <1> DEFINE q == proc["parent"]
             x == Instr("parent")
  <1>1. /\ Running("parent") /\ ~q.inside /\ x.op = "fork" /\ MoreToDo("parent")
        /\ Keeps(q, proc'["parent"], {"stack"})
        /\ Moved(q.stack, proc'["parent"].stack, Top("parent").pc + 1)
        /\ Keeps(q, proc'["child"], {"stack", "pending", "alarm"})
        /\ proc'["child"].stack = <<Frame(x.code, "none", {})>>
        /\ proc'["child"].pending = {} /\ proc'["child"].alarm = FALSE
    BY DEF Forks, Calling
  <1>2. program \in Forkers /\ x.code = Kid[program]
    <2>1. InstrOK(program, Top("parent").code, Top("parent").pc)
      BY <1>1, Stands DEF Procs
    <2> QED
      BY <1>1, <2>1 DEF InstrOK, Instr
  <1>3. ASSUME NEW z \in Procs
        PROVE  /\ proc'[z].status = q.status /\ ~proc'[z].inside
               /\ proc'[z].disp = q.disp /\ proc'[z].saved = q.saved /\ proc'[z].jmp = q.jmp
               /\ proc'[z].alarm => proc[z].alarm
               /\ proc'[z].pending \subseteq proc[z].pending
    BY <1>1 DEF Keeps, Fields, Procs
  <1>4. StackOK("parent")'
    BY <1>1, <1>3, StackMoved DEF Procs
  <1>5. StackOK("child")'
    <2> DEFINE t == proc'["child"].stack
    <2>1. Len(t) = 1 /\ t[1].code = Kid[program]
      BY <1>1, <1>2 DEF Frame
    <2> HIDE DEF t
    <2>2. Len(t) > 0 /\ t[1].code = MainCode("child") /\ \A k \in 2..Len(t) : <<t[k].sig, t[k].code>> \in HandlersOf[program]
      BY <2>1 DEF MainCode
    <2> QED
      BY <1>3, <2>2 DEF StackOK, MainCode, t, Procs
  <1>6. \A z \in Procs : ProcOK(z)'
    BY <1>3, <1>4, <1>5, HandlersSame, JmpSame, PendingLess DEF ProcOK, Procs
  <1>7. (ChildOK /\ ParentOK)'
    BY <1>1, <1>2, <1>3 DEF ChildOK, ParentOK, Procs, Running
  <1> QED
    BY <1>6, <1>7 DEF OthersOK

LEMMA JumpsOK == ASSUME CodesInv, NEW p \in Procs, Jumps(p), program' = program PROVE OthersOK
  <1> DEFINE q == proc[p]
             r == proc'[p]
  <1>1. /\ Running(p) /\ ~q.inside /\ q.jmp.set /\ Rest(p) /\ Keeps(q, r, {"stack", "mask"})
        /\ q.jmp.depth = 1 => Len(r.stack) = 1 /\ r.stack[1].code = q.stack[1].code
    BY DEF Jumps, Calling
  <1>2. /\ r.status = q.status /\ ~r.inside /\ r.disp = q.disp /\ r.saved = q.saved /\ r.jmp = q.jmp
        /\ r.alarm = q.alarm /\ r.pending = q.pending
    BY <1>1 DEF Keeps, Fields
  <1>3. Len(r.stack) = 1 /\ r.stack[1].code = MainCode(p)
    BY <1>1 DEF CodesInv, JmpOK, StackOK
  <1>4. StackOK(p)'
    <2> DEFINE t == proc'[p].stack
    <2> HIDE DEF t
    <2>1. Len(t) > 0 /\ t[1].code = MainCode(p) /\ \A k \in 2..Len(t) : <<t[k].sig, t[k].code>> \in HandlersOf[program]
      BY <1>3 DEF t
    <2> QED
      BY <1>2, <2>1 DEF StackOK, MainCode, t
  <1>5. \A z \in Procs : ProcOK(z)' /\ proc'[z].status = proc[z].status
    BY <1>1, <1>2, <1>4, HandlersSame, JmpSame, PendingLess, ProcSame DEF ProcOK, Rest
  <1> QED
    BY <1>5, StatusSame DEF OthersOK

LEMMA EntersOK == ASSUME CodesInv, NEW p \in Procs, Enters(p), program' = program PROVE OthersOK
  <1> DEFINE q == proc[p]
             r == proc'[p]
  <1>1. /\ Running(p) /\ MoreToDo(p) /\ Instr(p).op \in Blocking /\ Rest(p)
        /\ Keeps(q, r, {"inside", "before", "mask", "disp"})
        /\ \A s \in Sigs : r.disp[s] \in {q.disp[s]} \cup NoHandler
    BY DEF Enters, Calling
  <1>2. /\ r.status = q.status /\ r.saved = q.saved /\ r.jmp = q.jmp /\ r.stack = q.stack
        /\ r.alarm = q.alarm /\ r.pending = q.pending
    BY <1>1 DEF Keeps, Fields
  <1>3. StackOK(p)'
    BY <1>1, <1>2 DEF CodesInv, StackOK, MoreToDo, Instr, Top, MainCode, Running
  <1>4. HandlersOK(p)'
    BY <1>1, <1>2 DEF CodesInv, HandlersOK
  <1>5. \A z \in Procs : ProcOK(z)' /\ proc'[z].status = proc[z].status
    BY <1>1, <1>2, <1>3, <1>4, JmpSame, PendingLess, ProcSame DEF ProcOK, Rest
  <1> QED
    BY <1>5, StatusSame DEF OthersOK

LEMMA LeavesOK == ASSUME CodesInv, NEW p \in Procs, Leaves(p), program' = program PROVE OthersOK
  <1> DEFINE q == proc[p]
             r == proc'[p]
  <1>1. /\ Running(p) /\ Rest(p) /\ Keeps(q, r, {"inside", "stack"}) /\ r.inside = FALSE
        /\ Moved(q.stack, r.stack, Top(p).pc + 1)
    BY DEF Leaves
  <1>2. /\ r.status = q.status /\ r.disp = q.disp /\ r.saved = q.saved /\ r.jmp = q.jmp
        /\ r.alarm = q.alarm /\ r.pending = q.pending /\ ~r.inside
    BY <1>1 DEF Keeps, Fields
  <1>3. StackOK(p)'
    BY <1>1, <1>2, StackMoved
  <1>4. \A z \in Procs : ProcOK(z)' /\ proc'[z].status = proc[z].status
    BY <1>1, <1>2, <1>3, HandlersSame, JmpSame, PendingLess, ProcSame DEF ProcOK, Rest
  <1> QED
    BY <1>4, StatusSame DEF OthersOK

LEMMA ReapsOK == ASSUME CodesInv, Reaps, program' = program PROVE OthersOK
  <1> DEFINE p == "parent"
             q == proc[p]
             r == proc'[p]
             c == proc["child"]
             d == proc'["child"]
  <1>1. /\ Running(p) /\ ~Running("child") /\ Keeps(q, r, {"inside", "stack", "result"}) /\ r.inside = FALSE
        /\ Moved(q.stack, r.stack, Top(p).pc + 1)
        /\ d = IF Zombie("child") THEN [Idle EXCEPT !.status = "reaped"] ELSE c
    BY DEF Reaps
  <1>2. /\ r.status = q.status /\ r.disp = q.disp /\ r.saved = q.saved /\ r.jmp = q.jmp
        /\ r.alarm = q.alarm /\ r.pending = q.pending /\ ~r.inside
    BY <1>1 DEF Keeps, Fields
  <1>3. ProcOK(p)'
    BY <1>1, <1>2, StackMoved, HandlersSame, JmpSame, PendingLess DEF ProcOK, Procs
  <1>4. ProcOK("child")' /\ ChildOK'
    <2>1. CASE d = c
      BY <2>1, ProcSame DEF ChildOK, CodesInv, Procs
    <2>2. CASE d # c
      <3>1. d = [Idle EXCEPT !.status = "reaped"] /\ c.status # "none"
        BY <1>1, <2>2 DEF Zombie, Ended
      <3>2. /\ d.status = "reaped" /\ d.pending = {} /\ d.alarm = FALSE /\ d.jmp.set = FALSE
            /\ \A s \in Sigs : d.disp[s] = "SIG_DFL" /\ d.saved[s] = "SIG_DFL"
        BY <3>1 DEF Idle
      <3>3. ~d.alarm /\ ~d.jmp.set
        BY <3>2
      <3> QED
        BY <3>1, <3>2, <3>3 DEF ProcOK, StackOK, HandlersOK, PendingOK, JmpOK, Running, NoHandler, ChildOK, CodesInv
    <2> QED
      BY <2>1, <2>2
  <1>5. ParentOK'
    BY <1>1, <1>2 DEF ParentOK, Running
  <1> QED
    BY <1>3, <1>4, <1>5 DEF OthersOK, Procs

LEMMA HandlesOK == ASSUME CodesInv, NEW p \in Procs, Handles(p), program' = program PROVE OthersOK
  <1> DEFINE q == proc[p]
             r == proc'[p]
             l == Len(q.stack)
             t == r.stack
  <1>1. PICK s, f :
             /\ s \in Deliverable(p)
             /\ Running(p) /\ q.disp[s] \notin NoHandler /\ Rest(p)
             /\ Keeps(q, r, {"stack", "inside", "mask", "pending", "rings"})
             /\ r.inside = FALSE /\ r.pending = q.pending \ {s}
             /\ Len(r.stack) = l + 1
             /\ \A k \in 1..l : r.stack[k].code = q.stack[k].code /\ r.stack[k].sig = q.stack[k].sig
             /\ r.stack[l + 1] = Frame(q.disp[s], s, f)
    BY DEF Handles
  <1>2. /\ r.status = q.status /\ r.disp = q.disp /\ r.saved = q.saved /\ r.jmp = q.jmp
        /\ r.alarm = q.alarm /\ r.pending \subseteq q.pending /\ ~r.inside
    BY <1>1 DEF Keeps, Fields
  <1>3. s \in Sigs /\ l \in Nat \ {0} /\ q.stack[1].code = MainCode(p)
        /\ \A k \in 2..l : <<q.stack[k].sig, q.stack[k].code>> \in HandlersOf[program]
    <2>1. l \in Nat \ {0} /\ q \in ProcType
      BY <1>1, Stands
    <2>2. s \in Sigs
      BY <1>1, <2>1 DEF ProcType, Deliverable
    <2> QED
      BY <1>1, <2>1, <2>2 DEF CodesInv, StackOK
  <1>4. r.stack[l + 1].code = q.disp[s] /\ r.stack[l + 1].sig = s /\ <<s, q.disp[s]>> \in HandlersOf[program]
    <2>1. q.disp[s] \in NoHandler \/ <<s, q.disp[s]>> \in HandlersOf[program]
      BY <1>3 DEF CodesInv, HandlersOK
    <2>2. r.stack[l + 1].code = q.disp[s] /\ r.stack[l + 1].sig = s
      <3> HIDE DEF q
      <3> QED
        BY <1>1 DEF Frame
    <2> QED
      BY <1>1, <2>1, <2>2
  <1>5. Len(t) > 0 /\ t[1].code = MainCode(p) /\ \A k \in 2..Len(t) : <<t[k].sig, t[k].code>> \in HandlersOf[program]
    <2> HIDE DEF q, l, t
    <2>1. /\ Len(t) = l + 1 /\ t[l + 1].code = q.disp[s] /\ t[l + 1].sig = s
          /\ \A k \in 1..l : t[k].code = q.stack[k].code /\ t[k].sig = q.stack[k].sig
      BY <1>1, <1>4 DEF t
    <2> QED
      BY <1>3, <1>4, <2>1
  <1>6. StackOK(p)'
    <2> HIDE DEF t
    <2> QED
      BY <1>2, <1>5 DEF StackOK, MainCode, t
  <1>7. \A z \in Procs : ProcOK(z)' /\ proc'[z].status = proc[z].status
    BY <1>1, <1>2, <1>6, HandlersSame, JmpSame, PendingLess, ProcSame DEF ProcOK, Rest
  <1> QED
    BY <1>7, StatusSame DEF OthersOK

LEMMA ReturnsOK == ASSUME CodesInv, NEW p \in Procs, Returns(p), program' = program PROVE OthersOK
  <1> DEFINE q == proc[p]
             r == proc'[p]
             l == Len(q.stack)
             t == r.stack
  <1>1. /\ Running(p) /\ ~MoreToDo(p) /\ Rest(p) /\ Keeps(q, r, {"stack", "mask"}) /\ l > 1
        /\ Len(r.stack) = l - 1
        /\ \A k \in 1..(l - 1) : r.stack[k] = q.stack[k]
    BY DEF Returns
  <1>2. /\ r.status = q.status /\ r.disp = q.disp /\ r.saved = q.saved /\ r.jmp = q.jmp
        /\ r.alarm = q.alarm /\ r.pending = q.pending /\ r.inside = q.inside
    BY <1>1 DEF Keeps, Fields
  <1>3. l \in Nat \ {0} /\ q.stack[1].code = MainCode(p) /\ ~q.inside
        /\ \A k \in 2..l : <<q.stack[k].sig, q.stack[k].code>> \in HandlersOf[program]
    <2>1. l \in Nat \ {0}
      BY <1>1, Stands
    <2> QED
      BY <1>1, <2>1 DEF CodesInv, StackOK
  <1>4. Len(t) > 0 /\ t[1].code = MainCode(p) /\ \A k \in 2..Len(t) : <<t[k].sig, t[k].code>> \in HandlersOf[program]
    <2>1. /\ Len(t) = l - 1 /\ l > 1
          /\ \A k \in 1..(l - 1) : t[k] = q.stack[k]
      BY <1>1
    <2> HIDE DEF q, l, t
    <2> QED
      BY <1>3, <2>1
  <1>5. StackOK(p)'
    <2> HIDE DEF t
    <2> QED
      BY <1>2, <1>3, <1>4 DEF StackOK, MainCode, t
  <1>6. \A z \in Procs : ProcOK(z)' /\ proc'[z].status = proc[z].status
    BY <1>1, <1>2, <1>5, HandlersSame, JmpSame, PendingLess, ProcSame DEF ProcOK, Rest
  <1> QED
    BY <1>6, StatusSame DEF OthersOK

LEMMA DiesOK == ASSUME CodesInv, NEW p \in Procs, Dies(p), program' = program PROVE OthersOK
  <1> DEFINE q == proc[p]
             r == proc'[p]
  <1>1. PICK how \in {"exited"} \cup Deliverable(p) :
             /\ r.status = how
             /\ Keeps(Idle, r, {"status", "mask", "disp", "result"})
             /\ Keeps(q, r, Fields \ {"mask", "disp", "result"})
    BY DEF Dies
  <1>2. Running(p) /\ q \in ProcType /\ (p = "child" => program \in Forkers)
    BY DEF Dies, CodesInv, SigTypeOK, Running
  <1>3. /\ r.disp = q.disp /\ r.saved = Idle.saved /\ r.jmp = Idle.jmp
        /\ r.alarm = Idle.alarm /\ r.pending = Idle.pending
    BY <1>1 DEF Keeps, Fields
  <1>4. r.status \notin {"running", "none", "reaped"}
    BY <1>1, <1>2 DEF Deliverable, ProcType, Sigs
  <1>5. ProcOK(p)'
    <2>1. ~r.alarm /\ ~r.jmp.set /\ r.pending = {} /\ \A s \in Sigs : r.saved[s] = "SIG_DFL"
      BY <1>3 DEF Idle
    <2>2. HandlersOK(p)'
      BY <1>3, <2>1 DEF HandlersOK, CodesInv, NoHandler
    <2> QED
      BY <1>4, <2>1, <2>2 DEF ProcOK, StackOK, PendingOK, JmpOK, Running
  <1>6. CASE p = "child"
    <2> DEFINE u == proc["parent"]
               v == proc'["parent"]
    <2>1. Keeps(u, v, {"pending"}) /\ Gets(u, v, "CHLD")
      BY <1>6 DEF Dies
    <2>2. /\ v.status = u.status /\ v.inside = u.inside /\ v.stack = u.stack
          /\ v.disp = u.disp /\ v.saved = u.saved /\ v.jmp = u.jmp /\ v.alarm = u.alarm
      BY <2>1 DEF Keeps, Fields
    <2>3. "CHLD" \in PendingOf[program]
      BY <1>2, <1>6, PendingAre DEF Forkers
    <2>4. v.pending \subseteq u.pending \cup PendingOf[program]
      BY <2>1, <2>3 DEF Gets
    <2>5. ProcOK("parent")'
      BY <2>2, <2>4, StackSame, HandlersSame, PendingLess, JmpSame DEF ProcOK, Procs
    <2>6. (ChildOK /\ ParentOK)'
      BY <1>2, <1>6, <2>2 DEF ChildOK, ParentOK, CodesInv
    <2> QED
      BY <1>5, <1>6, <2>5, <2>6 DEF OthersOK, Procs
  <1>7. CASE p = "parent"
    <2>1. proc'["child"] = proc["child"]
      BY <1>7 DEF Dies
    <2>2. ProcOK("child")' /\ ChildOK'
      BY <2>1, ProcSame DEF Procs, ChildOK, CodesInv
    <2>3. ParentOK'
      BY <1>4, <1>7 DEF ParentOK
    <2> QED
      BY <1>5, <1>7, <2>2, <2>3 DEF OthersOK, Procs
  <1> QED
    BY <1>6, <1>7 DEF Procs

LEMMA ComesOK == ASSUME CodesInv, SignalsCome, program' = program PROVE OthersOK
  <1>1. ASSUME NEW z \in Procs PROVE ProcOK(z)' /\ proc'[z].status = proc[z].status
    <2> DEFINE u == proc[z]
               v == proc'[z]
    <2>1. /\ Keeps(u, v, {"pending", "alarm"})
          /\ v.alarm => u.alarm
          /\ \A s \in v.pending \ u.pending :
               (s = "ALRM" /\ u.alarm) \/ (program \in DOMAIN Sent /\ s \in Sent[program])
      BY DEF SignalsCome
    <2>2. /\ v.status = u.status /\ v.inside = u.inside /\ v.stack = u.stack
          /\ v.disp = u.disp /\ v.saved = u.saved /\ v.jmp = u.jmp
      BY <2>1 DEF Keeps, Fields
    <2>3. /\ program \in DOMAIN Sent => Sent[program] \subseteq PendingOf[program]
          /\ u.alarm => "ALRM" \in PendingOf[program]
      BY MainsAndHandlers DEF CodesInv, SigTypeOK, PendingOK
    <2>4. v.pending \subseteq u.pending \cup PendingOf[program]
      BY <2>1, <2>3
    <2> QED
      BY <2>1, <2>2, <2>4, StackSame, HandlersSame, PendingLess, JmpSame DEF ProcOK
  <1> QED
    BY <1>1, StatusSame DEF OthersOK

\* CodesInv is kept by every step.
LEMMA StepCodes == ASSUME CodesInv, Next PROVE CodesInv' /\ Shapes
  <1>1. Shapes /\ SigTypeOK'
    BY StepShapes
  <1>2. OthersOK
    BY <1>1, CallOK, KillsOK, ForksOK, JumpsOK, EntersOK, LeavesOK, ReapsOK, HandlesOK, ReturnsOK, DiesOK, ComesOK
       DEF Shapes, OthersOK
  <1> QED
    BY <1>1, <1>2 DEF CodesInv, OthersOK, ChildOK, ParentOK, ProcOK

LEMMA InitCodes == Init => CodesInv
  <1> SUFFICES ASSUME Init PROVE CodesInv
    OBVIOUS
  <1>1. program \in Mains /\ user = 0 /\ tty = [mode |-> "normal", saved |-> "none", ttystate |-> "RESET", failed |-> FALSE]
    BY ProgramsAssumption DEF Init
  <1>2. PICK d \in {"SIG_DFL", "SIG_IGN", "nop"} :
             /\ d = "nop" => program = "abort1"
             /\ proc = [parent |-> [Idle EXCEPT !.status = "running", !.disp["ABRT"] = d,
                                                !.stack = <<Frame(program, "none", {})>>],
                        child |-> Idle]
    BY DEF Init
  <1> DEFINE q == proc["parent"]
  <1>3. Idle \in ProcType
    <2>1. <<>> \in Seq(FrameType)
      BY EmptySeq
    <2> QED
      BY <2>1 DEF Idle, ProcType, Status, Actions, NoHandler, JmpType
  <1>4. <<Frame(program, "none", {})>> \in Seq(FrameType)
    <2>1. program \in DOMAIN Code
      BY <1>1, MainsAndHandlers
    <2>2. Frame(program, "none", {}) \in FrameType
      BY <2>1 DEF Frame, FrameType
    <2> QED
      BY <2>2
  <1>5. d \in Actions
    BY DEF Actions, NoHandler, Code
  <1>6. /\ q \in ProcType /\ proc["child"] = Idle /\ q.status = "running" /\ q.stack = <<Frame(program, "none", {})>>
        /\ q.disp = [Idle.disp EXCEPT !["ABRT"] = d] /\ Keeps(Idle, q, {"status", "disp", "stack"})
    <2> DEFINE t == <<Frame(program, "none", {})>>
               e == [Idle.disp EXCEPT !["ABRT"] = d]
    <2>1. Idle.disp \in [Sigs -> Actions]
      BY <1>3 DEF ProcType
    <2>2. e \in [Sigs -> Actions]
      BY <1>5, <2>1
    <2>3. q = [Idle EXCEPT !.status = "running", !.disp = e, !.stack = t] /\ proc["child"] = Idle
      BY <1>2
    <2> HIDE DEF e, t, Idle
    <2>4. q \in ProcType /\ q.status = "running" /\ q.stack = t /\ q.disp = e /\ Keeps(Idle, q, {"status", "disp", "stack"})
      BY <1>3, <1>4, <2>2, <2>3 DEF ProcType, Status, Keeps, Fields, t
    <2> QED
      BY <2>3, <2>4 DEF e, t
  <1>7. /\ ~q.alarm /\ ~q.jmp.set /\ q.pending = {} /\ ~q.inside /\ \A s \in Sigs : q.saved[s] = "SIG_DFL"
    BY <1>6 DEF Keeps, Fields, Idle
  <1>8. SigTypeOK
    <2>1. proc = [parent |-> q, child |-> Idle]
      BY <1>2
    <2>2. proc \in [Procs -> ProcType]
      <3> HIDE DEF q, Idle
      <3> QED
        BY <1>3, <1>6, <2>1 DEF Procs
    <2> QED
      BY <1>1, <2>2 DEF SigTypeOK, TtyType, Modes
  <1>9. StackOK("parent")
    <2>1. Len(q.stack) = 1 /\ q.stack[1].code = program
      BY <1>6 DEF Frame
    <2> HIDE DEF q
    <2> QED
      BY <1>7, <2>1 DEF StackOK, MainCode, q
  <1>10. HandlersOK("parent")
    <2>1. \A s \in Sigs : q.disp[s] = IF s = "ABRT" THEN d ELSE "SIG_DFL"
      BY <1>6 DEF Idle
    <2> QED
      BY <1>2, <1>7, <2>1, HandlersAre DEF HandlersOK, NoHandler
  <1>11. StackOK("child") /\ HandlersOK("child") /\ PendingOK("child") /\ JmpOK("child") /\ proc["child"].status = "none"
    <2>1. ~Idle.alarm /\ ~Idle.jmp.set
      BY DEF Idle
    <2> QED
      BY <1>6, <2>1 DEF Idle, StackOK, HandlersOK, PendingOK, JmpOK, Running, NoHandler
  <1> QED
    BY <1>6, <1>7, <1>8, <1>9, <1>10, <1>11 DEF CodesInv, PendingOK, JmpOK, Procs

-----------------------------------------------------------------------------
(* The calls of each function *)

LEMMA AlarmSigHandler3Calls ==
  LET c == Code["alarm_sig_handler3"] IN
  /\ Len(c) = 1
  /\ c[1].op = "longjmp"
  BY CodeIs DEF longjmp

LEMMA AlarmSigHandler5Calls ==
  LET c == Code["alarm_sig_handler5"] IN
  /\ Len(c) = 1
  /\ c[1].op = "longjmp"
  BY CodeIs DEF longjmp

LEMMA Sleep1Calls ==
  LET c == Code["sleep1"] IN
  /\ Len(c) = 4
  /\ c[1].op = "signal" /\ c[1].sig = "ALRM" /\ c[1].handler = "nop"
  /\ c[2].op = "alarm" /\ c[2].on = TRUE
  /\ c[3].op = "pause"
  /\ c[4].op = "alarm" /\ c[4].on = FALSE
  BY CodeIs DEF sleep1, signal, alarm, pause

LEMMA SigTest4Calls ==
  LET c == Code["sig_test4"] IN
  /\ Len(c) = 5
  /\ c[1].op = "signal" /\ c[1].sig = "ALRM" /\ c[1].handler = "alarm_sig_handler3"
  /\ c[2].op = "setjmp" /\ c[2].skip = 2 /\ c[2].savemask = FALSE
  /\ c[3].op = "alarm" /\ c[3].on = TRUE
  /\ c[4].op = "pause"
  /\ c[5].op = "alarm" /\ c[5].on = FALSE
  BY CodeIs DEF sig_test4, sleep2, signal, setjmp, alarm, pause

LEMMA Sleep2AgainCalls ==
  LET c == Code["sleep2_again"] IN
  /\ Len(c) = 10
  /\ c[1].op = "signal" /\ c[1].sig = "ALRM" /\ c[1].handler = "alarm_sig_handler3"
  /\ c[2].op = "setjmp" /\ c[2].skip = 2 /\ c[2].savemask = FALSE
  /\ c[3].op = "alarm" /\ c[3].on = TRUE
  /\ c[4].op = "pause"
  /\ c[5].op = "alarm" /\ c[5].on = FALSE
  /\ c[6].op = "signal" /\ c[6].sig = "ALRM" /\ c[6].handler = "alarm_sig_handler3"
  /\ c[7].op = "setjmp" /\ c[7].skip = 2 /\ c[7].savemask = FALSE
  /\ c[8].op = "alarm" /\ c[8].on = TRUE
  /\ c[9].op = "pause"
  /\ c[10].op = "alarm" /\ c[10].on = FALSE
  BY CodeIs DEF sleep2_again, sleep2, signal, setjmp, alarm, pause

LEMMA SigTest5Calls ==
  LET c == Code["sig_test5"] IN
  /\ Len(c) = 6
  /\ c[1].op = "signal" /\ c[1].sig = "INT" /\ c[1].handler = "sig_int1"
  /\ c[2].op = "signal" /\ c[2].sig = "ALRM" /\ c[2].handler = "alarm_sig_handler3"
  /\ c[3].op = "setjmp" /\ c[3].skip = 2 /\ c[3].savemask = FALSE
  /\ c[4].op = "alarm" /\ c[4].on = TRUE
  /\ c[5].op = "pause"
  /\ c[6].op = "alarm" /\ c[6].on = FALSE
  BY CodeIs DEF sig_test5, signal, sleep2, setjmp, alarm, pause

LEMMA SigInt1Calls ==
  LET c == Code["sig_int1"] IN
  /\ Len(c) = 1
  /\ c[1].op = "compute"
  BY CodeIs DEF sig_int1, compute

LEMMA SigTest6Calls ==
  LET c == Code["sig_test6"] IN
  /\ Len(c) = 5
  /\ c[1].op = "signal" /\ c[1].sig = "ALRM" /\ c[1].handler = "alarm_sig_handler5"
  /\ c[2].op = "setjmp" /\ c[2].skip = 0 /\ c[2].savemask = FALSE
  /\ c[3].op = "alarm" /\ c[3].on = TRUE
  /\ c[4].op = "read"
  /\ c[5].op = "alarm" /\ c[5].on = FALSE
  BY CodeIs DEF sig_test6, signal, setjmp, alarm, read

LEMMA SigChildTestCalls ==
  LET c == Code["sig_child_test"] IN
  /\ Len(c) = 4
  /\ c[1].op = "signal" /\ c[1].sig = "CHLD" /\ c[1].handler = "sig_child_handler"
  /\ c[2].op = "fork" /\ c[2].code = "sleeper" /\ c[2].skip = 0
  /\ c[3].op = "pause"
  /\ c[4].op = "sleep"
  BY CodeIs DEF sig_child_test, signal, fork, pause, sleep

LEMMA SleeperCalls ==
  LET c == Code["sleeper"] IN
  /\ Len(c) = 1
  /\ c[1].op = "sleep"
  BY CodeIs DEF sleeper, sleep

LEMMA SigChildHandlerCalls ==
  LET c == Code["sig_child_handler"] IN
  /\ Len(c) = 2
  /\ c[1].op = "signal" /\ c[1].sig = "CHLD" /\ c[1].handler = "sig_child_handler"
  /\ c[2].op = "wait"
  BY CodeIs DEF sig_child_handler, signal, wait

LEMMA SigProcMaskTest1Calls ==
  LET c == Code["sig_proc_mask_test1"] IN
  /\ Len(c) = 5
  /\ c[1].op = "signal" /\ c[1].sig = "QUIT" /\ c[1].handler = "sig_quit_handler"
  /\ c[2].op = "block" /\ c[2].set = {"QUIT"}
  /\ c[3].op = "sleep"
  /\ c[4].op = "oldmask"
  /\ c[5].op = "sleep"
  BY CodeIs DEF sig_proc_mask_test1, signal, SIG_BLOCK, sleep, SETMASK_oldmask

LEMMA SigQuitHandlerCalls ==
  LET c == Code["sig_quit_handler"] IN
  /\ Len(c) = 1
  /\ c[1].op = "signal" /\ c[1].sig = "QUIT" /\ c[1].handler = "SIG_DFL"
  BY CodeIs DEF sig_quit_handler, signal

LEMMA SigSetjmpTest2Calls ==
  LET c == Code["sig_setjmp_test2"] IN
  /\ Len(c) = 6
  /\ c[1].op = "signal" /\ c[1].sig = "USR1" /\ c[1].handler = "sig_usr1"
  /\ c[2].op = "signal" /\ c[2].sig = "ALRM" /\ c[2].handler = "nop"
  /\ c[3].op = "setjmp" /\ c[3].skip = 3 /\ c[3].savemask = TRUE
  /\ c[4].op = "flag" /\ c[4].value = TRUE
  /\ c[5].op = "pause"
  /\ c[6].op = "back" /\ c[6].n = 1
  BY CodeIs DEF sig_setjmp_test2, signal, sigsetjmp, flag, pause, back

LEMMA SigUsr1Calls ==
  LET c == Code["sig_usr1"] IN
  /\ Len(c) = 5
  /\ c[1].op = "return_unless_flag"
  /\ c[2].op = "alarm" /\ c[2].on = TRUE
  /\ c[3].op = "compute"
  /\ c[4].op = "flag" /\ c[4].value = FALSE
  /\ c[5].op = "longjmp"
  BY CodeIs DEF sig_usr1, return_unless_flag, alarm, compute, flag, longjmp

LEMMA SigSuspendTest1Calls ==
  LET c == Code["sig_suspend_test1"] IN
  /\ Len(c) = 5
  /\ c[1].op = "signal" /\ c[1].sig = "INT" /\ c[1].handler = "nop"
  /\ c[2].op = "block" /\ c[2].set = {"INT"}
  /\ c[3].op = "sleep"
  /\ c[4].op = "sigsuspend" /\ c[4].set = {"USR1"}
  /\ c[5].op = "oldmask"
  BY CodeIs DEF sig_suspend_test1, signal, SIG_BLOCK, sleep, sigsuspend, SETMASK_oldmask

LEMMA SigSuspendTest2Calls ==
  LET c == Code["sig_suspend_test2"] IN
  /\ Len(c) = 8
  /\ c[1].op = "signal" /\ c[1].sig = "INT" /\ c[1].handler = "int_signal_handler2"
  /\ c[2].op = "signal" /\ c[2].sig = "QUIT" /\ c[2].handler = "int_signal_handler2"
  /\ c[3].op = "block" /\ c[3].set = {"QUIT"}
  /\ c[4].op = "skip_if_flag" /\ c[4].skip = 2
  /\ c[5].op = "sigsuspend" /\ c[5].set = {}
  /\ c[6].op = "back" /\ c[6].n = 2
  /\ c[7].op = "flag" /\ c[7].value = FALSE
  /\ c[8].op = "oldmask"
  BY CodeIs DEF sig_suspend_test2, signal, SIG_BLOCK, skip_if_flag, sigsuspend, back, flag, SETMASK_oldmask

LEMMA IntSignalHandler2Calls ==
  LET c == Code["int_signal_handler2"] IN
  /\ Len(c) = 1
  /\ c[1].op = "flag_on" /\ c[1].sig = "QUIT"
  BY CodeIs DEF int_signal_handler2, flag_on

LEMMA UsrSignalHandlerCalls ==
  LET c == Code["usr_signal_handler"] IN
  /\ Len(c) = 1
  /\ c[1].op = "flag" /\ c[1].value = TRUE
  BY CodeIs DEF usr_signal_handler, flag

LEMMA TellWaitCalls ==
  LET c == Code["tell_wait"] IN
  /\ Len(c) = 10
  /\ c[1].op = "signal" /\ c[1].sig = "USR1" /\ c[1].handler = "usr_signal_handler"
  /\ c[2].op = "signal" /\ c[2].sig = "USR2" /\ c[2].handler = "usr_signal_handler"
  /\ c[3].op = "block" /\ c[3].set = {"USR1", "USR2"}
  /\ c[4].op = "fork" /\ c[4].code = "tell_wait_child" /\ c[4].skip = 0
  /\ c[5].op = "kill" /\ c[5].sig = "USR1" /\ c[5].to = "child"
  /\ c[6].op = "skip_if_flag" /\ c[6].skip = 2
  /\ c[7].op = "sigsuspend" /\ c[7].set = {}
  /\ c[8].op = "back" /\ c[8].n = 2
  /\ c[9].op = "flag" /\ c[9].value = FALSE
  /\ c[10].op = "oldmask"
  BY CodeIs DEF tell_wait, TELL_WAIT, signal, SIG_BLOCK, fork, TELL_CHILD, kill, WAIT_CHILD, skip_if_flag, sigsuspend, back, flag, SETMASK_oldmask

LEMMA TellWaitChildCalls ==
  LET c == Code["tell_wait_child"] IN
  /\ Len(c) = 5
  /\ c[1].op = "kill" /\ c[1].sig = "USR2" /\ c[1].to = "parent"
  /\ c[2].op = "skip_if_flag" /\ c[2].skip = 2
  /\ c[3].op = "sigsuspend" /\ c[3].set = {}
  /\ c[4].op = "back" /\ c[4].n = 2
  /\ c[5].op = "oldmask"
  BY CodeIs DEF tell_wait_child, TELL_PARENT, kill, WAIT_PARENT, skip_if_flag, sigsuspend, back, SETMASK_oldmask

LEMMA SystemM1Calls ==
  LET c == Code["system_m1"] IN
  /\ Len(c) = 8
  /\ c[1].op = "ignore" /\ c[1].sig = "INT"
  /\ c[2].op = "ignore" /\ c[2].sig = "QUIT"
  /\ c[3].op = "block" /\ c[3].set = {"CHLD"}
  /\ c[4].op = "fork" /\ c[4].code = "system_child" /\ c[4].skip = 1
  /\ c[5].op = "wait"
  /\ c[6].op = "restore" /\ c[6].sig = "INT"
  /\ c[7].op = "restore" /\ c[7].sig = "QUIT"
  /\ c[8].op = "oldmask"
  BY CodeIs DEF system_m1, sigaction_ignore, SIG_BLOCK, fork, wait, sigaction_restore, SETMASK_oldmask

LEMMA SystemTest1Calls ==
  LET c == Code["system_test1"] IN
  /\ Len(c) = 10
  /\ c[1].op = "signal" /\ c[1].sig = "INT" /\ c[1].handler = "nop"
  /\ c[2].op = "signal" /\ c[2].sig = "CHLD" /\ c[2].handler = "nop"
  /\ c[3].op = "ignore" /\ c[3].sig = "INT"
  /\ c[4].op = "ignore" /\ c[4].sig = "QUIT"
  /\ c[5].op = "block" /\ c[5].set = {"CHLD"}
  /\ c[6].op = "fork" /\ c[6].code = "system_child" /\ c[6].skip = 1
  /\ c[7].op = "wait"
  /\ c[8].op = "restore" /\ c[8].sig = "INT"
  /\ c[9].op = "restore" /\ c[9].sig = "QUIT"
  /\ c[10].op = "oldmask"
  BY CodeIs DEF system_test1, signal, system_m1, sigaction_ignore, SIG_BLOCK, fork, wait, sigaction_restore, SETMASK_oldmask

LEMMA SystemWaitsCalls ==
  LET c == Code["system_waits"] IN
  /\ Len(c) = 10
  /\ c[1].op = "signal" /\ c[1].sig = "INT" /\ c[1].handler = "nop"
  /\ c[2].op = "signal" /\ c[2].sig = "CHLD" /\ c[2].handler = "sig_child_handler"
  /\ c[3].op = "ignore" /\ c[3].sig = "INT"
  /\ c[4].op = "ignore" /\ c[4].sig = "QUIT"
  /\ c[5].op = "block" /\ c[5].set = {"CHLD"}
  /\ c[6].op = "fork" /\ c[6].code = "system_child" /\ c[6].skip = 1
  /\ c[7].op = "wait"
  /\ c[8].op = "restore" /\ c[8].sig = "INT"
  /\ c[9].op = "restore" /\ c[9].sig = "QUIT"
  /\ c[10].op = "oldmask"
  BY CodeIs DEF system_waits, signal, system_m1, sigaction_ignore, SIG_BLOCK, fork, wait, sigaction_restore, SETMASK_oldmask

LEMMA SystemChildCalls ==
  LET c == Code["system_child"] IN
  /\ Len(c) = 4
  /\ c[1].op = "restore" /\ c[1].sig = "INT"
  /\ c[2].op = "restore" /\ c[2].sig = "QUIT"
  /\ c[3].op = "oldmask"
  /\ c[4].op = "command"
  BY CodeIs DEF system_child, sigaction_restore, SETMASK_oldmask, command

LEMMA Abort1Calls ==
  LET c == Code["abort1"] IN
  /\ Len(c) = 6
  /\ c[1].op = "unignore" /\ c[1].sig = "ABRT"
  /\ c[2].op = "setmask" /\ c[2].set = Sigs \ {"ABRT"}
  /\ c[3].op = "kill" /\ c[3].sig = "ABRT" /\ c[3].to = "parent"
  /\ c[4].op = "signal" /\ c[4].sig = "ABRT" /\ c[4].handler = "SIG_DFL"
  /\ c[5].op = "setmask" /\ c[5].set = Sigs \ {"ABRT"}
  /\ c[6].op = "kill" /\ c[6].sig = "ABRT" /\ c[6].to = "parent"
  BY CodeIs DEF abort1, sigaction_unignore, SIG_SETMASK, kill, signal

LEMMA SigCatchCalls ==
  LET c == Code["sig_catch"] IN
  /\ Len(c) = 4
  /\ c[1].op = "skip_if_state" /\ c[1].skip = 2 /\ c[1].states = {"RESET"}
  /\ c[2].op = "tcrestore" /\ c[2].skip = 1
  /\ c[3].op = "ttystate" /\ c[3].state = "RESET"
  /\ c[4].op = "exit"
  BY CodeIs DEF sig_catch, tty_reset, skip_if_state, tcrestore, ttystate, exit

LEMMA GetpassTestCalls ==
  LET c == Code["getpass_test"] IN
  /\ Len(c) = 8
  /\ c[1].op = "block" /\ c[1].set = {"INT", "TSTP"}
  /\ c[2].op = "tcgetattr" /\ c[2].skip = 0
  /\ c[3].op = "tcsetattr" /\ c[3].skip = 0 /\ c[3].mode = "noecho"
  /\ c[4].op = "read"
  /\ c[5].op = "go" /\ c[5].set = {-1, 1}
  /\ c[6].op = "tcrestore" /\ c[6].skip = 0
  /\ c[7].op = "oldmask"
  /\ c[8].op = "exit"
  BY CodeIs DEF getpass_test, getpass_m, SIG_BLOCK, tcgetattr, tcsetattr, read, go, tcrestore, SETMASK_oldmask, exit

-----------------------------------------------------------------------------
(* Masks and jumps, call by call *)

\* What each call of a main function makes of the mask.
LEMMA MaskCalls == \A P \in Mains : \A i \in 1..Len(Code[P]) : MaskOK(P, i)
  <1>1. \A i \in 1..Len(Code["sleep1"]) : MaskOK("sleep1", i)
    <2>1. \A j : ~InMask("sleep1", j)
      BY DEF InMask
    <2>2. \A i \in 1..Len(Code["sleep1"]) : Code["sleep1"][i].op \notin {"block", "setmask", "oldmask", "setjmp"}
      BY Sleep1Calls
    <2> QED
      BY <2>1, <2>2 DEF MaskOK
  <1>2. \A i \in 1..Len(Code["sig_test4"]) : MaskOK("sig_test4", i)
    <2>1. \A j : ~InMask("sig_test4", j)
      BY DEF InMask
    <2> QED
      BY <2>1, SigTest4Calls DEF MaskOK, Jumping
  <1>3. \A i \in 1..Len(Code["sleep2_again"]) : MaskOK("sleep2_again", i)
    <2>1. \A j : ~InMask("sleep2_again", j)
      BY DEF InMask
    <2> QED
      BY <2>1, Sleep2AgainCalls DEF MaskOK, Jumping
  <1>4. \A i \in 1..Len(Code["sig_test5"]) : MaskOK("sig_test5", i)
    <2>1. \A j : ~InMask("sig_test5", j)
      BY DEF InMask
    <2> QED
      BY <2>1, SigTest5Calls DEF MaskOK, Jumping
  <1>5. \A i \in 1..Len(Code["sig_test6"]) : MaskOK("sig_test6", i)
    <2>1. \A j : ~InMask("sig_test6", j)
      BY DEF InMask
    <2> QED
      BY <2>1, SigTest6Calls DEF MaskOK, Jumping
  <1>6. \A i \in 1..Len(Code["sig_child_test"]) : MaskOK("sig_child_test", i)
    <2>1. \A j : ~InMask("sig_child_test", j)
      BY DEF InMask
    <2>2. \A i \in 1..Len(Code["sig_child_test"]) : Code["sig_child_test"][i].op \notin {"block", "setmask", "oldmask", "setjmp"}
      BY SigChildTestCalls
    <2> QED
      BY <2>1, <2>2 DEF MaskOK
  <1>7. \A i \in 1..Len(Code["sig_proc_mask_test1"]) : MaskOK("sig_proc_mask_test1", i)
    <2>1. \A j : InMask("sig_proc_mask_test1", j) <=> j \in 3..4
      BY DEF InMask
    <2>2. \A i \in {2, 4} : MaskOK("sig_proc_mask_test1", i)
      BY <2>1, SigProcMaskTest1Calls DEF MaskOK, Masked, Jumping
    <2>3. \A i \in (1..5) \ {2, 4} : Code["sig_proc_mask_test1"][i].op \notin {"block", "setmask", "oldmask", "setjmp"}
      BY SigProcMaskTest1Calls
    <2>4. \A i \in (1..5) \ {2, 4} : \A j \in Succ("sig_proc_mask_test1", i) : j \in 3..4 <=> i \in 3..4
      BY SigProcMaskTest1Calls DEF Succ, SkipOps
    <2>5. Len(Code["sig_proc_mask_test1"]) = 5
      BY SigProcMaskTest1Calls
    <2> QED
      BY <2>1, <2>2, <2>3, <2>4, <2>5 DEF MaskOK
  <1>8. \A i \in 1..Len(Code["sig_setjmp_test2"]) : MaskOK("sig_setjmp_test2", i)
    <2>1. \A j : ~InMask("sig_setjmp_test2", j)
      BY DEF InMask
    <2> QED
      BY <2>1, SigSetjmpTest2Calls DEF MaskOK, Jumping
  <1>9. \A i \in 1..Len(Code["sig_suspend_test1"]) : MaskOK("sig_suspend_test1", i)
    <2>1. \A j : InMask("sig_suspend_test1", j) <=> j \in 3..5
      BY DEF InMask
    <2>2. \A i \in {2, 5} : MaskOK("sig_suspend_test1", i)
      BY <2>1, SigSuspendTest1Calls DEF MaskOK, Masked, Jumping
    <2>3. \A i \in (1..5) \ {2, 5} : Code["sig_suspend_test1"][i].op \notin {"block", "setmask", "oldmask", "setjmp"}
      BY SigSuspendTest1Calls
    <2>4. \A i \in (1..5) \ {2, 5} : \A j \in Succ("sig_suspend_test1", i) : j \in 3..5 <=> i \in 3..5
      BY SigSuspendTest1Calls DEF Succ, SkipOps
    <2>5. Len(Code["sig_suspend_test1"]) = 5
      BY SigSuspendTest1Calls
    <2> QED
      BY <2>1, <2>2, <2>3, <2>4, <2>5 DEF MaskOK
  <1>10. \A i \in 1..Len(Code["sig_suspend_test2"]) : MaskOK("sig_suspend_test2", i)
    <2>1. \A j : InMask("sig_suspend_test2", j) <=> j \in 4..8
      BY DEF InMask
    <2>2. \A i \in {3, 8} : MaskOK("sig_suspend_test2", i)
      BY <2>1, SigSuspendTest2Calls DEF MaskOK, Masked, Jumping
    <2>3. \A i \in (1..8) \ {3, 8} : Code["sig_suspend_test2"][i].op \notin {"block", "setmask", "oldmask", "setjmp"}
      BY SigSuspendTest2Calls
    <2>4. \A i \in (1..8) \ {3, 8} : \A j \in Succ("sig_suspend_test2", i) : j \in 4..8 <=> i \in 4..8
      BY SigSuspendTest2Calls DEF Succ, SkipOps
    <2>5. Len(Code["sig_suspend_test2"]) = 8
      BY SigSuspendTest2Calls
    <2> QED
      BY <2>1, <2>2, <2>3, <2>4, <2>5 DEF MaskOK
  <1>11. \A i \in 1..Len(Code["tell_wait"]) : MaskOK("tell_wait", i)
    <2>1. \A j : InMask("tell_wait", j) <=> j \in 4..10
      BY DEF InMask
    <2>2. \A i \in {3, 10} : MaskOK("tell_wait", i)
      BY <2>1, TellWaitCalls DEF MaskOK, Masked, Jumping
    <2>3. \A i \in (1..10) \ {3, 10} : Code["tell_wait"][i].op \notin {"block", "setmask", "oldmask", "setjmp"}
      BY TellWaitCalls
    <2>4. \A i \in (1..10) \ {3, 10} : \A j \in Succ("tell_wait", i) : j \in 4..10 <=> i \in 4..10
      BY TellWaitCalls DEF Succ, SkipOps
    <2>5. Len(Code["tell_wait"]) = 10
      BY TellWaitCalls
    <2> QED
      BY <2>1, <2>2, <2>3, <2>4, <2>5 DEF MaskOK
  <1>12. \A i \in 1..Len(Code["system_m1"]) : MaskOK("system_m1", i)
    <2>1. \A j : InMask("system_m1", j) <=> j \in 4..8
      BY DEF InMask
    <2>2. \A i \in {3, 8} : MaskOK("system_m1", i)
      BY <2>1, SystemM1Calls DEF MaskOK, Masked, Jumping
    <2>3. \A i \in (1..8) \ {3, 8} : Code["system_m1"][i].op \notin {"block", "setmask", "oldmask", "setjmp"}
      BY SystemM1Calls
    <2>4. \A i \in (1..8) \ {3, 8} : \A j \in Succ("system_m1", i) : j \in 4..8 <=> i \in 4..8
      BY SystemM1Calls DEF Succ, SkipOps
    <2>5. Len(Code["system_m1"]) = 8
      BY SystemM1Calls
    <2> QED
      BY <2>1, <2>2, <2>3, <2>4, <2>5 DEF MaskOK
  <1>13. \A i \in 1..Len(Code["system_test1"]) : MaskOK("system_test1", i)
    <2>1. \A j : InMask("system_test1", j) <=> j \in 6..10
      BY DEF InMask
    <2>2. \A i \in {5, 10} : MaskOK("system_test1", i)
      BY <2>1, SystemTest1Calls DEF MaskOK, Masked, Jumping
    <2>3. \A i \in (1..10) \ {5, 10} : Code["system_test1"][i].op \notin {"block", "setmask", "oldmask", "setjmp"}
      BY SystemTest1Calls
    <2>4. \A i \in (1..10) \ {5, 10} : \A j \in Succ("system_test1", i) : j \in 6..10 <=> i \in 6..10
      BY SystemTest1Calls DEF Succ, SkipOps
    <2>5. Len(Code["system_test1"]) = 10
      BY SystemTest1Calls
    <2> QED
      BY <2>1, <2>2, <2>3, <2>4, <2>5 DEF MaskOK
  <1>14. \A i \in 1..Len(Code["system_waits"]) : MaskOK("system_waits", i)
    <2>1. \A j : InMask("system_waits", j) <=> j \in 6..10
      BY DEF InMask
    <2>2. \A i \in {5, 10} : MaskOK("system_waits", i)
      BY <2>1, SystemWaitsCalls DEF MaskOK, Masked, Jumping
    <2>3. \A i \in (1..10) \ {5, 10} : Code["system_waits"][i].op \notin {"block", "setmask", "oldmask", "setjmp"}
      BY SystemWaitsCalls
    <2>4. \A i \in (1..10) \ {5, 10} : \A j \in Succ("system_waits", i) : j \in 6..10 <=> i \in 6..10
      BY SystemWaitsCalls DEF Succ, SkipOps
    <2>5. Len(Code["system_waits"]) = 10
      BY SystemWaitsCalls
    <2> QED
      BY <2>1, <2>2, <2>3, <2>4, <2>5 DEF MaskOK
  <1>15. \A i \in 1..Len(Code["abort1"]) : MaskOK("abort1", i)
    <2>1. \A j : InMask("abort1", j) <=> j > 2
      BY DEF InMask
    <2>2. \A i \in {2, 5} : MaskOK("abort1", i)
      BY <2>1, Abort1Calls DEF MaskOK, Masked, Jumping
    <2>3. \A i \in (1..6) \ {2, 5} : Code["abort1"][i].op \notin {"block", "setmask", "oldmask", "setjmp"}
      BY Abort1Calls
    <2>4. \A i \in (1..6) \ {2, 5} : \A j \in Succ("abort1", i) : j > 2 <=> i > 2
      BY Abort1Calls DEF Succ, SkipOps
    <2>5. Len(Code["abort1"]) = 6
      BY Abort1Calls
    <2> QED
      BY <2>1, <2>2, <2>3, <2>4, <2>5 DEF MaskOK
  <1>16. \A i \in 1..Len(Code["abnormal_terminal_test"]) : MaskOK("abnormal_terminal_test", i)
    <2>1. \A j : ~InMask("abnormal_terminal_test", j)
      BY DEF InMask
    <2>2. \A i \in 1..Len(Code["abnormal_terminal_test"]) : Code["abnormal_terminal_test"][i].op \notin {"block", "setmask", "oldmask", "setjmp"}
      BY TerminalCalls
    <2> QED
      BY <2>1, <2>2 DEF MaskOK
  <1>17. \A i \in 1..Len(Code["getpass_test"]) : MaskOK("getpass_test", i)
    <2>1. \A j : InMask("getpass_test", j) <=> j \in 2..7
      BY DEF InMask
    <2>2. \A i \in {1, 7} : MaskOK("getpass_test", i)
      BY <2>1, GetpassTestCalls DEF MaskOK, Masked, Jumping
    <2>3. \A i \in (1..8) \ {1, 7} : Code["getpass_test"][i].op \notin {"block", "setmask", "oldmask", "setjmp"}
      BY GetpassTestCalls
    <2>4. \A i \in (1..8) \ {1, 7} : \A j \in Succ("getpass_test", i) : j \in 2..7 <=> i \in 2..7
      BY GetpassTestCalls DEF Succ, SkipOps
    <2>5. Len(Code["getpass_test"]) = 8
      BY GetpassTestCalls
    <2> QED
      BY <2>1, <2>2, <2>3, <2>4, <2>5 DEF MaskOK
  <1> QED
    BY <1>1, <1>2, <1>3, <1>4, <1>5, <1>6, <1>7, <1>8, <1>9, <1>10, <1>11, <1>12, <1>13, <1>14,
    <1>15, <1>16, <1>17 DEF Mains

LEMMA JumpCalls ==
  /\ SetAt["sig_test4"] = 3 /\ SetAt["sleep2_again"] = 3 /\ SetAt["sig_test5"] = 4
  /\ SetAt["sig_test6"] = 3 /\ SetAt["sig_setjmp_test2"] = 4
  /\ DOMAIN SetAt = Jumping \cup {"sig_setjmp_test2"}
  /\ \A P \in DOMAIN SetAt : \A i \in 1..Len(Code[P]) : JumpOK(P, i)
  <1>0. /\ SetAt["sig_test4"] = 3 /\ SetAt["sleep2_again"] = 3 /\ SetAt["sig_test5"] = 4
        /\ SetAt["sig_test6"] = 3 /\ SetAt["sig_setjmp_test2"] = 4
        /\ DOMAIN SetAt = Jumping \cup {"sig_setjmp_test2"}
    BY DEF SetAt, Jumping
  <1>1. \A i \in 1..Len(Code["sig_test4"]) : JumpOK("sig_test4", i)
    BY <1>0, SigTest4Calls DEF JumpOK
  <1>2. \A i \in 1..Len(Code["sleep2_again"]) : JumpOK("sleep2_again", i)
    BY <1>0, Sleep2AgainCalls DEF JumpOK
  <1>3. \A i \in 1..Len(Code["sig_test5"]) : JumpOK("sig_test5", i)
    BY <1>0, SigTest5Calls DEF JumpOK
  <1>4. \A i \in 1..Len(Code["sig_test6"]) : JumpOK("sig_test6", i)
    BY <1>0, SigTest6Calls DEF JumpOK
  <1>5. \A i \in 1..Len(Code["sig_setjmp_test2"]) : JumpOK("sig_setjmp_test2", i)
    BY <1>0, SigSetjmpTest2Calls DEF JumpOK
  <1> QED
    BY <1>0, <1>1, <1>2, <1>3, <1>4, <1>5 DEF Jumping

-----------------------------------------------------------------------------
(* Masks *)

\* Where the main function of the parent stands.
LEMMA MainStands ==
  ASSUME CodesInv, Running("parent")
  PROVE  LET q == proc["parent"] IN
         /\ Len(q.stack) \in Nat \ {0} /\ q \in ProcType /\ q.stack[1].pc \in Nat \ {0}
         /\ program \in Mains
         /\ Len(q.stack) = 1 => /\ Top("parent") = q.stack[1] /\ Top("parent").code = program
                                /\ MoreToDo("parent") => /\ q.stack[1].pc \in 1..Len(Code[program])
                                                         /\ Instr("parent") = Code[program][q.stack[1].pc]
                                /\ ~MoreToDo("parent") => q.stack[1].pc > Len(Code[program])
         /\ Len(q.stack) # 1 => Top("parent").code # program /\ Len(q.stack) > 1
  <1> DEFINE q == proc["parent"]
  <1>1. /\ q \in ProcType /\ Len(q.stack) \in Nat \ {0} /\ Top("parent") = q.stack[Len(q.stack)] /\ Top("parent") \in FrameType
        /\ Top("parent").code = program <=> Len(q.stack) = 1
        /\ MoreToDo("parent") => Top("parent").pc \in 1..Len(Code[Top("parent").code])
        /\ Len(Code[Top("parent").code]) \in Nat
        /\ program \in Mains
    <2>1. Sound(program, Top("parent").code)
      BY Stands, CallsSound DEF Procs, CodesInv, SigTypeOK
    <2> QED
      BY <2>1, Stands DEF Procs, Sound, CodesInv, SigTypeOK
  <1>2. q.stack[1] \in FrameType
    BY <1>1 DEF ProcType
  <1> DEFINE l == Len(q.stack)
  <1>3. l # 1 => l > 1
    <2>1. l \in Nat \ {0}
      BY <1>1
    <2> HIDE DEF l
    <2> QED
      BY <2>1
  <1> QED
    BY <1>1, <1>2, <1>3 DEF FrameType, Instr, MoreToDo

\* The parent goes on in a handler, or stands still: its main function blocks what it did.
LEMMA MaskStays ==
  ASSUME CodesInv, MaskInv, program' = program, proc'["parent"].status = proc["parent"].status,
         proc'["parent"].stack[1].pc = proc["parent"].stack[1].pc,
         Running("parent") => MainMask' = MainMask
  PROVE  MainMaskOK'
  BY DEF MaskInv, MainMaskOK, Running

LEMMA HandlerMask ==
  ASSUME Len(proc["parent"].stack) > 1, Len(proc'["parent"].stack) > 1,
         proc'["parent"].stack[2].restore = proc["parent"].stack[2].restore
  PROVE  MainMask' = MainMask
  BY DEF MainMask

LEMMA MovedMask ==
  ASSUME CodesInv, MaskInv, Running("parent"), program' = program, proc'["parent"].status = proc["parent"].status,
         NEW j, Moved(proc["parent"].stack, proc'["parent"].stack, j), ~proc'["parent"].inside,
         Len(proc["parent"].stack) = 1 /\ program \notin Jumping => proc'["parent"].mask = MaskAt(program, j)
  PROVE  MainMaskOK'
  <1> DEFINE q == proc["parent"]
             r == proc'["parent"]
             l == Len(q.stack)
  <1>1. l \in Nat \ {0} /\ Len(r.stack) = l
        /\ \A k \in 1..l : r.stack[k].restore = q.stack[k].restore /\ r.stack[k].pc = IF k = l THEN j ELSE q.stack[k].pc
    BY MainStands DEF Moved
  <1>2. CASE l = 1
    BY <1>1, <1>2 DEF MainMaskOK, MainMask
  <1>3. CASE l # 1
    <2> HIDE DEF l
    <2>1. l > 1 /\ 1 \in 1..l /\ 2 \in 1..l
      BY <1>1, <1>3
    <2>2. r.stack[2].restore = q.stack[2].restore /\ r.stack[1].pc = q.stack[1].pc
      BY <1>1, <2>1
    <2>3. MainMask' = MainMask
      BY <1>1, <2>1, <2>2, HandlerMask DEF l
    <2> QED
      BY <2>2, <2>3, MaskStays
  <1> QED
    BY <1>2, <1>3

LEMMA CallMask == ASSUME CodesInv, MaskInv, Call("parent"), program' = program PROVE MaskInv'
  <1> DEFINE q == proc["parent"]
             r == proc'["parent"]
             x == Instr("parent")
             at == q.stack[1].pc
  <1>1. /\ Running("parent") /\ MoreToDo("parent") /\ ~q.inside /\ Effect("parent", r) /\ x.op \in CallOps
        /\ r.status = q.status /\ ~r.inside
    BY DEF Call, Calling, Effect, Keeps, Fields
  <1>2. PICK j \in Succ(Top("parent").code, Top("parent").pc) : Moved(q.stack, r.stack, j)
    BY DEF Call
  <1>3. /\ InstrOK(program, Top("parent").code, Top("parent").pc)
        /\ x.op \in {"block", "setmask", "setjmp"} => Len(q.stack) = 1
    <2>1. InstrOK(program, Top("parent").code, Top("parent").pc)
      BY <1>1, Stands DEF Procs
    <2>2. x.op \in {"block", "setmask", "setjmp"} => Top("parent").code = program
      BY <2>1 DEF InstrOK, Instr
    <2> QED
      BY <1>1, <2>1, <2>2, MainStands
  <1>4. Len(q.stack) = 1 => /\ x = Code[program][at] /\ MaskOK(program, at) /\ at \in Nat
                            /\ Top("parent").code = program /\ Top("parent").pc = at
                            /\ program \notin Jumping => q.mask = MaskAt(program, at)
    <2>1. Len(q.stack) = 1 => /\ x = Code[program][at] /\ MaskOK(program, at) /\ at \in Nat
                              /\ Top("parent").code = program /\ Top("parent").pc = at
      BY <1>1, MainStands, MaskCalls
    <2> QED
      BY <1>1, <2>1 DEF MaskInv, MainMaskOK, MainMask
  <1>5. Len(q.stack) = 1 /\ program \notin Jumping => r.mask = MaskAt(program, j)
    <2> SUFFICES ASSUME Len(q.stack) = 1, program \notin Jumping PROVE r.mask = MaskAt(program, j)
      OBVIOUS
    <2>1. /\ r.mask = IF x.op = "block" THEN q.mask \cup x.set
                      ELSE IF x.op = "setmask" THEN x.set
                      ELSE IF x.op = "oldmask" THEN q.oldmask ELSE q.mask
          /\ j \in Succ(program, at) /\ MaskOK(program, at) /\ q.mask = MaskAt(program, at) /\ x = Code[program][at]
          /\ q.oldmask = {} /\ at \in Nat
      BY <1>1, <1>2, <1>4 DEF Effect, MaskInv, OldMaskOK
    <2>2. x.op \in {"block", "setmask", "oldmask"} => j = at + 1
      BY <2>1 DEF Succ, SkipOps
    <2>3. x.op = "setjmp" => j = at + 1
      BY <2>1 DEF Succ, SkipOps
    <2> QED
      BY <2>1, <2>2, <2>3 DEF MaskOK, MaskAt
  <1>6. MainMaskOK'
    BY <1>1, <1>2, <1>5, MovedMask
  <1>7. OldMaskOK'
    <2>1. CASE x.op = "block"
      <3>1. q.mask = {}
        BY <1>3, <1>4, <2>1 DEF MaskOK, MaskAt
      <3> QED
        BY <1>1, <2>1, <3>1 DEF Effect, OldMaskOK
    <2>2. CASE x.op # "block"
      BY <1>1, <2>2 DEF Effect, OldMaskOK, MaskInv
    <2> QED
      BY <2>1, <2>2
  <1>8. JmpMaskOK'
    <2>1. CASE x.op = "setjmp"
      <3>1. /\ r.jmp.pc = at + 1 + x.skip /\ r.jmp.mask = q.mask /\ r.jmp.savemask = x.savemask
        BY <1>1, <1>3, <1>4, <2>1 DEF Effect
      <3>2. program \notin Jumping => /\ q.mask = {} /\ x.savemask = TRUE /\ ~InMask(program, at + 1 + x.skip)
        BY <1>3, <1>4, <2>1 DEF MaskOK, MaskAt
      <3>3. program \notin Jumping => r.jmp.savemask
        BY <3>1, <3>2
      <3> QED
        BY <3>1, <3>2, <3>3 DEF JmpMaskOK
    <2>2. CASE x.op # "setjmp"
      BY <1>1, <2>2 DEF Effect, JmpMaskOK, MaskInv
    <2> QED
      BY <2>1, <2>2
  <1> QED
    BY <1>6, <1>7, <1>8 DEF MaskInv

LEMMA OldAndJmpMask ==
  ASSUME MaskInv, program' = program, proc'["parent"].oldmask = proc["parent"].oldmask, proc'["parent"].jmp = proc["parent"].jmp
  PROVE  OldMaskOK' /\ JmpMaskOK'
  BY DEF MaskInv, OldMaskOK, JmpMaskOK

\* A call of the main function that has nothing to do with masks.
LEMMA OtherMask ==
  ASSUME CodesInv, MaskInv, Running("parent"), MoreToDo("parent"), Len(proc["parent"].stack) = 1, program \notin Jumping,
         Instr("parent").op \notin {"block", "setmask", "oldmask", "setjmp"},
         NEW j \in Succ(Top("parent").code, Top("parent").pc)
  PROVE  MainMask = MaskAt(program, j)
  <1>1. /\ MaskOK(program, proc["parent"].stack[1].pc)
        /\ Top("parent").code = program /\ Top("parent").pc = proc["parent"].stack[1].pc
        /\ Instr("parent") = Code[program][proc["parent"].stack[1].pc]
    BY MainStands, MaskCalls
  <1> QED
    BY <1>1 DEF MaskInv, MainMaskOK, MaskOK, MaskAt

LEMMA KillsMask == ASSUME CodesInv, MaskInv, NEW p \in Procs, Kills(p), program' = program PROVE MaskInv'
  <1> DEFINE q == proc["parent"]
             r == proc'["parent"]
  <1>1. /\ Keeps(q, r, {"stack", "pending"})
        /\ IF p = "parent" THEN Moved(q.stack, r.stack, Top(p).pc + 1) ELSE r.stack = q.stack
        /\ Running(p) /\ MoreToDo(p) /\ ~proc[p].inside /\ Instr(p).op = "kill"
    BY DEF Kills, Calling, Procs
  <1>2. r.status = q.status /\ r.inside = q.inside /\ r.mask = q.mask /\ r.before = q.before /\ r.oldmask = q.oldmask /\ r.jmp = q.jmp
    BY <1>1 DEF Keeps, Fields
  <1>3. CASE p = "parent"
    <2>1. Top(p).pc + 1 \in Succ(Top(p).code, Top(p).pc)
      BY <1>1 DEF Succ, Instr, SkipOps
    <2>2. Len(q.stack) = 1 /\ program \notin Jumping => MainMask = MaskAt(program, Top(p).pc + 1)
      BY <1>1, <1>3, <2>1, OtherMask
    <2>3. Len(q.stack) = 1 => MainMask = q.mask
      BY <1>1, <1>3 DEF MainMask
    <2>4. MainMaskOK'
      BY <1>1, <1>2, <1>3, <2>2, <2>3, MovedMask
    <2> QED
      BY <1>2, <2>4, OldAndJmpMask DEF MaskInv
  <1>4. CASE p # "parent"
    <2>1. MainMask' = MainMask
      BY <1>1, <1>2, <1>4 DEF MainMask, Instr, Top
    <2> QED
      BY <1>1, <1>2, <1>4, <2>1, MaskStays, OldAndJmpMask DEF MaskInv
  <1> QED
    BY <1>3, <1>4

LEMMA ForksMask == ASSUME CodesInv, MaskInv, Forks, program' = program PROVE MaskInv'
  <1> DEFINE p == "parent"
             q == proc[p]
             r == proc'[p]
  <1>1. /\ Keeps(q, r, {"stack"})
        /\ Moved(q.stack, r.stack, Top(p).pc + 1)
        /\ Running(p) /\ MoreToDo(p) /\ ~q.inside /\ Instr(p).op = "fork"
    BY DEF Forks, Calling
  <1>2. r.status = q.status /\ r.inside = q.inside /\ r.mask = q.mask /\ r.before = q.before /\ r.oldmask = q.oldmask /\ r.jmp = q.jmp
    BY <1>1 DEF Keeps, Fields
  <1>3. Top(p).pc + 1 \in Succ(Top(p).code, Top(p).pc)
    BY <1>1 DEF Succ, Instr, SkipOps
  <1>4. Len(q.stack) = 1 /\ program \notin Jumping => MainMask = MaskAt(program, Top(p).pc + 1)
    BY <1>1, <1>3, OtherMask
  <1>5. Len(q.stack) = 1 => MainMask = q.mask
    BY <1>1 DEF MainMask
  <1>6. MainMaskOK'
    BY <1>1, <1>2, <1>4, <1>5, MovedMask
  <1> QED
    BY <1>2, <1>6, OldAndJmpMask DEF MaskInv

LEMMA JumpsMask == ASSUME CodesInv, MaskInv, Jumps("parent"), program' = program PROVE MaskInv'
  <1> DEFINE q == proc["parent"]
             r == proc'["parent"]
  <1>1. /\ q.jmp.set /\ Keeps(q, r, {"stack", "mask"}) /\ ~q.inside
        /\ r.mask = IF q.jmp.savemask THEN q.jmp.mask ELSE q.mask
        /\ q.jmp.depth = 1 => Len(r.stack) = 1 /\ r.stack[1].pc = q.jmp.pc
    BY DEF Jumps, Calling
  <1>2. Len(r.stack) = 1 /\ r.stack[1].pc = q.jmp.pc
    BY <1>1 DEF CodesInv, JmpOK, Procs
  <1>3. ~r.inside /\ r.oldmask = q.oldmask /\ r.jmp = q.jmp
    BY <1>1 DEF Keeps, Fields
  <1>4. MainMask' = r.mask
    BY <1>2, <1>3 DEF MainMask
  <1>5. program \notin Jumping => r.mask = {} /\ ~InMask(program, q.jmp.pc)
    BY <1>1 DEF MaskInv, JmpMaskOK
  <1>6. MainMaskOK'
    BY <1>2, <1>4, <1>5 DEF MainMaskOK, MaskAt
  <1> QED
    BY <1>3, <1>6, OldAndJmpMask DEF MaskInv

LEMMA EntersMask == ASSUME CodesInv, MaskInv, Enters("parent"), program' = program PROVE MaskInv'
  <1> DEFINE p == "parent"
             q == proc[p]
             r == proc'[p]
  <1>1. /\ Keeps(q, r, {"inside", "before", "mask", "disp"}) /\ ~q.inside /\ r.inside
        /\ Instr(p).op = "sigsuspend" => r.before = q.mask
        /\ Instr(p).op # "sigsuspend" => r.mask = q.mask
    BY DEF Enters, Calling
  <1>2. r.status = q.status /\ r.stack = q.stack /\ r.oldmask = q.oldmask /\ r.jmp = q.jmp
    BY <1>1 DEF Keeps, Fields
  <1>3. MainMask' = MainMask
    BY <1>1, <1>2 DEF MainMask, Instr, Top
  <1> QED
    BY <1>2, <1>3, MaskStays, OldAndJmpMask DEF MaskInv

LEMMA LeavesMask ==
  ASSUME CodesInv, MaskInv, Leaves("parent") \/ Reaps, program' = program PROVE MaskInv'
  <1> DEFINE p == "parent"
             q == proc[p]
             r == proc'[p]
  <1>1. /\ Keeps(q, r, {"inside", "stack", "result"}) /\ r.inside = FALSE /\ Running(p) /\ MoreToDo(p)
        /\ Moved(q.stack, r.stack, Top(p).pc + 1)
        /\ Instr(p).op \in {"sleep", "command", "read", "wait"}
    BY DEF Leaves, Reaps, Keeps, Fields
  <1>2. r.status = q.status /\ ~r.inside /\ r.mask = q.mask /\ r.oldmask = q.oldmask /\ r.jmp = q.jmp
    BY <1>1 DEF Keeps, Fields
  <1>3. Top(p).pc + 1 \in Succ(Top(p).code, Top(p).pc)
    BY <1>1 DEF Succ, Instr, SkipOps
  <1>4. Len(q.stack) = 1 /\ program \notin Jumping => MainMask = MaskAt(program, Top(p).pc + 1)
    BY <1>1, <1>3, OtherMask
  <1>5. Len(q.stack) = 1 => MainMask = q.mask
    BY <1>1 DEF MainMask
  <1>6. MainMaskOK'
    BY <1>1, <1>2, <1>4, <1>5, MovedMask
  <1> QED
    BY <1>2, <1>6, OldAndJmpMask DEF MaskInv

LEMMA HandlesMask == ASSUME CodesInv, MaskInv, Handles("parent"), program' = program PROVE MaskInv'
  <1> DEFINE p == "parent"
             q == proc[p]
             r == proc'[p]
             l == Len(q.stack)
             interrupted == q.inside /\ Instr(p).op \in Interruptible
             suspended == q.inside /\ Instr(p).op = "sigsuspend"
  <1>1. PICK s : /\ Running(p) /\ Keeps(q, r, {"stack", "inside", "mask", "pending", "rings"})
                 /\ Len(r.stack) = l + 1
                 /\ \A k \in 1..l : /\ r.stack[k].restore = q.stack[k].restore
                                    /\ r.stack[k].pc = IF k = l /\ interrupted THEN q.stack[k].pc + 1 ELSE q.stack[k].pc
                 /\ r.stack[l + 1] = Frame(q.disp[s], s, IF suspended THEN q.before ELSE q.mask)
    BY DEF Handles
  <1>2. r.status = q.status /\ r.oldmask = q.oldmask /\ r.jmp = q.jmp
    BY <1>1 DEF Keeps, Fields
  <1>3. l \in Nat \ {0} /\ q.stack[1].pc \in Nat /\ program \in Mains
    BY <1>1, MainStands
  <1>4. CASE l = 1
    <2>1. MainMask = IF suspended THEN q.before ELSE q.mask
      BY <1>4 DEF MainMask
    <2>2. r.stack[2] = Frame(q.disp[s], s, IF suspended THEN q.before ELSE q.mask) /\ Len(r.stack) = 2
      BY <1>1, <1>4
    <2>3. r.stack[2].restore = MainMask
      <3> HIDE DEF q, suspended
      <3> QED
        BY <2>1, <2>2 DEF Frame
    <2>4. MainMask' = MainMask
      BY <2>2, <2>3 DEF MainMask
    <2>5. CASE interrupted
      <3>1. r.stack[1].pc = q.stack[1].pc + 1
        BY <1>1, <1>3, <1>4, <2>5
      <3>2. MoreToDo(p) /\ Top(p).pc = q.stack[1].pc
        BY <1>1, <1>4, <2>5, MainStands DEF CodesInv, StackOK, Procs
      <3>3. Top(p).pc + 1 \in Succ(Top(p).code, Top(p).pc)
        BY <2>5 DEF Succ, Instr, SkipOps, Interruptible
      <3>4. program \notin Jumping => MainMask = MaskAt(program, q.stack[1].pc + 1)
        BY <1>1, <1>4, <2>5, <3>2, <3>3, OtherMask DEF Interruptible
      <3>5. MainMaskOK'
        BY <1>1, <2>4, <3>1, <3>4 DEF MainMaskOK
      <3> QED
        BY <1>2, <3>5, OldAndJmpMask DEF MaskInv
    <2>6. CASE ~interrupted
      <3>1. r.stack[1].pc = q.stack[1].pc
        BY <1>1, <1>3, <1>4, <2>6
      <3> QED
        BY <1>2, <2>4, <3>1, MaskStays, OldAndJmpMask DEF MaskInv
    <2> QED
      BY <2>5, <2>6
  <1>5. CASE l # 1
    <2> HIDE DEF l
    <2>1. l > 1 /\ 1 \in 1..l /\ 2 \in 1..l /\ Len(r.stack) > 1
      BY <1>1, <1>3, <1>5
    <2>2. r.stack[2].restore = q.stack[2].restore /\ r.stack[1].pc = q.stack[1].pc
      BY <1>1, <2>1
    <2>3. MainMask' = MainMask
      BY <2>1, <2>2, HandlerMask DEF l
    <2> QED
      BY <1>2, <2>2, <2>3, MaskStays, OldAndJmpMask DEF MaskInv
  <1> QED
    BY <1>4, <1>5

LEMMA ReturnsMask == ASSUME CodesInv, MaskInv, Returns("parent"), program' = program PROVE MaskInv'
  <1> DEFINE p == "parent"
             q == proc[p]
             r == proc'[p]
             l == Len(q.stack)
  <1>1. /\ Running(p) /\ ~MoreToDo(p) /\ l > 1 /\ Keeps(q, r, {"stack", "mask"}) /\ r.mask = Top(p).restore
        /\ Len(r.stack) = l - 1 /\ \A k \in 1..(l - 1) : r.stack[k] = q.stack[k]
    BY DEF Returns
  <1>2. r.status = q.status /\ r.inside = q.inside /\ r.oldmask = q.oldmask /\ r.jmp = q.jmp
    BY <1>1 DEF Keeps, Fields
  <1>3. ~q.inside /\ l \in Nat \ {0} /\ Top(p) = q.stack[l]
    BY <1>1, Stands DEF CodesInv, StackOK, Procs
  <1>4. r.stack[1] = q.stack[1]
    <2> HIDE DEF l
    <2>1. 1 \in 1..(l - 1)
      BY <1>1, <1>3
    <2> QED
      BY <1>1, <2>1
  <1>5. MainMask' = MainMask
    <2>1. CASE l = 2
      <3>1. Len(r.stack) = 1 /\ MainMask = q.stack[2].restore /\ r.mask = q.stack[2].restore
        BY <1>1, <1>3, <2>1 DEF MainMask
      <3> QED
        BY <1>2, <1>3, <3>1 DEF MainMask
    <2>2. CASE l # 2
      <3> HIDE DEF l
      <3>1. 2 \in 1..(l - 1) /\ Len(r.stack) > 1 /\ l > 1
        BY <1>1, <1>3, <2>2
      <3>2. r.stack[2] = q.stack[2]
        BY <1>1, <3>1
      <3> QED
        BY <3>1, <3>2, HandlerMask DEF l
    <2> QED
      BY <2>1, <2>2
  <1> QED
    BY <1>2, <1>4, <1>5, MaskStays, OldAndJmpMask DEF MaskInv

\* Signals reach the parent, or go because it ignores them, while it does nothing.
Stays ==
  LET q == proc["parent"]
      r == proc'["parent"]
  IN /\ Keeps(q, r, {"pending", "alarm"})
     /\ r.alarm => q.alarm
     /\ \A s \in r.pending \ q.pending :
          /\ q.status = "running" /\ (Ignored(q, s) => s \in q.mask)
          /\ \/ s = "ALRM" /\ q.alarm
             \/ program \in DOMAIN Sent /\ s \in Sent[program]
             \/ s = "CHLD" /\ Dies("child")
             \/ Kills("child") /\ s = Instr("child").sig
     /\ \A s \in q.pending \ r.pending : Ignored(q, s)

LEMMA ParentSteps ==
  ASSUME CodesInv, Shapes
  PROVE  \/ Call("parent") \/ Kills("parent") \/ Forks \/ Jumps("parent") \/ Enters("parent") \/ Leaves("parent")
         \/ Reaps \/ Handles("parent") \/ Returns("parent") \/ Dies("parent") \/ Stays
  <1> DEFINE q == proc["parent"]
             r == proc'["parent"]
  <1>1. r = q => Stays
    BY DEF Stays, Keeps
  <1>2. SignalsCome => Stays
    BY DEF SignalsCome, Stays, Procs, Running
  <1>3. Dies("child") => Stays
    <2> SUFFICES ASSUME Dies("child") PROVE Stays
      OBVIOUS
    <2>1. Keeps(q, r, {"pending"}) /\ Gets(q, r, "CHLD")
      BY DEF Dies
    <2>2. r.alarm = q.alarm
      BY <2>1 DEF Keeps, Fields
    <2>3. Keeps(q, r, {"pending", "alarm"})
      BY <2>1 DEF Keeps, Fields
    <2> QED
      BY <2>1, <2>2, <2>3 DEF Stays, Gets
  <1>4. Kills("child") => Stays
    <2> SUFFICES ASSUME Kills("child") PROVE Stays
      OBVIOUS
    <2>1. /\ Keeps(q, r, {"stack", "pending"}) /\ r.stack = q.stack
          /\ Gets(q, r, Instr("child").sig) \/ r.pending = q.pending
      BY DEF Kills, Procs
    <2>2. r.alarm = q.alarm
      BY <2>1 DEF Keeps, Fields
    <2>3. Keeps(q, r, {"pending", "alarm"})
      BY <2>1 DEF Keeps, Fields
    <2> QED
      BY <2>1, <2>2, <2>3 DEF Stays, Gets
  <1>5. Call("child") \/ Jumps("child") \/ Enters("child") \/ Leaves("child") \/ Handles("child") \/ Returns("child") => r = q
    <2>1. Rest("child") => r = q
      BY DEF Rest, Procs
    <2> QED
      BY <2>1 DEF Call, Jumps, Enters, Leaves, Handles, Returns
  <1> HIDE DEF q, r
  <1>6. CASE \E p \in Procs : \/ Call(p) \/ Kills(p) \/ Jumps(p) \/ Enters(p) \/ Leaves(p) \/ Handles(p)
                              \/ Returns(p) \/ Dies(p)
    BY <1>6, <1>1, <1>3, <1>4, <1>5 DEF Procs
  <1>7. CASE Forks \/ Reaps \/ SignalsCome
    BY <1>7, <1>2
  <1> QED
    BY <1>6, <1>7 DEF Shapes

LEMMA StaysMask == ASSUME CodesInv, MaskInv, Stays, program' = program PROVE MaskInv'
  <1> DEFINE q == proc["parent"]
             r == proc'["parent"]
  <1>1. /\ r.status = q.status /\ r.stack = q.stack /\ r.oldmask = q.oldmask /\ r.jmp = q.jmp /\ r.inside = q.inside
        /\ r.before = q.before /\ r.mask = q.mask
    BY DEF Stays, Keeps, Fields
  <1>2. MainMask' = MainMask
    BY <1>1 DEF MainMask, Instr, Top
  <1> QED
    BY <1>1, <1>2, MaskStays, OldAndJmpMask DEF MaskInv

LEMMA ParentEnds ==
  ASSUME CodesInv, Dies("parent")
  PROVE  LET r == proc'["parent"] IN
         /\ ~Running("parent")' /\ ~r.jmp.set /\ ~r.alarm /\ r.pending = {} /\ ~r.flag /\ r.oldmask = {} /\ r.rings = 0
  <1> DEFINE q == proc["parent"]
             r == proc'["parent"]
  <1>1. PICK how \in {"exited"} \cup Deliverable("parent") :
             r.status = how /\ Keeps(Idle, r, {"status", "mask", "disp", "result"})
    BY DEF Dies
  <1>2. q \in ProcType
    BY DEF CodesInv, SigTypeOK, Procs
  <1>3. r.status # "running"
    BY <1>1, <1>2 DEF Deliverable, ProcType, Sigs
  <1>4. /\ r.jmp = Idle.jmp /\ r.alarm = Idle.alarm /\ r.pending = Idle.pending /\ r.flag = Idle.flag
        /\ r.oldmask = Idle.oldmask /\ r.rings = Idle.rings
    BY <1>1 DEF Keeps, Fields
  <1>5. ~Idle.alarm /\ ~Idle.flag /\ ~Idle.jmp.set /\ Idle.pending = {} /\ Idle.oldmask = {} /\ Idle.rings = 0
    BY DEF Idle
  <1> QED
    BY <1>3, <1>4, <1>5 DEF Running

LEMMA StepMask == ASSUME CodesInv, MaskInv, Shapes PROVE MaskInv'
  <1>1. program' = program
    BY DEF Shapes
  <1>2. Dies("parent") => MaskInv'
    BY ParentEnds DEF MaskInv, OldMaskOK, JmpMaskOK, MainMaskOK
  <1> QED
    BY <1>1, <1>2, ParentSteps, CallMask, KillsMask, ForksMask, JumpsMask, EntersMask, LeavesMask, HandlesMask,
       ReturnsMask, StaysMask DEF Procs

LEMMA MaskGiven == ASSUME CodesInv, MaskInv PROVE MaskRestored
  <1> SUFFICES ASSUME Finished,
                      program \notin {"sig_test4", "sleep2_again", "sig_test5", "sig_test6", "abort1"}
               PROVE  proc["parent"].mask = {}
    BY DEF MaskRestored
  <1> DEFINE q == proc["parent"]
             at == q.stack[1].pc
  <1>1. Running("parent") /\ Len(q.stack) = 1 /\ at > Len(Code[program])
    BY DEF Finished, InMain, At
  <1>2. at \in Nat /\ program \in Mains /\ Top("parent") = q.stack[1] /\ Top("parent").code = program
    BY <1>1, MainStands
  <1>3. Len(Code[program]) \in Nat
    BY <1>2, CallsSound DEF InCode, Sound
  <1>4. ~q.inside
    BY <1>1, <1>2, <1>3 DEF CodesInv, StackOK, MoreToDo, Procs
  <1>5. q.mask = MaskAt(program, at)
    BY <1>1, <1>4 DEF MaskInv, MainMaskOK, MainMask, Jumping
  <1>6. ~InMask(program, at)
    <2>1. /\ Len(Code["sig_proc_mask_test1"]) = 5 /\ Len(Code["sig_suspend_test1"]) = 5
          /\ Len(Code["sig_suspend_test2"]) = 8 /\ Len(Code["tell_wait"]) = 10 /\ Len(Code["system_m1"]) = 8
          /\ Len(Code["system_test1"]) = 10 /\ Len(Code["system_waits"]) = 10 /\ Len(Code["getpass_test"]) = 8
      BY SigProcMaskTest1Calls, SigSuspendTest1Calls, SigSuspendTest2Calls, TellWaitCalls, SystemM1Calls,
         SystemTest1Calls, SystemWaitsCalls, GetpassTestCalls
    <2> DEFINE len == Len(Code[program])
    <2>2. at > len /\ at \in Nat
      BY <1>1, <1>2
    <2>3. /\ program = "sig_proc_mask_test1" => len = 5
          /\ program = "sig_suspend_test1" => len = 5
          /\ program = "sig_suspend_test2" => len = 8
          /\ program = "tell_wait" => len = 10
          /\ program = "system_m1" => len = 8
          /\ program \in {"system_test1", "system_waits"} => len = 10
          /\ program = "getpass_test" => len = 8
      BY <2>1
    <2> HIDE DEF at, len
    <2> QED
      BY <2>2, <2>3 DEF InMask
  <1> QED
    BY <1>5, <1>6 DEF MaskAt

-----------------------------------------------------------------------------
(* Jumps *)

\* Before a place to jump to is noted, the main function installs handlers; a handler
\* that jumps has not been started, and sig_usr1 returns at once.
LEMMA BeforeSetjmp ==
  ASSUME CodesInv, JumpInv, ~proc["parent"].jmp.set, program \in DOMAIN SetAt, Running("parent"), MoreToDo("parent")
  PROVE  LET q == proc["parent"]
             x == Instr("parent")
         IN /\ Len(q.stack) = 1 => \/ x.op = "setjmp"
                                   \/ x.op = "signal" /\ q.stack[1].pc + 1 < SetAt[program]
            /\ Len(q.stack) # 1 => \/ x.op = "compute" /\ Top("parent").code # "sig_usr1"
                                   \/ /\ x.op = "return_unless_flag" /\ Top("parent").code = "sig_usr1"
                                      /\ Top("parent").pc = 1 /\ program = "sig_setjmp_test2"
  <1> DEFINE q == proc["parent"]
             x == Instr("parent")
             l == Len(q.stack)
             at == q.stack[1].pc
  <1>1. /\ l \in Nat \ {0} /\ at \in Nat \ {0} /\ program \in Mains
        /\ l = 1 => at \in 1..Len(Code[program]) /\ x = Code[program][at]
        /\ Top("parent") = q.stack[l] /\ Top("parent").pc \in 1..Len(Code[Top("parent").code])
    BY MainStands, Stands DEF Procs
  <1>2. CASE l = 1
    <2>1. at < SetAt[program] /\ JumpOK(program, at) /\ SetAt[program] \in Nat
      BY <1>1, <1>2, JumpCalls DEF JumpInv, Jumping
    <2> QED
      BY <1>1, <1>2, <2>1 DEF JumpOK
  <1>3. CASE l # 1
    <2> HIDE DEF l
    <2>1. l \in 2..l
      BY <1>1, <1>3
    <2>2. <<q.stack[l].sig, q.stack[l].code>> \in HandlersOf[program]
      BY <2>1 DEF CodesInv, StackOK, Procs, l
    <2>3. /\ q.stack[l].code \notin Jumpers
          /\ q.stack[l].code = "sig_usr1" => q.stack[l].pc \notin 2..5
      BY <2>1 DEF JumpInv, l
    <2> DEFINE c == Top("parent").code
    <2>4. c = "sig_int1" \/ (c = "sig_usr1" /\ program = "sig_setjmp_test2") \/ c = "nop"
      BY <1>1, <2>2, <2>3, JumpCalls, HandlersAre DEF Jumping, Jumpers
    <2>5. /\ Len(Code["nop"]) = 0
          /\ Len(Code["sig_int1"]) = 1 /\ Code["sig_int1"][1].op = "compute"
          /\ Len(Code["sig_usr1"]) = 5 /\ Code["sig_usr1"][1].op = "return_unless_flag"
      BY CodeIs, SigInt1Calls, SigUsr1Calls
    <2> HIDE DEF c
    <2>6. Top("parent").pc \in 1..Len(Code[c]) /\ x = Code[c][Top("parent").pc]
          /\ (c = "sig_usr1" => Top("parent").pc \notin 2..5)
      BY <1>1, <2>3 DEF c, Instr
    <2>7. c # "nop"
      BY <2>5, <2>6
    <2>8. c = "sig_int1" => Top("parent").pc = 1
      BY <2>5, <2>6
    <2>9. c = "sig_usr1" => Top("parent").pc = 1
      BY <2>5, <2>6
    <2> QED
      BY <1>3, <2>4, <2>5, <2>6, <2>7, <2>8, <2>9 DEF c, l
  <1> QED
    BY <1>2, <1>3

NotSent == program \in Jumping => ~proc["parent"].alarm /\ "ALRM" \notin proc["parent"].pending
NoFlag == program = "sig_setjmp_test2" => ~proc["parent"].flag
NotBegun == LET q == proc["parent"] IN
            Running("parent") =>
              /\ program \in DOMAIN SetAt => q.stack[1].pc < SetAt[program]
              /\ \A k \in 2..Len(q.stack) : /\ q.stack[k].code \notin Jumpers
                                            /\ q.stack[k].code = "sig_usr1" => q.stack[k].pc \notin 2..5
LEMMA JumpParts == JumpInv <=> (~proc["parent"].jmp.set => NotSent /\ NoFlag /\ NotBegun)
  BY DEF JumpInv, NotSent, NoFlag, NotBegun

\* Programs that do not jump have no handler that does.
LEMMA NoJumps == ASSUME CodesInv, program \notin DOMAIN SetAt PROVE JumpInv
  <1>1. program \in Mains /\ program \notin Jumping /\ program # "sig_setjmp_test2"
    BY JumpCalls DEF CodesInv, SigTypeOK
  <1>2. \A s, h : <<s, h>> \in HandlersOf[program] => h \notin Jumpers /\ h # "sig_usr1"
    BY <1>1, HandlersAre DEF Mains, Jumping, Jumpers
  <1>3. Running("parent") => \A k \in 2..Len(proc["parent"].stack) :
            <<proc["parent"].stack[k].sig, proc["parent"].stack[k].code>> \in HandlersOf[program]
    BY DEF CodesInv, StackOK, Procs
  <1> QED
    BY <1>1, <1>2, <1>3 DEF JumpInv

\* Programs that jump have no child.
LEMMA JumpersAlone ==
  ASSUME CodesInv, program \in DOMAIN SetAt
  PROVE  ~Running("child") /\ program \notin Forkers /\ program \notin {"tell_wait", "abort1"} /\ program \in Mains
  <1>1. program \notin Forkers /\ program \notin {"tell_wait", "abort1"} /\ program \in Mains
    BY JumpCalls DEF Jumping, Forkers, Mains
  <1> QED
    BY <1>1 DEF CodesInv, Running

LEMMA NotBegunMoved ==
  ASSUME CodesInv, NotBegun, Running("parent"), program' = program,
         NEW j, Moved(proc["parent"].stack, proc'["parent"].stack, j),
         Len(proc["parent"].stack) = 1 /\ program \in DOMAIN SetAt => j < SetAt[program],
         Len(proc["parent"].stack) # 1 /\ Top("parent").code = "sig_usr1" => j \notin 2..5
  PROVE  NotBegun'
  <1> DEFINE q == proc["parent"]
             r == proc'["parent"]
             l == Len(q.stack)
  <1>1. l \in Nat \ {0} /\ Top("parent") = q.stack[l]
    BY Stands DEF Procs
  <1>2. Len(r.stack) = l /\ \A k \in 1..l : r.stack[k].code = q.stack[k].code /\ r.stack[k].pc = IF k = l THEN j ELSE q.stack[k].pc
    BY DEF Moved
  <1> HIDE DEF l
  <1>3. program \in DOMAIN SetAt => r.stack[1].pc < SetAt[program]
    <2>1. CASE l = 1
      BY <1>2, <2>1 DEF l
    <2>2. CASE l # 1
      <3>1. r.stack[1].pc = q.stack[1].pc
        BY <1>1, <1>2, <2>2
      <3> QED
        BY <3>1 DEF NotBegun
    <2> QED
      BY <2>1, <2>2
  <1>4. ASSUME NEW k \in 2..l
        PROVE  r.stack[k].code \notin Jumpers /\ (r.stack[k].code = "sig_usr1" => r.stack[k].pc \notin 2..5)
    <2>1. k \in 1..l /\ l # 1
      BY <1>1
    <2>2. q.stack[k].code \notin Jumpers /\ (q.stack[k].code = "sig_usr1" => q.stack[k].pc \notin 2..5)
      BY DEF NotBegun, l
    <2> QED
      BY <1>1, <1>2, <2>1, <2>2 DEF l
  <1> QED
    BY <1>2, <1>3, <1>4 DEF NotBegun

LEMMA CallJump == ASSUME CodesInv, JumpInv, Call("parent"), program' = program, program \in DOMAIN SetAt PROVE JumpInv'
  <1> DEFINE q == proc["parent"]
             r == proc'["parent"]
             x == Instr("parent")
  <1>1. /\ Running("parent") /\ MoreToDo("parent") /\ Effect("parent", r)
        /\ \E j \in Succ(Top("parent").code, Top("parent").pc) :
             /\ Moved(q.stack, r.stack, j)
             /\ x.op = "return_unless_flag" => j = Top("parent").pc + (IF q.flag THEN 1 ELSE Len(Code[Top("parent").code]))
    BY DEF Call, Calling
  <1>2. CASE x.op = "setjmp"
    <2>1. r.jmp.set = TRUE
      BY <1>1, <1>2 DEF Effect
    <2>2. r.jmp.set
      BY <2>1
    <2> QED
      BY <2>2 DEF JumpInv
  <1>3. CASE x.op # "setjmp" /\ q.jmp.set
    <2>1. r.jmp.set
      BY <1>1, <1>3 DEF Effect
    <2> QED
      BY <2>1 DEF JumpInv
  <1>4. CASE x.op # "setjmp" /\ ~q.jmp.set
    <2>1. /\ Len(q.stack) = 1 => x.op = "signal" /\ q.stack[1].pc + 1 < SetAt[program]
          /\ Len(q.stack) # 1 => \/ x.op = "compute" /\ Top("parent").code # "sig_usr1"
                                 \/ /\ x.op = "return_unless_flag" /\ Top("parent").code = "sig_usr1"
                                    /\ Top("parent").pc = 1 /\ program = "sig_setjmp_test2"
      BY <1>1, <1>4, BeforeSetjmp
    <2>2. /\ r.alarm = q.alarm /\ r.flag = q.flag /\ r.pending = q.pending /\ r.jmp = q.jmp
      BY <1>1, <2>1 DEF Effect
    <2>3. NotSent' /\ NoFlag'
      BY <1>4, <2>2 DEF JumpInv, NotSent, NoFlag
    <2>4. PICK j \in Succ(Top("parent").code, Top("parent").pc) :
             /\ Moved(q.stack, r.stack, j)
             /\ x.op = "return_unless_flag" => j = Top("parent").pc + (IF q.flag THEN 1 ELSE Len(Code[Top("parent").code]))
      BY <1>1
    <2>5. Len(q.stack) = 1 => j < SetAt[program]
      <3>1. Len(q.stack) = 1 => j = Top("parent").pc + 1 /\ Top("parent").pc = q.stack[1].pc
        BY <1>1, <2>1, <2>4, MainStands DEF Succ, Instr, SkipOps
      <3> QED
        BY <2>1, <3>1
    <2>6. Len(q.stack) # 1 /\ Top("parent").code = "sig_usr1" => j \notin 2..5
      <3> SUFFICES ASSUME Len(q.stack) # 1, Top("parent").code = "sig_usr1" PROVE j \notin 2..5
        OBVIOUS
      <3>1. ~q.flag
        BY <1>4, <2>1 DEF JumpInv
      <3>2. Len(Code["sig_usr1"]) = 5
        BY SigUsr1Calls
      <3>3. x.op = "return_unless_flag" /\ Top("parent").pc = 1
        BY <2>1
      <3>4. j = Top("parent").pc + (IF q.flag THEN 1 ELSE Len(Code[Top("parent").code]))
        BY <2>4, <3>3
      <3>5. j = 1 + 5
        BY <3>1, <3>2, <3>3, <3>4
      <3> QED
        BY <3>5
    <2>7. NotBegun'
      BY <1>1, <1>4, <2>4, <2>5, <2>6, JumpParts, NotBegunMoved
    <2> QED
      BY <2>3, <2>7, JumpParts DEF JumpInv, NotSent, NoFlag, NotBegun
  <1> QED
    BY <1>2, <1>3, <1>4

\* Without a place to jump to the main function calls nothing but signal and setjmp.
LEMMA IdleJump ==
  ASSUME CodesInv, JumpInv, program \in DOMAIN SetAt, Running("parent"), MoreToDo("parent"),
         Instr("parent").op \notin {"setjmp", "signal", "compute", "return_unless_flag"},
         proc'["parent"].jmp = proc["parent"].jmp
  PROVE  JumpInv'
  <1>1. proc["parent"].jmp.set
    BY BeforeSetjmp
  <1> QED
    BY <1>1 DEF JumpInv

LEMMA BusyJump ==
  ASSUME CodesInv, JumpInv, program \in DOMAIN SetAt,
         Kills("parent") \/ Forks \/ Jumps("parent") \/ Enters("parent") \/ Leaves("parent") \/ Reaps
  PROVE  JumpInv'
  <1>1. /\ Running("parent") /\ MoreToDo("parent")
        /\ Instr("parent").op \in {"kill", "fork", "longjmp", "sleep", "command", "read", "wait"} \cup Blocking
    BY DEF Kills, Forks, Jumps, Enters, Leaves, Reaps, Calling
  <1>2. proc'["parent"].jmp = proc["parent"].jmp
    <2>1. Kills("parent") => Keeps(proc["parent"], proc'["parent"], {"stack", "pending"})
      BY DEF Kills, Procs
    <2> QED
      BY <2>1 DEF Forks, Jumps, Enters, Leaves, Reaps, Keeps, Fields
  <1> QED
    BY <1>1, <1>2, IdleJump DEF Blocking, Interruptible

LEMMA HandlesJump == ASSUME CodesInv, JumpInv, Handles("parent"), program' = program, program \in DOMAIN SetAt PROVE JumpInv'
  <1> DEFINE q == proc["parent"]
             r == proc'["parent"]
             l == Len(q.stack)
  <1>1. PICK s \in Deliverable("parent") :
          /\ Running("parent") /\ q.disp[s] \notin NoHandler
          /\ Keeps(q, r, {"stack", "inside", "mask", "pending", "rings"})
          /\ r.pending = q.pending \ {s} /\ Len(r.stack) = l + 1
          /\ \A k \in 1..l : /\ r.stack[k].code = q.stack[k].code
                             /\ r.stack[k].pc = IF k = l /\ q.inside /\ Instr("parent").op \in Interruptible
                                                THEN q.stack[k].pc + 1 ELSE q.stack[k].pc
          /\ \E m : r.stack[l + 1] = Frame(q.disp[s], s, m)
    BY DEF Handles
  <1>2. r.jmp = q.jmp /\ r.alarm = q.alarm /\ r.flag = q.flag
    BY <1>1 DEF Keeps, Fields
  <1>3. CASE q.jmp.set
    BY <1>2, <1>3 DEF JumpInv
  <1>4. CASE ~q.jmp.set
    <2>1. NotSent' /\ NoFlag'
      BY <1>1, <1>2, <1>4 DEF JumpInv, NotSent, NoFlag
    <2>2. ~(q.inside /\ Instr("parent").op \in Interruptible)
      <3>1. q.inside => MoreToDo("parent")
        BY <1>1 DEF CodesInv, StackOK, Procs
      <3> QED
        BY <1>1, <1>4, <3>1, BeforeSetjmp DEF Interruptible
    <2>3. l \in Nat \ {0}
      BY <1>1, Stands DEF Procs
    <2>4. \A k \in 1..l : r.stack[k].code = q.stack[k].code /\ r.stack[k].pc = q.stack[k].pc
      BY <1>1, <2>2
    <2>5. r.stack[l + 1].code = q.disp[s] /\ r.stack[l + 1].pc = 1
      BY <1>1 DEF Frame
    <2>6. q.disp[s] \notin Jumpers
      <3>1. s \in Sigs /\ <<s, q.disp[s]>> \in HandlersOf[program] /\ s \in q.pending
        BY <1>1 DEF CodesInv, SigTypeOK, HandlersOK, ProcType, Procs, Deliverable
      <3>2. program \in Jumping => s # "ALRM"
        BY <1>4, <3>1 DEF JumpInv
      <3> QED
        BY <3>1, <3>2, JumpCalls, HandlersAre DEF Jumping, Jumpers
    <2>7. NotBegun'
      <3>1. q.stack[1].pc < SetAt[program] /\ \A k \in 2..l : /\ q.stack[k].code \notin Jumpers
                                                              /\ q.stack[k].code = "sig_usr1" => q.stack[k].pc \notin 2..5
        BY <1>1, <1>4 DEF JumpInv
      <3> HIDE DEF l
      <3>2. r.stack[1].pc < SetAt[program]
        BY <2>3, <2>4, <3>1
      <3>3. ASSUME NEW k \in 2..(l + 1)
            PROVE  r.stack[k].code \notin Jumpers /\ (r.stack[k].code = "sig_usr1" => r.stack[k].pc \notin 2..5)
        <4>1. CASE k = l + 1
          BY <2>5, <2>6, <4>1
        <4>2. CASE k # l + 1
          <5>1. k \in 2..l /\ k \in 1..l
            BY <2>3, <4>2
          <5>2. r.stack[k].code = q.stack[k].code /\ r.stack[k].pc = q.stack[k].pc
            BY <2>4, <5>1
          <5>3. q.stack[k].code \notin Jumpers /\ (q.stack[k].code = "sig_usr1" => q.stack[k].pc \notin 2..5)
            BY <3>1, <5>1
          <5> QED
            BY <5>2, <5>3
        <4> QED
          BY <4>1, <4>2
      <3> QED
        BY <1>1, <3>2, <3>3 DEF NotBegun
    <2> QED
      BY <2>1, <2>7 DEF JumpInv, NotSent, NoFlag, NotBegun
  <1> QED
    BY <1>3, <1>4

LEMMA ReturnsJump == ASSUME CodesInv, JumpInv, Returns("parent"), program' = program, program \in DOMAIN SetAt PROVE JumpInv'
  <1> DEFINE q == proc["parent"]
             r == proc'["parent"]
             l == Len(q.stack)
  <1>1. /\ Running("parent") /\ l > 1 /\ Keeps(q, r, {"stack", "mask"}) /\ Len(r.stack) = l - 1
        /\ \A k \in 1..(l - 1) : r.stack[k] = q.stack[k]
    BY DEF Returns
  <1>2. r.jmp = q.jmp /\ r.alarm = q.alarm /\ r.flag = q.flag /\ r.pending = q.pending
    BY <1>1 DEF Keeps, Fields
  <1>3. CASE q.jmp.set
    BY <1>2, <1>3 DEF JumpInv
  <1>4. CASE ~q.jmp.set
    <2>1. NotSent' /\ NoFlag'
      BY <1>2, <1>4 DEF JumpInv, NotSent, NoFlag
    <2>2. l \in Nat \ {0}
      BY <1>1, Stands DEF Procs
    <2>3. q.stack[1].pc < SetAt[program] /\ \A k \in 2..l : /\ q.stack[k].code \notin Jumpers
                                                            /\ q.stack[k].code = "sig_usr1" => q.stack[k].pc \notin 2..5
      BY <1>1, <1>4 DEF JumpInv
    <2> HIDE DEF l
    <2>4. 1 \in 1..(l - 1) /\ \A k \in 2..(l - 1) : k \in 2..l /\ k \in 1..(l - 1)
      BY <1>1, <2>2
    <2>5. r.stack[1].pc < SetAt[program]
      BY <1>1, <2>3, <2>4
    <2>6. ASSUME NEW k \in 2..(l - 1)
          PROVE  r.stack[k].code \notin Jumpers /\ (r.stack[k].code = "sig_usr1" => r.stack[k].pc \notin 2..5)
      <3>1. r.stack[k] = q.stack[k] /\ k \in 2..l
        BY <1>1, <2>4
      <3> QED
        BY <2>3, <3>1
    <2>7. NotBegun'
      BY <1>1, <2>5, <2>6 DEF NotBegun
    <2> QED
      BY <2>1, <2>7 DEF JumpInv, NotSent, NoFlag, NotBegun
  <1> QED
    BY <1>3, <1>4

LEMMA StaysJump == ASSUME CodesInv, JumpInv, Stays, program' = program, program \in DOMAIN SetAt PROVE JumpInv'
  <1> DEFINE q == proc["parent"]
             r == proc'["parent"]
  <1>1. /\ r.status = q.status /\ r.stack = q.stack /\ r.jmp = q.jmp /\ r.flag = q.flag
        /\ r.alarm => q.alarm
    BY DEF Stays, Keeps, Fields
  <1>2. CASE q.jmp.set
    BY <1>1, <1>2 DEF JumpInv
  <1>3. CASE ~q.jmp.set
    <2>1. program \in Jumping => "ALRM" \notin r.pending
      <3> SUFFICES ASSUME program \in Jumping, "ALRM" \in r.pending \ q.pending PROVE FALSE
        BY <1>3 DEF JumpInv
      <3>1. \/ q.alarm
            \/ program \in DOMAIN Sent /\ "ALRM" \in Sent[program]
            \/ Kills("child")
        BY DEF Stays
      <3>2. ~q.alarm
        BY <1>3 DEF JumpInv
      <3>3. ~(program \in DOMAIN Sent /\ "ALRM" \in Sent[program])
        BY DEF Jumping, Sent
      <3>4. ~Kills("child")
        BY JumpersAlone DEF Kills, Calling
      <3> QED
        BY <3>1, <3>2, <3>3, <3>4
    <2>2. NotSent' /\ NoFlag' /\ NotBegun'
      BY <1>1, <1>3, <2>1 DEF JumpInv, NotSent, NoFlag, NotBegun, Running
    <2> QED
      BY <2>2 DEF JumpInv, NotSent, NoFlag, NotBegun
  <1> QED
    BY <1>2, <1>3

LEMMA NoJumpsNext == ASSUME CodesInv', program' \notin DOMAIN SetAt PROVE JumpInv'
  <1>1. program' \in Mains /\ program' \notin Jumping /\ program' # "sig_setjmp_test2"
    BY JumpCalls DEF CodesInv, SigTypeOK
  <1>2. \A s, h : <<s, h>> \in HandlersOf[program'] => h \notin Jumpers /\ h # "sig_usr1"
    BY <1>1, HandlersAre DEF Mains, Jumping, Jumpers
  <1>3. Running("parent")' => \A k \in 2..Len(proc'["parent"].stack) :
            <<proc'["parent"].stack[k].sig, proc'["parent"].stack[k].code>> \in HandlersOf[program']
    BY DEF CodesInv, StackOK, Procs
  <1> QED
    BY <1>1, <1>2, <1>3 DEF JumpInv

LEMMA StepJump == ASSUME CodesInv, JumpInv, Shapes, CodesInv' PROVE JumpInv'
  <1>1. program' = program
    BY DEF Shapes
  <1>2. CASE program \notin DOMAIN SetAt
    BY <1>1, <1>2, NoJumpsNext
  <1>3. CASE program \in DOMAIN SetAt
    <2>1. Dies("parent") => JumpInv'
      BY ParentEnds DEF JumpInv
    <2> QED
      BY <1>1, <1>3, <2>1, ParentSteps, CallJump, BusyJump, HandlesJump, ReturnsJump, StaysJump
  <1> QED
    BY <1>2, <1>3

LEMMA JumpGiven == ASSUME CodesInv, JumpInv PROVE JumpSafe
  <1> SUFFICES ASSUME NEW p \in Procs, Calls(p, "longjmp")
               PROVE  proc[p].jmp.set /\ proc[p].jmp.depth < Len(proc[p].stack)
    BY DEF JumpSafe
  <1>1. Running(p) /\ MoreToDo(p) /\ Instr(p).op = "longjmp"
    BY DEF Calls
  <1>2. /\ InstrOK(program, Top(p).code, Top(p).pc) /\ InCode(program, Top(p).code) /\ program \in Mains
        /\ Len(proc[p].stack) \in Nat \ {0}
        /\ Top(p).code = program <=> p = "parent" /\ Len(proc[p].stack) = 1
    BY <1>1, Stands DEF CodesInv, SigTypeOK
  <1>3. Top(p).code \in Jumpers \cup {"sig_usr1"}
    BY <1>1, <1>2 DEF InstrOK, Instr
  <1>4. program \in DOMAIN SetAt
    BY <1>2, <1>3, HandlersAre, JumpCalls, KidAre DEF InCode, Mains, Jumpers, Jumping, Forkers, Sigs
  <1>5. p = "parent"
    BY <1>1, <1>4, JumpersAlone DEF Procs
  <1>6. proc[p].jmp.set
    BY <1>1, <1>4, <1>5, BeforeSetjmp
  <1>7. proc[p].jmp.depth = 1
    BY <1>6 DEF CodesInv, JmpOK
  <1>8. Len(proc[p].stack) # 1
    BY <1>2, <1>3, <1>5 DEF Mains, Jumpers
  <1> DEFINE l == Len(proc[p].stack)
  <1>9. l \in Nat /\ l # 0 /\ l # 1
    BY <1>2, <1>8
  <1> HIDE DEF l
  <1>10. 1 < l
    BY <1>9
  <1> QED
    BY <1>6, <1>7, <1>10 DEF l

-----------------------------------------------------------------------------
(* The alarm that is handled once *)

Once == {Again, "sig_test6"}

LEMMA OnceCalls ==
  \A P \in Once : \A i \in 1..Len(Code[P]) :
    /\ Code[P][i].op \in {"signal", "setjmp", "alarm", "pause", "read"}
    /\ Code[P][i].op = "setjmp" => Code[P][i].savemask = FALSE
    /\ P = Again => Code[P][i].op # "read"
  <1>1. \A i \in 1..Len(Code["sleep2_again"]) :
          /\ Code["sleep2_again"][i].op \in {"signal", "setjmp", "alarm", "pause"}
          /\ Code["sleep2_again"][i].op = "setjmp" => Code["sleep2_again"][i].savemask = FALSE
    BY Sleep2AgainCalls
  <1>2. \A i \in 1..Len(Code["sig_test6"]) :
          /\ Code["sig_test6"][i].op \in {"signal", "setjmp", "alarm", "read"}
          /\ Code["sig_test6"][i].op = "setjmp" => Code["sig_test6"][i].savemask = FALSE
    BY SigTest6Calls
  <1> QED
    BY <1>1, <1>2 DEF Once, Again

\* Where the two programs with one alarm stand: the handler of SIGALRM is about to jump.
LEMMA OnceStands ==
  ASSUME CodesInv, OnceInv, program \in Once, Running("parent")
  PROVE  LET q == proc["parent"]
             x == Instr("parent")
             at == q.stack[1].pc
         IN /\ Len(q.stack) \in {1, 2} /\ at \in Nat \ {0} /\ q \in ProcType
            /\ Len(q.stack) = 2 => MoreToDo("parent") /\ x.op = "longjmp"
            /\ Len(q.stack) = 1 /\ MoreToDo("parent") => /\ at \in 1..Len(Code[program]) /\ x = Code[program][at]
                                                         /\ Top("parent").code = program /\ Top("parent").pc = at
                                                         /\ x.op # "longjmp"
            /\ Len(q.stack) = 1 /\ ~MoreToDo("parent") => at > Len(Code[program])
            /\ program \in Jumping /\ program \in DOMAIN SetAt
  <1> DEFINE q == proc["parent"]
             x == Instr("parent")
             at == q.stack[1].pc
             l == Len(q.stack)
  <1>1. /\ l \in Nat \ {0} /\ q \in ProcType /\ at \in Nat \ {0} /\ program \in Mains
        /\ l = 1 => /\ Top("parent") = q.stack[1] /\ Top("parent").code = program
                    /\ MoreToDo("parent") => at \in 1..Len(Code[program]) /\ x = Code[program][at]
                    /\ ~MoreToDo("parent") => at > Len(Code[program])
    BY MainStands
  <1>2. l \in {1, 2}
    <2>1. l <= 2 /\ l \in Nat \ {0}
      BY <1>1 DEF OnceInv, Once, Running
    <2> HIDE DEF l
    <2> QED
      BY <2>1
  <1>3. program \in Jumping /\ program \in DOMAIN SetAt
    BY JumpCalls DEF Once, Jumping, Again
  <1>4. l = 2 => MoreToDo("parent") /\ x.op = "longjmp"
    <2> SUFFICES ASSUME l = 2 PROVE MoreToDo("parent") /\ x.op = "longjmp"
      OBVIOUS
    <2>1. Top("parent") = q.stack[2] /\ q.stack[2].pc = 1
      BY Stands DEF OnceInv, Once, Procs, Running
    <2>2. <<q.stack[2].sig, q.stack[2].code>> \in HandlersOf[program]
      BY DEF CodesInv, StackOK, Procs
    <2>3. q.stack[2].code \in Jumpers
      BY <2>2, HandlersAre DEF Once, Again, Jumpers
    <2>4. \A c \in Jumpers : Len(Code[c]) = 1 /\ Code[c][1].op = "longjmp"
      BY AlarmSigHandler3Calls, AlarmSigHandler5Calls DEF Jumpers
    <2> QED
      BY <2>1, <2>3, <2>4 DEF MoreToDo, Instr
  <1>5. l = 1 /\ MoreToDo("parent") => x.op # "longjmp"
    BY <1>1, OnceCalls
  <1> QED
    BY <1>1, <1>2, <1>3, <1>4, <1>5

\* OnceInv, part by part, for the programs it is about.
OnceAll ==
  LET q == proc["parent"] IN
  /\ q.rings <= 1
  /\ q.jmp.set => ~q.jmp.savemask
OnceRuns ==
  LET q == proc["parent"] IN
  q.status = "running" =>
    /\ Len(q.stack) <= 2
    /\ q.rings = 0 => Len(q.stack) = 1
    /\ q.rings = 1 => "ALRM" \in q.mask
    /\ Len(q.stack) = 2 => q.stack[2].pc = 1
OnceAgain ==
  LET q == proc["parent"]
      at == q.stack[1].pc
  IN program = Again =>
       /\ q.status = "running"
       /\ at <= 9
       /\ q.rings = 0 => at <= 4
       /\ at >= 2 \/ q.jmp.set => q.disp["ALRM"] = "alarm_sig_handler3"
       /\ q.jmp.set /\ (at <= 7 \/ Len(q.stack) = 2) => q.jmp.pc = 5
LEMMA OnceParts == OnceInv <=> (program \in Once => OnceAll /\ OnceRuns /\ OnceAgain)
  BY DEF OnceInv, OnceAll, OnceRuns, OnceAgain, Once

LEMMA OncePartsNext == program' = program /\ OnceAll' /\ OnceRuns' /\ OnceAgain' => OnceInv'
  BY DEF OnceInv, OnceAll, OnceRuns, OnceAgain, Once

LEMMA CallOnce == ASSUME CodesInv, OnceInv, Call("parent"), program' = program, program \in Once PROVE OnceInv'
  <1> DEFINE q == proc["parent"]
             r == proc'["parent"]
             x == Instr("parent")
             at == q.stack[1].pc
  <1>1. /\ Running("parent") /\ MoreToDo("parent") /\ ~q.inside /\ Effect("parent", r) /\ x.op \in CallOps
        /\ r.status = q.status /\ r.rings = q.rings
    BY DEF Call, Calling, Effect, Keeps, Fields
  <1>2. PICK j \in Succ(Top("parent").code, Top("parent").pc) : Moved(q.stack, r.stack, j)
    BY DEF Call
  <1>3. /\ Len(q.stack) = 1 /\ at \in 1..Len(Code[program]) /\ x = Code[program][at]
        /\ Top("parent").code = program /\ Top("parent").pc = at
        /\ at \in Nat \ {0}
    BY <1>1, OnceStands DEF CallOps
  <1>4. Len(r.stack) = 1 /\ r.stack[1].pc = j
    BY <1>2, <1>3 DEF Moved
  <1>5. x.op \in {"signal", "setjmp", "alarm"}
    BY <1>1, <1>3, OnceCalls DEF CallOps
  <1>6. j = at + 1
    BY <1>3, <1>5 DEF Succ, SkipOps
  <1>7. r.mask = q.mask /\ (x.op # "setjmp" => r.jmp = q.jmp)
    BY <1>1, <1>5 DEF Effect
  <1>8. x.op = "setjmp" => r.jmp.set = TRUE /\ r.jmp.pc = at + 1 + x.skip /\ r.jmp.savemask = x.savemask
    BY <1>1, <1>3 DEF Effect
  <1>9. OnceAll'
    <2>1. x.op = "setjmp" => x.savemask = FALSE
      BY <1>3, OnceCalls
    <2>2. x.op = "setjmp" => ~r.jmp.savemask
      BY <1>8, <2>1
    <2>3. x.op # "setjmp" => (r.jmp.set => ~r.jmp.savemask)
      BY <1>7 DEF OnceInv, Once
    <2> QED
      BY <1>1, <2>2, <2>3 DEF OnceAll, OnceInv, Once
  <1>10. OnceRuns'
    BY <1>1, <1>3, <1>4, <1>7 DEF OnceRuns, OnceInv, Once
  <1>11. OnceAgain'
    <2> SUFFICES ASSUME program = Again PROVE OnceAgain'
      BY DEF OnceAgain
    <2>1. /\ q.status = "running" /\ at <= 9 /\ (q.rings = 0 => at <= 4)
          /\ at >= 2 \/ q.jmp.set => q.disp["ALRM"] = "alarm_sig_handler3"
          /\ q.jmp.set /\ at <= 7 => q.jmp.pc = 5
      BY DEF OnceInv
    <2>2. at # 9 /\ at # 4
      BY <1>3, <1>5, Sleep2AgainCalls DEF Again
    <2>3. /\ x.op = "signal" => x.sig = "ALRM" /\ x.handler = "alarm_sig_handler3"
          /\ at = 1 => x.op = "signal"
          /\ x.op = "setjmp" => (at = 2 \/ at = 7) /\ x.skip = 2
      BY <1>3, Sleep2AgainCalls DEF Again
    <2>4. r.disp["ALRM"] = IF x.op = "signal" THEN "alarm_sig_handler3" ELSE q.disp["ALRM"]
      BY <1>1, <1>5, <2>3 DEF Effect, Sigs
    <2>5. r.disp["ALRM"] = "alarm_sig_handler3"
      <3>1. at = 1 \/ at >= 2
        BY <1>3
      <3> QED
        BY <2>1, <2>3, <2>4, <3>1
    <2>6. r.jmp.set /\ at + 1 <= 7 => r.jmp.pc = 5
      <3>1. CASE x.op = "setjmp"
        BY <1>3, <1>8, <2>3, <3>1
      <3>2. CASE x.op # "setjmp"
        BY <1>3, <1>7, <2>1, <3>2
      <3> QED
        BY <3>1, <3>2
    <2>7. at + 1 <= 9 /\ (q.rings = 0 => at + 1 <= 4)
      BY <1>3, <2>1, <2>2
    <2> QED
      BY <1>1, <1>4, <1>6, <2>1, <2>5, <2>6, <2>7 DEF OnceAgain
  <1> QED
    BY <1>9, <1>10, <1>11, OncePartsNext

LEMMA JumpsOnce == ASSUME CodesInv, OnceInv, Jumps("parent"), program' = program, program \in Once PROVE OnceInv'
  <1> DEFINE q == proc["parent"]
             r == proc'["parent"]
  <1>1. /\ Running("parent") /\ MoreToDo("parent") /\ Instr("parent").op = "longjmp"
        /\ q.jmp.set /\ Keeps(q, r, {"stack", "mask"}) /\ ~q.inside
        /\ r.mask = IF q.jmp.savemask THEN q.jmp.mask ELSE q.mask
        /\ q.jmp.depth = 1 => Len(r.stack) = 1 /\ r.stack[1].pc = q.jmp.pc
    BY DEF Jumps, Calling
  <1>2. Len(r.stack) = 1 /\ r.stack[1].pc = q.jmp.pc
    BY <1>1 DEF CodesInv, JmpOK, Procs
  <1>3. r.status = q.status /\ r.jmp = q.jmp /\ r.rings = q.rings /\ r.disp = q.disp
    BY <1>1 DEF Keeps, Fields
  <1>4. r.mask = q.mask
    BY <1>1 DEF OnceInv, Once
  <1>5. Len(q.stack) = 2
    BY <1>1, OnceStands
  <1>6. q.rings # 0
    BY <1>1, <1>5 DEF OnceInv, Once, Running
  <1>7. OnceAll' /\ OnceRuns'
    BY <1>2, <1>3, <1>4 DEF OnceInv, Once, OnceAll, OnceRuns
  <1>8. OnceAgain'
    <2> SUFFICES ASSUME program = Again PROVE OnceAgain'
      BY DEF OnceAgain
    <2>1. q.jmp.pc = 5 /\ q.status = "running" /\ q.disp["ALRM"] = "alarm_sig_handler3"
      BY <1>1, <1>5 DEF OnceInv
    <2> QED
      BY <1>2, <1>3, <1>6, <2>1 DEF OnceAgain
  <1> QED
    BY <1>7, <1>8, OncePartsNext

\* What keeps the stack, the mask, the actions and the jump keeps OnceInv.
LEMMA SameOnce ==
  ASSUME OnceInv, program' = program,
         LET q == proc["parent"]
             r == proc'["parent"]
         IN /\ r.status = q.status /\ r.jmp = q.jmp /\ r.rings = q.rings /\ r.disp = q.disp /\ r.mask = q.mask
            /\ r.stack = q.stack
  PROVE  OnceInv'
  BY DEF OnceInv

LEMMA EntersOnce == ASSUME CodesInv, OnceInv, Enters("parent"), program' = program, program \in Once PROVE OnceInv'
  <1> DEFINE p == "parent"
             q == proc[p]
             r == proc'[p]
  <1>1. /\ Keeps(q, r, {"inside", "before", "mask", "disp"}) /\ Running(p) /\ MoreToDo(p)
        /\ Instr(p).op # "sigsuspend" => r.mask = q.mask
        /\ Instr(p).op # "command" => r.disp = q.disp
    BY DEF Enters, Calling
  <1>2. Instr(p).op # "sigsuspend" /\ Instr(p).op # "command"
    <2>1. CASE Len(q.stack) = 2
      BY <1>1, <2>1, OnceStands
    <2>2. CASE Len(q.stack) = 1
      BY <1>1, <2>2, OnceStands, OnceCalls
    <2> QED
      BY <1>1, <2>1, <2>2, OnceStands
  <1> QED
    BY <1>1, <1>2, SameOnce DEF Keeps, Fields

LEMMA LeavesOnce == ASSUME CodesInv, OnceInv, Leaves("parent"), program' = program, program \in Once PROVE OnceInv'
  <1> DEFINE p == "parent"
             q == proc[p]
             r == proc'[p]
  <1>1. /\ Keeps(q, r, {"inside", "stack"}) /\ Running(p) /\ MoreToDo(p)
        /\ Instr(p).op \in {"sleep", "command", "read"}
        /\ Moved(q.stack, r.stack, Top(p).pc + 1)
    BY DEF Leaves
  <1>2. Len(q.stack) = 1 /\ Instr(p) = Code[program][q.stack[1].pc] /\ q.stack[1].pc \in 1..Len(Code[program])
    BY <1>1, OnceStands
  <1>3. program # Again
    BY <1>1, <1>2, OnceCalls DEF Once
  <1>4. r.status = q.status /\ r.jmp = q.jmp /\ r.rings = q.rings /\ r.mask = q.mask /\ Len(r.stack) = 1
    BY <1>1, <1>2 DEF Keeps, Fields, Moved
  <1>5. OnceAll' /\ OnceRuns' /\ OnceAgain'
    BY <1>3, <1>4 DEF OnceInv, Once, OnceAll, OnceRuns, OnceAgain, Running
  <1> QED
    BY <1>5, OncePartsNext

LEMMA HandlesOnce == ASSUME CodesInv, OnceInv, Handles("parent"), program' = program, program \in Once PROVE OnceInv'
  <1> DEFINE q == proc["parent"]
             r == proc'["parent"]
             l == Len(q.stack)
             interrupted == q.inside /\ Instr("parent").op \in Interruptible
  <1>1. PICK s \in Deliverable("parent") :
          /\ Running("parent")
          /\ Keeps(q, r, {"stack", "inside", "mask", "pending", "rings"})
          /\ r.mask = q.mask \cup {s}
          /\ r.rings = IF s = "ALRM" /\ q.rings < 2 THEN q.rings + 1 ELSE q.rings
          /\ Len(r.stack) = l + 1
          /\ \A k \in 1..l : r.stack[k].pc = IF k = l /\ interrupted THEN q.stack[k].pc + 1 ELSE q.stack[k].pc
          /\ \E m : r.stack[l + 1] = Frame(q.disp[s], s, m)
    BY DEF Handles
  <1>2. r.status = q.status /\ r.jmp = q.jmp /\ r.disp = q.disp
    BY <1>1 DEF Keeps, Fields
  <1>3. s = "ALRM" /\ s \notin q.mask
    BY <1>1, PendingAre DEF CodesInv, PendingOK, Procs, Deliverable, Once, Again
  <1>4. q.rings = 0 /\ l = 1
    <2>1. q.rings \in 0..2 /\ q.rings <= 1
      BY <1>1, OnceStands DEF ProcType, OnceInv, Once
    <2>2. q.rings # 1
      BY <1>1, <1>3 DEF OnceInv, Once, Running
    <2>3. q.rings = 0
      BY <2>1, <2>2
    <2> QED
      BY <1>1, <2>3 DEF OnceInv, Once, Running
  <1>5. r.rings = 1 /\ "ALRM" \in r.mask /\ Len(r.stack) = 2 /\ r.stack[2].pc = 1
    BY <1>1, <1>3, <1>4 DEF Frame
  <1>6. r.stack[1].pc \in {q.stack[1].pc, q.stack[1].pc + 1} /\ q.stack[1].pc \in Nat
    BY <1>1, <1>4, OnceStands
  <1>7. OnceAll' /\ OnceRuns'
    BY <1>2, <1>5 DEF OnceInv, Once, OnceAll, OnceRuns
  <1>8. OnceAgain'
    <2> SUFFICES ASSUME program = Again PROVE OnceAgain'
      BY DEF OnceAgain
    <2> DEFINE at == q.stack[1].pc
               on == r.stack[1].pc
    <2>1. /\ at <= 4 /\ q.status = "running"
          /\ at >= 2 \/ q.jmp.set => q.disp["ALRM"] = "alarm_sig_handler3"
          /\ q.jmp.set /\ at <= 7 => q.jmp.pc = 5
      BY <1>4 DEF OnceInv
    <2>2. q.disp["ALRM"] = "alarm_sig_handler3"
      <3>1. /\ q.disp[s] \notin NoHandler /\ <<s, q.disp[s]>> \in HandlersOf[program]
        BY <1>1, <1>3 DEF Handles, CodesInv, HandlersOK, Procs, Sigs
      <3> QED
        BY <1>3, <3>1, HandlersAre DEF Again
    <2>3. at \in Nat /\ on \in {at, at + 1}
      BY <1>6
    <2>4. on <= 9 /\ (q.jmp.set => q.jmp.pc = 5)
      <3> HIDE DEF at, on
      <3> QED
        BY <2>1, <2>3
    <2> QED
      BY <1>2, <1>5, <2>1, <2>2, <2>4 DEF OnceAgain
  <1> QED
    BY <1>7, <1>8, OncePartsNext

\* The second call of sleep2 does not end.
LEMMA AgainStays == ASSUME CodesInv, JumpInv, OnceInv, Dies("parent") PROVE program # Again
  <1> SUFFICES ASSUME program = Again PROVE FALSE
    OBVIOUS
  <1> DEFINE q == proc["parent"]
             at == q.stack[1].pc
  <1>1. PICK how \in {"exited"} \cup Deliverable("parent") :
          /\ Running("parent")
          /\ how = "exited" => \/ MoreToDo("parent") /\ Instr("parent").op = "exit"
                               \/ ~MoreToDo("parent") /\ InMain("parent")
          /\ how # "exited" => q.disp[how] = "SIG_DFL"
    BY DEF Dies
  <1>2. CASE how = "exited"
    <2>1. ~(~MoreToDo("parent") /\ InMain("parent"))
      <3>1. at <= 9 /\ at \in Nat
        BY <1>1, OnceStands DEF OnceInv, Once
      <3>2. Len(Code["sleep2_again"]) = 10
        BY Sleep2AgainCalls
      <3>3. ~MoreToDo("parent") /\ InMain("parent") => at > 10
        BY <1>1, <3>2, OnceStands DEF InMain, Once, Again
      <3> HIDE DEF at
      <3> QED
        BY <3>1, <3>3
    <2>2. MoreToDo("parent") /\ Instr("parent").op = "exit"
      BY <1>1, <1>2, <2>1
    <2>3. InstrOK(program, Top("parent").code, Top("parent").pc) /\ InCode(program, Top("parent").code)
      BY <1>1, <2>2, Stands DEF Procs
    <2>4. Top("parent").code \in {"sig_catch", "getpass_test"}
      BY <2>2, <2>3 DEF InstrOK, Instr
    <2> QED
      BY <2>3, <2>4, HandlersAre DEF InCode, Again, Forkers
  <1>3. CASE how # "exited"
    <2>1. how = "ALRM" /\ how \notin q.mask /\ how \in q.pending
      BY <1>1, <1>3, PendingAre DEF CodesInv, PendingOK, Procs, Deliverable, Again
    <2>2. q.jmp.set
      BY <2>1 DEF JumpInv, Jumping, Again
    <2>3. q.disp["ALRM"] = "alarm_sig_handler3"
      BY <2>2 DEF OnceInv
    <2> QED
      BY <1>1, <1>3, <2>1, <2>3
  <1> QED
    BY <1>2, <1>3

LEMMA StepOnce == ASSUME CodesInv, JumpInv, OnceInv, Shapes PROVE OnceInv'
  <1>1. program' = program
    BY DEF Shapes
  <1>2. CASE program \notin Once
    BY <1>1, <1>2 DEF OnceInv, Once
  <1>3. CASE program \in Once
    <2>0. program \in DOMAIN SetAt /\ program \in Jumping
      BY <1>3, JumpCalls DEF Once, Jumping, Again
    <2>1. ~Forks /\ ~Reaps /\ ~Kills("parent")
      <3>1. ASSUME Forks \/ Reaps \/ Kills("parent")
            PROVE FALSE
        <4>1. /\ Running("parent") /\ MoreToDo("parent") /\ Instr("parent").op \in {"fork", "wait", "kill"}
          BY <3>1 DEF Forks, Reaps, Kills, Calling
        <4>2. InstrOK(program, Top("parent").code, Top("parent").pc)
          BY <4>1, Stands DEF Procs
        <4>3. program \in Forkers \/ program \in {"tell_wait", "abort1"}
          BY <4>1, <4>2 DEF InstrOK, Instr
        <4> QED
          BY <2>0, <4>3, JumpersAlone
      <3> QED
        BY <3>1
    <2>2. CASE Returns("parent")
      <3>1. Running("parent") /\ ~MoreToDo("parent") /\ Len(proc["parent"].stack) > 1
        BY <2>2 DEF Returns
      <3>2. Len(proc["parent"].stack) = 1
        BY <1>3, <3>1, OnceStands
      <3> QED
        BY <3>1, <3>2
    <2>3. CASE Dies("parent")
      <3>1. program # Again
        BY <2>3, AgainStays
      <3> QED
        BY <1>1, <2>3, <3>1, ParentEnds DEF OnceInv, Running
    <2>4. CASE Stays
      BY <1>1, <2>4, SameOnce DEF Stays, Keeps, Fields
    <2> QED
      BY <1>1, <1>3, <2>1, <2>2, <2>3, <2>4, ParentSteps, CallOnce, JumpsOnce, EntersOnce, LeavesOnce, HandlesOnce
  <1> QED
    BY <1>2, <1>3

LEMMA OnceGiven == ASSUME CodesInv, OnceInv PROVE AlarmOnce
  BY DEF OnceInv, AlarmOnce, Ended, Again

\* What the program starts with.
LEMMA InitParent ==
  ASSUME Init
  PROVE  LET q == proc["parent"]
         IN /\ q.stack = <<Frame(program, "none", {})>> /\ q.inside = FALSE /\ q.mask = {} /\ q.oldmask = {}
            /\ q.pending = {} /\ q.alarm = FALSE /\ q.rings = 0 /\ q.flag = FALSE /\ q.jmp.set = FALSE /\ q.status = "running"
            /\ \A s \in Sigs \ {"ABRT"} : q.disp[s] = "SIG_DFL"
            /\ Len(q.stack) = 1 /\ q.stack[1].pc = 1
            /\ proc["child"] = Idle
  <1> DEFINE q == proc["parent"]
  <1>1. PICK d : proc = [parent |-> [Idle EXCEPT !.status = "running", !.disp["ABRT"] = d,
                                                 !.stack = <<Frame(program, "none", {})>>],
                         child |-> Idle]
    BY DEF Init
  <1>2. q = [Idle EXCEPT !.status = "running", !.disp["ABRT"] = d, !.stack = <<Frame(program, "none", {})>>]
    BY <1>1
  <1>3. /\ q.stack = <<Frame(program, "none", {})>> /\ q.inside = FALSE /\ q.mask = {} /\ q.oldmask = {}
        /\ q.pending = {} /\ q.alarm = FALSE /\ q.rings = 0 /\ q.flag = FALSE /\ q.jmp.set = FALSE /\ q.status = "running"
    BY <1>2 DEF Idle
  <1>4. \A s \in Sigs \ {"ABRT"} : q.disp[s] = "SIG_DFL"
    BY <1>2 DEF Idle
  <1>5. Len(q.stack) = 1 /\ q.stack[1].pc = 1
    BY <1>3 DEF Frame
  <1>6. proc["child"] = Idle
    BY <1>1
  <1> QED
    BY <1>3, <1>4, <1>5, <1>6

LEMMA InitJumps == ASSUME Init, CodesInv PROVE MaskInv /\ JumpInv /\ OnceInv /\ QuietInv
  <1> DEFINE q == proc["parent"]
  <1>3. /\ q.inside = FALSE /\ q.mask = {} /\ q.oldmask = {}
        /\ q.pending = {} /\ q.alarm = FALSE /\ q.rings = 0 /\ q.flag = FALSE /\ q.jmp.set = FALSE /\ q.status = "running"
    BY InitParent
  <1>4. Len(q.stack) = 1 /\ q.stack[1].pc = 1
    BY InitParent
  <1>5. \A P \in DOMAIN SetAt : 1 < SetAt[P]
    BY JumpCalls DEF Jumping
  <1>6. ~InMask(program, 1)
    BY DEF InMask
  <1>7. MaskInv
    BY <1>3, <1>4, <1>6 DEF MaskInv, OldMaskOK, JmpMaskOK, MainMaskOK, MainMask, MaskAt
  <1>8. JumpInv
    BY <1>3, <1>4, <1>5 DEF JumpInv
  <1>9. OnceInv
    BY <1>3, <1>4 DEF OnceInv
  <1>10. QuietInv
    BY <1>4 DEF QuietInv
  <1> QED
    BY <1>7, <1>8, <1>9, <1>10

-----------------------------------------------------------------------------
(* Critical regions *)

\* A function goes on, or returns.
LEMMA MovesQuiet ==
  ASSUME CodesInv, QuietInv, Running("parent"), program' = program,
         \/ \E j : Moved(proc["parent"].stack, proc'["parent"].stack, j)
         \/ Returns("parent")
         \/ proc'["parent"].stack = proc["parent"].stack
         \/ Len(proc'["parent"].stack) = 1
  PROVE  QuietInv'
  <1> DEFINE q == proc["parent"]
             r == proc'["parent"]
             l == Len(q.stack)
  <1>0. l \in Nat \ {0}
    BY MainStands
  <1>1. CASE \E j : Moved(q.stack, r.stack, j)
    <2>1. PICK j : Moved(q.stack, r.stack, j)
      BY <1>1
    <2>2. CASE l = 1
      BY <2>1, <2>2 DEF Moved, QuietInv
    <2>3. CASE l # 1
      <3> HIDE DEF l
      <3>1. 1 \in 1..l /\ 1 # l
        BY <1>0, <2>3
      <3>2. r.stack[1].pc = q.stack[1].pc
        BY <2>1, <3>1 DEF Moved, l
      <3> QED
        BY <2>3, <3>2 DEF QuietInv, l
    <2> QED
      BY <2>2, <2>3
  <1>2. CASE Returns("parent")
    <2>1. l > 1 /\ \A k \in 1..(l - 1) : r.stack[k] = q.stack[k]
      BY <1>2 DEF Returns
    <2> HIDE DEF l
    <2>2. 1 \in 1..(l - 1) /\ l # 1
      BY <1>0, <2>1
    <2>3. r.stack[1] = q.stack[1]
      BY <2>1, <2>2
    <2> QED
      BY <2>2, <2>3 DEF QuietInv, l
  <1>3. CASE r.stack = q.stack
    BY <1>3 DEF QuietInv
  <1>4. CASE Len(r.stack) = 1
    BY <1>4 DEF QuietInv
  <1> QED
    BY <1>1, <1>2, <1>3, <1>4

LEMMA HandlesQuiet ==
  ASSUME CodesInv, MaskInv, QuietInv, Handles("parent"), program' = program, program \in Regions PROVE QuietInv'
  <1> DEFINE q == proc["parent"]
             r == proc'["parent"]
             l == Len(q.stack)
             at == q.stack[1].pc
             x == Instr("parent")
             interrupted == q.inside /\ x.op \in Interruptible
  <1>1. PICK s \in Deliverable("parent") :
          /\ Running("parent") /\ q.disp[s] \notin NoHandler
          /\ \A k \in 1..l : r.stack[k].pc = IF k = l /\ interrupted THEN q.stack[k].pc + 1 ELSE q.stack[k].pc
    BY DEF Handles
  <1>2. /\ l \in Nat \ {0} /\ at \in Nat \ {0}
        /\ l = 1 /\ interrupted => x = Code[program][at] /\ at \in 1..Len(Code[program])
    BY <1>1, MainStands DEF CodesInv, StackOK, Procs
  <1>3. s \in Sigs /\ <<s, q.disp[s]>> \in HandlersOf[program] /\ s \notin q.mask
    BY <1>1 DEF CodesInv, SigTypeOK, HandlersOK, ProcType, Procs, Deliverable
  <1>4. (program = "sig_proc_mask_test1" => s = "QUIT") /\ (program = "sig_suspend_test1" => s = "INT")
    BY <1>3, HandlersAre
  <1>5. CASE at \in {3, 4}
    <2>1. l = 1
      BY <1>1, <1>5 DEF QuietInv, Regions
    <2>2. CASE interrupted /\ x.op = "sigsuspend"
      <3>1. at = 4
        BY <1>2, <1>5, <2>1, <2>2, SigProcMaskTest1Calls, SigSuspendTest1Calls DEF Regions
      <3>2. r.stack[1].pc = 4 + 1
        BY <1>1, <2>1, <2>2, <3>1
      <3> QED
        BY <3>2 DEF QuietInv
    <2>3. CASE ~(interrupted /\ x.op = "sigsuspend")
      <3>1. q.mask = MaskAt(program, at)
        BY <1>1, <2>1, <2>3 DEF MaskInv, MainMaskOK, MainMask, Regions, Jumping, Interruptible
      <3>2. s \in MaskAt(program, at)
        BY <1>4, <1>5 DEF MaskAt, InMask, Masked, Regions
      <3> QED
        BY <1>3, <3>1, <3>2
    <2> QED
      BY <2>2, <2>3
  <1>6. CASE at \notin {3, 4}
    <2>1. CASE l = 1 /\ interrupted
      <3>1. at # 2
        BY <1>2, <2>1, SigProcMaskTest1Calls, SigSuspendTest1Calls DEF Regions, Interruptible
      <3>2. r.stack[1].pc = at + 1
        BY <1>1, <2>1
      <3>3. at + 1 \notin {3, 4}
        BY <1>2, <1>6, <3>1
      <3> QED
        BY <3>2, <3>3 DEF QuietInv
    <2>2. CASE ~(l = 1 /\ interrupted)
      <3>1. r.stack[1].pc = at
        <4> HIDE DEF l, interrupted
        <4>1. 1 \in 1..l
          BY <1>2
        <4> QED
          BY <1>1, <2>2, <4>1
      <3> QED
        BY <1>6, <3>1 DEF QuietInv
    <2> QED
      BY <2>1, <2>2
  <1> QED
    BY <1>5, <1>6

LEMMA StepQuiet == ASSUME CodesInv, MaskInv, QuietInv, Shapes PROVE QuietInv'
  <1>1. program' = program
    BY DEF Shapes
  <1>2. CASE Dies("parent")
    BY <1>2, ParentEnds DEF QuietInv
  <1>3. CASE Call("parent") \/ Kills("parent") \/ Forks \/ Leaves("parent") \/ Reaps
    <2>1. Running("parent") /\ \E j : Moved(proc["parent"].stack, proc'["parent"].stack, j)
      BY <1>3 DEF Call, Kills, Forks, Leaves, Reaps, Calling, Procs
    <2> QED
      BY <1>1, <2>1, MovesQuiet
  <1>4. CASE Jumps("parent")
    <2>1. Running("parent") /\ Len(proc'["parent"].stack) = 1
      BY <1>4 DEF Jumps, Calling, CodesInv, JmpOK, Procs
    <2> QED
      BY <1>1, <2>1, MovesQuiet
  <1>5. CASE Returns("parent")
    BY <1>1, <1>5, MovesQuiet DEF Returns
  <1>6. CASE Enters("parent")
    BY <1>1, <1>6, MovesQuiet DEF Enters, Keeps, Fields, Calling
  <1>7. CASE Stays
    <2>1. proc'["parent"].stack = proc["parent"].stack /\ proc'["parent"].status = proc["parent"].status
      BY <1>7 DEF Stays, Keeps, Fields
    <2> QED
      BY <1>1, <2>1 DEF QuietInv, Running
  <1>8. CASE Handles("parent")
    <2>1. CASE program \in Regions
      BY <1>1, <1>8, <2>1, HandlesQuiet
    <2>2. CASE program \notin Regions
      BY <1>1, <2>2 DEF QuietInv
    <2> QED
      BY <2>1, <2>2
  <1> QED
    BY <1>2, <1>3, <1>4, <1>5, <1>6, <1>7, <1>8, ParentSteps

LEMMA QuietGiven == ASSUME CodesInv, QuietInv PROVE NotInterrupted
  <1>1. ~Running("parent") /\ program \in Regions => Len(Code[program]) + 1 \notin {3, 4}
    BY SigProcMaskTest1Calls, SigSuspendTest1Calls DEF Regions
  <1> QED
    BY <1>1 DEF QuietInv, NotInterrupted, At, InMain, Regions

-----------------------------------------------------------------------------
(* The callers of system_m1 *)

\* What a step of the parent means for the child.
LEMMA BothSteps ==
  ASSUME CodesInv, Shapes
  PROVE  \/ /\ \/ Call("parent") \/ Kills("parent") \/ Jumps("parent") \/ Enters("parent") \/ Leaves("parent")
               \/ Handles("parent") \/ Returns("parent") \/ Dies("parent") \/ Stays
            /\ proc'["child"].status = proc["child"].status
         \/ Forks
         \/ Reaps
         \/ Stays /\ Dies("child")
  <1>1. Call("parent") \/ Jumps("parent") \/ Enters("parent") \/ Leaves("parent") \/ Handles("parent") \/ Returns("parent") =>
          proc'["child"] = proc["child"]
    <2>1. Rest("parent") => proc'["child"] = proc["child"]
      BY DEF Rest, Procs
    <2> QED
      BY <2>1 DEF Call, Jumps, Enters, Leaves, Handles, Returns
  <1>2. Kills("parent") \/ Kills("child") \/ SignalsCome => proc'["child"].status = proc["child"].status
    BY DEF Kills, SignalsCome, Keeps, Fields, Procs
  <1>3. Dies("parent") => proc'["child"] = proc["child"]
    BY DEF Dies
  <1>4. Call("child") \/ Jumps("child") \/ Enters("child") \/ Leaves("child") \/ Handles("child") \/ Returns("child") =>
          proc'["child"].status = proc["child"].status
    <2>1. Call("child") => proc'["child"].status = proc["child"].status
      <3>1. Call("child") => Effect("child", proc'["child"])
        BY DEF Call
      <3> QED
        BY <3>1 DEF Effect, Keeps, Fields
    <2>2. Jumps("child") => Keeps(proc["child"], proc'["child"], {"stack", "mask"})
      BY DEF Jumps
    <2>3. Enters("child") => Keeps(proc["child"], proc'["child"], {"inside", "before", "mask", "disp"})
      BY DEF Enters
    <2>4. Leaves("child") => Keeps(proc["child"], proc'["child"], {"inside", "stack"})
      BY DEF Leaves
    <2>5. Handles("child") => Keeps(proc["child"], proc'["child"], {"stack", "inside", "mask", "pending", "rings"})
      BY DEF Handles
    <2>6. Returns("child") => Keeps(proc["child"], proc'["child"], {"stack", "mask"})
      BY DEF Returns
    <2> QED
      BY <2>1, <2>2, <2>3, <2>4, <2>5, <2>6 DEF Keeps, Fields
  <1>5. CASE Call("parent") \/ Kills("parent") \/ Jumps("parent") \/ Enters("parent") \/ Leaves("parent")
             \/ Handles("parent") \/ Returns("parent") \/ Dies("parent")
    BY <1>1, <1>2, <1>3, <1>5
  <1>6. CASE Call("child") \/ Kills("child") \/ Jumps("child") \/ Enters("child") \/ Leaves("child")
             \/ Handles("child") \/ Returns("child") \/ SignalsCome
    <2>1. proc'["child"].status = proc["child"].status
      BY <1>2, <1>4, <1>6
    <2> QED
      BY <2>1, ParentSteps
  <1>7. CASE Dies("child")
    <2>1. Keeps(proc["parent"], proc'["parent"], {"pending"}) /\ Gets(proc["parent"], proc'["parent"], "CHLD")
      BY <1>7 DEF Dies
    <2>2. proc'["parent"].alarm = proc["parent"].alarm
      BY <2>1 DEF Keeps, Fields
    <2>3. Keeps(proc["parent"], proc'["parent"], {"pending", "alarm"})
      BY <2>1 DEF Keeps, Fields
    <2>4. Stays
      BY <1>7, <2>1, <2>2, <2>3 DEF Stays, Gets
    <2> QED
      BY <1>7, <2>4
  <1>8. CASE Forks \/ Reaps
    BY <1>8
  <1> QED
    BY <1>5, <1>6, <1>7, <1>8 DEF Shapes, Procs

\* The calls of system_m1, in its three programs.
LEMMA SystemCalls ==
  ASSUME NEW P \in Systems
  PROVE
    LET c == Code[P]
        o == IF P = "system_m1" THEN 0 ELSE 2
    IN /\ Len(c) = o + 8
       /\ P # "system_m1" => /\ c[1].op = "signal" /\ c[1].sig = "INT" /\ c[1].handler = "nop"
                             /\ c[2].op = "signal" /\ c[2].sig = "CHLD"
       /\ c[o + 1].op = "ignore" /\ c[o + 1].sig = "INT" /\ c[o + 2].op = "ignore" /\ c[o + 2].sig = "QUIT"
       /\ c[o + 3].op = "block"
       /\ c[o + 4].op = "fork" /\ c[o + 4].skip = 1
       /\ c[o + 5].op = "wait"
       /\ c[o + 6].op = "restore" /\ c[o + 6].sig = "INT" /\ c[o + 7].op = "restore" /\ c[o + 7].sig = "QUIT"
       /\ c[o + 8].op = "oldmask"
  <1>1. CASE P = "system_m1"
    BY <1>1, SystemM1Calls
  <1>2. CASE P = "system_test1"
    BY <1>2, SystemTest1Calls
  <1>3. CASE P = "system_waits"
    BY <1>3, SystemWaitsCalls
  <1> QED
    BY <1>1, <1>2, <1>3 DEF Systems

\* Where the main function stands, and what its handlers call.
LEMMA SystemStands ==
  ASSUME CodesInv, program \in Systems, Running("parent")
  PROVE  LET q == proc["parent"]
             x == Instr("parent")
             at == q.stack[1].pc
             o == Before
         IN /\ o \in {0, 2} /\ at \in Nat \ {0} /\ Len(q.stack) \in Nat \ {0} /\ q \in ProcType
            /\ First \in {"SIG_DFL", "nop"}
            /\ Len(Code[program]) = o + 8
            /\ Len(q.stack) = 1 /\ ~MoreToDo("parent") => at > o + 8
            /\ Len(q.stack) = 1 /\ MoreToDo("parent") =>
                 /\ Top("parent").pc = at /\ Top("parent").code = program /\ x = Code[program][at]
                 /\ \/ o = 2 /\ First = "nop" /\ at = 1 /\ x.op = "signal" /\ x.sig = "INT" /\ x.handler = "nop"
                    \/ o = 2 /\ First = "nop" /\ at = 2 /\ x.op = "signal" /\ x.sig = "CHLD"
                    \/ at = o + 1 /\ x.op = "ignore" /\ x.sig = "INT"
                    \/ at = o + 2 /\ x.op = "ignore" /\ x.sig = "QUIT"
                    \/ at = o + 3 /\ x.op = "block"
                    \/ at = o + 4 /\ x.op = "fork" /\ x.skip = 1
                    \/ at = o + 5 /\ x.op = "wait"
                    \/ at = o + 6 /\ x.op = "restore" /\ x.sig = "INT"
                    \/ at = o + 7 /\ x.op = "restore" /\ x.sig = "QUIT"
                    \/ at = o + 8 /\ x.op = "oldmask"
            /\ Len(q.stack) # 1 /\ MoreToDo("parent") => x.op = "wait" \/ (x.op = "signal" /\ x.sig = "CHLD")
  <1> DEFINE q == proc["parent"]
             x == Instr("parent")
             at == q.stack[1].pc
             o == Before
             l == Len(q.stack)
  <1>1. /\ l \in Nat \ {0} /\ q \in ProcType /\ at \in Nat \ {0}
        /\ l = 1 => /\ Top("parent") = q.stack[1] /\ Top("parent").code = program
                    /\ MoreToDo("parent") => at \in 1..Len(Code[program]) /\ x = Code[program][at]
                    /\ ~MoreToDo("parent") => at > Len(Code[program])
    BY MainStands
  <1>2. o \in {0, 2} /\ o = IF program = "system_m1" THEN 0 ELSE 2
    BY DEF Before
  <1>3. First \in {"SIG_DFL", "nop"} /\ (program # "system_m1" => First = "nop" /\ o = 2)
    BY <1>2 DEF First
  <1>4. Len(Code[program]) = o + 8
    BY <1>2, SystemCalls
  <1>5. ASSUME l = 1, MoreToDo("parent")
        PROVE  \/ o = 2 /\ First = "nop" /\ at = 1 /\ x.op = "signal" /\ x.sig = "INT" /\ x.handler = "nop"
               \/ o = 2 /\ First = "nop" /\ at = 2 /\ x.op = "signal" /\ x.sig = "CHLD"
               \/ at = o + 1 /\ x.op = "ignore" /\ x.sig = "INT"
               \/ at = o + 2 /\ x.op = "ignore" /\ x.sig = "QUIT"
               \/ at = o + 3 /\ x.op = "block"
               \/ at = o + 4 /\ x.op = "fork" /\ x.skip = 1
               \/ at = o + 5 /\ x.op = "wait"
               \/ at = o + 6 /\ x.op = "restore" /\ x.sig = "INT"
               \/ at = o + 7 /\ x.op = "restore" /\ x.sig = "QUIT"
               \/ at = o + 8 /\ x.op = "oldmask"
    <2>1. at \in 1..(o + 8) /\ x = Code[program][at]
      BY <1>1, <1>4, <1>5
    <2>2. \/ at = 1 /\ o = 2 /\ program # "system_m1"
          \/ at = 2 /\ o = 2 /\ program # "system_m1"
          \/ at = o + 1 \/ at = o + 2 \/ at = o + 3 \/ at = o + 4
          \/ at = o + 5 \/ at = o + 6 \/ at = o + 7 \/ at = o + 8
      <3> HIDE DEF at, o
      <3> QED
        BY <1>2, <2>1
    <2>3. LET c == Code[program]
          IN /\ program # "system_m1" => /\ c[1].op = "signal" /\ c[1].sig = "INT" /\ c[1].handler = "nop"
                                        /\ c[2].op = "signal" /\ c[2].sig = "CHLD"
             /\ c[o + 1].op = "ignore" /\ c[o + 1].sig = "INT" /\ c[o + 2].op = "ignore" /\ c[o + 2].sig = "QUIT"
             /\ c[o + 3].op = "block"
             /\ c[o + 4].op = "fork" /\ c[o + 4].skip = 1
             /\ c[o + 5].op = "wait"
             /\ c[o + 6].op = "restore" /\ c[o + 6].sig = "INT" /\ c[o + 7].op = "restore" /\ c[o + 7].sig = "QUIT"
             /\ c[o + 8].op = "oldmask"
      <3> HIDE DEF o
      <3> QED
        BY <1>2, SystemCalls
    <2>4. x = Code[program][at]
      BY <2>1
    <2> HIDE DEF at, o, x
    <2> QED
      BY <1>2, <1>3, <2>2, <2>3, <2>4
  <1>6. ASSUME l # 1, MoreToDo("parent")
        PROVE  x.op = "wait" \/ (x.op = "signal" /\ x.sig = "CHLD")
    <2>1. Top("parent") = q.stack[l] /\ Top("parent").pc \in 1..Len(Code[Top("parent").code])
      BY <1>6, Stands DEF Procs
    <2>2. l \in 2..l
      <3> HIDE DEF l
      <3> QED
        BY <1>1, <1>6
    <2>3. <<q.stack[l].sig, q.stack[l].code>> \in HandlersOf[program]
      BY <2>2 DEF CodesInv, StackOK, Procs
    <2>4. Top("parent").code \in {"nop", "sig_child_handler"}
      BY <2>1, <2>3, HandlersAre DEF Systems
    <2>5. Len(Code["nop"]) = 0
      BY CodeIs
    <2>6. Top("parent").code = "sig_child_handler"
      BY <2>1, <2>4, <2>5
    <2>7. Len(Code["sig_child_handler"]) = 2
      BY SigChildHandlerCalls
    <2>8. Top("parent").pc \in 1..2
      <3>1. Top("parent").pc \in 1..Len(Code[Top("parent").code])
        BY <2>1
      <3>2. Code[Top("parent").code] = Code["sig_child_handler"]
        BY <2>6
      <3> QED
        BY <2>7, <3>1, <3>2
    <2>9. Top("parent").pc \in {1, 2}
      BY <2>8
    <2> QED
      BY <2>6, <2>9, SigChildHandlerCalls DEF Instr
  <1> QED
    BY <1>1, <1>2, <1>3, <1>4, <1>5, <1>6

\* What keeps the stack of the parent, its actions and its result.
LEMMA SameSystem ==
  ASSUME SystemInv, program' = program, proc'["child"].status = proc["child"].status,
         LET q == proc["parent"]
             r == proc'["parent"]
         IN /\ r.status = q.status /\ r.stack = q.stack /\ r.disp = q.disp /\ r.saved = q.saved /\ r.result = q.result
  PROVE  SystemInv'
  BY DEF SystemInv, SystemRuns, Before, First, Running

LEMMA KeptSystem ==
  ASSUME SystemInv, program' = program, program \in Systems, Running("parent"),
         proc["child"].status \in {"none", "reaped"}, proc'["child"].status = proc["child"].status,
         LET q == proc["parent"]
             r == proc'["parent"]
         IN /\ r.status = q.status /\ r.stack[1].pc = q.stack[1].pc
            /\ r.disp["INT"] = q.disp["INT"] /\ r.disp["QUIT"] = q.disp["QUIT"]
            /\ r.saved["INT"] = q.saved["INT"] /\ r.saved["QUIT"] = q.saved["QUIT"] /\ r.result = q.result
  PROVE  SystemInv'
  BY DEF SystemInv, SystemRuns, Before, First, Running

\* As long as the child exists the parent waits for it, and no signal ends it or starts
\* a handler.
LEMMA SystemWaiting ==
  ASSUME CodesInv, MaskInv, SystemInv, program \in Systems, proc["child"].status \notin {"none", "reaped"}
  PROVE  /\ Running("parent") /\ Len(proc["parent"].stack) = 1 /\ proc["parent"].stack[1].pc = Before + 5
         /\ MoreToDo("parent") /\ Instr("parent").op = "wait"
         /\ \A s \in Deliverable("parent") : proc["parent"].disp[s] = "SIG_IGN"
  <1> DEFINE q == proc["parent"]
             at == q.stack[1].pc
             o == Before
  <1>1. Running("parent") /\ Len(q.stack) = 1 /\ at = o + 5 /\ SystemRuns
    BY DEF SystemInv
  <1>2. o \in {0, 2} /\ Len(Code[program]) = o + 8
    BY <1>1, SystemStands
  <1>3. MoreToDo("parent")
    <2>1. ~MoreToDo("parent") => at > o + 8
      BY <1>1, SystemStands
    <2> HIDE DEF o
    <2> QED
      BY <1>1, <1>2, <2>1
  <1>4. Instr("parent").op = "wait"
    <2>1. LET x == Instr("parent") IN
          \/ o = 2 /\ at = 1
          \/ o = 2 /\ at = 2
          \/ at = o + 1 \/ at = o + 2 \/ at = o + 3 \/ at = o + 4
          \/ at = o + 5 /\ x.op = "wait"
          \/ at = o + 6 \/ at = o + 7 \/ at = o + 8
      BY <1>1, <1>3, SystemStands
    <2> HIDE DEF o, at
    <2> QED
      BY <1>1, <1>2, <2>1
  <1>5. q.disp["INT"] = "SIG_IGN" /\ q.disp["QUIT"] = "SIG_IGN"
    <2>1. /\ at >= o + 2 /\ at <= o + 6 => q.disp["INT"] = "SIG_IGN"
          /\ at >= o + 3 /\ at <= o + 7 => q.disp["QUIT"] = "SIG_IGN"
      BY <1>1 DEF SystemRuns
    <2> HIDE DEF o, at
    <2> QED
      BY <1>1, <1>2, <2>1
  <1>6. q.mask = {"CHLD"}
    <2>1. q.mask = MaskAt(program, at)
      BY <1>1, <1>4 DEF MaskInv, MainMaskOK, MainMask, Systems, Jumping
    <2>2. InMask(program, at)
      <3>1. \/ program = "system_m1" /\ at = 5
            \/ program \in {"system_test1", "system_waits"} /\ at = 7
        <4>1. program = "system_m1" => at = 5
          BY <1>1 DEF Before
        <4>2. program # "system_m1" => at = 7
          BY <1>1 DEF Before
        <4>3. program \in {"system_m1", "system_test1", "system_waits"}
          BY DEF Systems
        <4> HIDE DEF at
        <4> QED
          BY <4>1, <4>2, <4>3
      <3> QED
        BY <3>1 DEF InMask
    <2>3. Masked[program] = {"CHLD"}
      BY DEF Masked, Systems
    <2> QED
      BY <2>1, <2>2, <2>3 DEF MaskAt
  <1>7. q.pending \subseteq {"INT", "QUIT", "CHLD"}
    BY DEF CodesInv, PendingOK, PendingOf, Systems, Procs
  <1> QED
    BY <1>1, <1>3, <1>4, <1>5, <1>6, <1>7 DEF Deliverable

\* A call of a handler, or of the main function.
LEMMA CallSystem ==
  ASSUME CodesInv, MaskInv, SystemInv, program' = program, program \in Systems, Call("parent"),
         proc'["child"].status = proc["child"].status
  PROVE  SystemInv'
  <1> DEFINE q == proc["parent"]
             r == proc'["parent"]
             at == q.stack[1].pc
             to == r.stack[1].pc
             o == Before
             x == Instr("parent")
             c == proc["child"].status
  <1>1. Running("parent") /\ MoreToDo("parent") /\ x.op \in CallOps /\ Effect("parent", r)
    BY DEF Call, Calling
  <1>2. c \in {"none", "reaped"}
    BY <1>1, SystemWaiting DEF CallOps
  <1>3. r.status = q.status /\ r.result = q.result
    BY <1>1 DEF Effect, Keeps, Fields
  <1>4. \A s \in {"INT", "QUIT"} :
          /\ r.disp[s] = IF x.op \notin {"signal", "ignore", "restore", "unignore"} \/ s # x.sig THEN q.disp[s]
                         ELSE IF x.op = "signal" THEN x.handler
                         ELSE IF x.op = "ignore" THEN "SIG_IGN"
                         ELSE IF x.op = "restore" THEN q.saved[s]
                         ELSE IF q.disp[s] = "SIG_IGN" THEN "SIG_DFL" ELSE q.disp[s]
          /\ r.saved[s] = IF x.op = "ignore" /\ s = x.sig THEN q.disp[s] ELSE q.saved[s]
    BY <1>1 DEF Effect, Sigs
  <1>5. PICK j \in Succ(Top("parent").code, Top("parent").pc) :
          /\ Moved(q.stack, r.stack, j)
          /\ x.op = "fork" => j = Top("parent").pc + 1 + x.skip
    BY DEF Call
  <1>6. Len(q.stack) \in Nat \ {0}
    BY <1>1, SystemStands
  <1>7. CASE Len(q.stack) # 1
    <2>1. x.op = "wait" \/ (x.op = "signal" /\ x.sig = "CHLD")
      BY <1>1, <1>7, SystemStands
    <2>2. x.op = "signal" /\ x.sig = "CHLD"
      BY <1>1, <2>1 DEF CallOps
    <2>3. to = at
      <3> DEFINE l == Len(q.stack)
      <3> HIDE DEF l
      <3>1. 1 \in 1..l /\ 1 # l
        BY <1>6, <1>7 DEF l
      <3> QED
        BY <1>5, <3>1 DEF Moved, l
    <2>4. /\ r.disp["INT"] = q.disp["INT"] /\ r.disp["QUIT"] = q.disp["QUIT"]
          /\ r.saved["INT"] = q.saved["INT"] /\ r.saved["QUIT"] = q.saved["QUIT"]
      BY <1>4, <2>2
    <2> QED
      BY <1>1, <1>2, <1>3, <2>3, <2>4, KeptSystem
  <1>8. CASE Len(q.stack) = 1
    <2>1. /\ o \in {0, 2} /\ at \in Nat \ {0} /\ First \in {"SIG_DFL", "nop"} /\ SystemRuns
          /\ Top("parent").pc = at /\ Top("parent").code = program
          /\ o = IF program = "system_m1" THEN 0 ELSE 2
      BY <1>1, <1>8, SystemStands DEF SystemInv, Before
    <2>2. \/ o = 2 /\ First = "nop" /\ at = 1 /\ x.op = "signal" /\ x.sig = "INT" /\ x.handler = "nop"
          \/ o = 2 /\ First = "nop" /\ at = 2 /\ x.op = "signal" /\ x.sig = "CHLD"
          \/ at = o + 1 /\ x.op = "ignore" /\ x.sig = "INT"
          \/ at = o + 2 /\ x.op = "ignore" /\ x.sig = "QUIT"
          \/ at = o + 3 /\ x.op = "block"
          \/ at = o + 4 /\ x.op = "fork" /\ x.skip = 1
          \/ at = o + 6 /\ x.op = "restore" /\ x.sig = "INT"
          \/ at = o + 7 /\ x.op = "restore" /\ x.sig = "QUIT"
          \/ at = o + 8 /\ x.op = "oldmask"
      <3>1. x.op # "wait"
        BY <1>1 DEF CallOps
      <3> QED
        BY <1>1, <1>8, <3>1, SystemStands
    <2>3. to = j /\ j = IF x.op = "fork" THEN at + 2 ELSE at + 1
      <3>1. to = j
        BY <1>5, <1>8 DEF Moved
      <3>2. x.op = "fork" => j = at + 1 + x.skip /\ x.skip = 1
        <4> HIDE DEF x, at, o
        <4> QED
          BY <1>5, <2>1, <2>2
      <3>3. x.op # "fork" => j = at + 1
        <4>1. x.op \notin {"back", "go", "give_up", "return_unless_flag"} /\ (x.op # "fork" => x.op \notin SkipOps)
          BY <2>2 DEF SkipOps
        <4>2. x = Code[program][at]
          BY <2>1 DEF Instr
        <4> QED
          BY <1>5, <2>1, <4>1, <4>2 DEF Succ
      <3> QED
        BY <2>1, <3>1, <3>2, <3>3
    <2>4. /\ at <= o + 4 => c = "none"
          /\ c = "reaped" => at >= o + 6 /\ q.result \notin {"none", "ECHILD"}
          /\ at < o + 2 \/ at > o + 6 => q.disp["INT"] = IF at >= 2 THEN First ELSE "SIG_DFL"
          /\ at >= o + 2 /\ at <= o + 6 => q.disp["INT"] = "SIG_IGN"
          /\ at < o + 3 \/ at > o + 7 => q.disp["QUIT"] = "SIG_DFL"
          /\ at >= o + 3 /\ at <= o + 7 => q.disp["QUIT"] = "SIG_IGN"
          /\ at >= o + 2 => q.saved["INT"] = First
          /\ at >= o + 3 => q.saved["QUIT"] = "SIG_DFL"
      BY <2>1 DEF SystemRuns
    <2>5. /\ First = IF o = 0 THEN "SIG_DFL" ELSE "nop"
          /\ Before' = o /\ First' = First /\ proc'["child"].status = c /\ Running("parent")'
      BY <1>1, <1>3, <2>1 DEF First, Before, Running
    <2>6. /\ to <= o + 4 => c = "none"
          /\ c = "reaped" => to >= o + 6 /\ q.result \notin {"none", "ECHILD"}
          /\ to < o + 2 \/ to > o + 6 => r.disp["INT"] = IF to >= 2 THEN First ELSE "SIG_DFL"
          /\ to >= o + 2 /\ to <= o + 6 => r.disp["INT"] = "SIG_IGN"
          /\ to < o + 3 \/ to > o + 7 => r.disp["QUIT"] = "SIG_DFL"
          /\ to >= o + 3 /\ to <= o + 7 => r.disp["QUIT"] = "SIG_IGN"
          /\ to >= o + 2 => r.saved["INT"] = First
          /\ to >= o + 3 => r.saved["QUIT"] = "SIG_DFL"
      <3>1. /\ r.disp["INT"] = IF x.op \notin {"signal", "ignore", "restore", "unignore"} \/ "INT" # x.sig THEN q.disp["INT"]
                               ELSE IF x.op = "signal" THEN x.handler
                               ELSE IF x.op = "ignore" THEN "SIG_IGN" ELSE q.saved["INT"]
            /\ r.saved["INT"] = IF x.op = "ignore" /\ "INT" = x.sig THEN q.disp["INT"] ELSE q.saved["INT"]
            /\ r.disp["QUIT"] = IF x.op \notin {"signal", "ignore", "restore", "unignore"} \/ "QUIT" # x.sig THEN q.disp["QUIT"]
                                ELSE IF x.op = "signal" THEN x.handler
                                ELSE IF x.op = "ignore" THEN "SIG_IGN" ELSE q.saved["QUIT"]
            /\ r.saved["QUIT"] = IF x.op = "ignore" /\ "QUIT" = x.sig THEN q.disp["QUIT"] ELSE q.saved["QUIT"]
        <4>1. x.op # "unignore"
          BY <2>2
        <4> HIDE DEF x, q, r
        <4> QED
          BY <1>4, <4>1
      <3> DEFINE qint == q.disp["INT"]
                 qquit == q.disp["QUIT"]
                 sint == q.saved["INT"]
                 squit == q.saved["QUIT"]
                 rint == r.disp["INT"]
                 rquit == r.disp["QUIT"]
                 tint == r.saved["INT"]
                 tquit == r.saved["QUIT"]
      <3> HIDE DEF x, at, to, o, c, qint, qquit, sint, squit, rint, rquit, tint, tquit
      <3>2. CASE o = 0
        BY <2>1, <2>2, <2>3, <2>4, <2>5, <3>1, <3>2 DEF qint, qquit, sint, squit, rint, rquit, tint, tquit
      <3>3. CASE o = 2
        BY <2>1, <2>2, <2>3, <2>4, <2>5, <3>1, <3>3 DEF qint, qquit, sint, squit, rint, rquit, tint, tquit
      <3> QED
        BY <2>1, <3>2, <3>3
    <2>7. SystemRuns'
      BY <1>3, <2>5, <2>6 DEF SystemRuns
    <2> QED
      BY <1>2, <2>5, <2>7 DEF SystemInv
  <1> QED
    BY <1>7, <1>8

\* The parent makes none of these calls.
LEMMA SystemNever ==
  ASSUME CodesInv, program \in Systems, Running("parent"), MoreToDo("parent")
  PROVE  /\ Instr("parent").op \in {"signal", "ignore", "block", "fork", "wait", "restore", "oldmask"}
         /\ Instr("parent").op \in {"fork", "ignore", "block", "restore", "oldmask"} => Len(proc["parent"].stack) = 1
  <1> DEFINE x == Instr("parent")
             l == Len(proc["parent"].stack)
  <1>1. l = 1 => x.op \in {"signal", "ignore", "block", "fork", "wait", "restore", "oldmask"}
    BY SystemStands
  <1>2. l # 1 => x.op = "wait" \/ (x.op = "signal" /\ x.sig = "CHLD")
    BY SystemStands
  <1> QED
    BY <1>1, <1>2

LEMMA ForksSystem ==
  ASSUME CodesInv, MaskInv, SystemInv, program' = program, program \in Systems, Forks PROVE SystemInv'
  <1> DEFINE q == proc["parent"]
             r == proc'["parent"]
             at == q.stack[1].pc
             o == Before
             x == Instr("parent")
  <1>1. /\ Running("parent") /\ MoreToDo("parent") /\ x.op = "fork"
        /\ Keeps(q, r, {"stack"}) /\ Keeps(q, proc'["child"], {"stack", "pending", "alarm"})
        /\ Moved(q.stack, r.stack, Top("parent").pc + 1)
    BY DEF Forks, Calling
  <1>2. Len(q.stack) = 1
    BY <1>1, SystemNever
  <1>3. at = o + 4 /\ o \in {0, 2} /\ Top("parent").pc = at /\ SystemRuns
    <2>1. o \in {0, 2} /\ Top("parent").pc = at /\ SystemRuns
      BY <1>1, <1>2, SystemStands DEF SystemInv
    <2>2. at = o + 4
      BY <1>1, <1>2, SystemStands
    <2> QED
      BY <2>1, <2>2
  <1>4. /\ r.status = q.status /\ r.result = q.result /\ r.disp = q.disp /\ r.saved = q.saved
        /\ proc'["child"].status = q.status
    BY <1>1 DEF Keeps, Fields
  <1>5. Len(r.stack) = 1 /\ r.stack[1].pc = o + 5
    <2>1. Len(r.stack) = 1 /\ r.stack[1].pc = at + 1
      BY <1>1, <1>2, <1>3 DEF Moved
    <2> HIDE DEF o, at
    <2> QED
      BY <1>3, <2>1
  <1>6. Running("parent")' /\ proc'["child"].status = "running" /\ Before' = o /\ First' = First
    BY <1>1, <1>4 DEF Running, Before, First
  <1>7. SystemRuns'
    <2>1. /\ q.disp["INT"] = "SIG_IGN" /\ q.disp["QUIT"] = "SIG_IGN"
          /\ q.saved["INT"] = First /\ q.saved["QUIT"] = "SIG_DFL"
      <3>1. /\ at >= o + 2 /\ at <= o + 6 => q.disp["INT"] = "SIG_IGN"
            /\ at >= o + 3 /\ at <= o + 7 => q.disp["QUIT"] = "SIG_IGN"
            /\ at >= o + 2 => q.saved["INT"] = First
            /\ at >= o + 3 => q.saved["QUIT"] = "SIG_DFL"
        BY <1>3 DEF SystemRuns
      <3> HIDE DEF o, at
      <3> QED
        BY <1>3, <3>1
    <2> DEFINE to == r.stack[1].pc
    <2>2. to = o + 5 /\ o \in {0, 2}
      BY <1>3, <1>5
    <2>3. ~(to <= o + 4) /\ ~(to < o + 2) /\ ~(to > o + 6) /\ ~(to < o + 3) /\ ~(to > o + 7)
      <3> HIDE DEF o, to
      <3> QED
        BY <2>2
    <2> QED
      BY <1>4, <1>6, <2>1, <2>3 DEF SystemRuns
  <1> QED
    BY <1>5, <1>6, <1>7 DEF SystemInv

LEMMA ReapsSystem ==
  ASSUME CodesInv, MaskInv, SystemInv, program' = program, program \in Systems, Reaps PROVE SystemInv'
  <1> DEFINE q == proc["parent"]
             r == proc'["parent"]
             at == q.stack[1].pc
             to == r.stack[1].pc
             o == Before
             c == proc["child"]
             d == proc'["child"]
  <1>1. /\ Running("parent") /\ MoreToDo("parent") /\ Instr("parent").op = "wait" /\ ~Running("child")
        /\ Keeps(q, r, {"inside", "stack", "result"})
        /\ Moved(q.stack, r.stack, Top("parent").pc + 1)
        /\ r.result = IF ~InMain("parent") THEN q.result ELSE IF Zombie("child") THEN c.status ELSE "ECHILD"
        /\ d = IF Zombie("child") THEN [Idle EXCEPT !.status = "reaped"] ELSE c
    BY DEF Reaps
  <1>2. r.status = q.status /\ r.disp = q.disp /\ r.saved = q.saved
    BY <1>1 DEF Keeps, Fields
  <1>3. Len(q.stack) \in Nat \ {0} /\ o \in {0, 2} /\ SystemRuns
    BY <1>1, SystemStands DEF SystemInv
  <1>4. CASE Len(q.stack) # 1
    <2>1. c.status \in {"none", "reaped"}
      BY <1>4, SystemWaiting
    <2>2. d = c /\ r.result = q.result
      BY <1>1, <1>4, <2>1 DEF Zombie, Ended, InMain
    <2>3. to = at
      <3> DEFINE l == Len(q.stack)
      <3> HIDE DEF l
      <3>1. 1 \in 1..l /\ 1 # l
        BY <1>3, <1>4 DEF l
      <3> QED
        BY <1>1, <3>1 DEF Moved, l
    <2> QED
      BY <1>1, <1>2, <2>1, <2>2, <2>3, KeptSystem
  <1>5. CASE Len(q.stack) = 1
    <2>1. at = o + 5 /\ Top("parent").pc = at
      BY <1>1, <1>5, SystemStands
    <2>2. to = o + 6
      <3>1. to = at + 1
        BY <1>1, <1>5, <2>1 DEF Moved
      <3> HIDE DEF o, at, to
      <3> QED
        BY <1>3, <2>1, <3>1
    <2>3. c.status # "reaped"
      <3>1. c.status = "reaped" => at >= o + 6
        BY <1>3 DEF SystemRuns
      <3> HIDE DEF o, at
      <3> QED
        BY <1>3, <2>1, <3>1
    <2>4. d.status = "reaped" => r.result \notin {"none", "ECHILD"}
      <3>1. CASE Zombie("child")
        <4>1. c.status \in Status
          BY DEF CodesInv, SigTypeOK, ProcType, Procs
        <4>2. "ECHILD" \notin Status
          BY DEF Status, Sigs
        <4> QED
          BY <1>1, <1>5, <3>1, <4>1, <4>2 DEF Zombie, Ended, InMain
      <3>2. CASE ~Zombie("child")
        BY <1>1, <2>3, <3>2
      <3> QED
        BY <3>1, <3>2
    <2>5. d.status \in {"none", "reaped"}
      <3>1. CASE Zombie("child")
        BY <1>1, <3>1 DEF Idle
      <3>2. CASE ~Zombie("child")
        BY <1>1, <3>2 DEF Zombie, Ended, Running
      <3> QED
        BY <3>1, <3>2
    <2>6. Running("parent")' /\ Before' = o /\ First' = First
      BY <1>1, <1>2 DEF Running, Before, First
    <2>7. /\ q.disp["INT"] = "SIG_IGN" /\ q.disp["QUIT"] = "SIG_IGN"
          /\ q.saved["INT"] = First /\ q.saved["QUIT"] = "SIG_DFL"
      <3>1. /\ at >= o + 2 /\ at <= o + 6 => q.disp["INT"] = "SIG_IGN"
            /\ at >= o + 3 /\ at <= o + 7 => q.disp["QUIT"] = "SIG_IGN"
            /\ at >= o + 2 => q.saved["INT"] = First
            /\ at >= o + 3 => q.saved["QUIT"] = "SIG_DFL"
        BY <1>3 DEF SystemRuns
      <3> HIDE DEF o, at
      <3> QED
        BY <1>3, <2>1, <3>1
    <2>8. ~(to <= o + 4) /\ ~(to < o + 2) /\ ~(to > o + 6) /\ ~(to < o + 3) /\ ~(to > o + 7) /\ to >= o + 6
      <3> HIDE DEF o, to
      <3> QED
        BY <1>3, <2>2
    <2>9. SystemRuns'
      BY <1>2, <2>4, <2>6, <2>7, <2>8 DEF SystemRuns
    <2> QED
      BY <2>5, <2>9 DEF SystemInv
  <1> QED
    BY <1>4, <1>5

LEMMA StepSystem == ASSUME CodesInv, MaskInv, SystemInv, Shapes PROVE SystemInv'
  <1> DEFINE q == proc["parent"]
             r == proc'["parent"]
             l == Len(q.stack)
             waited == proc["child"].status \notin {"none", "reaped"}
  <1>1. program' = program
    BY DEF Shapes
  <1>2. CASE program \notin Systems
    BY <1>1, <1>2 DEF SystemInv
  <1>3. CASE program \in Systems
    <2> USE <1>1, <1>3
    <2>1. CASE Forks
      BY <2>1, ForksSystem
    <2>2. CASE Reaps
      BY <2>2, ReapsSystem
    <2>3. CASE Stays /\ Dies("child")
      <3>1. /\ r.status = q.status /\ r.stack = q.stack /\ r.disp = q.disp /\ r.saved = q.saved /\ r.result = q.result
        BY <2>3 DEF Stays, Keeps, Fields
      <3>2. waited
        BY <2>3 DEF Dies, Running
      <3>3. proc'["child"].status \notin {"none", "reaped"}
        BY <2>3 DEF Dies, Deliverable, CodesInv, SigTypeOK, ProcType, Procs, Sigs
      <3>4. /\ Running("parent") /\ q.stack[1].pc = Before + 5 /\ l = 1
            /\ Running("parent")' /\ Before' = Before /\ First' = First
        BY <3>1, <3>2, SystemWaiting DEF Running, Before, First
      <3>5. ~(q.stack[1].pc <= Before + 4)
        BY <3>4 DEF Before
      <3>6. SystemRuns'
        BY <3>1, <3>3, <3>4, <3>5 DEF SystemRuns, SystemInv
      <3> QED
        BY <3>1, <3>4, <3>6 DEF SystemInv
    <2>4. ASSUME proc'["child"].status = proc["child"].status
          PROVE  Call("parent") \/ Kills("parent") \/ Jumps("parent") \/ Enters("parent") \/ Leaves("parent")
                   \/ Handles("parent") \/ Returns("parent") \/ Dies("parent") \/ Stays => SystemInv'
      <3>1. CASE Call("parent")
        BY <2>4, <3>1, CallSystem
      <3>2. CASE Kills("parent") \/ Jumps("parent") \/ Leaves("parent")
        <4>1. Running("parent") /\ MoreToDo("parent") /\ Instr("parent").op \in {"kill", "longjmp", "sleep", "command", "read"}
          BY <3>2 DEF Kills, Jumps, Leaves, Calling
        <4> QED
          BY <4>1, SystemNever
      <3>3. CASE Enters("parent")
        <4>1. /\ Running("parent") /\ MoreToDo("parent") /\ Keeps(q, r, {"inside", "before", "mask", "disp"})
              /\ Instr("parent").op # "command" => r.disp = q.disp
          BY <3>3 DEF Enters, Calling
        <4>2. r.disp = q.disp
          BY <4>1, SystemNever
        <4> QED
          BY <2>4, <4>1, <4>2, SameSystem DEF Keeps, Fields
      <3>4. CASE Handles("parent")
        <4>1. PICK s \in Deliverable("parent") :
                /\ Running("parent") /\ q.disp[s] \notin NoHandler
                /\ Keeps(q, r, {"stack", "inside", "mask", "pending", "rings"})
                /\ \A k \in 1..l : r.stack[k].pc = IF k = l /\ q.inside /\ Instr("parent").op \in Interruptible
                                                   THEN q.stack[k].pc + 1 ELSE q.stack[k].pc
          BY <3>4 DEF Handles
        <4>2. ~waited
          BY <4>1, SystemWaiting DEF NoHandler
        <4>3. l \in Nat \ {0} /\ (q.inside => MoreToDo("parent"))
          BY <4>1, SystemStands DEF CodesInv, StackOK, Procs
        <4>4. ~(q.inside /\ Instr("parent").op \in Interruptible)
          BY <4>1, <4>3, SystemNever DEF Interruptible
        <4>5. r.stack[1].pc = q.stack[1].pc
          <5>1. 1 \in 1..l
            BY <4>3
          <5> QED
            BY <4>1, <4>4, <5>1
        <4> QED
          BY <2>4, <4>1, <4>2, <4>5, KeptSystem DEF Keeps, Fields
      <3>5. CASE Returns("parent")
        <4>1. /\ Running("parent") /\ l > 1 /\ Keeps(q, r, {"stack", "mask"})
              /\ \A k \in 1..(l - 1) : r.stack[k] = q.stack[k]
          BY <3>5 DEF Returns
        <4>2. ~waited
          <5>1. waited => l = 1
            BY SystemWaiting
          <5> HIDE DEF l, waited
          <5> QED
            BY <4>1, <5>1
        <4>3. r.stack[1] = q.stack[1]
          <5>1. 1 \in 1..(l - 1)
            <6>1. l \in Nat
              BY <4>1, SystemStands
            <6> HIDE DEF l
            <6> QED
              BY <4>1, <6>1
          <5> QED
            BY <4>1, <5>1
        <4> QED
          BY <2>4, <4>1, <4>2, <4>3, KeptSystem DEF Keeps, Fields
      <3>6. CASE Dies("parent")
        <4>1. PICK how \in {"exited"} \cup Deliverable("parent") :
                /\ how = "exited" => \/ MoreToDo("parent") /\ Instr("parent").op = "exit"
                                     \/ ~MoreToDo("parent")
                /\ how # "exited" => q.disp[how] = "SIG_DFL"
          BY <3>6 DEF Dies
        <4>2. ~waited
          <5>1. ASSUME waited PROVE FALSE
            <6>1. /\ MoreToDo("parent") /\ Instr("parent").op = "wait"
                  /\ \A s \in Deliverable("parent") : q.disp[s] = "SIG_IGN"
              BY <5>1, SystemWaiting
            <6>2. CASE how = "exited"
              BY <4>1, <6>1, <6>2
            <6>3. CASE how # "exited"
              BY <4>1, <6>1, <6>3
            <6> QED
              BY <6>2, <6>3
          <5> QED
            BY <5>1
        <4>3. ~Running("parent")'
          BY <3>6, ParentEnds
        <4> QED
          BY <2>4, <4>2, <4>3 DEF SystemInv
      <3>7. CASE Stays
        BY <2>4, <3>7, SameSystem DEF Stays, Keeps, Fields
      <3> QED
        BY <3>1, <3>2, <3>3, <3>4, <3>5, <3>6, <3>7
    <2> QED
      BY <2>1, <2>2, <2>3, <2>4, BothSteps
  <1> QED
    BY <1>2, <1>3

LEMMA SystemGiven == ASSUME CodesInv, SystemInv PROVE SystemTransparent
  <1> DEFINE q == proc["parent"]
             at == q.stack[1].pc
             o == Before
  <1>1. ASSUME program \in Systems
        PROVE  Running("child") \/ Zombie("child") => Running("parent") /\ InMain("parent")
    BY <1>1 DEF SystemInv, Zombie, Ended, Running, InMain
  <1>2. ASSUME program \in Systems, Finished
        PROVE  /\ proc["child"].status = "reaped" => q.result \notin {"none", "ECHILD"}
               /\ q.disp["INT"] = IF program = "system_m1" THEN "SIG_DFL" ELSE "nop"
               /\ q.disp["QUIT"] = "SIG_DFL"
    <2>1. Running("parent") /\ at > Len(Code[program])
      BY <1>2 DEF Finished, At
    <2>2. o \in {0, 2} /\ at \in Nat /\ Len(Code[program]) = o + 8 /\ SystemRuns
      BY <1>2, <2>1, SystemStands DEF SystemInv
    <2>3. /\ proc["child"].status = "reaped" => q.result \notin {"none", "ECHILD"}
          /\ at < o + 2 \/ at > o + 6 => q.disp["INT"] = IF at >= 2 THEN First ELSE "SIG_DFL"
          /\ at < o + 3 \/ at > o + 7 => q.disp["QUIT"] = "SIG_DFL"
      BY <2>2 DEF SystemRuns
    <2>4. at > o + 6 /\ at > o + 7 /\ at >= 2
      <3>1. at > o + 8
        BY <2>1, <2>2
      <3> HIDE DEF o, at
      <3> QED
        BY <2>2, <3>1
    <2> QED
      BY <2>3, <2>4 DEF First
  <1> QED
    BY <1>1, <1>2 DEF SystemTransparent, Systems

-----------------------------------------------------------------------------
(* TELL and WAIT *)

\* The call that tells, and the signal that is waited for after it.
Tells(z) == IF z = "parent" THEN 5 ELSE 1
Awaited(z) == IF z = "parent" THEN "USR2" ELSE "USR1"

\* Where a process of tell_wait stands, and what its handler calls.
LEMMA TellStands ==
  ASSUME CodesInv, program = "tell_wait", NEW z \in Procs, Running(z)
  PROVE  LET q == proc[z]
             x == Instr(z)
             at == q.stack[1].pc
             k == Tells(z)
         IN /\ at \in Nat \ {0} /\ Len(q.stack) \in Nat \ {0} /\ q \in ProcType
            /\ Len(q.stack) = 1 /\ ~MoreToDo(z) => at > k + 4
            /\ Len(q.stack) = 1 /\ MoreToDo(z) =>
                 /\ Top(z).pc = at /\ x = Code[Top(z).code][at]
                 /\ \/ z = "parent" /\ at = 1 /\ x.op = "signal" /\ x.sig = "USR1" /\ x.handler = Called
                    \/ z = "parent" /\ at = 2 /\ x.op = "signal" /\ x.sig = "USR2" /\ x.handler = Called
                    \/ z = "parent" /\ at = 3 /\ x.op = "block"
                    \/ z = "parent" /\ at = 4 /\ x.op = "fork" /\ x.code = "tell_wait_child"
                    \/ at = k /\ x.op = "kill" /\ x.sig = (IF z = "parent" THEN "USR1" ELSE "USR2")
                              /\ x.to = (IF z = "parent" THEN "child" ELSE "parent")
                    \/ at = k + 1 /\ x.op = "skip_if_flag" /\ x.skip = 2
                    \/ at = k + 2 /\ x.op = "sigsuspend"
                    \/ at = k + 3 /\ x.op = "back" /\ x.n = 2
                    \/ z = "parent" /\ at = 9 /\ x.op = "flag"
                    \/ at = (IF z = "parent" THEN 10 ELSE 5) /\ x.op = "oldmask"
            /\ Len(q.stack) # 1 /\ MoreToDo(z) => x.op = "flag"
  <1> DEFINE q == proc[z]
             x == Instr(z)
             at == q.stack[1].pc
             l == Len(q.stack)
  <1>1. /\ q \in ProcType /\ l \in Nat \ {0} /\ Top(z) = q.stack[l]
        /\ MoreToDo(z) => Top(z).pc \in 1..Len(Code[Top(z).code])
    BY Stands
  <1>2. at \in Nat \ {0}
    <2>1. q.stack \in Seq(FrameType)
      BY <1>1 DEF ProcType
    <2>2. q.stack[1] \in FrameType
      BY <1>1, <2>1
    <2> QED
      BY <2>2 DEF FrameType
  <1>3. q.stack[1].code = IF z = "parent" THEN "tell_wait" ELSE "tell_wait_child"
    BY DEF CodesInv, StackOK, MainCode, Kid, Procs
  <1>4. ASSUME l = 1, ~MoreToDo(z)
        PROVE  at > Tells(z) + 4
    <2>1. ~(at <= Len(Code[q.stack[1].code]))
      BY <1>1, <1>2, <1>4 DEF MoreToDo
    <2>2. CASE z = "parent"
      <3>1. Len(Code["tell_wait"]) = 10
        BY TellWaitCalls
      <3>2. ~(at <= 10)
        BY <1>3, <2>1, <2>2, <3>1
      <3> HIDE DEF at
      <3> QED
        BY <1>2, <2>2, <3>2 DEF Tells
    <2>3. CASE z = "child"
      <3>1. Len(Code["tell_wait_child"]) = 5
        BY TellWaitChildCalls
      <3>2. ~(at <= 5)
        BY <1>3, <2>1, <2>3, <3>1
      <3> HIDE DEF at
      <3> QED
        BY <1>2, <2>3, <3>2 DEF Tells
    <2> QED
      BY <2>2, <2>3 DEF Procs
  <1>5. ASSUME l = 1, MoreToDo(z)
        PROVE  /\ Top(z).pc = at /\ x = Code[Top(z).code][at] /\ Top(z).code = q.stack[1].code
               /\ at \in 1..Len(Code[q.stack[1].code])
    BY <1>1, <1>5 DEF Instr
  <1>6. ASSUME l = 1, MoreToDo(z), z = "parent"
        PROVE  \/ at = 1 /\ x.op = "signal" /\ x.sig = "USR1" /\ x.handler = Called
               \/ at = 2 /\ x.op = "signal" /\ x.sig = "USR2" /\ x.handler = Called
               \/ at = 3 /\ x.op = "block"
               \/ at = 4 /\ x.op = "fork" /\ x.code = "tell_wait_child"
               \/ at = 5 /\ x.op = "kill" /\ x.sig = "USR1" /\ x.to = "child"
               \/ at = 6 /\ x.op = "skip_if_flag" /\ x.skip = 2
               \/ at = 7 /\ x.op = "sigsuspend"
               \/ at = 8 /\ x.op = "back" /\ x.n = 2
               \/ at = 9 /\ x.op = "flag"
               \/ at = 10 /\ x.op = "oldmask"
    <2>1. at \in 1..10 /\ x = Code["tell_wait"][at]
      <3>1. Top(z).code = "tell_wait" /\ q.stack[1].code = "tell_wait"
        BY <1>3, <1>5, <1>6
      <3>2. Len(Code["tell_wait"]) = 10
        BY TellWaitCalls
      <3> QED
        BY <1>5, <1>6, <3>1, <3>2
    <2>2. at = 1 \/ at = 2 \/ at = 3 \/ at = 4 \/ at = 5 \/ at = 6 \/ at = 7 \/ at = 8 \/ at = 9 \/ at = 10
      <3> HIDE DEF at
      <3> QED
        BY <2>1
    <2> HIDE DEF x, at
    <2> QED
      BY <2>1, <2>2, TellWaitCalls DEF Called
  <1>7. ASSUME l = 1, MoreToDo(z), z = "child"
        PROVE  \/ at = 1 /\ x.op = "kill" /\ x.sig = "USR2" /\ x.to = "parent"
               \/ at = 2 /\ x.op = "skip_if_flag" /\ x.skip = 2
               \/ at = 3 /\ x.op = "sigsuspend"
               \/ at = 4 /\ x.op = "back" /\ x.n = 2
               \/ at = 5 /\ x.op = "oldmask"
    <2>1. at \in 1..5 /\ x = Code["tell_wait_child"][at]
      <3>1. Top(z).code = "tell_wait_child" /\ q.stack[1].code = "tell_wait_child"
        BY <1>3, <1>5, <1>7
      <3>2. Len(Code["tell_wait_child"]) = 5
        BY TellWaitChildCalls
      <3> QED
        BY <1>5, <1>7, <3>1, <3>2
    <2>2. at = 1 \/ at = 2 \/ at = 3 \/ at = 4 \/ at = 5
      <3> HIDE DEF at
      <3> QED
        BY <2>1
    <2> HIDE DEF x, at
    <2> QED
      BY <2>1, <2>2, TellWaitChildCalls
  <1>8. ASSUME l # 1, MoreToDo(z)
        PROVE  x.op = "flag"
    <2>1. l \in 2..l
      <3> HIDE DEF l
      <3> QED
        BY <1>1, <1>8
    <2>2. <<q.stack[l].sig, q.stack[l].code>> \in HandlersOf["tell_wait"]
      BY <2>1 DEF CodesInv, StackOK
    <2>3. Top(z).code = "usr_signal_handler"
      BY <1>1, <2>2, HandlersAre
    <2>4. Len(Code["usr_signal_handler"]) = 1
      BY UsrSignalHandlerCalls
    <2>5. Top(z).pc \in 1..1
      BY <1>1, <1>8, <2>3, <2>4
    <2>6. Top(z).pc = 1
      BY <2>5
    <2> QED
      BY <2>3, <2>6, UsrSignalHandlerCalls DEF Instr
  <1>9. z = "parent" \/ z = "child"
    BY DEF Procs
  <1> HIDE DEF x, at, q, l
  <1>10. CASE z = "parent"
    BY <1>1, <1>2, <1>4, <1>5, <1>6, <1>8, <1>10 DEF Tells, x, at, q, l
  <1>11. CASE z = "child"
    BY <1>1, <1>2, <1>4, <1>5, <1>7, <1>8, <1>11 DEF Tells, x, at, q, l
  <1> QED
    BY <1>9, <1>10, <1>11

\* What a step of a process of tell_wait that concerns nobody else may do: it passes
\* neither the call that tells nor fork, and it passes the wait only when it was told.
TellMove(z) ==
  LET q == proc[z]
      r == proc'[z]
      at == q.stack[1].pc
      to == r.stack[1].pc
      k == Tells(z)
  IN /\ r.status = q.status /\ r.pending \subseteq q.pending
     /\ to \in Nat /\ (to > k <=> at > k)
     /\ z = "parent" => (to <= 4 <=> at <= 4)
     /\ Signalled(z, Awaited(z))' \/ to > k + 3 => Signalled(z, Awaited(z)) \/ at > k + 3
     /\ \A u \in {"USR1", "USR2"} : r.disp[u] = q.disp[u] \/ r.disp[u] = Called
     /\ z = "parent" => /\ at < 2 /\ to >= 2 => r.disp["USR1"] = Called
                        /\ at < 3 /\ to >= 3 => r.disp["USR2"] = Called

\* The main function stays where it is, its actions stay, and if a handler runs or may
\* start then the process was told.
LEMMA TellStays ==
  ASSUME CodesInv, program = "tell_wait", NEW z \in Procs, Running(z),
         LET q == proc[z]
             r == proc'[z]
         IN /\ r.status = q.status /\ r.pending \subseteq q.pending /\ r.stack[1].pc = q.stack[1].pc
            /\ \A u \in {"USR1", "USR2"} : r.disp[u] = q.disp[u]
            /\ Signalled(z, Awaited(z)) \/ ~Signalled(z, Awaited(z))'
  PROVE  TellMove(z)
  <1>1. proc[z].stack[1].pc \in Nat
    BY TellStands
  <1> QED
    BY <1>1 DEF TellMove

LEMMA TellCalls ==
  ASSUME CodesInv, program = "tell_wait", NEW z \in Procs, Call(z)
  PROVE  TellMove(z)
  <1> DEFINE q == proc[z]
             r == proc'[z]
             at == q.stack[1].pc
             to == r.stack[1].pc
             k == Tells(z)
             x == Instr(z)
             l == Len(q.stack)
  <1>1. Running(z) /\ MoreToDo(z) /\ x.op \in CallOps /\ Effect(z, r)
    BY DEF Call, Calling
  <1>2. /\ r.status = q.status
        /\ r.pending = IF x.op = "ignore" THEN q.pending \ {x.sig} ELSE q.pending
        /\ x.op \notin {"flag", "flag_on"} => r.flag = q.flag
        /\ \A s \in {"USR1", "USR2"} :
             r.disp[s] = IF x.op \notin {"signal", "ignore", "restore", "unignore"} \/ s # x.sig THEN q.disp[s]
                         ELSE IF x.op = "signal" THEN x.handler
                         ELSE IF x.op = "ignore" THEN "SIG_IGN"
                         ELSE IF x.op = "restore" THEN q.saved[s]
                         ELSE IF q.disp[s] = "SIG_IGN" THEN "SIG_DFL" ELSE q.disp[s]
    BY <1>1 DEF Effect, Keeps, Fields, Sigs
  <1>3. PICK j \in Succ(Top(z).code, Top(z).pc) :
          /\ Moved(q.stack, r.stack, j)
          /\ x.op = "skip_if_flag" => j = Top(z).pc + (IF q.flag THEN 1 + x.skip ELSE 1)
          /\ x.op # "fork"
    BY DEF Call
  <1>4. l \in Nat \ {0} /\ at \in Nat \ {0} /\ Len(r.stack) = l
    BY <1>1, <1>3, TellStands DEF Moved
  <1>5. CASE l # 1
    <2>1. x.op = "flag"
      BY <1>1, <1>5, TellStands
    <2>2. to = at /\ l > 1
      <3> HIDE DEF l
      <3>1. 1 \in 1..l /\ 1 # l /\ l > 1
        BY <1>4, <1>5
      <3> QED
        BY <1>3, <3>1 DEF Moved, l
    <2>3. r.pending = q.pending /\ \A u \in {"USR1", "USR2"} : r.disp[u] = q.disp[u]
      BY <1>2, <2>1
    <2>4. Signalled(z, Awaited(z))
      BY <2>2 DEF Signalled
    <2> QED
      BY <1>1, <1>2, <2>2, <2>3, <2>4, TellStays
  <1>6. CASE l = 1
    <2>1. /\ Top(z).pc = at /\ x = Code[Top(z).code][at]
          /\ \/ z = "parent" /\ at = 1 /\ x.op = "signal" /\ x.sig = "USR1" /\ x.handler = Called
             \/ z = "parent" /\ at = 2 /\ x.op = "signal" /\ x.sig = "USR2" /\ x.handler = Called
             \/ z = "parent" /\ at = 3 /\ x.op = "block"
             \/ at = k + 1 /\ x.op = "skip_if_flag" /\ x.skip = 2
             \/ at = k + 3 /\ x.op = "back" /\ x.n = 2
             \/ z = "parent" /\ at = 9 /\ x.op = "flag"
             \/ at = (IF z = "parent" THEN 10 ELSE 5) /\ x.op = "oldmask"
      <3>1. x.op \notin {"fork", "kill", "sigsuspend"}
        BY <1>1, <1>3 DEF CallOps
      <3> QED
        BY <1>1, <1>6, <3>1, TellStands
    <2>2. to = j
      BY <1>3, <1>6 DEF Moved
    <2>3. /\ x.op = "skip_if_flag" => j = at + (IF q.flag THEN 3 ELSE 1)
          /\ x.op = "back" => j = at - 2
          /\ x.op \notin {"skip_if_flag", "back"} => j = at + 1
      <3>1. x.op = "skip_if_flag" => x.skip = 2
        BY <2>1
      <3>2. x.op = "back" => x.n = 2
        BY <2>1
      <3>3. x.op = "skip_if_flag" => j = at + (IF q.flag THEN 3 ELSE 1)
        <4>1. x.op = "skip_if_flag" => j = at + (IF q.flag THEN 1 + x.skip ELSE 1)
          BY <1>3, <2>1
        <4> HIDE DEF x, q, at
        <4> QED
          BY <1>4, <3>1, <4>1
      <3>4. x.op = "back" => j = at - 2
        BY <1>3, <2>1, <3>2 DEF Succ
      <3>5. ASSUME x.op \notin {"skip_if_flag", "back"}
            PROVE  j = at + 1
        <4>1. x.op \notin {"back", "go", "give_up", "return_unless_flag"} /\ x.op \notin SkipOps
          BY <2>1, <3>5 DEF SkipOps
        <4> QED
          BY <1>3, <2>1, <4>1 DEF Succ
      <3> QED
        BY <3>3, <3>4, <3>5
    <2>4. r.pending = q.pending
      BY <1>2, <2>1
    <2>5. \A u \in {"USR1", "USR2"} :
            r.disp[u] = IF x.op = "signal" /\ u = x.sig THEN x.handler ELSE q.disp[u]
      <3>1. x.op \notin {"ignore", "restore", "unignore"}
        BY <2>1
      <3> HIDE DEF x, q, r
      <3> QED
        BY <1>2, <3>1
    <2>6. \A u \in {"USR1", "USR2"} : r.disp[u] = q.disp[u] \/ r.disp[u] = Called
      <3>1. x.op = "signal" => x.handler = Called
        BY <2>1
      <3> HIDE DEF x, q, r
      <3> QED
        BY <2>5, <3>1
    <2>7. Signalled(z, Awaited(z))' => Signalled(z, Awaited(z)) \/ x.op = "flag"
      <3>1. x.op \notin {"flag", "flag_on"} => r.flag = q.flag
        BY <1>2
      <3>2. x.op # "flag_on"
        BY <2>1
      <3>3. Awaited(z)' = Awaited(z)
        BY DEF Awaited
      <3> QED
        BY <1>4, <2>4, <3>1, <3>2, <3>3 DEF Signalled
    <2>8. x.op = "skip_if_flag" /\ q.flag => Signalled(z, Awaited(z))
      BY DEF Signalled
    <2>9. k = IF z = "parent" THEN 5 ELSE 1
      BY DEF Tells
    <2>10. /\ to \in Nat /\ (to > k <=> at > k)
           /\ z = "parent" => (to <= 4 <=> at <= 4)
           /\ to > k + 3 => (x.op = "skip_if_flag" /\ q.flag) \/ at > k + 3
           /\ x.op = "flag" => at > k + 3
           /\ z = "parent" => /\ at < 2 /\ to >= 2 => x.op = "signal" /\ x.sig = "USR1"
                              /\ at < 3 /\ to >= 3 => x.op = "signal" /\ x.sig = "USR2"
      <3> HIDE DEF x, q, r, at, to, k
      <3>1. CASE z = "parent"
        BY <1>4, <2>1, <2>2, <2>3, <2>9, <3>1
      <3>2. CASE z = "child"
        BY <1>4, <2>1, <2>2, <2>3, <2>9, <3>2
      <3> QED
        BY <3>1, <3>2 DEF Procs
    <2>11. z = "parent" => /\ at < 2 /\ to >= 2 => r.disp["USR1"] = Called
                           /\ at < 3 /\ to >= 3 => r.disp["USR2"] = Called
      <3>1. x.op = "signal" => x.handler = Called
        BY <2>1
      <3> HIDE DEF x, q, r, at, to
      <3> QED
        BY <2>5, <2>10, <3>1
    <2>12. Signalled(z, Awaited(z))' \/ to > k + 3 => Signalled(z, Awaited(z)) \/ at > k + 3
      BY <2>7, <2>8, <2>10
    <2> QED
      BY <1>2, <2>4, <2>6, <2>10, <2>11, <2>12 DEF TellMove
  <1> QED
    BY <1>5, <1>6

LEMMA TellMoves ==
  ASSUME CodesInv, program = "tell_wait", NEW z \in Procs,
         IF z = "parent" THEN "USR1" \notin proc[z].pending ELSE "USR2" \notin proc[z].pending,
         Call(z) \/ Jumps(z) \/ Enters(z) \/ Leaves(z) \/ Handles(z) \/ Returns(z)
  PROVE  Running(z) /\ TellMove(z)
  <1> DEFINE q == proc[z]
             r == proc'[z]
             at == q.stack[1].pc
             to == r.stack[1].pc
             k == Tells(z)
             x == Instr(z)
             l == Len(q.stack)
             told == Signalled(z, Awaited(z))
  <1>1. CASE Call(z)
    BY <1>1, TellCalls DEF Call, Calling
  <1>2. ASSUME Running(z), MoreToDo(z)
        PROVE  x.op \in {"signal", "block", "fork", "kill", "skip_if_flag", "sigsuspend", "back", "flag", "oldmask"}
    <2>1. CASE l = 1
      BY <1>2, <2>1, TellStands
    <2>2. CASE l # 1
      BY <1>2, <2>2, TellStands
    <2> QED
      BY <2>1, <2>2
  <1>3. CASE Jumps(z) \/ Leaves(z)
    <2>1. Running(z) /\ MoreToDo(z) /\ x.op \in {"longjmp", "sleep", "command", "read"}
      BY <1>3 DEF Jumps, Leaves, Calling
    <2> QED
      BY <1>2, <2>1
  <1>4. CASE Enters(z)
    <2>1. /\ Running(z) /\ MoreToDo(z) /\ Keeps(q, r, {"inside", "before", "mask", "disp"})
          /\ x.op # "command" => r.disp = q.disp
      BY <1>4 DEF Enters, Calling
    <2>2. r.disp = q.disp
      BY <1>2, <2>1
    <2>3. r.status = q.status /\ r.pending = q.pending /\ r.stack = q.stack /\ r.flag = q.flag
      BY <2>1 DEF Keeps, Fields
    <2>4. told' => told
      BY <2>3 DEF Signalled, Awaited
    <2> QED
      BY <2>1, <2>2, <2>3, <2>4, TellStays
  <1>5. CASE Returns(z)
    <2>1. /\ Running(z) /\ l > 1 /\ Keeps(q, r, {"stack", "mask"})
          /\ \A i \in 1..(l - 1) : r.stack[i] = q.stack[i]
      BY <1>5 DEF Returns
    <2>2. told
      BY <2>1 DEF Signalled
    <2>3. to = at
      <3>1. l \in Nat
        BY <2>1, TellStands
      <3>2. 1 \in 1..(l - 1)
        <4> HIDE DEF l
        <4> QED
          BY <2>1, <3>1
      <3> QED
        BY <2>1, <3>2
    <2>4. r.status = q.status /\ r.pending = q.pending /\ r.disp = q.disp
      BY <2>1 DEF Keeps, Fields
    <2> QED
      BY <2>1, <2>2, <2>3, <2>4, TellStays
  <1>6. CASE Handles(z)
    <2>1. PICK s \in Deliverable(z) :
            /\ Running(z) /\ q.disp[s] \notin NoHandler
            /\ Keeps(q, r, {"stack", "inside", "mask", "pending", "rings"})
            /\ r.pending = q.pending \ {s}
            /\ \A i \in 1..l : r.stack[i].pc = IF i = l /\ q.inside /\ x.op \in Interruptible
                                               THEN q.stack[i].pc + 1 ELSE q.stack[i].pc
      BY <1>6 DEF Handles
    <2>2. s \in q.pending /\ s \in {"USR1", "USR2"}
      <3>1. s \in q.pending /\ s \in Sigs
        BY <2>1 DEF Deliverable, CodesInv, SigTypeOK, ProcType
      <3>2. <<s, q.disp[s]>> \in HandlersOf["tell_wait"]
        BY <2>1, <3>1 DEF CodesInv, HandlersOK
      <3> QED
        BY <3>1, <3>2, HandlersAre
    <2>3. told
      BY <2>2 DEF Signalled, Awaited
    <2>4. r.status = q.status /\ r.pending \subseteq q.pending /\ r.disp = q.disp
      BY <2>1 DEF Keeps, Fields
    <2>5. l \in Nat \ {0} /\ at \in Nat \ {0}
      BY <2>1, TellStands
    <2>6. r.stack[1].pc = IF 1 = l /\ q.inside /\ x.op \in Interruptible THEN at + 1 ELSE at
      <3>1. 1 \in 1..l
        BY <2>5
      <3> QED
        BY <2>1, <3>1
    <2>7. CASE to = at
      BY <2>1, <2>3, <2>4, <2>7, TellStays
    <2>8. CASE to # at
      <3>1. l = 1 /\ q.inside /\ x.op \in Interruptible /\ to = at + 1
        BY <2>6, <2>8
      <3>2. MoreToDo(z)
        BY <2>1, <3>1 DEF CodesInv, StackOK
      <3>3. at = k + 2
        <4>1. x.op \notin {"signal", "block", "fork", "kill", "skip_if_flag", "back", "flag", "oldmask"}
          BY <3>1 DEF Interruptible
        <4> QED
          BY <2>1, <3>1, <3>2, <4>1, TellStands
      <3>4. k = 5 \/ (k = 1 /\ z # "parent")
        BY DEF Tells
      <3>5. /\ to \in Nat /\ (to > k <=> at > k) /\ ~(to > k + 3)
            /\ z = "parent" => (to <= 4 <=> at <= 4) /\ ~(at < 2) /\ ~(at < 3)
        <4> HIDE DEF k, at, to
        <4> QED
          BY <2>5, <3>1, <3>3, <3>4
      <3>6. \A u \in {"USR1", "USR2"} : r.disp[u] = q.disp[u]
        BY <2>4
      <3>7. /\ z = "parent" => /\ at < 2 /\ to >= 2 => r.disp["USR1"] = Called
                               /\ at < 3 /\ to >= 3 => r.disp["USR2"] = Called
            /\ z = "parent" => (to <= 4 <=> at <= 4)
        <4> HIDE DEF at, to
        <4> QED
          BY <3>5
      <3>8. to \in Nat /\ (to > k <=> at > k)
        BY <3>5
      <3>9. told' \/ to > k + 3 => told \/ at > k + 3
        BY <2>3
      <3>10. TellMove(z)
        BY <2>4, <3>6, <3>7, <3>8, <3>9 DEF TellMove
      <3> QED
        BY <2>1, <3>10
    <2> QED
      BY <2>1, <2>7, <2>8
  <1> QED
    BY <1>1, <1>3, <1>4, <1>5, <1>6

LEMMA TellParent ==
  ASSUME CodesInv, TellInv, program = "tell_wait", program' = program, Running("parent"), TellMove("parent"),
         proc'["child"] = proc["child"]
  PROVE  TellInv'
  <1> DEFINE q == proc["parent"]
             r == proc'["parent"]
             c == proc["child"]
             at == q.stack[1].pc
             to == r.stack[1].pc
  <1>1. /\ q.status \in {"running", "exited"} /\ c.status \in {"none", "running", "exited"}
        /\ "USR1" \notin q.pending /\ "USR2" \notin c.pending
        /\ c.status = "none" <=> at <= 4
        /\ (at >= 2 => q.disp["USR1"] = Called) /\ (at >= 3 => q.disp["USR2"] = Called)
        /\ Running("child") => c.disp["USR1"] = Called /\ c.disp["USR2"] = Called
        /\ Signalled("parent", "USR2") \/ at > 8 => ChildCame
        /\ c.status = "exited" \/ (Running("child") /\ (Signalled("child", "USR1") \/ c.stack[1].pc >= 5)) => at >= 6
    BY DEF TellInv, ParentCame
  <1>2. /\ r.status = q.status /\ r.pending \subseteq q.pending
        /\ to \in Nat /\ (to > 5 <=> at > 5) /\ (to <= 4 <=> at <= 4)
        /\ Signalled("parent", "USR2")' \/ to > 8 => Signalled("parent", "USR2") \/ at > 8
        /\ \A u \in {"USR1", "USR2"} : r.disp[u] = q.disp[u] \/ r.disp[u] = Called
        /\ at < 2 /\ to >= 2 => r.disp["USR1"] = Called
        /\ at < 3 /\ to >= 3 => r.disp["USR2"] = Called
    BY DEF TellMove, Tells, Awaited
  <1>3. at \in Nat
    BY TellStands DEF Procs
  <1>4. /\ ChildCame' <=> ChildCame
        /\ Running("child")' <=> Running("child")
        /\ Signalled("child", "USR1")' <=> Signalled("child", "USR1")
        /\ Running("parent")'
    BY <1>2 DEF ChildCame, Running, Signalled
  <1>5. (to >= 2 => r.disp["USR1"] = Called) /\ (to >= 3 => r.disp["USR2"] = Called)
    <2> HIDE DEF at, to, q, r
    <2> QED
      BY <1>1, <1>2, <1>3
  <1>6. (at >= 6 => to >= 6) /\ (c.status = "none" <=> to <= 4)
    <2> HIDE DEF at, to, c
    <2> QED
      BY <1>1, <1>2, <1>3
  <1>7. Signalled("parent", "USR2")' \/ to > 8 => ChildCame'
    BY <1>1, <1>2, <1>4
  <1>8. c.status = "exited" \/ (Running("child")' /\ (Signalled("child", "USR1")' \/ c.stack[1].pc >= 5)) => to >= 6
    BY <1>1, <1>4, <1>6
  <1>9. r.status \in {"running", "exited"} /\ "USR1" \notin r.pending
    BY <1>1, <1>2
  <1> QED
    BY <1>1, <1>4, <1>5, <1>6, <1>7, <1>8, <1>9 DEF TellInv, ParentCame

LEMMA TellChild ==
  ASSUME CodesInv, TellInv, program = "tell_wait", program' = program, Running("child"), TellMove("child"),
         proc'["parent"] = proc["parent"]
  PROVE  TellInv'
  <1> DEFINE q == proc["parent"]
             c == proc["child"]
             d == proc'["child"]
             at == c.stack[1].pc
             to == d.stack[1].pc
  <1>1. /\ q.status \in {"running", "exited"} /\ c.status \in {"none", "running", "exited"}
        /\ "USR1" \notin q.pending /\ "USR2" \notin c.pending
        /\ c.status = "none" <=> Running("parent") /\ q.stack[1].pc <= 4
        /\ Running("parent") => (/\ q.stack[1].pc >= 2 => q.disp["USR1"] = Called
                                 /\ q.stack[1].pc >= 3 => q.disp["USR2"] = Called)
        /\ c.disp["USR1"] = Called /\ c.disp["USR2"] = Called
        /\ Signalled("parent", "USR2") \/ (Running("parent") => q.stack[1].pc > 8) => ChildCame
        /\ Signalled("child", "USR1") \/ at >= 5 => ParentCame
    BY DEF TellInv
  <1>2. /\ d.status = c.status /\ d.pending \subseteq c.pending
        /\ to \in Nat /\ (to > 1 <=> at > 1)
        /\ Signalled("child", "USR1")' \/ to > 4 => Signalled("child", "USR1") \/ at > 4
        /\ \A u \in {"USR1", "USR2"} : d.disp[u] = c.disp[u] \/ d.disp[u] = Called
    BY DEF TellMove, Tells, Awaited
  <1>3. at \in Nat
    BY TellStands DEF Procs
  <1>4. /\ ParentCame' <=> ParentCame
        /\ Running("parent")' <=> Running("parent")
        /\ Signalled("parent", "USR2")' <=> Signalled("parent", "USR2")
        /\ Running("child")' /\ d.status = "running"
    BY <1>2 DEF ParentCame, Running, Signalled
  <1>5. ChildCame => ChildCame'
    BY <1>2, <1>4 DEF ChildCame, Running
  <1>6. Signalled("child", "USR1")' \/ to >= 5 => ParentCame'
    <2>1. Signalled("child", "USR1") \/ at > 4 => ParentCame
      <3> HIDE DEF at
      <3> QED
        BY <1>1, <1>3
    <2>2. to >= 5 => to > 4
      <3> HIDE DEF to
      <3> QED
        BY <1>2
    <2> QED
      BY <1>2, <1>4, <2>1, <2>2
  <1>7. d.disp["USR1"] = Called /\ d.disp["USR2"] = Called /\ "USR2" \notin d.pending
    BY <1>1, <1>2
  <1>8. Signalled("parent", "USR2")' \/ (Running("parent")' => q.stack[1].pc > 8) => ChildCame'
    BY <1>1, <1>4, <1>5
  <1> QED
    BY <1>1, <1>2, <1>4, <1>6, <1>7, <1>8 DEF TellInv

\* No signal ends a process of tell_wait.
LEMMA TellExits ==
  ASSUME CodesInv, TellInv, program = "tell_wait", NEW z \in Procs, Dies(z)
  PROVE  /\ Running(z) /\ proc'[z].status = "exited" /\ proc'[z].pending = {}
         /\ proc[z].stack[1].pc > Tells(z) + 4
  <1> DEFINE q == proc[z]
             at == q.stack[1].pc
  <1>1. PICK how \in {"exited"} \cup Deliverable(z) :
          /\ how = "exited" => \/ MoreToDo(z) /\ Instr(z).op = "exit"
                               \/ ~MoreToDo(z) /\ InMain(z) /\ Deliverable(z) = {}
          /\ how # "exited" => q.disp[how] = "SIG_DFL" /\ how # "CHLD"
          /\ proc'[z].status = how
          /\ Keeps(Idle, proc'[z], {"status", "mask", "disp", "result"})
          /\ Running(z)
    BY DEF Dies
  <1>2. how = "exited"
    <2>1. ASSUME how # "exited" PROVE FALSE
      <3>1. how \in q.pending /\ q.disp[how] = "SIG_DFL" /\ how # "CHLD"
        BY <1>1, <2>1 DEF Deliverable
      <3>2. how \in {"USR1", "USR2"}
        BY <3>1 DEF CodesInv, PendingOK, PendingOf
      <3>3. Called # "SIG_DFL"
        BY DEF Called
      <3>4. CASE z = "child"
        BY <1>1, <3>1, <3>2, <3>3, <3>4 DEF TellInv
      <3>5. CASE z = "parent"
        <4>1. how = "USR2"
          BY <3>1, <3>2, <3>5 DEF TellInv
        <4>2. ChildCame
          BY <3>1, <3>5, <4>1 DEF TellInv, Signalled
        <4>3. ~(at <= 4)
          BY <1>1, <3>5, <4>2 DEF TellInv, ChildCame, Running
        <4>4. at \in Nat
          BY <1>1, TellStands
        <4>5. at >= 3
          <5> HIDE DEF at
          <5> QED
            BY <4>3, <4>4
        <4> QED
          BY <1>1, <3>1, <3>3, <3>5, <4>1, <4>5 DEF TellInv
      <3> QED
        BY <3>4, <3>5 DEF Procs
    <2> QED
      BY <2>1
  <1>3. ~MoreToDo(z) /\ Len(q.stack) = 1
    <2>1. MoreToDo(z) => Instr(z).op # "exit"
      <3>1. CASE Len(q.stack) = 1
        BY <1>1, <3>1, TellStands
      <3>2. CASE Len(q.stack) # 1
        BY <1>1, <3>2, TellStands
      <3> QED
        BY <3>1, <3>2
    <2> QED
      BY <1>1, <1>2, <2>1 DEF InMain
  <1>4. at > Tells(z) + 4
    BY <1>1, <1>3, TellStands
  <1>5. proc'[z].pending = {}
    BY <1>1 DEF Keeps, Fields, Idle
  <1> QED
    BY <1>1, <1>2, <1>4, <1>5

LEMMA TellKills ==
  ASSUME CodesInv, TellInv, program = "tell_wait", program' = program, NEW z \in Procs, Kills(z)
  PROVE  TellInv'
  <1> DEFINE q == proc["parent"]
             r == proc'["parent"]
             c == proc["child"]
             d == proc'["child"]
             x == Instr(z)
             at == proc[z].stack[1].pc
             to == proc'[z].stack[1].pc
  <1>1. /\ Running(z) /\ MoreToDo(z) /\ x.op = "kill"
        /\ \A y \in Procs :
             /\ Keeps(proc[y], proc'[y], {"stack", "pending"})
             /\ IF y = z THEN Moved(proc[y].stack, proc'[y].stack, Top(z).pc + 1) ELSE proc'[y].stack = proc[y].stack
             /\ IF y = x.to THEN Gets(proc[y], proc'[y], x.sig) ELSE proc'[y].pending = proc[y].pending
    BY DEF Kills, Calling
  <1>2. Len(proc[z].stack) = 1
    BY <1>1, TellStands
  <1>3. /\ at = Tells(z) /\ Top(z).pc = at
        /\ x.sig = (IF z = "parent" THEN "USR1" ELSE "USR2") /\ x.to = (IF z = "parent" THEN "child" ELSE "parent")
    BY <1>1, <1>2, TellStands
  <1>4. to = Tells(z) + 1 /\ Len(proc'[z].stack) = 1
    BY <1>1, <1>2, <1>3 DEF Moved
  <1>5. /\ r.status = q.status /\ r.disp = q.disp /\ r.flag = q.flag
        /\ d.status = c.status /\ d.disp = c.disp /\ d.flag = c.flag
    BY <1>1 DEF Keeps, Fields, Procs
  <1>6. (Running("parent")' <=> Running("parent")) /\ (Running("child")' <=> Running("child"))
    BY <1>5 DEF Running
  <1>7. CASE z = "parent"
    <2>1. q.stack[1].pc = 5 /\ r.stack[1].pc = 6 /\ Len(r.stack) = 1
      BY <1>3, <1>4, <1>7 DEF Tells
    <2>2. d.stack = c.stack /\ d.pending \subseteq c.pending \cup {"USR1"} /\ r.pending = q.pending
      BY <1>1, <1>3, <1>7 DEF Gets, Procs
    <2>3. ParentCame'
      BY <2>1 DEF ParentCame
    <2>4. ChildCame' <=> ChildCame
      BY <1>5, <1>6, <2>2 DEF ChildCame
    <2>5. Signalled("parent", "USR2")' <=> Signalled("parent", "USR2")
      BY <1>2, <1>5, <1>7, <2>1, <2>2 DEF Signalled
    <2> QED
      BY <1>1, <1>5, <1>6, <1>7, <2>1, <2>2, <2>3, <2>4, <2>5 DEF TellInv
  <1>8. CASE z = "child"
    <2>1. c.stack[1].pc = 1 /\ d.stack[1].pc = 2 /\ Len(d.stack) = 1
      BY <1>3, <1>4, <1>8 DEF Tells
    <2>2. r.stack = q.stack /\ r.pending \subseteq q.pending \cup {"USR2"} /\ d.pending = c.pending
      BY <1>1, <1>3, <1>8 DEF Gets, Procs
    <2>3. ChildCame'
      BY <1>1, <1>6, <1>8, <2>1 DEF ChildCame
    <2>4. ParentCame' <=> ParentCame
      BY <1>6, <2>2 DEF ParentCame
    <2>5. Signalled("child", "USR1")' <=> Signalled("child", "USR1")
      BY <1>2, <1>5, <1>8, <2>1, <2>2 DEF Signalled
    <2> QED
      BY <1>1, <1>5, <1>6, <1>8, <2>1, <2>2, <2>3, <2>4, <2>5 DEF TellInv
  <1> QED
    BY <1>7, <1>8 DEF Procs

LEMMA TellForks ==
  ASSUME CodesInv, TellInv, program = "tell_wait", program' = program, Forks
  PROVE  TellInv'
  <1> DEFINE q == proc["parent"]
             r == proc'["parent"]
             d == proc'["child"]
             x == Instr("parent")
  <1>1. /\ Running("parent") /\ MoreToDo("parent") /\ x.op = "fork"
        /\ Keeps(q, r, {"stack"}) /\ Keeps(q, d, {"stack", "pending", "alarm"})
        /\ Moved(q.stack, r.stack, Top("parent").pc + 1)
        /\ d.stack = <<Frame(x.code, "none", {})>> /\ d.pending = {}
    BY DEF Forks, Calling
  <1>2. Len(q.stack) = 1
    BY <1>1, TellStands DEF Procs
  <1>3. q.stack[1].pc = 4 /\ Top("parent").pc = 4
    BY <1>1, <1>2, TellStands DEF Procs
  <1>4. r.stack[1].pc = 5 /\ Len(r.stack) = 1 /\ d.stack[1].pc = 1 /\ Len(d.stack) = 1
    BY <1>1, <1>2, <1>3 DEF Moved, Frame
  <1>5. /\ r.status = q.status /\ r.disp = q.disp /\ r.flag = q.flag /\ r.pending = q.pending
        /\ d.status = q.status /\ d.disp = q.disp /\ d.flag = q.flag
    BY <1>1 DEF Keeps, Fields
  <1>6. proc["child"].status = "none"
    BY <1>1, <1>3 DEF TellInv
  <1>7. ~ChildCame
    BY <1>6 DEF ChildCame, Running
  <1>8. q.flag # TRUE /\ "USR2" \notin q.pending
    BY <1>7 DEF TellInv, Signalled
  <1>9. Running("parent")' /\ Running("child")' /\ d.status = "running"
    BY <1>1, <1>5 DEF Running
  <1>10. q.flag \in BOOLEAN
    BY <1>1, TellStands DEF ProcType, Procs
  <1>11. ~Signalled("parent", "USR2")' /\ ~Signalled("child", "USR1")'
    <2>1. q.flag = FALSE
      BY <1>8, <1>10
    <2>2. r.flag = FALSE /\ d.flag = FALSE
      BY <1>5, <2>1
    <2>3. "USR2" \notin r.pending /\ ~(Len(r.stack) > 1) /\ "USR1" \notin d.pending /\ ~(Len(d.stack) > 1)
      BY <1>1, <1>4, <1>5, <1>8
    <2> QED
      BY <2>2, <2>3 DEF Signalled
  <1>12. q.disp["USR1"] = Called /\ q.disp["USR2"] = Called /\ "USR1" \notin q.pending
    BY <1>1, <1>3 DEF TellInv
  <1> QED
    BY <1>1, <1>4, <1>5, <1>9, <1>11, <1>12 DEF TellInv

LEMMA TellDies ==
  ASSUME CodesInv, TellInv, program = "tell_wait", program' = program, NEW z \in Procs, Dies(z)
  PROVE  TellInv'
  <1> DEFINE q == proc["parent"]
             r == proc'["parent"]
             c == proc["child"]
             d == proc'["child"]
  <1>1. Running(z) /\ proc'[z].status = "exited" /\ proc'[z].pending = {} /\ proc[z].stack[1].pc > Tells(z) + 4
    BY TellExits
  <1>2. proc[z].stack[1].pc \in Nat
    BY <1>1, TellStands
  <1>3. CASE z = "parent"
    <2>1. d = c
      BY <1>3 DEF Dies
    <2>2. q.stack[1].pc > 8
      <3> DEFINE at == q.stack[1].pc
      <3>1. at > 5 + 4 /\ at \in Nat
        BY <1>1, <1>2, <1>3 DEF Tells
      <3> HIDE DEF at
      <3>2. at > 8
        BY <3>1
      <3> QED
        BY <3>2 DEF at
    <2>3. ChildCame
      BY <2>2 DEF TellInv
    <2>4. ChildCame' /\ c.status # "none"
      BY <2>1, <2>3 DEF ChildCame, Running
    <2>5. ~Running("parent")' /\ ParentCame'
      BY <1>1, <1>3 DEF Running, ParentCame
    <2>6. (Running("child")' <=> Running("child"))
      BY <2>1 DEF Running
    <2> QED
      BY <1>1, <1>3, <2>1, <2>4, <2>5, <2>6 DEF TellInv
  <1>4. CASE z = "child"
    <2>1. Keeps(q, r, {"pending"}) /\ Gets(q, r, "CHLD")
      BY <1>4 DEF Dies
    <2>2. r.status = q.status /\ r.stack = q.stack /\ r.disp = q.disp
      BY <2>1 DEF Keeps, Fields
    <2>3. r.pending \subseteq q.pending \cup {"CHLD"}
      BY <2>1 DEF Gets
    <2>4. c.stack[1].pc >= 5
      <3> DEFINE at == c.stack[1].pc
      <3>1. at > 1 + 4 /\ at \in Nat
        BY <1>1, <1>2, <1>4 DEF Tells
      <3> HIDE DEF at
      <3>2. at >= 5
        BY <3>1
      <3> QED
        BY <3>2 DEF at
    <2>5. ParentCame /\ c.status # "none"
      BY <1>1, <1>4, <2>4 DEF TellInv, Running
    <2>6. (Running("parent")' <=> Running("parent")) /\ ~Running("child")' /\ d.status = "exited"
      BY <1>1, <1>4, <2>2 DEF Running
    <2>7. ParentCame' /\ ChildCame'
      BY <2>2, <2>5, <2>6 DEF ParentCame, ChildCame
    <2>8. "USR1" \notin r.pending
      BY <2>3 DEF TellInv
    <2> QED
      BY <1>1, <1>4, <2>2, <2>5, <2>6, <2>7, <2>8 DEF TellInv
  <1> QED
    BY <1>3, <1>4 DEF Procs

LEMMA TellSignals ==
  ASSUME CodesInv, TellInv, program = "tell_wait", program' = program, SignalsCome
  PROVE  TellInv'
  <1> DEFINE q == proc["parent"]
             r == proc'["parent"]
             c == proc["child"]
             d == proc'["child"]
  <1>1. \A z \in Procs : /\ Keeps(proc[z], proc'[z], {"pending", "alarm"})
                         /\ \A s \in proc'[z].pending \ proc[z].pending :
                              (s = "ALRM" /\ proc[z].alarm) \/ (program \in DOMAIN Sent /\ s \in Sent[program])
    BY DEF SignalsCome
  <1>2. \A z \in Procs : ~proc[z].alarm
    BY DEF CodesInv, PendingOK, PendingOf
  <1>3. program \notin DOMAIN Sent
    BY DEF Sent
  <1>4. r.pending \subseteq q.pending /\ d.pending \subseteq c.pending
    BY <1>1, <1>2, <1>3 DEF Procs
  <1>5. /\ r.status = q.status /\ r.stack = q.stack /\ r.disp = q.disp /\ r.flag = q.flag
        /\ d.status = c.status /\ d.stack = c.stack /\ d.disp = c.disp /\ d.flag = c.flag
    BY <1>1 DEF Keeps, Fields, Procs
  <1>6. /\ Running("parent")' <=> Running("parent")
        /\ Running("child")' <=> Running("child")
    BY <1>5 DEF Running
  <1>7. (ParentCame' <=> ParentCame) /\ (ChildCame' <=> ChildCame)
    BY <1>5, <1>6 DEF ParentCame, ChildCame
  <1>8. /\ Signalled("parent", "USR2")' => Signalled("parent", "USR2")
        /\ Signalled("child", "USR1")' => Signalled("child", "USR1")
    BY <1>4, <1>5 DEF Signalled
  <1> QED
    BY <1>4, <1>5, <1>6, <1>7, <1>8 DEF TellInv

LEMMA StepTell == ASSUME CodesInv, TellInv, Shapes PROVE TellInv'
  <1>1. program' = program
    BY DEF Shapes
  <1>2. CASE program # "tell_wait"
    BY <1>1, <1>2 DEF TellInv
  <1>3. CASE program = "tell_wait"
    <2> USE <1>1, <1>3
    <2>1. CASE Reaps
      <3>1. Running("parent") /\ MoreToDo("parent") /\ Instr("parent").op = "wait"
        BY <2>1 DEF Reaps
      <3>2. CASE Len(proc["parent"].stack) = 1
        BY <3>1, <3>2, TellStands DEF Procs
      <3>3. CASE Len(proc["parent"].stack) # 1
        BY <3>1, <3>3, TellStands DEF Procs
      <3> QED
        BY <3>2, <3>3
    <2>2. CASE Forks
      BY <2>2, TellForks
    <2>3. CASE SignalsCome
      BY <2>3, TellSignals
    <2>4. ASSUME NEW p \in Procs, Kills(p)
          PROVE  TellInv'
      BY <2>4, TellKills
    <2>5. ASSUME NEW p \in Procs, Dies(p)
          PROVE  TellInv'
      BY <2>5, TellDies
    <2>6. ASSUME NEW p \in Procs,
                 Call(p) \/ Jumps(p) \/ Enters(p) \/ Leaves(p) \/ Handles(p) \/ Returns(p)
          PROVE  TellInv'
      <3>1. Rest(p)
        BY <2>6 DEF Call, Jumps, Enters, Leaves, Handles, Returns
      <3>2. IF p = "parent" THEN "USR1" \notin proc[p].pending ELSE "USR2" \notin proc[p].pending
        BY DEF TellInv, Procs
      <3>3. Running(p) /\ TellMove(p)
        BY <2>6, <3>2, TellMoves
      <3>4. CASE p = "parent"
        BY <3>1, <3>3, <3>4, TellParent DEF Rest, Procs
      <3>5. CASE p = "child"
        BY <3>1, <3>3, <3>5, TellChild DEF Rest, Procs
      <3> QED
        BY <3>4, <3>5 DEF Procs
    <2> QED
      BY <2>1, <2>2, <2>3, <2>4, <2>5, <2>6 DEF Shapes
  <1> QED
    BY <1>2, <1>3

LEMMA TellGiven == ASSUME CodesInv, TellInv PROVE Rendezvous
  <1> SUFFICES ASSUME program = "tell_wait"
               PROVE  /\ At > Len(tell_wait) => Ended("child") \/ proc["child"].stack[1].pc > Len(TELL_PARENT)
                      /\ Ended("child") => At > Len(TELL_WAIT) + 1 + Len(TELL_CHILD)
                      /\ \A p \in Procs : proc[p].status \in {"none", "running", "exited", "reaped"}
    BY DEF Rendezvous
  <1> DEFINE at == proc["parent"].stack[1].pc
  <1>1. Len(tell_wait) = 10 /\ Len(TELL_PARENT) = 1 /\ Len(TELL_WAIT) = 3 /\ Len(TELL_CHILD) = 1
    BY TellWaitCalls, CodeIs DEF TELL_PARENT, TELL_WAIT, TELL_CHILD
  <1>2. Len(Code["tell_wait"]) = 10
    BY TellWaitCalls
  <1>3. Running("parent") => at \in Nat
    BY TellStands DEF Procs
  <1>4. ASSUME At > 10
        PROVE  Ended("child") \/ proc["child"].stack[1].pc > 1
    <2>1. Running("parent") => at > 8
      <3> HIDE DEF at
      <3>1. Running("parent") => at > 10
        BY <1>4 DEF At, at
      <3> QED
        BY <1>3, <3>1
    <2>2. ChildCame
      BY <2>1 DEF TellInv
    <2> QED
      BY <2>2 DEF ChildCame, Ended
  <1>5. ASSUME Ended("child")
        PROVE  At > 5
    <2>1. ParentCame
      BY <1>5 DEF TellInv, Ended
    <2>2. CASE Running("parent")
      <3>1. at >= 6 /\ At = at
        BY <2>1, <2>2 DEF ParentCame, At
      <3> HIDE DEF at
      <3> QED
        BY <1>3, <2>2, <3>1
    <2>3. CASE ~Running("parent")
      BY <1>2, <2>3 DEF At
    <2> QED
      BY <2>2, <2>3
  <1>6. \A p \in Procs : proc[p].status \in {"none", "running", "exited", "reaped"}
    BY DEF TellInv, Procs
  <1> QED
    BY <1>1, <1>4, <1>5, <1>6

\* What holds before the first step.
LEMMA InitPairs == ASSUME Init, CodesInv PROVE SystemInv /\ TellInv
  <1> DEFINE q == proc["parent"]
  <1>1. /\ q.status = "running" /\ q.flag = FALSE /\ q.pending = {} /\ Len(q.stack) = 1 /\ q.stack[1].pc = 1
        /\ \A s \in Sigs \ {"ABRT"} : q.disp[s] = "SIG_DFL"
        /\ proc["child"] = Idle
    BY InitParent
  <1>2. proc["child"].status = "none" /\ proc["child"].pending = {}
    BY <1>1 DEF Idle
  <1>3. q.disp["INT"] = "SIG_DFL" /\ q.disp["QUIT"] = "SIG_DFL"
    BY <1>1 DEF Sigs
  <1>4. Running("parent") /\ ~Running("child")
    BY <1>1, <1>2 DEF Running
  <1>5. SystemInv
    BY <1>1, <1>2, <1>3, <1>4 DEF SystemInv, SystemRuns, Before
  <1>6. ~Signalled("parent", "USR2")
    BY <1>1 DEF Signalled
  <1>7. TellInv
    BY <1>1, <1>2, <1>4, <1>6 DEF TellInv
  <1> QED
    BY <1>5, <1>7

-----------------------------------------------------------------------------
(* abort1 *)

\* Where abort1 stands; its handler of SIGABRT makes no calls.
LEMMA AbortStands ==
  ASSUME CodesInv, program = "abort1", Running("parent")
  PROVE  LET q == proc["parent"]
             x == Instr("parent")
             at == q.stack[1].pc
         IN /\ at \in Nat \ {0} /\ Len(q.stack) \in Nat \ {0} /\ q \in ProcType
            /\ Len(q.stack) = 1 /\ ~MoreToDo("parent") => at > 6
            /\ Len(q.stack) # 1 => ~MoreToDo("parent") /\ Len(q.stack) > 1
            /\ Len(q.stack) = 1 /\ MoreToDo("parent") =>
                 /\ Top("parent").pc = at /\ Top("parent").code = "abort1" /\ x = Code["abort1"][at]
                 /\ \/ at = 1 /\ x.op = "unignore" /\ x.sig = "ABRT"
                    \/ at = 2 /\ x.op = "setmask" /\ x.set = Sigs \ {"ABRT"}
                    \/ at = 3 /\ x.op = "kill" /\ x.sig = "ABRT" /\ x.to = "parent"
                    \/ at = 4 /\ x.op = "signal" /\ x.sig = "ABRT" /\ x.handler = "SIG_DFL"
                    \/ at = 5 /\ x.op = "setmask" /\ x.set = Sigs \ {"ABRT"}
                    \/ at = 6 /\ x.op = "kill" /\ x.sig = "ABRT" /\ x.to = "parent"
  <1> DEFINE q == proc["parent"]
             x == Instr("parent")
             at == q.stack[1].pc
             l == Len(q.stack)
  <1>1. /\ l \in Nat \ {0} /\ q \in ProcType /\ at \in Nat \ {0}
        /\ l = 1 => /\ Top("parent") = q.stack[1] /\ Top("parent").code = program
                    /\ MoreToDo("parent") => at \in 1..Len(Code[program]) /\ x = Code[program][at]
                    /\ ~MoreToDo("parent") => at > Len(Code[program])
        /\ l # 1 => l > 1
    BY MainStands
  <1>2. Len(Code["abort1"]) = 6
    BY Abort1Calls
  <1>3. ASSUME l = 1, MoreToDo("parent")
        PROVE  \/ at = 1 /\ x.op = "unignore" /\ x.sig = "ABRT"
               \/ at = 2 /\ x.op = "setmask" /\ x.set = Sigs \ {"ABRT"}
               \/ at = 3 /\ x.op = "kill" /\ x.sig = "ABRT" /\ x.to = "parent"
               \/ at = 4 /\ x.op = "signal" /\ x.sig = "ABRT" /\ x.handler = "SIG_DFL"
               \/ at = 5 /\ x.op = "setmask" /\ x.set = Sigs \ {"ABRT"}
               \/ at = 6 /\ x.op = "kill" /\ x.sig = "ABRT" /\ x.to = "parent"
    <2>1. at \in 1..6 /\ x = Code["abort1"][at]
      BY <1>1, <1>2, <1>3
    <2>2. at = 1 \/ at = 2 \/ at = 3 \/ at = 4 \/ at = 5 \/ at = 6
      <3> HIDE DEF at
      <3> QED
        BY <2>1
    <2> HIDE DEF x, at
    <2> QED
      BY <2>1, <2>2, Abort1Calls
  <1>4. ASSUME l # 1, MoreToDo("parent")
        PROVE  FALSE
    <2>1. Top("parent") = q.stack[l] /\ Top("parent").pc \in 1..Len(Code[Top("parent").code])
      BY <1>4, Stands DEF Procs
    <2>2. l \in 2..l
      <3> HIDE DEF l
      <3> QED
        BY <1>1, <1>4
    <2>3. <<q.stack[l].sig, q.stack[l].code>> \in HandlersOf["abort1"]
      BY <2>2 DEF CodesInv, StackOK, Procs
    <2>4. Top("parent").code = "nop"
      BY <2>1, <2>3, HandlersAre
    <2>5. Len(Code["nop"]) = 0
      BY CodeIs
    <2>6. Top("parent").pc \in 1..0
      BY <2>1, <2>4, <2>5
    <2> QED
      BY <2>6
  <1> QED
    BY <1>1, <1>2, <1>3, <1>4

\* What a call leaves of the invariant, given where it leads.
LEMMA AbortCalls ==
  ASSUME CodesInv, AbortInv, program = "abort1", program' = program, Call("parent") \/ Kills("parent")
  PROVE  AbortInv'
  <1> DEFINE q == proc["parent"]
             r == proc'["parent"]
             at == q.stack[1].pc
             to == r.stack[1].pc
             x == Instr("parent")
  <1>1. Running("parent") /\ MoreToDo("parent") /\ x.op \in CallOps \cup {"kill"}
    BY DEF Call, Kills, Calling
  <1>2. Len(q.stack) = 1 /\ at \in Nat \ {0}
    BY <1>1, AbortStands
  <1>3. /\ Top("parent").pc = at /\ Top("parent").code = "abort1" /\ x = Code["abort1"][at]
        /\ \/ at = 1 /\ x.op = "unignore" /\ x.sig = "ABRT"
           \/ at = 2 /\ x.op = "setmask" /\ x.set = Sigs \ {"ABRT"}
           \/ at = 3 /\ x.op = "kill" /\ x.sig = "ABRT" /\ x.to = "parent"
           \/ at = 4 /\ x.op = "signal" /\ x.sig = "ABRT" /\ x.handler = "SIG_DFL"
           \/ at = 5 /\ x.op = "setmask" /\ x.set = Sigs \ {"ABRT"}
           \/ at = 6 /\ x.op = "kill" /\ x.sig = "ABRT" /\ x.to = "parent"
    BY <1>1, <1>2, AbortStands
  <1>4. /\ at >= 2 => q.disp["ABRT"] # "SIG_IGN"
        /\ at >= 3 => Sigs \ {"ABRT"} \subseteq q.mask
        /\ at >= 5 => q.disp["ABRT"] = "SIG_DFL"
        /\ at >= 7 => "ABRT" \in q.pending
    BY <1>1 DEF AbortInv
  <1>5. CASE Kills("parent")
    <2>1. x.op = "kill" /\ Keeps(q, r, {"stack", "pending"}) /\ Moved(q.stack, r.stack, at + 1)
      BY <1>3, <1>5 DEF Kills, Procs
    <2>2. x.sig = "ABRT" /\ x.to = "parent" /\ (at = 3 \/ at = 6)
      BY <1>3, <2>1
    <2>3. Gets(q, r, "ABRT")
      BY <1>5, <2>2 DEF Kills, Procs
    <2>4. to = at + 1 /\ Len(r.stack) = 1
      BY <1>2, <2>1 DEF Moved
    <2>5. r.disp = q.disp /\ r.mask = q.mask
      BY <2>1 DEF Keeps, Fields
    <2>6. at = 6 => "ABRT" \in r.pending
      BY <1>1, <1>4, <2>3 DEF Gets, Ignored, Running
    <2>7. /\ to >= 2 => r.disp["ABRT"] # "SIG_IGN"
          /\ to >= 3 => Sigs \ {"ABRT"} \subseteq r.mask
          /\ to >= 5 => r.disp["ABRT"] = "SIG_DFL"
          /\ to >= 7 => "ABRT" \in r.pending
      <3> HIDE DEF at, to
      <3> QED
        BY <1>4, <2>2, <2>4, <2>5, <2>6
    <2> QED
      BY <2>4, <2>7 DEF AbortInv
  <1>6. CASE Call("parent")
    <2>1. Effect("parent", r) /\ x.op \in CallOps
      BY <1>6 DEF Call
    <2>2. PICK j \in Succ(Top("parent").code, Top("parent").pc) : Moved(q.stack, r.stack, j)
      BY <1>6 DEF Call
    <2>3. x.op \in {"unignore", "setmask", "signal"}
      BY <1>3, <2>1 DEF CallOps
    <2>4. j = at + 1
      <3>1. x.op \notin {"back", "go", "give_up", "return_unless_flag"} /\ x.op \notin SkipOps
        BY <2>3 DEF SkipOps
      <3> QED
        BY <1>3, <2>2, <3>1 DEF Succ
    <2>5. to = at + 1 /\ Len(r.stack) = 1
      BY <1>2, <2>2, <2>4 DEF Moved
    <2>6. /\ r.pending = q.pending
          /\ r.mask = IF x.op = "setmask" THEN x.set ELSE q.mask
          /\ x.sig = "ABRT" \/ x.op = "setmask"
          /\ r.disp["ABRT"] = IF x.op = "setmask" THEN q.disp["ABRT"]
                              ELSE IF x.op = "signal" THEN x.handler
                              ELSE IF q.disp["ABRT"] = "SIG_IGN" THEN "SIG_DFL" ELSE q.disp["ABRT"]
      <3>1. x.op \notin {"block", "oldmask", "ignore", "restore"}
        BY <2>3
      <3>2. x.sig = "ABRT" \/ x.op = "setmask"
        BY <1>3, <2>3
      <3>3. r.pending = q.pending /\ r.mask = IF x.op = "setmask" THEN x.set ELSE q.mask
        BY <2>1, <3>1 DEF Effect
      <3>4. r.disp["ABRT"] = IF x.op \notin {"signal", "ignore", "restore", "unignore"} \/ "ABRT" # x.sig THEN q.disp["ABRT"]
                             ELSE IF x.op = "signal" THEN x.handler
                             ELSE IF x.op = "ignore" THEN "SIG_IGN"
                             ELSE IF x.op = "restore" THEN q.saved["ABRT"]
                             ELSE IF q.disp["ABRT"] = "SIG_IGN" THEN "SIG_DFL" ELSE q.disp["ABRT"]
        BY <2>1 DEF Effect, Sigs
      <3> HIDE DEF x, q, r
      <3> QED
        BY <2>3, <3>1, <3>2, <3>3, <3>4
    <2>7. /\ to >= 2 => r.disp["ABRT"] # "SIG_IGN"
          /\ to >= 3 => Sigs \ {"ABRT"} \subseteq r.mask
          /\ to >= 5 => r.disp["ABRT"] = "SIG_DFL"
          /\ ~(to >= 7)
      <3> HIDE DEF at, to, x, q, r
      <3> QED
        BY <1>3, <1>4, <2>3, <2>5, <2>6
    <2> QED
      BY <2>5, <2>7 DEF AbortInv
  <1> QED
    BY <1>5, <1>6

\* The handler of SIGABRT starts before abort1 has taken it away, and never twice.
LEMMA AbortHandles ==
  ASSUME CodesInv, AbortInv, program = "abort1", program' = program, Handles("parent")
  PROVE  AbortInv'
  <1> DEFINE q == proc["parent"]
             r == proc'["parent"]
             at == q.stack[1].pc
             l == Len(q.stack)
  <1>1. PICK s \in Deliverable("parent") :
          /\ Running("parent") /\ q.disp[s] \notin NoHandler
          /\ Keeps(q, r, {"stack", "inside", "mask", "pending", "rings"})
          /\ r.mask = q.mask \cup {s} /\ Len(r.stack) = l + 1
          /\ \A k \in 1..l : r.stack[k].pc = IF k = l /\ q.inside /\ Instr("parent").op \in Interruptible
                                             THEN q.stack[k].pc + 1 ELSE q.stack[k].pc
    BY DEF Handles
  <1>2. s \in Sigs /\ <<s, q.disp[s]>> \in HandlersOf["abort1"] /\ s \notin q.mask
    BY <1>1 DEF CodesInv, SigTypeOK, HandlersOK, ProcType, Procs, Deliverable
  <1>3. s = "ABRT"
    BY <1>2, HandlersAre
  <1>4. /\ l <= 2 /\ (l = 2 => "ABRT" \in q.mask)
        /\ at >= 2 => q.disp["ABRT"] # "SIG_IGN"
        /\ at >= 3 => Sigs \ {"ABRT"} \subseteq q.mask
        /\ at >= 5 => q.disp["ABRT"] = "SIG_DFL"
    BY <1>1 DEF AbortInv
  <1>5. at \in Nat \ {0} /\ l \in Nat \ {0}
    BY <1>1, AbortStands
  <1>6. l = 1
    <2>1. l # 2
      BY <1>2, <1>3, <1>4
    <2> HIDE DEF l
    <2> QED
      BY <1>4, <1>5, <2>1
  <1>7. ~(q.inside /\ Instr("parent").op \in Interruptible)
    <2>1. q.inside => MoreToDo("parent")
      BY <1>1 DEF CodesInv, StackOK, Procs
    <2> QED
      BY <1>1, <1>6, <2>1, AbortStands DEF Interruptible
  <1>8. r.stack[1].pc = at /\ Len(r.stack) = 2
    BY <1>1, <1>6, <1>7
  <1>9. r.disp = q.disp
    BY <1>1 DEF Keeps, Fields
  <1>10. ~(at >= 5)
    BY <1>1, <1>3, <1>4 DEF NoHandler
  <1> HIDE DEF at, q, r
  <1>11. ~(at >= 7)
    BY <1>5, <1>10
  <1>12. /\ Len(r.stack) = 2 /\ "ABRT" \in r.mask
         /\ r.stack[1].pc >= 2 => r.disp["ABRT"] # "SIG_IGN"
         /\ r.stack[1].pc >= 3 => Sigs \ {"ABRT"} \subseteq r.mask
         /\ ~(r.stack[1].pc >= 5) /\ ~(r.stack[1].pc >= 7)
    BY <1>1, <1>3, <1>4, <1>8, <1>9, <1>10, <1>11
  <1> QED
    BY <1>12 DEF AbortInv, r

\* When it returns the main function has the mask of its place.
LEMMA AbortReturns ==
  ASSUME CodesInv, MaskInv, AbortInv, program = "abort1", program' = program, Returns("parent")
  PROVE  AbortInv'
  <1> DEFINE q == proc["parent"]
             r == proc'["parent"]
             at == q.stack[1].pc
             l == Len(q.stack)
  <1>1. /\ Running("parent") /\ l > 1 /\ Len(r.stack) = l - 1
        /\ Keeps(q, r, {"stack", "mask"}) /\ r.mask = Top("parent").restore
        /\ \A k \in 1..(l - 1) : r.stack[k] = q.stack[k]
    BY DEF Returns
  <1>2. at \in Nat \ {0} /\ l \in Nat \ {0}
    BY <1>1, AbortStands
  <1>3. /\ l <= 2
        /\ at >= 2 => q.disp["ABRT"] # "SIG_IGN"
        /\ at >= 5 => l = 1
    BY <1>1 DEF AbortInv
  <1>4. l = 2
    <2> HIDE DEF l
    <2> QED
      BY <1>1, <1>2, <1>3
  <1>5. r.mask = MainMask
    <2>1. Top("parent") = q.stack[l]
      BY <1>1, Stands DEF Procs
    <2> QED
      BY <1>1, <1>4, <2>1 DEF MainMask
  <1>6. at >= 3 => r.mask = Sigs \ {"ABRT"}
    <2>1. MainMask = MaskAt("abort1", at)
      BY <1>1 DEF MaskInv, MainMaskOK, Jumping
    <2>2. Masked["abort1"] = Sigs \ {"ABRT"}
      BY DEF Masked
    <2>3. at >= 3 => InMask("abort1", at)
      <3> HIDE DEF at
      <3> QED
        BY <1>2 DEF InMask
    <2> QED
      BY <1>5, <2>1, <2>2, <2>3 DEF MaskAt
  <1>7. r.stack[1].pc = at /\ Len(r.stack) = 1
    BY <1>1, <1>4
  <1>8. r.disp = q.disp
    BY <1>1 DEF Keeps, Fields
  <1>9. ~(at >= 5)
    BY <1>3, <1>4
  <1> HIDE DEF at, q, r
  <1>10. ~(at >= 7)
    BY <1>2, <1>9
  <1> QED
    BY <1>3, <1>6, <1>7, <1>8, <1>9, <1>10 DEF AbortInv, at, q, r

LEMMA AbortStays ==
  ASSUME CodesInv, AbortInv, program = "abort1", program' = program, Stays
  PROVE  AbortInv'
  <1> DEFINE q == proc["parent"]
             r == proc'["parent"]
  <1>1. r.stack = q.stack /\ r.status = q.status /\ r.disp = q.disp /\ r.mask = q.mask
    BY DEF Stays, Keeps, Fields
  <1>2. \A s \in q.pending \ r.pending : Ignored(q, s)
    BY DEF Stays
  <1>3. q.disp["ABRT"] = "SIG_DFL" /\ "ABRT" \in q.pending => "ABRT" \in r.pending
    BY <1>2 DEF Ignored
  <1>4. CASE Running("parent")
    <2>1. q.stack[1].pc \in Nat
      BY <1>4, AbortStands
    <2>2. q.stack[1].pc >= 7 => q.stack[1].pc >= 5
      BY <2>1
    <2>3. q.stack[1].pc >= 7 => q.disp["ABRT"] = "SIG_DFL" /\ "ABRT" \in q.pending
      BY <1>4, <2>2 DEF AbortInv
    <2> QED
      BY <1>1, <1>3, <1>4, <2>3 DEF AbortInv, Running
  <1>5. CASE ~Running("parent")
    BY <1>1, <1>5 DEF AbortInv, Running
  <1> QED
    BY <1>4, <1>5

LEMMA StepAbort == ASSUME CodesInv, MaskInv, AbortInv, Shapes PROVE AbortInv'
  <1>1. program' = program
    BY DEF Shapes
  <1>2. CASE program # "abort1"
    BY <1>1, <1>2 DEF AbortInv
  <1>3. CASE program = "abort1"
    <2>1. ~(Forks \/ Jumps("parent") \/ Enters("parent") \/ Leaves("parent") \/ Reaps)
      <3>1. ASSUME Running("parent"), MoreToDo("parent")
            PROVE  Instr("parent").op \in {"unignore", "setmask", "kill", "signal"}
        <4>1. Len(proc["parent"].stack) = 1
          BY <1>3, <3>1, AbortStands
        <4> QED
          BY <1>3, <3>1, <4>1, AbortStands
      <3> QED
        BY <3>1 DEF Forks, Jumps, Enters, Leaves, Reaps, Calling, Blocking, Interruptible
    <2>2. Dies("parent") => AbortInv'
      BY ParentEnds DEF AbortInv
    <2> QED
      BY <1>1, <1>3, <2>1, <2>2, ParentSteps, AbortCalls, AbortHandles, AbortReturns, AbortStays
  <1> QED
    BY <1>2, <1>3

\* The parent ends by Dies only.
LEMMA EndsByDying ==
  ASSUME CodesInv, Shapes, Running("parent"), Ended("parent")'
  PROVE  Dies("parent")
  <1>1. proc'["parent"].status # proc["parent"].status
    BY DEF Running, Ended
  <1>2. Kills("parent") => proc'["parent"].status = proc["parent"].status
    BY DEF Kills, Procs, Keeps, Fields
  <1>3. Call("parent") => proc'["parent"].status = proc["parent"].status
    BY DEF Call, Effect, Keeps, Fields
  <1>4. Forks \/ Jumps("parent") \/ Enters("parent") \/ Leaves("parent") \/ Reaps => proc'["parent"].status = proc["parent"].status
    BY DEF Forks, Jumps, Enters, Leaves, Reaps, Keeps, Fields
  <1>5. Handles("parent") \/ Returns("parent") \/ Stays => proc'["parent"].status = proc["parent"].status
    BY DEF Handles, Returns, Stays, Keeps, Fields
  <1> QED
    BY <1>1, <1>2, <1>3, <1>4, <1>5, ParentSteps

LEMMA AbortGiven == ASSUME CodesInv, MaskInv, AbortInv, Shapes PROVE AbortsOnly
  <1> DEFINE q == proc["parent"]
             r == proc'["parent"]
             at == q.stack[1].pc
  <1> SUFFICES ASSUME program = "abort1", Running("parent"), At > 2, Ended("parent")'
               PROVE  r.status = "ABRT"
    BY DEF AbortsOnly
  <1>1. PICK how \in {"exited"} \cup Deliverable("parent") :
          /\ how = "exited" => \/ MoreToDo("parent") /\ Instr("parent").op = "exit"
                               \/ ~MoreToDo("parent") /\ InMain("parent") /\ Deliverable("parent") = {}
          /\ r.status = how
    BY EndsByDying DEF Dies
  <1>2. at \in Nat \ {0} /\ at > 2
    BY AbortStands DEF At
  <1>3. /\ Sigs \ {"ABRT"} \subseteq q.mask
        /\ at >= 7 => "ABRT" \in q.pending
    <2>1. at >= 3
      <3> HIDE DEF at
      <3> QED
        BY <1>2
    <2> QED
      BY <2>1 DEF AbortInv
  <1>4. CASE how \in Deliverable("parent")
    <2>1. how \in Sigs /\ how \notin q.mask
      BY <1>4, MainStands DEF Deliverable, ProcType
    <2> QED
      BY <1>1, <1>3, <2>1
  <1>5. CASE how = "exited"
    <2>1. ~(MoreToDo("parent") /\ Instr("parent").op = "exit")
      <3>1. MoreToDo("parent") => Len(q.stack) = 1
        BY AbortStands
      <3> QED
        BY <3>1, AbortStands
    <2>2. ~MoreToDo("parent") /\ Len(q.stack) = 1 /\ Deliverable("parent") = {}
      BY <1>1, <1>5, <2>1 DEF InMain
    <2>3. at > 6
      BY <2>2, AbortStands
    <2>4. at >= 7
      <3> HIDE DEF at
      <3> QED
        BY <1>2, <2>3
    <2>5. "ABRT" \in q.mask
      BY <1>3, <2>2, <2>4 DEF Deliverable
    <2>6. ~q.inside
      BY <2>2 DEF CodesInv, StackOK, Procs
    <2>7. q.mask = MaskAt("abort1", at)
      BY <2>2, <2>6 DEF MaskInv, MainMaskOK, MainMask, Jumping
    <2>8. "ABRT" \notin Masked["abort1"]
      BY DEF Masked
    <2> QED
      BY <2>5, <2>7, <2>8 DEF MaskAt
  <1> QED
    BY <1>1, <1>4, <1>5

-----------------------------------------------------------------------------
(* A program without a child, and its terminal *)

\* A program without a child: only its calls change the terminal.
LEMMA AloneSteps ==
  ASSUME CodesInv, Shapes, program \notin Forkers
  PROVE  \/ Call("parent")
         \/ /\ tty' = tty
            /\ \/ Kills("parent") \/ Jumps("parent") \/ Enters("parent") \/ Leaves("parent")
               \/ Handles("parent") \/ Returns("parent") \/ Dies("parent") \/ Stays
  <1>1. ~Running("child")
    BY DEF CodesInv, Running
  <1>2. ~Forks /\ ~Reaps
    <2>1. ASSUME Running("parent"), MoreToDo("parent"), Instr("parent").op \in {"fork", "wait"}
          PROVE  FALSE
      <3>1. InstrOK(program, Top("parent").code, Top("parent").pc) /\ Instr("parent") = Code[Top("parent").code][Top("parent").pc]
        BY <2>1, Stands DEF Procs, Instr
      <3> QED
        BY <2>1, <3>1 DEF InstrOK
    <2> QED
      BY <2>1 DEF Forks, Reaps, Calling
  <1>3. ~(Call("child") \/ Kills("child") \/ Jumps("child") \/ Enters("child") \/ Leaves("child")
          \/ Handles("child") \/ Returns("child") \/ Dies("child"))
    BY <1>1 DEF Call, Kills, Jumps, Enters, Leaves, Handles, Returns, Dies, Calling
  <1>4. SignalsCome => tty' = tty /\ Stays
    BY DEF SignalsCome, Stays, Procs, Running
  <1>5. Kills("parent") \/ Jumps("parent") \/ Enters("parent") \/ Leaves("parent")
        \/ Handles("parent") \/ Returns("parent") \/ Dies("parent") => tty' = tty
    BY DEF Kills, Jumps, Enters, Leaves, Handles, Returns, Dies
  <1> QED
    BY <1>2, <1>3, <1>4, <1>5 DEF Shapes, Procs

\* A call that is to restore the terminal does, or has failed.
Restores == /\ ~tty'.failed => tty'.mode = tty.saved
            /\ tty'.saved = tty.saved /\ tty'.ttystate = tty.ttystate

\* What call x, the i-th of its function, makes of the terminal, and where it leads.
TtyDoes(x, i, to) ==
  /\ tty.failed => tty'.failed
  /\ \/ x.op = "tcgetattr" /\ to = i + 1 /\ tty'.mode = tty.mode /\ tty'.saved = tty.mode /\ tty'.ttystate = tty.ttystate
     \/ x.op = "tcgetattr" /\ x.skip > 0 /\ to = i + (1 + x.skip) /\ tty' = tty
     \/ /\ x.op = "tcgetattr" /\ x.skip = 0 /\ to = i + (1 + x.skip)
        /\ tty'.mode = tty.mode /\ tty'.saved = "garbage" /\ tty'.ttystate = tty.ttystate
     \/ /\ x.op = "tcsetattr" /\ to = i + 1
        /\ tty'.mode \in {x.mode, "partly"} /\ tty'.saved = tty.saved /\ tty'.ttystate = tty.ttystate
     \/ x.op = "tcsetattr" /\ to = i + (1 + x.skip) /\ tty' = tty
     \/ x.op = "tcrestore" /\ to = i + 1 /\ Restores
     \/ x.op = "tcrestore" /\ to = i + (1 + x.skip) /\ Restores /\ tty'.failed
     \/ x.op = "confirm" /\ to \in {i + 1, i + (1 + x.skip)} /\ tty' = tty
     \/ x.op = "give_up" /\ to = i + (1 + x.skip) /\ Restores
     \/ x.op = "ttystate" /\ to = i + 1 /\ tty'.ttystate = x.state /\ tty'.mode = tty.mode /\ tty'.saved = tty.saved
     \/ x.op = "skip_if_state" /\ to = i + (IF tty.ttystate \in x.states THEN 1 + x.skip ELSE 1) /\ tty' = tty

LEMMA TerminalDoes ==
  ASSUME CodesInv, Terminal("parent")
  PROVE  TtyDoes(Instr("parent"), Top("parent").pc, proc'["parent"].stack[Len(proc["parent"].stack)].pc)
  <1> DEFINE x == Instr("parent")
             i == Top("parent").pc
             to == proc'["parent"].stack[Len(proc["parent"].stack)].pc
  <1>1. Running("parent") /\ MoreToDo("parent")
    BY DEF Terminal
  <1>2. /\ tty \in TtyType /\ proc \in [Procs -> ProcType] /\ "parent" \in Procs
        /\ Len(proc["parent"].stack) > 0 /\ Top("parent") = proc["parent"].stack[Len(proc["parent"].stack)]
        /\ InstrOK(program, Top("parent").code, i) /\ x = Code[Top("parent").code][i] /\ i \in Nat \ {0}
    BY <1>1, Stands DEF CodesInv, SigTypeOK, Procs, Instr
  <1>3. ASSUME NEW op, NEW m \in Nat, NEW used, Uses("parent", op, m, used)
        PROVE  to = i + m /\ tty' = used /\ x.op = op
    <2>1. proc' = [proc EXCEPT !["parent"] = Advance(@, m)] /\ tty' = used /\ x.op = op
      BY <1>3 DEF Uses, Calls
    <2>2. i + m > 0 /\ m \in Int
      <3> HIDE DEF i
      <3> QED
        BY <1>2
    <2>3. Moved(proc["parent"].stack, Advance(proc["parent"], m).stack, i + m)
      BY <1>2, <2>2, AdvanceFacts
    <2>4. proc'["parent"] = Advance(proc["parent"], m)
      BY <1>2, <2>1
    <2>5. Len(proc["parent"].stack) \in Nat
      BY <1>2 DEF ProcType
    <2>6. Len(proc["parent"].stack) \in 1..Len(proc["parent"].stack)
      BY <1>2, <2>5
    <2> QED
      BY <2>1, <2>3, <2>4, <2>6 DEF Moved
  <1>4. /\ \A m : tty' = [tty EXCEPT !.mode = m] =>
                /\ tty'.mode = m /\ tty'.saved = tty.saved /\ tty'.ttystate = tty.ttystate
                /\ tty'.failed = tty.failed
        /\ \A m : tty' = [tty EXCEPT !.saved = m] =>
                /\ tty'.mode = tty.mode /\ tty'.saved = m /\ tty'.ttystate = tty.ttystate
                /\ tty'.failed = tty.failed
        /\ tty' = [tty EXCEPT !.ttystate = x.state] =>
             /\ tty'.mode = tty.mode /\ tty'.saved = tty.saved /\ tty'.ttystate = x.state
             /\ tty'.failed = tty.failed
        /\ tty' \in {Restored, HalfRestored, NotRestored} => Restores /\ (tty.failed => tty'.failed)
        /\ tty' = NotRestored => tty'.failed
    BY <1>2 DEF TtyType, Restored, HalfRestored, NotRestored, Restores
  <1>5. x.op \in {"tcgetattr", "tcsetattr", "tcrestore", "confirm", "give_up", "skip_if_state"} => x.skip \in Nat /\ 1 + x.skip \in Nat
    <2>1. x.op \in {"tcgetattr", "tcsetattr", "tcrestore", "confirm", "give_up", "skip_if_state"} => x.skip \in Nat
      BY <1>2 DEF InstrOK
    <2> HIDE DEF x
    <2> QED
      BY <2>1
  <1> SUFFICES TtyDoes(x, i, to)
    OBVIOUS
  <1> HIDE DEF x, i, to
  <1>6. CASE Uses("parent", "tcgetattr", 1, [tty EXCEPT !.saved = tty.mode])
    <2>1. x.op = "tcgetattr" /\ to = i + 1 /\ tty' = [tty EXCEPT !.saved = tty.mode]
      BY <1>3, <1>6
    <2> QED
      BY <1>4, <2>1 DEF TtyDoes
  <1>7. CASE /\ x.op = "tcgetattr"
             /\ Uses("parent", "tcgetattr", 1 + x.skip, IF x.skip = 0 THEN [tty EXCEPT !.saved = "garbage"] ELSE tty)
    <2>1. to = i + (1 + x.skip) /\ tty' = (IF x.skip = 0 THEN [tty EXCEPT !.saved = "garbage"] ELSE tty)
      BY <1>3, <1>5, <1>7
    <2>2. CASE x.skip = 0
      BY <1>4, <1>7, <2>1, <2>2 DEF TtyDoes
    <2>3. CASE x.skip # 0
      <3>1. x.skip \in Nat
        BY <1>7, <1>5
      <3> QED
        BY <1>7, <2>1, <2>3, <3>1 DEF TtyDoes
    <2> QED
      BY <2>2, <2>3
  <1>8. CASE x.op = "tcsetattr" /\ \E mode \in {x.mode, "partly"} : Uses("parent", "tcsetattr", 1, [tty EXCEPT !.mode = mode])
    <2>1. PICK mode \in {x.mode, "partly"} : Uses("parent", "tcsetattr", 1, [tty EXCEPT !.mode = mode])
      BY <1>8
    <2>2. x.op = "tcsetattr" /\ to = i + 1 /\ tty' = [tty EXCEPT !.mode = mode]
      BY <1>3, <2>1
    <2> QED
      BY <1>4, <2>2 DEF TtyDoes
  <1>9. CASE x.op = "tcsetattr" /\ Uses("parent", "tcsetattr", 1 + x.skip, tty)
    BY <1>3, <1>5, <1>9 DEF TtyDoes
  <1>10. CASE \E t \in {Restored, HalfRestored} : Uses("parent", "tcrestore", 1, t)
    <2>1. x.op = "tcrestore" /\ to = i + 1 /\ tty' \in {Restored, HalfRestored, NotRestored}
      BY <1>3, <1>10
    <2> QED
      BY <1>4, <2>1 DEF TtyDoes
  <1>11. CASE x.op = "tcrestore" /\ Uses("parent", "tcrestore", 1 + x.skip, NotRestored)
    <2>1. x.op = "tcrestore" /\ to = i + (1 + x.skip) /\ tty' = NotRestored
      BY <1>3, <1>5, <1>11
    <2> QED
      BY <1>4, <2>1 DEF TtyDoes
  <1>12. CASE x.op = "confirm" /\ tty.mode = x.mode /\ Uses("parent", "confirm", 1 + x.skip, tty)
    BY <1>3, <1>5, <1>12 DEF TtyDoes
  <1>13. CASE Uses("parent", "confirm", 1, tty)
    BY <1>3, <1>13 DEF TtyDoes
  <1>14. CASE /\ x.op = "give_up"
              /\ \E t \in {Restored, HalfRestored, NotRestored} : Uses("parent", "give_up", 1 + x.skip, t)
    <2>1. x.op = "give_up" /\ to = i + (1 + x.skip) /\ tty' \in {Restored, HalfRestored, NotRestored}
      BY <1>3, <1>14, <1>5
    <2> QED
      BY <1>4, <2>1 DEF TtyDoes
  <1>15. CASE x.op = "ttystate" /\ Uses("parent", "ttystate", 1, [tty EXCEPT !.ttystate = x.state])
    <2>1. x.op = "ttystate" /\ to = i + 1 /\ tty' = [tty EXCEPT !.ttystate = x.state]
      BY <1>3, <1>15
    <2> QED
      BY <1>4, <2>1 DEF TtyDoes
  <1>16. CASE /\ x.op = "skip_if_state"
              /\ Uses("parent", "skip_if_state", IF tty.ttystate \in x.states THEN 1 + x.skip ELSE 1, tty)
    BY <1>3, <1>5, <1>16 DEF TtyDoes
  <1> QED
    BY <1>6, <1>7, <1>8, <1>9, <1>10, <1>11, <1>12, <1>13, <1>14, <1>15, <1>16 DEF Terminal, x

-----------------------------------------------------------------------------
(* getpass_m *)

\* Where getpass_m stands; it has no handlers.
LEMMA GetpassStands ==
  ASSUME CodesInv, program = "getpass_test", Running("parent")
  PROVE  LET q == proc["parent"]
             x == Instr("parent")
             at == q.stack[1].pc
         IN /\ at \in Nat \ {0} /\ Len(q.stack) = 1 /\ q \in ProcType /\ Top("parent").pc = at
            /\ ~MoreToDo("parent") => at > 8
            /\ MoreToDo("parent") =>
                 /\ Top("parent").code = "getpass_test" /\ x = Code["getpass_test"][at]
                 /\ \/ at = 1 /\ x.op = "block"
                    \/ at = 2 /\ x.op = "tcgetattr" /\ x.skip = 0
                    \/ at = 3 /\ x.op = "tcsetattr" /\ x.skip = 0
                    \/ at = 4 /\ x.op = "read"
                    \/ at = 5 /\ x.op = "go" /\ x.set = {-1, 1}
                    \/ at = 6 /\ x.op = "tcrestore" /\ x.skip = 0
                    \/ at = 7 /\ x.op = "oldmask"
                    \/ at = 8 /\ x.op = "exit"
  <1> DEFINE q == proc["parent"]
             x == Instr("parent")
             at == q.stack[1].pc
             l == Len(q.stack)
  <1>1. /\ l \in Nat \ {0} /\ q \in ProcType /\ at \in Nat \ {0}
        /\ l = 1 => /\ Top("parent") = q.stack[1] /\ Top("parent").code = program
                    /\ MoreToDo("parent") => at \in 1..Len(Code[program]) /\ x = Code[program][at]
                    /\ ~MoreToDo("parent") => at > Len(Code[program])
        /\ l # 1 => l > 1
    BY MainStands
  <1>2. Len(Code["getpass_test"]) = 8
    BY GetpassTestCalls
  <1>3. l = 1
    <2> SUFFICES ASSUME l # 1 PROVE FALSE
      OBVIOUS
    <2>1. 2 \in 2..l
      <3> HIDE DEF l
      <3> QED
        BY <1>1
    <2>2. <<q.stack[2].sig, q.stack[2].code>> \in HandlersOf["getpass_test"]
      BY <2>1 DEF CodesInv, StackOK, Procs
    <2> QED
      BY <2>2, HandlersAre
  <1>4. ASSUME MoreToDo("parent")
        PROVE  \/ at = 1 /\ x.op = "block"
               \/ at = 2 /\ x.op = "tcgetattr" /\ x.skip = 0
               \/ at = 3 /\ x.op = "tcsetattr" /\ x.skip = 0
               \/ at = 4 /\ x.op = "read"
               \/ at = 5 /\ x.op = "go" /\ x.set = {-1, 1}
               \/ at = 6 /\ x.op = "tcrestore" /\ x.skip = 0
               \/ at = 7 /\ x.op = "oldmask"
               \/ at = 8 /\ x.op = "exit"
    <2>1. at \in 1..8 /\ x = Code["getpass_test"][at]
      BY <1>1, <1>2, <1>3, <1>4
    <2>2. at = 1 \/ at = 2 \/ at = 3 \/ at = 4 \/ at = 5 \/ at = 6 \/ at = 7 \/ at = 8
      <3> HIDE DEF at
      <3> QED
        BY <2>1
    <2> HIDE DEF x, at
    <2> QED
      BY <2>1, <2>2, GetpassTestCalls
  <1> QED
    BY <1>1, <1>2, <1>3, <1>4

\* A call: where it leads, and what it makes of the terminal.
LEMMA GetpassCalls ==
  ASSUME CodesInv, GetpassInv, program = "getpass_test", program' = program, Call("parent")
  PROVE  GetpassInv'
  <1> DEFINE q == proc["parent"]
             r == proc'["parent"]
             at == q.stack[1].pc
             to == r.stack[1].pc
             x == Instr("parent")
  <1>1. Running("parent") /\ MoreToDo("parent") /\ x.op \in CallOps
    BY DEF Call, Calling
  <1>2. /\ at \in Nat \ {0} /\ Len(q.stack) = 1 /\ Top("parent").pc = at
        /\ Top("parent").code = "getpass_test" /\ x = Code["getpass_test"][at]
        /\ \/ at = 1 /\ x.op = "block"
           \/ at = 2 /\ x.op = "tcgetattr" /\ x.skip = 0
           \/ at = 3 /\ x.op = "tcsetattr" /\ x.skip = 0
           \/ at = 4 /\ x.op = "read"
           \/ at = 5 /\ x.op = "go" /\ x.set = {-1, 1}
           \/ at = 6 /\ x.op = "tcrestore" /\ x.skip = 0
           \/ at = 7 /\ x.op = "oldmask"
           \/ at = 8 /\ x.op = "exit"
    BY <1>1, GetpassStands
  <1>3. PICK j \in Succ(Top("parent").code, Top("parent").pc) : Moved(q.stack, r.stack, j)
    BY DEF Call
  <1>4. to = j
    BY <1>2, <1>3 DEF Moved
  <1>5. IF x.op \in TtyOps THEN TtyDoes(x, at, to) ELSE tty' = tty
    BY <1>2, TerminalDoes DEF Call
  <1>6. /\ at <= 3 => tty.mode = "normal"
        /\ at >= 3 => tty.saved \in {"normal", "garbage"}
        /\ at >= 7 => tty.mode = "normal" \/ tty.failed \/ tty.saved = "garbage"
    BY <1>1 DEF GetpassInv
  <1>7. /\ at = 1 => to = 2 /\ tty' = tty
        /\ at = 2 => to = 3 /\ tty'.mode = tty.mode /\ tty'.saved \in {tty.mode, "garbage"}
        /\ at = 3 => to = 4 /\ tty'.saved = tty.saved
        /\ at = 5 => to \in {4, 6} /\ tty' = tty
        /\ at = 6 => to = 7 /\ tty'.saved = tty.saved /\ (tty'.mode = tty.saved \/ tty'.failed)
        /\ at = 7 => to = 8 /\ tty' = tty
    <2>1. at \in {1, 5, 7} => tty' = tty
      <3> HIDE DEF x, at
      <3> QED
        BY <1>2, <1>5 DEF TtyOps
    <2>2. at = 1 \/ at = 7 => j = at + 1
      <3>1. at = 1 \/ at = 7 => x.op = "block" \/ x.op = "oldmask"
        <4> HIDE DEF x, at
        <4> QED
          BY <1>2
      <3>2. x.op = "block" \/ x.op = "oldmask" => Succ(Top("parent").code, Top("parent").pc) = {at + 1}
        BY <1>2 DEF Succ, SkipOps
      <3> QED
        BY <1>3, <3>1, <3>2
    <2>3. at = 5 => j \in {4, 6}
      BY <1>2, <1>3 DEF Succ
    <2>4. at \in {2, 3, 6} => TtyDoes(x, at, to)
      <3> HIDE DEF x, at
      <3> QED
        BY <1>2, <1>5 DEF TtyOps
    <2>5. at = 2 => to = 3 /\ tty'.mode = tty.mode /\ tty'.saved \in {tty.mode, "garbage"}
      <3> HIDE DEF x, at, to
      <3> QED
        BY <1>2, <2>4 DEF TtyDoes
    <2>6. at = 3 => to = 4 /\ tty'.saved = tty.saved
      <3> HIDE DEF x, at, to
      <3> QED
        BY <1>2, <2>4 DEF TtyDoes
    <2>7. at = 6 => to = 7 /\ tty'.saved = tty.saved /\ (tty'.mode = tty.saved \/ tty'.failed)
      <3> HIDE DEF x, at, to
      <3> QED
        BY <1>2, <2>4 DEF TtyDoes, Restores
    <2> HIDE DEF at, to
    <2> QED
      BY <1>4, <2>1, <2>2, <2>3, <2>5, <2>6, <2>7
  <1>8. at \in {1, 2, 3, 5, 6, 7}
    <2> HIDE DEF x, at
    <2> QED
      BY <1>1, <1>2 DEF CallOps
  <1>9. /\ to <= 3 => tty'.mode = "normal"
        /\ to >= 3 => tty'.saved \in {"normal", "garbage"}
        /\ to >= 7 => tty'.mode = "normal" \/ tty'.failed \/ tty'.saved = "garbage"
    <2> HIDE DEF at, to
    <2> QED
      BY <1>6, <1>7, <1>8
  <1> QED
    BY <1>9 DEF GetpassInv

LEMMA StepGetpass == ASSUME CodesInv, GetpassInv, Shapes PROVE GetpassInv'
  <1> DEFINE q == proc["parent"]
             r == proc'["parent"]
             at == q.stack[1].pc
             x == Instr("parent")
  <1>1. program' = program
    BY DEF Shapes
  <1>2. CASE program # "getpass_test"
    BY <1>1, <1>2 DEF GetpassInv
  <1>3. CASE program = "getpass_test"
    <2>1. program \notin Forkers
      BY <1>3 DEF Forkers
    <2>2. ASSUME Running("parent"), MoreToDo("parent")
          PROVE  x.op \in {"block", "tcgetattr", "tcsetattr", "read", "go", "tcrestore", "oldmask", "exit"}
      BY <1>3, <2>2, GetpassStands
    <2>3. ~Kills("parent") /\ ~Jumps("parent")
      BY <2>2 DEF Kills, Jumps, Calling
    <2>4. ~Handles("parent")
      <3> SUFFICES ASSUME Handles("parent") PROVE FALSE
        OBVIOUS
      <3>1. PICK s \in Deliverable("parent") : Running("parent") /\ q.disp[s] \notin NoHandler
        BY DEF Handles
      <3>2. s \in Sigs /\ <<s, q.disp[s]>> \in HandlersOf["getpass_test"]
        BY <1>3, <3>1 DEF CodesInv, SigTypeOK, HandlersOK, ProcType, Procs, Deliverable
      <3> QED
        BY <3>2, HandlersAre
    <2>5. ~Returns("parent")
      <3>1. Running("parent") => Len(q.stack) = 1
        BY <1>3, GetpassStands
      <3>2. Returns("parent") => Running("parent") /\ Len(q.stack) > 1
        BY DEF Returns
      <3>3. ~(1 > 1)
        OBVIOUS
      <3> QED
        BY <3>1, <3>2, <3>3, Zenon
    <2>6. CASE Call("parent")
      BY <1>1, <1>3, <2>6, GetpassCalls
    <2>7. CASE tty' = tty /\ Dies("parent")
      BY <2>7, ParentEnds DEF GetpassInv
    <2>8. CASE tty' = tty /\ (Enters("parent") \/ Stays)
      <3>1. r.stack = q.stack /\ r.status = q.status
        BY <2>8 DEF Enters, Stays, Keeps, Fields
      <3> QED
        BY <1>1, <2>8, <3>1 DEF GetpassInv, Running
    <2>9. CASE tty' = tty /\ Leaves("parent")
      <3>1. Running("parent") /\ MoreToDo("parent") /\ x.op \in {"sleep", "command", "read"}
            /\ Moved(q.stack, r.stack, Top("parent").pc + 1)
        BY <2>9 DEF Leaves
      <3>2. at = 4 /\ Len(q.stack) = 1 /\ Top("parent").pc = at
        BY <1>3, <3>1, GetpassStands
      <3>3. r.stack[1].pc = 5
        BY <3>1, <3>2 DEF Moved
      <3>4. tty.saved \in {"normal", "garbage"}
        BY <1>3, <3>1, <3>2 DEF GetpassInv
      <3> QED
        BY <2>9, <3>3, <3>4 DEF GetpassInv
    <2> QED
      BY <2>1, <2>3, <2>4, <2>5, <2>6, <2>7, <2>8, <2>9, AloneSteps
  <1> QED
    BY <1>2, <1>3

\* It ends with the terminal as it was, unless a call has failed or SIGQUIT or SIGTERM ends it.
LEMMA GetpassEnds ==
  ASSUME CodesInv, MaskInv, GetpassInv, Dies("parent"), program = "getpass_test"
  PROVE  \/ tty.mode = "normal" \/ tty.failed \/ tty.saved = "garbage"
         \/ proc'["parent"].status \in {"QUIT", "TERM"}
  <1> DEFINE q == proc["parent"]
             r == proc'["parent"]
             at == q.stack[1].pc
  <1>1. PICK how \in {"exited"} \cup Deliverable("parent") :
          /\ how = "exited" => \/ MoreToDo("parent") /\ Instr("parent").op = "exit"
                               \/ ~MoreToDo("parent") /\ InMain("parent") /\ Deliverable("parent") = {}
          /\ r.status = how /\ Running("parent")
    BY DEF Dies
  <1>2. at \in Nat \ {0} /\ Len(q.stack) = 1
    BY <1>1, GetpassStands
  <1>3. at <= 3 \/ at >= 7 => tty.mode = "normal" \/ tty.failed \/ tty.saved = "garbage"
    BY <1>1 DEF GetpassInv
  <1>4. CASE how = "exited"
    <2>1. at = 8 \/ at > 8
      BY <1>1, <1>4, GetpassStands
    <2> HIDE DEF at
    <2> QED
      BY <1>2, <1>3, <2>1
  <1>5. CASE how \in Deliverable("parent")
    <2>1. how \in {"INT", "QUIT", "TSTP", "TERM"} /\ how \notin q.mask
      BY <1>5, PendingAre DEF Deliverable, CodesInv, PendingOK, Procs
    <2>2. q.mask = MaskAt("getpass_test", at)
      <3>1. ~(q.inside /\ Instr("parent").op = "sigsuspend")
        <4>1. q.inside => MoreToDo("parent")
          BY <1>1 DEF CodesInv, StackOK, Procs
        <4> QED
          BY <1>1, <4>1, GetpassStands
      <3> QED
        BY <1>1, <1>2, <3>1 DEF MaskInv, MainMaskOK, MainMask, Jumping
    <2>3. Masked["getpass_test"] = {"INT", "TSTP"}
      BY DEF Masked
    <2>4. at \in 2..7 => how \in {"QUIT", "TERM"}
      BY <2>1, <2>2, <2>3 DEF MaskAt, InMask
    <2> HIDE DEF at
    <2> QED
      BY <1>1, <1>2, <1>3, <2>4
  <1> QED
    BY <1>1, <1>4, <1>5

-----------------------------------------------------------------------------
(* abnormal_terminal_test *)

\* The calls of abnormal_terminal_test, and those of its handler.
TermCall(x, at) ==
  \/ at = 1 /\ x.op = "signal" /\ x.sig = "INT" /\ x.handler = "sig_catch"
  \/ at = 2 /\ x.op = "signal" /\ x.sig = "QUIT" /\ x.handler = "sig_catch"
  \/ at = 3 /\ x.op = "signal" /\ x.sig = "TERM" /\ x.handler = "sig_catch"
  \/ at = 4 /\ x.op = "skip_if_state" /\ x.states = {"CBREAK", "RAW"} /\ x.skip = 25
  \/ at = 5 /\ x.op = "tcgetattr" /\ x.skip = 24
  \/ at = 6 /\ x.op = "tcsetattr" /\ x.skip = 23
  \/ at = 7 /\ x.op = "confirm" /\ x.skip = 1
  \/ at = 8 /\ x.op = "give_up" /\ x.skip = 21
  \/ at = 9 /\ x.op = "ttystate" /\ x.state = "RAW"
  \/ at = 10 /\ x.op = "read"
  \/ at = 11 /\ x.op = "go" /\ x.set = {-1, 1, 16}
  \/ at = 12 /\ x.op = "skip_if_state" /\ x.states = {"RESET"} /\ x.skip = 2
  \/ at = 13 /\ x.op = "tcrestore" /\ x.skip = 16
  \/ at = 14 /\ x.op = "ttystate" /\ x.state = "RESET"
  \/ at = 15 /\ x.op = "skip_if_state" /\ x.states = {"CBREAK", "RAW"} /\ x.skip = 5
  \/ at = 16 /\ x.op = "tcgetattr" /\ x.skip = 4
  \/ at = 17 /\ x.op = "tcsetattr" /\ x.skip = 3
  \/ at = 18 /\ x.op = "confirm" /\ x.skip = 1
  \/ at = 19 /\ x.op = "give_up" /\ x.skip = 1
  \/ at = 20 /\ x.op = "ttystate" /\ x.state = "CBREAK"
  \/ at = 21 /\ x.op = "read"
  \/ at = 22 /\ x.op = "go" /\ x.set = {-1, 1}
  \/ at = 23 /\ x.op = "skip_if_state" /\ x.states = {"RESET"} /\ x.skip = 2
  \/ at = 24 /\ x.op = "tcrestore" /\ x.skip = 5
  \/ at = 25 /\ x.op = "ttystate" /\ x.state = "RESET"
  \/ at = 26 /\ x.op = "go" /\ x.set = {4}
  \/ at = 27 /\ x.op = "skip_if_state" /\ x.states = {"RESET"} /\ x.skip = 2
  \/ at = 28 /\ x.op = "tcrestore" /\ x.skip = 1
  \/ at = 29 /\ x.op = "ttystate" /\ x.state = "RESET"
CatchCall(x, k) ==
  \/ k = 1 /\ x.op = "skip_if_state" /\ x.states = {"RESET"} /\ x.skip = 2
  \/ k = 2 /\ x.op = "tcrestore" /\ x.skip = 1
  \/ k = 3 /\ x.op = "ttystate" /\ x.state = "RESET"
  \/ k = 4 /\ x.op = "exit"

LEMMA TermCalls == \A i \in 1..29 : TermCall(Code["abnormal_terminal_test"][i], i)
  <1> SUFFICES ASSUME NEW i \in 1..29 PROVE TermCall(Code["abnormal_terminal_test"][i], i)
    OBVIOUS
  <1>1. CASE i \in 1..5
    <2>1. i = 1 \/ i = 2 \/ i = 3 \/ i = 4 \/ i = 5
      BY <1>1
    <2> QED
      BY <2>1, TerminalCalls DEF TermCall
  <1>2. CASE i \in 6..10
    <2>1. i = 6 \/ i = 7 \/ i = 8 \/ i = 9 \/ i = 10
      BY <1>2
    <2> QED
      BY <2>1, TerminalCalls DEF TermCall
  <1>3. CASE i \in 11..15
    <2>1. i = 11 \/ i = 12 \/ i = 13 \/ i = 14 \/ i = 15
      BY <1>3
    <2> QED
      BY <2>1, TerminalCalls DEF TermCall
  <1>4. CASE i \in 16..20
    <2>1. i = 16 \/ i = 17 \/ i = 18 \/ i = 19 \/ i = 20
      BY <1>4
    <2> QED
      BY <2>1, TerminalCalls DEF TermCall
  <1>5. CASE i \in 21..25
    <2>1. i = 21 \/ i = 22 \/ i = 23 \/ i = 24 \/ i = 25
      BY <1>5
    <2> QED
      BY <2>1, TerminalCalls DEF TermCall
  <1>6. CASE i \in 26..29
    <2>1. i = 26 \/ i = 27 \/ i = 28 \/ i = 29
      BY <1>6
    <2> QED
      BY <2>1, TerminalCalls DEF TermCall
  <1> QED
    BY <1>1, <1>2, <1>3, <1>4, <1>5, <1>6

\* What a call of the main function leads to.
LEMMA TtyMoves ==
  ASSUME NEW x, NEW at \in Nat \ {0}, NEW to, TermCall(x, at), TtyAt(at, tty),
         IF x.op \in TtyOps THEN TtyDoes(x, at, to) ELSE tty' = tty,
         x.op = "go" => \E k \in x.set : to = at + k,
         x.op \in {"signal", "read"} => to = at + 1
  PROVE  TtyAt(to, tty')
  <1>1. CASE at = 1
    <2>1. tty' = tty /\ TtyAt(1, tty) /\ to = 2
      BY <1>1 DEF TermCall, TtyOps
    <2> QED
      BY <2>1 DEF TtyAt, Safe
  <1>2. CASE at = 2
    <2>1. tty' = tty /\ TtyAt(2, tty) /\ to = 3
      BY <1>2 DEF TermCall, TtyOps
    <2> QED
      BY <2>1 DEF TtyAt, Safe
  <1>3. CASE at = 3
    <2>1. tty' = tty /\ TtyAt(3, tty) /\ to = 4
      BY <1>3 DEF TermCall, TtyOps
    <2> QED
      BY <2>1 DEF TtyAt, Safe
  <1>4. CASE at = 4
    <2>1. TtyDoes(x, 4, to) /\ TermCall(x, 4) /\ TtyAt(4, tty) /\ x.op = "skip_if_state"
      BY <1>4 DEF TermCall, TtyOps
    <2> QED
      BY <2>1 DEF TtyDoes, Restores, TermCall, TtyAt, Safe
  <1>5. CASE at = 5
    <2>1. TtyDoes(x, 5, to) /\ TermCall(x, 5) /\ TtyAt(5, tty) /\ x.op = "tcgetattr"
      BY <1>5 DEF TermCall, TtyOps
    <2> QED
      BY <2>1 DEF TtyDoes, Restores, TermCall, TtyAt, Safe
  <1>6. CASE at = 6
    <2>1. TtyDoes(x, 6, to) /\ TermCall(x, 6) /\ TtyAt(6, tty) /\ x.op = "tcsetattr"
      BY <1>6 DEF TermCall, TtyOps
    <2> QED
      BY <2>1 DEF TtyDoes, Restores, TermCall, TtyAt, Safe
  <1>7. CASE at = 7
    <2>1. TtyDoes(x, 7, to) /\ TermCall(x, 7) /\ TtyAt(7, tty) /\ x.op = "confirm"
      BY <1>7 DEF TermCall, TtyOps
    <2> QED
      BY <2>1 DEF TtyDoes, Restores, TermCall, TtyAt, Safe
  <1>8. CASE at = 8
    <2>1. TtyDoes(x, 8, to) /\ TermCall(x, 8) /\ TtyAt(8, tty) /\ x.op = "give_up"
      BY <1>8 DEF TermCall, TtyOps
    <2> QED
      BY <2>1 DEF TtyDoes, Restores, TermCall, TtyAt, Safe
  <1>9. CASE at = 9
    <2>1. TtyDoes(x, 9, to) /\ TermCall(x, 9) /\ TtyAt(9, tty) /\ x.op = "ttystate"
      BY <1>9 DEF TermCall, TtyOps
    <2> QED
      BY <2>1 DEF TtyDoes, Restores, TermCall, TtyAt, Safe
  <1>10. CASE at = 10
    <2>1. tty' = tty /\ TtyAt(10, tty) /\ to = 11
      BY <1>10 DEF TermCall, TtyOps
    <2> QED
      BY <2>1 DEF TtyAt, Safe
  <1>11. CASE at = 11
    <2>1. tty' = tty /\ TtyAt(11, tty) /\ to \in {10, 12, 27}
      BY <1>11 DEF TermCall, TtyOps
    <2> QED
      BY <2>1 DEF TtyAt, Safe
  <1>12. CASE at = 12
    <2>1. TtyDoes(x, 12, to) /\ TermCall(x, 12) /\ TtyAt(12, tty) /\ x.op = "skip_if_state"
      BY <1>12 DEF TermCall, TtyOps
    <2> QED
      BY <2>1 DEF TtyDoes, Restores, TermCall, TtyAt, Safe
  <1>13. CASE at = 13
    <2>1. TtyDoes(x, 13, to) /\ TermCall(x, 13) /\ TtyAt(13, tty) /\ x.op = "tcrestore"
      BY <1>13 DEF TermCall, TtyOps
    <2> QED
      BY <2>1 DEF TtyDoes, Restores, TermCall, TtyAt, Safe
  <1>14. CASE at = 14
    <2>1. TtyDoes(x, 14, to) /\ TermCall(x, 14) /\ TtyAt(14, tty) /\ x.op = "ttystate"
      BY <1>14 DEF TermCall, TtyOps
    <2> QED
      BY <2>1 DEF TtyDoes, Restores, TermCall, TtyAt, Safe
  <1>15. CASE at = 15
    <2>1. TtyDoes(x, 15, to) /\ TermCall(x, 15) /\ TtyAt(15, tty) /\ x.op = "skip_if_state"
      BY <1>15 DEF TermCall, TtyOps
    <2> QED
      BY <2>1 DEF TtyDoes, Restores, TermCall, TtyAt, Safe
  <1>16. CASE at = 16
    <2>1. TtyDoes(x, 16, to) /\ TermCall(x, 16) /\ TtyAt(16, tty) /\ x.op = "tcgetattr"
      BY <1>16 DEF TermCall, TtyOps
    <2> QED
      BY <2>1 DEF TtyDoes, Restores, TermCall, TtyAt, Safe
  <1>17. CASE at = 17
    <2>1. TtyDoes(x, 17, to) /\ TermCall(x, 17) /\ TtyAt(17, tty) /\ x.op = "tcsetattr"
      BY <1>17 DEF TermCall, TtyOps
    <2> QED
      BY <2>1 DEF TtyDoes, Restores, TermCall, TtyAt, Safe
  <1>18. CASE at = 18
    <2>1. TtyDoes(x, 18, to) /\ TermCall(x, 18) /\ TtyAt(18, tty) /\ x.op = "confirm"
      BY <1>18 DEF TermCall, TtyOps
    <2> QED
      BY <2>1 DEF TtyDoes, Restores, TermCall, TtyAt, Safe
  <1>19. CASE at = 19
    <2>1. TtyDoes(x, 19, to) /\ TermCall(x, 19) /\ TtyAt(19, tty) /\ x.op = "give_up"
      BY <1>19 DEF TermCall, TtyOps
    <2> QED
      BY <2>1 DEF TtyDoes, Restores, TermCall, TtyAt, Safe
  <1>20. CASE at = 20
    <2>1. TtyDoes(x, 20, to) /\ TermCall(x, 20) /\ TtyAt(20, tty) /\ x.op = "ttystate"
      BY <1>20 DEF TermCall, TtyOps
    <2> QED
      BY <2>1 DEF TtyDoes, Restores, TermCall, TtyAt, Safe
  <1>21. CASE at = 21
    <2>1. tty' = tty /\ TtyAt(21, tty) /\ to = 22
      BY <1>21 DEF TermCall, TtyOps
    <2> QED
      BY <2>1 DEF TtyAt, Safe
  <1>22. CASE at = 22
    <2>1. tty' = tty /\ TtyAt(22, tty) /\ to \in {21, 23}
      BY <1>22 DEF TermCall, TtyOps
    <2> QED
      BY <2>1 DEF TtyAt, Safe
  <1>23. CASE at = 23
    <2>1. TtyDoes(x, 23, to) /\ TermCall(x, 23) /\ TtyAt(23, tty) /\ x.op = "skip_if_state"
      BY <1>23 DEF TermCall, TtyOps
    <2> QED
      BY <2>1 DEF TtyDoes, Restores, TermCall, TtyAt, Safe
  <1>24. CASE at = 24
    <2>1. TtyDoes(x, 24, to) /\ TermCall(x, 24) /\ TtyAt(24, tty) /\ x.op = "tcrestore"
      BY <1>24 DEF TermCall, TtyOps
    <2> QED
      BY <2>1 DEF TtyDoes, Restores, TermCall, TtyAt, Safe
  <1>25. CASE at = 25
    <2>1. TtyDoes(x, 25, to) /\ TermCall(x, 25) /\ TtyAt(25, tty) /\ x.op = "ttystate"
      BY <1>25 DEF TermCall, TtyOps
    <2> QED
      BY <2>1 DEF TtyDoes, Restores, TermCall, TtyAt, Safe
  <1>26. CASE at = 26
    <2>1. tty' = tty /\ TtyAt(26, tty) /\ to \in {30}
      BY <1>26 DEF TermCall, TtyOps
    <2> QED
      BY <2>1 DEF TtyAt, Safe
  <1>27. CASE at = 27
    <2>1. TtyDoes(x, 27, to) /\ TermCall(x, 27) /\ TtyAt(27, tty) /\ x.op = "skip_if_state"
      BY <1>27 DEF TermCall, TtyOps
    <2> QED
      BY <2>1 DEF TtyDoes, Restores, TermCall, TtyAt, Safe
  <1>28. CASE at = 28
    <2>1. TtyDoes(x, 28, to) /\ TermCall(x, 28) /\ TtyAt(28, tty) /\ x.op = "tcrestore"
      BY <1>28 DEF TermCall, TtyOps
    <2> QED
      BY <2>1 DEF TtyDoes, Restores, TermCall, TtyAt, Safe
  <1>29. CASE at = 29
    <2>1. TtyDoes(x, 29, to) /\ TermCall(x, 29) /\ TtyAt(29, tty) /\ x.op = "ttystate"
      BY <1>29 DEF TermCall, TtyOps
    <2> QED
      BY <2>1 DEF TtyDoes, Restores, TermCall, TtyAt, Safe
  <1> QED
    BY <1>1, <1>2, <1>3, <1>4, <1>5, <1>6, <1>7, <1>8, <1>9, <1>10, <1>11, <1>12, <1>13, <1>14, <1>15, <1>16, <1>17, <1>18, <1>19, <1>20, <1>21, <1>22, <1>23, <1>24, <1>25, <1>26, <1>27, <1>28, <1>29 DEF TermCall

\* What a call of its handler leads to.
LEMMA CatchMoves ==
  ASSUME NEW x, NEW i \in Nat \ {0}, NEW k \in Nat \ {0}, NEW to, CatchCall(x, k), CatchAt(i, k, tty), x.op # "exit",
         TtyDoes(x, k, to)
  PROVE  CatchAt(i, to, tty')
  <1>1. CASE k = 1
    BY <1>1 DEF TtyDoes, Restores, CatchCall, CatchAt, Safe
  <1>2. CASE k = 2
    BY <1>2 DEF TtyDoes, Restores, CatchCall, CatchAt, Safe
  <1>3. CASE k = 3
    BY <1>3 DEF TtyDoes, Restores, CatchCall, CatchAt, Safe
  <1> QED
    BY <1>1, <1>2, <1>3 DEF CatchCall

\* Where abnormal_terminal_test and its handler stand.
LEMMA TermStands ==
  ASSUME CodesInv, program = "abnormal_terminal_test", Running("parent")
  PROVE  LET q == proc["parent"]
             x == Instr("parent")
             at == q.stack[1].pc
             l == Len(q.stack)
             k == q.stack[l].pc
         IN /\ at \in Nat \ {0} /\ l \in Nat \ {0} /\ k \in Nat \ {0} /\ q \in ProcType /\ Top("parent").pc = k
            /\ l = 1 /\ MoreToDo("parent") => TermCall(x, at) /\ Top("parent").code = "abnormal_terminal_test"
            /\ l = 1 /\ ~MoreToDo("parent") => at > 29
            /\ l # 1 => l > 1 /\ (MoreToDo("parent") <=> k <= 4) /\ Top("parent").code = "sig_catch"
            /\ l # 1 /\ MoreToDo("parent") => CatchCall(x, k)
  <1> DEFINE q == proc["parent"]
             x == Instr("parent")
             at == q.stack[1].pc
             l == Len(q.stack)
             k == q.stack[l].pc
  <1>1. /\ l \in Nat \ {0} /\ q \in ProcType /\ at \in Nat \ {0}
        /\ l = 1 => /\ Top("parent") = q.stack[1] /\ Top("parent").code = program
                    /\ MoreToDo("parent") => at \in 1..Len(Code[program]) /\ x = Code[program][at]
                    /\ ~MoreToDo("parent") => at > Len(Code[program])
        /\ l # 1 => l > 1
    BY MainStands
  <1>2. Len(Code["abnormal_terminal_test"]) = 29
    BY TerminalCalls
  <1>3. Top("parent") = q.stack[l] /\ Top("parent") \in FrameType
    BY Stands DEF Procs
  <1>4. k \in Nat \ {0} /\ Top("parent").pc = k
    BY <1>3 DEF FrameType
  <1>5. l = 1 /\ MoreToDo("parent") => TermCall(x, at)
    BY <1>1, <1>2, TermCalls
  <1>6. ASSUME l # 1
        PROVE  /\ (MoreToDo("parent") <=> k <= 4) /\ Top("parent").code = "sig_catch"
               /\ MoreToDo("parent") => CatchCall(x, k)
    <2>1. l \in 2..l
      <3> HIDE DEF l
      <3> QED
        BY <1>1, <1>6
    <2>2. <<q.stack[l].sig, q.stack[l].code>> \in HandlersOf["abnormal_terminal_test"]
      BY <2>1 DEF CodesInv, StackOK, Procs
    <2>3. Top("parent").code = "sig_catch"
      BY <1>3, <2>2, HandlersAre
    <2>4. Len(Code["sig_catch"]) = 4
      BY SigCatchCalls
    <2>5. MoreToDo("parent") <=> k <= 4
      BY <1>4, <2>3, <2>4 DEF MoreToDo
    <2>6. x = Code["sig_catch"][k]
      BY <1>4, <2>3 DEF Instr
    <2>7. k <= 4 => k = 1 \/ k = 2 \/ k = 3 \/ k = 4
      <3> HIDE DEF k
      <3> QED
        BY <1>4
    <2>8. k <= 4 => CatchCall(x, k)
      <3> HIDE DEF x, k
      <3> QED
        BY <2>6, <2>7, SigCatchCalls DEF CatchCall
    <2> QED
      BY <2>3, <2>5, <2>8
  <1> QED
    BY <1>1, <1>2, <1>4, <1>5, <1>6

\* A call of the main function.
LEMMA MainTty ==
  ASSUME CodesInv, TtyInv, program = "abnormal_terminal_test", program' = program, Call("parent"),
         Len(proc["parent"].stack) = 1
  PROVE  TtyInv'
  <1> DEFINE q == proc["parent"]
             r == proc'["parent"]
             at == q.stack[1].pc
             to == r.stack[1].pc
             x == Instr("parent")
  <1>1. Running("parent") /\ MoreToDo("parent") /\ x.op \in CallOps /\ Effect("parent", r)
    BY DEF Call, Calling
  <1>2. /\ at \in Nat \ {0} /\ TermCall(x, at) /\ Top("parent").pc = at
        /\ Top("parent").code = "abnormal_terminal_test" /\ x = Code["abnormal_terminal_test"][at]
    BY <1>1, TermStands DEF Instr
  <1>3. PICK j \in Succ(Top("parent").code, Top("parent").pc) : Moved(q.stack, r.stack, j)
    BY DEF Call
  <1>4. to = j /\ Len(r.stack) = 1
    BY <1>2, <1>3 DEF Moved
  <1>5. IF x.op \in TtyOps THEN TtyDoes(x, at, to) ELSE tty' = tty
    BY <1>2, TerminalDoes DEF Call
  <1>6. x.op = "go" => \E k \in x.set : to = at + k
    BY <1>2, <1>3, <1>4 DEF Succ
  <1>7. x.op \in {"signal", "read"} => to = at + 1
    BY <1>2, <1>3, <1>4 DEF Succ, SkipOps
  <1>8. /\ (at >= 2 => Catches("INT")) /\ (at >= 3 => Catches("QUIT")) /\ (at >= 4 => Catches("TERM"))
        /\ TtyAt(at, tty)
    BY <1>1 DEF TtyInv
  <1>9. TtyAt(to, tty')
    <2> HIDE DEF x, at, to
    <2> QED
      BY <1>2, <1>5, <1>6, <1>7, <1>8, TtyMoves
  <1>10. \A s \in Sigs : /\ x.op # "signal" => r.disp[s] = q.disp[s]
                         /\ x.op = "signal" /\ s = x.sig => r.disp[s] = x.handler
                         /\ x.op = "signal" /\ s # x.sig => r.disp[s] = q.disp[s]
    <2>1. x.op \notin {"ignore", "restore", "unignore"}
      <3> HIDE DEF x, at
      <3> QED
        BY <1>2 DEF TermCall
    <2> QED
      BY <1>1, <2>1 DEF Effect
  <1>11. x.op = "signal" => at \in {1, 2, 3}
    <2> HIDE DEF x, at
    <2> QED
      BY <1>2 DEF TermCall
  <1>12. at < 4 => x.op = "signal" /\ x.handler = "sig_catch" /\ x.sig = (IF at = 1 THEN "INT" ELSE IF at = 2 THEN "QUIT" ELSE "TERM")
    <2>1. at < 4 => at = 1 \/ at = 2 \/ at = 3
      <3> HIDE DEF at
      <3> QED
        BY <1>2
    <2> HIDE DEF x, at
    <2> QED
      BY <1>2, <2>1 DEF TermCall
  <1>13. /\ (to >= 2 => r.disp["INT"] = "sig_catch") /\ (to >= 3 => r.disp["QUIT"] = "sig_catch")
         /\ (to >= 4 => r.disp["TERM"] = "sig_catch")
    <2>1. "INT" \in Sigs /\ "QUIT" \in Sigs /\ "TERM" \in Sigs
      BY DEF Sigs
    <2>2. /\ (at >= 2 => q.disp["INT"] = "sig_catch") /\ (at >= 3 => q.disp["QUIT"] = "sig_catch")
          /\ (at >= 4 => q.disp["TERM"] = "sig_catch")
      BY <1>8 DEF Catches
    <2> HIDE DEF x, at, to, q, r
    <2>3. CASE at >= 4
      BY <1>2, <1>10, <1>11, <2>1, <2>2, <2>3
    <2>4. CASE at = 1
      BY <1>7, <1>10, <1>12, <2>1, <2>4
    <2>5. CASE at = 2
      BY <1>7, <1>10, <1>12, <2>1, <2>2, <2>5
    <2>6. CASE at = 3
      BY <1>7, <1>10, <1>12, <2>1, <2>2, <2>6
    <2> QED
      BY <1>2, <2>3, <2>4, <2>5, <2>6
  <1> QED
    BY <1>4, <1>9, <1>13 DEF TtyInv, Catches

\* A call of the handler.
LEMMA CatchTty ==
  ASSUME CodesInv, TtyInv, program = "abnormal_terminal_test", program' = program, Call("parent"),
         Len(proc["parent"].stack) # 1
  PROVE  TtyInv'
  <1> DEFINE q == proc["parent"]
             r == proc'["parent"]
             at == q.stack[1].pc
             l == Len(q.stack)
             k == q.stack[l].pc
             x == Instr("parent")
  <1>1. Running("parent") /\ MoreToDo("parent") /\ x.op \in CallOps /\ Effect("parent", r)
    BY DEF Call, Calling
  <1>2. /\ at \in Nat \ {0} /\ l \in Nat \ {0} /\ k \in Nat \ {0} /\ l > 1 /\ CatchCall(x, k) /\ Top("parent").pc = k
    BY <1>1, TermStands
  <1>3. PICK j : Moved(q.stack, r.stack, j)
    BY DEF Call
  <1>4. Len(r.stack) = l /\ r.stack[1].pc = at
    <2>1. 1 \in 1..l /\ 1 # l
      <3> HIDE DEF l
      <3> QED
        BY <1>2
    <2> QED
      BY <1>3, <2>1 DEF Moved
  <1>5. x.op \in TtyOps /\ x.op # "exit" /\ x.op # "signal"
    <2> HIDE DEF x, k
    <2> QED
      BY <1>1, <1>2 DEF CatchCall, CallOps, TtyOps
  <1>6. TtyDoes(x, k, r.stack[l].pc)
    BY <1>2, <1>5, TerminalDoes DEF Call
  <1>7. /\ (at >= 2 => Catches("INT")) /\ (at >= 3 => Catches("QUIT")) /\ (at >= 4 => Catches("TERM"))
        /\ CatchAt(at, k, tty)
    BY <1>1, <1>2 DEF TtyInv
  <1>8. CatchAt(at, r.stack[l].pc, tty')
    <2> HIDE DEF x, k, at
    <2> QED
      BY <1>2, <1>5, <1>6, <1>7, CatchMoves
  <1>9. \A s \in Sigs : r.disp[s] = q.disp[s]
    <2>1. x.op \notin {"signal", "ignore", "restore", "unignore"}
      BY <1>5 DEF TtyOps
    <2> QED
      BY <1>1, <2>1 DEF Effect
  <1>10. /\ (at >= 2 => r.disp["INT"] = "sig_catch") /\ (at >= 3 => r.disp["QUIT"] = "sig_catch")
         /\ (at >= 4 => r.disp["TERM"] = "sig_catch")
    BY <1>7, <1>9 DEF Catches, Sigs
  <1>11. l # 1
    OBVIOUS
  <1> HIDE DEF at, l, q, r
  <1>12. r.stack[1].pc = at /\ Len(r.stack) = l
    BY <1>4
  <1> QED
    BY <1>8, <1>10, <1>11, <1>12 DEF TtyInv, Catches, r

\* The handler starts, on the main function or on itself.
LEMMA HandlesTty ==
  ASSUME CodesInv, TtyInv, program = "abnormal_terminal_test", program' = program, Handles("parent")
  PROVE  TtyInv'
  <1> DEFINE q == proc["parent"]
             r == proc'["parent"]
             at == q.stack[1].pc
             l == Len(q.stack)
             k == q.stack[l].pc
             x == Instr("parent")
             interrupted == q.inside /\ x.op \in Interruptible
  <1>1. PICK s \in Deliverable("parent") :
          /\ Running("parent") /\ q.disp[s] \notin NoHandler
          /\ Keeps(q, r, {"stack", "inside", "mask", "pending", "rings"})
          /\ Len(r.stack) = l + 1 /\ tty' = tty
          /\ \A m \in 1..l : r.stack[m].pc = IF m = l /\ interrupted THEN q.stack[m].pc + 1 ELSE q.stack[m].pc
          /\ r.stack[l + 1] = Frame(q.disp[s], s, IF q.inside /\ x.op = "sigsuspend" THEN q.before ELSE q.mask)
    BY DEF Handles
  <1>2. /\ at \in Nat \ {0} /\ l \in Nat \ {0} /\ k \in Nat \ {0} /\ (l # 1 => l > 1)
        /\ l = 1 /\ MoreToDo("parent") => TermCall(x, at)
        /\ l # 1 /\ MoreToDo("parent") => CatchCall(x, k)
    BY <1>1, TermStands
  <1>3. ~interrupted
    <2>1. q.inside => MoreToDo("parent")
      BY <1>1 DEF CodesInv, StackOK, Procs
    <2>2. MoreToDo("parent") => x.op \notin Interruptible
      <3> HIDE DEF x, at, k, l
      <3> QED
        BY <1>2 DEF TermCall, CatchCall, Interruptible
    <2> QED
      BY <2>1, <2>2
  <1>4. r.stack[1].pc = at
    <2>1. 1 \in 1..l
      <3> HIDE DEF l
      <3> QED
        BY <1>2
    <2> HIDE DEF interrupted, l
    <2> QED
      BY <1>1, <1>3, <2>1
  <1>5. r.stack[l + 1].pc = 1 /\ r.disp = q.disp
    BY <1>1 DEF Frame, Keeps, Fields
  <1>6. /\ (at >= 2 => Catches("INT")) /\ (at >= 3 => Catches("QUIT")) /\ (at >= 4 => Catches("TERM"))
        /\ l = 1 => TtyAt(at, tty)
        /\ l > 1 => CatchAt(at, k, tty)
    BY <1>1 DEF TtyInv
  <1>7. CatchAt(at, 1, tty)
    <2>1. CASE l # 1
      <3> HIDE DEF at, k
      <3> QED
        BY <1>2, <1>6, <2>1 DEF CatchAt
    <2>2. CASE l = 1
      <3> HIDE DEF at
      <3>1. TtyAt(at, tty)
        BY <1>6, <2>2
      <3>2. at <= 3 => at \in 1..6 /\ at \in 1..9 \cup 15..20 \cup {26}
        BY <1>2
      <3>3. ~tty.failed /\ at <= 3 => tty.mode = "normal" /\ tty.ttystate = "RESET"
        BY <3>1, <3>2 DEF TtyAt
      <3>4. ~tty.failed /\ at \notin 7..9 \cup 18..20 => Safe(tty)
        <4>1. CASE at <= 6
          BY <1>2, <3>1, <4>1 DEF TtyAt, Safe
        <4>2. CASE at \in 10..17
          BY <3>1, <4>2 DEF TtyAt, Safe
        <4>3. CASE at \in 21..29
          BY <3>1, <4>3 DEF TtyAt, Safe
        <4>4. CASE at >= 30
          BY <3>1, <4>4 DEF TtyAt, Safe
        <4>5. at <= 6 \/ at \in 7..9 \/ at \in 10..17 \/ at \in 18..20 \/ at \in 21..29 \/ at >= 30
          <5>1. at \in Nat
            BY <1>2
          <5> QED
            BY <5>1
        <4> QED
          BY <4>1, <4>2, <4>3, <4>4, <4>5
      <3> QED
        BY <3>3, <3>4 DEF CatchAt
    <2> QED
      BY <2>1, <2>2
  <1>8. Len(r.stack) > 1 /\ Len(r.stack) # 1 /\ r.stack[Len(r.stack)].pc = 1
    <2>1. l + 1 > 1 /\ l + 1 # 1
      <3> HIDE DEF l
      <3> QED
        BY <1>2
    <2> QED
      BY <1>1, <1>5, <2>1
  <1>9. /\ (at >= 2 => r.disp["INT"] = "sig_catch") /\ (at >= 3 => r.disp["QUIT"] = "sig_catch")
        /\ (at >= 4 => r.disp["TERM"] = "sig_catch")
    BY <1>5, <1>6 DEF Catches
  <1>10. CatchAt(r.stack[1].pc, r.stack[Len(r.stack)].pc, tty')
    BY <1>1, <1>4, <1>7, <1>8
  <1> HIDE DEF at, r
  <1> QED
    BY <1>4, <1>8, <1>9, <1>10 DEF TtyInv, Catches, r

LEMMA StepTty == ASSUME CodesInv, TtyInv, Shapes PROVE TtyInv'
  <1> DEFINE q == proc["parent"]
             r == proc'["parent"]
             at == q.stack[1].pc
             l == Len(q.stack)
             k == q.stack[l].pc
             x == Instr("parent")
  <1>1. program' = program
    BY DEF Shapes
  <1>2. CASE program # "abnormal_terminal_test"
    BY <1>1, <1>2 DEF TtyInv
  <1>3. CASE program = "abnormal_terminal_test"
    <2>1. program \notin Forkers
      BY <1>3 DEF Forkers
    <2>2. ASSUME Running("parent")
          PROVE  /\ at \in Nat \ {0} /\ l \in Nat \ {0} /\ k \in Nat \ {0} /\ (l # 1 => l > 1) /\ Top("parent").pc = k
                 /\ l = 1 /\ MoreToDo("parent") => TermCall(x, at)
                 /\ l # 1 /\ MoreToDo("parent") => CatchCall(x, k)
                 /\ l # 1 => (MoreToDo("parent") <=> k <= 4)
                 /\ l = 1 => TtyAt(at, tty)
                 /\ l > 1 => CatchAt(at, k, tty)
      BY <1>3, <2>2, TermStands DEF TtyInv
    <2>3. ASSUME Running("parent"), MoreToDo("parent")
          PROVE  /\ x.op \notin {"kill", "longjmp", "sleep", "command"}
                 /\ x.op = "read" => l = 1 /\ (at = 10 \/ at = 21)
      <3> HIDE DEF x, at, l, k
      <3> QED
        BY <2>2, <2>3 DEF TermCall, CatchCall
    <2>4. ~Kills("parent") /\ ~Jumps("parent")
      BY <2>3 DEF Kills, Jumps, Calling
    <2>5. ASSUME Returns("parent")
          PROVE  FALSE
      <3>1. Running("parent") /\ ~MoreToDo("parent") /\ l > 1
        BY <2>5 DEF Returns
      <3>2. l # 1
        <4> HIDE DEF l
        <4> QED
          BY <3>1
      <3>3. ~(k <= 4) /\ k \in 1..4
        BY <2>2, <3>1, <3>2 DEF CatchAt
      <3> HIDE DEF k
      <3> QED
        BY <3>3
    <2>6. CASE Call("parent")
      BY <1>1, <1>3, <2>6, MainTty, CatchTty
    <2>7. CASE Dies("parent")
      BY <2>7, ParentEnds DEF TtyInv
    <2>8. CASE tty' = tty /\ (Enters("parent") \/ Stays)
      <3>1. r.stack = q.stack /\ r.status = q.status
        BY <2>8 DEF Enters, Stays, Keeps, Fields
      <3>2. r.disp = q.disp
        <4>1. Stays => r.disp = q.disp
          BY DEF Stays, Keeps, Fields
        <4>2. Enters("parent") => Running("parent") /\ MoreToDo("parent") /\ (x.op # "command" => r.disp = q.disp)
          BY DEF Enters, Calling
        <4> QED
          BY <2>3, <2>8, <4>1, <4>2
      <3> QED
        BY <1>1, <2>8, <3>1, <3>2 DEF TtyInv, Catches, Running
    <2>9. CASE tty' = tty /\ Leaves("parent")
      <3>1. /\ Running("parent") /\ MoreToDo("parent") /\ x.op \in {"sleep", "command", "read"}
            /\ Moved(q.stack, r.stack, Top("parent").pc + 1) /\ Keeps(q, r, {"inside", "stack"})
        BY <2>9 DEF Leaves
      <3>2. l = 1 /\ (at = 10 \/ at = 21)
        BY <2>3, <3>1
      <3>3. Top("parent").pc = at
        BY <2>2, <3>1, <3>2
      <3>4. r.stack[1].pc = at + 1 /\ Len(r.stack) = 1
        BY <3>1, <3>2, <3>3 DEF Moved
      <3>5. r.disp = q.disp
        BY <3>1 DEF Keeps, Fields
      <3>6. TtyAt(at, tty) /\ Catches("INT") /\ Catches("QUIT") /\ Catches("TERM")
        BY <1>3, <3>1, <3>2 DEF TtyInv
      <3>7. TtyAt(at + 1, tty)
        <4> HIDE DEF at, l
        <4>1. CASE at = 10
          BY <3>6, <4>1 DEF TtyAt
        <4>2. CASE at = 21
          BY <3>6, <4>2 DEF TtyAt
        <4> QED
          BY <3>2, <4>1, <4>2
      <3>8. TtyAt(r.stack[1].pc, tty')
        BY <2>9, <3>4, <3>7
      <3> QED
        BY <3>4, <3>5, <3>6, <3>8 DEF TtyInv, Catches
    <2>10. CASE Handles("parent")
      BY <1>1, <1>3, <2>10, HandlesTty
    <2> QED
      BY <2>1, <2>4, <2>5, <2>6, <2>7, <2>8, <2>9, <2>10, AloneSteps
  <1> QED
    BY <1>2, <1>3

\* It ends with the terminal as it was, unless it has not noted that it has changed it, a
\* call that was to restore it has failed, or SIGTSTP, which it does not catch, stops it.
LEMMA TermEnds ==
  ASSUME CodesInv, TtyInv, Dies("parent"), program = "abnormal_terminal_test"
  PROVE  tty.mode = "normal" \/ tty.failed \/ Unnoted \/ proc'["parent"].status = "TSTP"
  <1> DEFINE q == proc["parent"]
             r == proc'["parent"]
             at == q.stack[1].pc
             l == Len(q.stack)
             k == q.stack[l].pc
             x == Instr("parent")
  <1>1. PICK how \in {"exited"} \cup Deliverable("parent") :
          /\ how = "exited" => \/ MoreToDo("parent") /\ Instr("parent").op = "exit"
                               \/ ~MoreToDo("parent") /\ InMain("parent") /\ Deliverable("parent") = {}
          /\ how # "exited" => q.disp[how] = "SIG_DFL"
          /\ r.status = how /\ Running("parent")
    BY DEF Dies
  <1>2. /\ at \in Nat \ {0} /\ l \in Nat \ {0} /\ k \in Nat \ {0} /\ (l # 1 => l > 1)
        /\ l = 1 /\ MoreToDo("parent") => TermCall(x, at)
        /\ l = 1 /\ ~MoreToDo("parent") => at > 29
        /\ l # 1 /\ MoreToDo("parent") => CatchCall(x, k)
    BY <1>1, TermStands
  <1>3. /\ (at >= 2 => Catches("INT")) /\ (at >= 3 => Catches("QUIT")) /\ (at >= 4 => Catches("TERM"))
        /\ l = 1 => TtyAt(at, tty)
        /\ l > 1 => CatchAt(at, k, tty)
    BY <1>1 DEF TtyInv
  <1>4. CASE how = "exited" /\ MoreToDo("parent") /\ x.op = "exit"
    <2>1. l # 1 /\ k = 4
      <3> HIDE DEF x, at, l, k
      <3> QED
        BY <1>2, <1>4 DEF TermCall, CatchCall
    <2>2. at \in 7..9 \cup 18..20 \/ tty.mode = "normal" \/ tty.failed
      <3> HIDE DEF at, l, k
      <3> QED
        BY <1>2, <1>3, <2>1 DEF CatchAt
    <2>3. at \in 7..9 \cup 18..20 => Unnoted
      <3>1. At = at /\ DOMAIN Code["abnormal_terminal_test"] = 1..29
        <4>1. DOMAIN Code["abnormal_terminal_test"] = 1..29
          BY CodeIs DEF abnormal_terminal_test, tty_raw, tty_cbreak, tty_reset, tty_set,
             signal, skip_if_state, tcgetattr, tcsetattr, confirm, give_up, ttystate, read, go, tcrestore
        <4> QED
          BY <1>1, <4>1 DEF At
      <3>2. at \in 7..9 \cup 18..20 => at = 7 \/ at = 8 \/ at = 9 \/ at = 18 \/ at = 19 \/ at = 20
        <4> HIDE DEF at
        <4> QED
          BY <1>2
      <3> HIDE DEF at
      <3> QED
        BY <3>1, <3>2, TerminalCalls DEF Unnoted
    <2> QED
      BY <2>2, <2>3
  <1>5. CASE how = "exited" /\ ~MoreToDo("parent") /\ InMain("parent")
    <2>1. l = 1 /\ at > 29
      BY <1>2, <1>5 DEF InMain
    <2> HIDE DEF at, l
    <2>2. at >= 30
      BY <1>2, <2>1
    <2> QED
      BY <1>3, <2>1, <2>2 DEF TtyAt
  <1>6. CASE how \in Deliverable("parent") /\ how # "TSTP"
    <2>1. how \in {"INT", "QUIT", "TERM"}
      BY <1>6, PendingAre DEF Deliverable, CodesInv, PendingOK, Procs
    <2>2. q.disp[how] = "SIG_DFL"
      BY <1>1, <2>1
    <2>3. at <= 3
      <3>1. ~(at >= 4)
        <4> SUFFICES ASSUME at >= 4 PROVE FALSE
          OBVIOUS
        <4>1. at >= 2 /\ at >= 3
          <5> HIDE DEF at
          <5> QED
            BY <1>2
        <4> QED
          BY <1>3, <2>1, <2>2, <4>1 DEF Catches
      <3> HIDE DEF at
      <3> QED
        BY <1>2, <3>1
    <2>4. l = 1 => tty.mode = "normal" \/ tty.failed
      <3> HIDE DEF at, l
      <3> QED
        BY <1>2, <1>3, <2>3 DEF TtyAt
    <2>5. l # 1 => tty.mode = "normal" \/ tty.failed
      <3> HIDE DEF at, l, k
      <3> QED
        BY <1>2, <1>3, <2>3 DEF CatchAt
    <2> QED
      BY <2>4, <2>5
  <1> QED
    BY <1>1, <1>4, <1>5, <1>6

LEMMA TerminalGiven == ASSUME CodesInv, MaskInv, TtyInv, GetpassInv, Shapes PROVE TerminalRestored
  BY EndsByDying, GetpassEnds, TermEnds DEF TerminalRestored

LEMMA InitEnds == ASSUME Init, CodesInv PROVE AbortInv /\ TtyInv /\ GetpassInv
  <1> DEFINE q == proc["parent"]
  <1>1. Len(q.stack) = 1 /\ q.stack[1].pc = 1
    BY InitParent
  <1>2. tty.mode = "normal" /\ tty.saved = "none" /\ tty.ttystate = "RESET"
    BY DEF Init
  <1>3. AbortInv
    BY <1>1 DEF AbortInv
  <1>4. TtyAt(1, tty)
    BY <1>2 DEF TtyAt, Safe
  <1>5. TtyInv
    BY <1>1, <1>4 DEF TtyInv
  <1>6. GetpassInv
    BY <1>1, <1>2 DEF GetpassInv
  <1> QED
    BY <1>3, <1>5, <1>6

-----------------------------------------------------------------------------
(* The theorems about the programs of Signals *)

SignalsInv == CodesInv /\ MaskInv /\ JumpInv /\ OnceInv /\ QuietInv /\ SystemInv /\ TellInv
              /\ AbortInv /\ TtyInv /\ GetpassInv

LEMMA InitSignalsInv == Init => SignalsInv
  BY InitCodes, InitJumps, InitPairs, InitEnds DEF SignalsInv

LEMMA StepSignalsInv == ASSUME SignalsInv, [Next]_vars PROVE SignalsInv'
  <1>1. CASE Next
    <2>1. CodesInv' /\ Shapes
      BY <1>1, StepCodes DEF SignalsInv
    <2> QED
      BY <2>1, StepMask, StepJump, StepOnce, StepQuiet, StepSystem, StepTell,
         StepAbort, StepTty, StepGetpass DEF SignalsInv
  <1>2. CASE UNCHANGED vars
    <2> USE <1>2 DEF vars, SignalsInv
    <2>1. CodesInv'
      <3>1. SigTypeOK'
        BY DEF CodesInv, SigTypeOK
      <3>2. ASSUME NEW p \in Procs
            PROVE  StackOK(p)' /\ HandlersOK(p)' /\ PendingOK(p)' /\ JmpOK(p)'
        <4>1. StackOK(p) /\ HandlersOK(p) /\ PendingOK(p) /\ JmpOK(p)
          BY DEF CodesInv
        <4>2. StackOK(p)'
          BY <4>1 DEF StackOK, Running, MoreToDo, Instr, Top, MainCode
        <4> QED
          BY <4>1, <4>2 DEF HandlersOK, PendingOK, JmpOK
      <3> QED
        BY <3>1, <3>2 DEF CodesInv
    <2>2. MaskInv'
      BY DEF MaskInv, OldMaskOK, JmpMaskOK, MainMaskOK, MainMask, Running, Instr, Top
    <2>3. JumpInv'
      BY DEF JumpInv, Running
    <2>4. OnceInv'
      BY DEF OnceInv
    <2>5. QuietInv'
      BY DEF QuietInv, Running
    <2>6. SystemInv'
      BY DEF SystemInv, SystemRuns, Before, First, Running
    <2>7. TellInv'
      BY DEF TellInv, Signalled, ChildCame, ParentCame, Running
    <2>8. AbortInv'
      BY DEF AbortInv, Running
    <2>9. TtyInv'
      BY DEF TtyInv, Catches, Running
    <2>10. GetpassInv'
      BY DEF GetpassInv, Running
    <2> QED
      BY <2>1, <2>2, <2>3, <2>4, <2>5, <2>6, <2>7, <2>8, <2>9, <2>10
  <1> QED
    BY <1>1, <1>2

THEOREM SignalsInvariance == AllSpec => []SignalsInv
  <1>1. AllInit => SignalsInv
    BY InitSignalsInv DEF AllInit
  <1>2. [AllNext]_allvars => [Next]_vars
    BY DEF AllNext, allvars
  <1>3. SignalsInv /\ [AllNext]_allvars => SignalsInv'
    BY <1>2, StepSignalsInv
  <1> QED
    BY <1>1, <1>3, PTL DEF AllSpec

\* A handler jumps only to a place that was noted and whose function still runs, a
\* program that returns has its mask back, and the alarm that is handled once is never
\* handled again.
THEOREM HandlersAreSound == AllSpec => []HandlersSound
  <1>1. SignalsInv => HandlersSound
    BY JumpGiven, MaskGiven, OnceGiven DEF SignalsInv, HandlersSound
  <1> QED
    BY <1>1, SignalsInvariance, PTL

\* No handler runs in a critical region; with TELL and WAIT nobody goes on before the
\* other has come so far; and the signals of the terminal touch the caller of system_m1
\* no more than its handlers touch the status of the command.
THEOREM WaitsAreSound == AllSpec => []WaitsSound
  <1>1. SignalsInv => WaitsSound
    BY QuietGiven, TellGiven, SystemGiven DEF SignalsInv, WaitsSound
  <1> QED
    BY <1>1, SignalsInvariance, PTL

LEMMA StepEndsRight ==
  ASSUME SignalsInv, [AllNext]_allvars
  PROVE  [AbortsOnly /\ TerminalRestored]_allvars
  <1>1. CASE Next
    <2>1. Shapes
      BY <1>1, StepCodes DEF SignalsInv
    <2> QED
      BY <2>1, AbortGiven, TerminalGiven DEF SignalsInv
  <1>2. CASE UNCHANGED vars
    <2>1. Running("parent") => ~Ended("parent")'
      BY <1>2 DEF vars, Running, Ended
    <2> QED
      BY <2>1 DEF AbortsOnly, TerminalRestored
  <1> QED
    BY <1>1, <1>2 DEF AllNext, allvars

\* Once abort1 has blocked the other signals the process ends with SIGABRT and nothing
\* else, and whoever changes the terminal leaves it as it was, with the exceptions that
\* TerminalRestored names and no other.
THEOREM EndsAreRight == AllSpec => EndsRight
  <1>1. SignalsInv /\ [AllNext]_allvars => [AbortsOnly /\ TerminalRestored]_allvars
    BY StepEndsRight
  <1>2. AllSpec => []SignalsInv /\ [][AllNext]_allvars
    BY SignalsInvariance DEF AllSpec
  <1> QED
    BY <1>1, <1>2, PTL DEF EndsRight

=============================================================================
