----------------------------- MODULE EchoServer -----------------------------
(***************************************************************************)
(* The single-process echo servers of ch4_tcp/echo_tcp_server_v2.c: one    *)
(* loop waits in select, pselect or poll, accepts, and scans the slots of   *)
(* client[] for descriptors to read and echo.  Variant is the one compiled. *)
(* A slot holds a connection, for its descriptor; slots are numbered from 1 *)
(* (poll keeps listenfd in client[0], select and pselect apart).            *)
(***************************************************************************)
EXTENDS Integers, Sequences, FiniteSets, FiniteSetsExt

CONSTANTS Clients,
          MaxSlots,  \* the largest number of slots (a bound): the code has
                     \*   FD_SETSIZE, or OPEN_MAX - 1
          MaxSent,   \* what a client sends at most (a bound)
          Free       \* -1

ASSUME SlotsAssumption == /\ MaxSlots \in Nat \ {0}
                          /\ Free \notin Clients

VARIABLES variant,   \* the server compiled: "select" (pselect is the same) or "poll"
          slots,     \* the number of slots
          net,       \* the state of each connection
          backlog,   \* the connections made and not accepted
          sent,      \* how much each client has sent,
          unread,    \* how much of it the server has not read,
          echoed,    \* and how much it has written back
          client,    \* the slots
          maxi,      \* the largest slot ever used
          revents,   \* the ready bits of the slots
          listening, \* the ready bit of listenfd
          nready,
          i,         \* the slot being scanned
          n,         \* what the last read returned
          told,      \* history: the slots the last wait reported
          pc

conn == <<net, backlog, sent, unread>>
vars == <<conn, echoed, client, maxi, revents, listening, nready, i, n, told, pc, variant, slots>>

Slot == 1..slots

\* client[] is on the stack: poll clears the bits of the slots it is given, the
\* others hold anything.  select clears every bit of its set.
Init == /\ variant \in {"select", "poll"}
        /\ slots \in 1..MaxSlots
        /\ net = [c \in Clients |-> "none"]
        /\ backlog = <<>>
        /\ sent = [c \in Clients |-> 0]
        /\ unread = [c \in Clients |-> 0]
        /\ echoed = [c \in Clients |-> 0]
        /\ client = [s \in Slot |-> Free]
        /\ maxi = 0
        /\ revents \in IF variant = "poll" THEN [Slot -> BOOLEAN] ELSE [Slot -> {FALSE}]
        /\ listening = FALSE
        /\ nready = 0
        /\ i = 1
        /\ n = 0
        /\ told = {}
        /\ pc = "wait"

-----------------------------------------------------------------------------
(* The clients and the network *)

server == <<echoed, client, maxi, revents, listening, nready, i, n, told, pc>>

\* a connection that the server has closed makes room for a new one
Connect(c) == /\ pc # "dead"
              /\ net[c] \in {"none", "closed"}
              /\ net' = [net EXCEPT ![c] = "open"]
              /\ backlog' = Append(backlog, c)
              /\ sent' = [sent EXCEPT ![c] = 0]
              /\ unread' = [unread EXCEPT ![c] = 0]
              /\ echoed' = [echoed EXCEPT ![c] = 0]
              /\ UNCHANGED <<client, maxi, revents, listening, nready, i, n, told, pc>>

Send(c) == /\ pc # "dead"
           /\ net[c] = "open"
           /\ sent[c] < MaxSent
           /\ sent' = [sent EXCEPT ![c] = @ + 1]
           /\ unread' = [unread EXCEPT ![c] = @ + 1]
           /\ UNCHANGED <<net, backlog, server>>

\* the client's FIN, its RST, or a timeout; the last two may discard what the
\* server has not read
Leave(c) == /\ pc # "dead"
            /\ net[c] \in {"open", "fin"}
            /\ \E how \in {"fin", "rst", "timeout"} :
                 /\ how # net[c]
                 /\ net' = [net EXCEPT ![c] = how]
                 /\ \E kept \in IF how = "fin" THEN {unread[c]} ELSE {0, unread[c]} :
                      unread' = [unread EXCEPT ![c] = kept]
            /\ UNCHANGED <<backlog, sent, server>>

-----------------------------------------------------------------------------
(* The server *)

Goto(from, to) == pc = from /\ pc' = to

Readable(c) == unread[c] > 0 \/ net[c] \in {"fin", "rst", "timeout", "eof"}
Watched == {s \in Slot : s <= maxi /\ client[s] # Free}

ReadySlots == {s \in Watched : Readable(client[s])}

\* select and poll block until a descriptor is ready
Wait == /\ Goto("wait", "accept")
        /\ listening' = (backlog # <<>>)
        /\ ReadySlots # {} \/ listening'
        /\ revents' = [s \in Slot |-> IF s <= maxi \/ variant = "select"
                                        THEN s \in ReadySlots ELSE revents[s]]
        /\ nready' = Cardinality(ReadySlots) + (IF listening' THEN 1 ELSE 0)
        /\ told' = ReadySlots
        /\ i' = 1
        /\ UNCHANGED <<conn, echoed, client, maxi, n>>

NoNewClient == /\ Goto("accept", "scan")
               /\ ~listening
               /\ UNCHANGED <<conn, echoed, client, maxi, revents, listening, nready, i, n, told>>

\* mutant: maxi is the slot used last
NewMaxi_Last(s) == maxi' = s

NewMaxi(s) == maxi' = IF s > maxi THEN s ELSE maxi

\* mutant: listenfd is not counted as one of the ready descriptors
Uncount_Kept == UNCHANGED nready

Uncount == nready' = nready - 1

\* the new client takes the first free slot
Accept == /\ listening
          /\ pc = "accept"
          /\ \E s \in Slot : client[s] = Free
          /\ LET s == Min({k \in Slot : client[k] = Free}) IN
               /\ client' = [client EXCEPT ![s] = Head(backlog)]
               /\ NewMaxi(s)
          /\ backlog' = Tail(backlog)
          /\ Uncount
          /\ pc' = IF nready' <= 0 THEN "wait" ELSE "scan"
          /\ UNCHANGED <<net, sent, unread, echoed, revents, listening, i, n, told>>

\* accept fails, and poll's first free slot gets fd -1: it stays free.  (select
\* hands -1 to FD_SET, which C does not define; the model leaves that out.)
AcceptFails == /\ listening
               /\ variant = "poll"
               /\ pc = "accept"
               /\ \E s \in Slot : client[s] = Free
               /\ NewMaxi(Min({k \in Slot : client[k] = Free}))
               /\ Uncount
               /\ pc' = IF nready' <= 0 THEN "wait" ELSE "scan"
               /\ UNCHANGED <<conn, echoed, client, revents, listening, i, n, told>>

\* err_quit("too many clients"): the process exits
TooManyClients == /\ Goto("accept", "dead")
                  /\ listening
                  /\ \A s \in Slot : client[s] # Free
                  /\ UNCHANGED <<conn, echoed, client, maxi, revents, listening, nready, i, n, told>>

ScanEnds == /\ i > maxi
            /\ Goto("scan", "wait")
            /\ UNCHANGED <<conn, echoed, client, maxi, revents, listening, nready, i, n, told>>

Skip == /\ pc = "scan"
        /\ i <= maxi
        /\ client[i] = Free \/ ~revents[i]
        /\ i' = i + 1
        /\ UNCHANGED <<conn, echoed, client, maxi, revents, listening, nready, n, told, pc>>

Found == /\ i <= maxi
         /\ client[i] # Free
         /\ revents[i]
         /\ Goto("scan", "read")
         /\ UNCHANGED <<conn, echoed, client, maxi, revents, listening, nready, i, n, told>>

\* --nready <= 0: no more readable descriptors
Next1 == /\ nready' = nready - 1
         /\ i' = i + 1
         /\ pc' = IF nready' <= 0 THEN "wait" ELSE "scan"

\* at most a buffer is read; the sockets block: without data, FIN or error the
\* read does not return
ReadData == /\ Goto("read", "write")
            /\ unread[client[i]] > 0
            /\ n' \in 1..unread[client[i]]
            /\ unread' = [unread EXCEPT ![client[i]] = @ - n']
            /\ UNCHANGED <<net, backlog, sent, echoed, client, maxi, revents, listening, nready, i, told>>

\* mutant: at the FIN what is unread is forgotten
ReadEOF_Early == /\ pc = "read"
                 /\ net[client[i]] \in {"fin", "eof"}
                 /\ net' = [net EXCEPT ![client[i]] = "closed"]
                 /\ client' = [client EXCEPT ![i] = Free]
                 /\ Next1
                 /\ UNCHANGED <<backlog, sent, unread, echoed, maxi, revents, listening, n, told>>

ReadEOF == /\ pc = "read"
           /\ unread[client[i]] = 0
           /\ net[client[i]] \in {"fin", "eof"}
           /\ net' = [net EXCEPT ![client[i]] = "closed"]
           /\ client' = [client EXCEPT ![i] = Free]
           /\ Next1
           /\ UNCHANGED <<backlog, sent, unread, echoed, maxi, revents, listening, n, told>>

\* read fails once, and the socket is at EOF after it.  The poll server closes a
\* connection that fails with ECONNRESET; other errors it only prints, and select
\* hands n = -1 to Writen, whose write fails.
ReadError == /\ pc = "read"
             /\ unread[client[i]] = 0
             /\ net[client[i]] \in {"rst", "timeout"}
             /\ \/ /\ variant = "poll"
                   /\ net[client[i]] = "rst"
                   /\ net' = [net EXCEPT ![client[i]] = "closed"]
                   /\ client' = [client EXCEPT ![i] = Free]
                \/ /\ net' = [net EXCEPT ![client[i]] = "eof"]
                   /\ UNCHANGED client
             /\ Next1
             /\ UNCHANGED <<backlog, sent, unread, echoed, maxi, revents, listening, n, told>>

\* mutant: what was read is not counted down by a short write
WriteBack_Twice == /\ pc = "write"
                   /\ net[client[i]] \in {"open", "fin"}
                   /\ echoed' = [echoed EXCEPT ![client[i]] = @ + 2 * n]
                   /\ Next1
                   /\ UNCHANGED <<conn, client, maxi, revents, listening, n, told>>

WriteBack == /\ pc = "write"
             /\ net[client[i]] \in {"open", "fin"}
             /\ echoed' = [echoed EXCEPT ![client[i]] = @ + n]
             /\ Next1
             /\ UNCHANGED <<conn, client, maxi, revents, listening, n, told>>

\* a write to a connection that was reset or timed out since the read fails, or
\* raises SIGPIPE, which nobody catches
WriteFails == /\ pc = "write"
              /\ net[client[i]] \in {"rst", "timeout"}
              /\ net' = [net EXCEPT ![client[i]] = "eof"]
              /\ unread' = [unread EXCEPT ![client[i]] = 0]
              /\ Next1
              /\ UNCHANGED <<backlog, sent, echoed, client, maxi, revents, listening, n, told>>

BrokenPipe == /\ Goto("write", "dead")
              /\ net[client[i]] \in {"rst", "timeout"}
              /\ UNCHANGED <<conn, echoed, client, maxi, revents, listening, nready, i, n, told>>

main == \/ Wait \/ NoNewClient \/ Accept \/ AcceptFails \/ TooManyClients
        \/ ScanEnds \/ Skip \/ Found
        \/ ReadData \/ ReadEOF \/ ReadError \/ WriteBack \/ WriteFails \/ BrokenPipe

Next == /\ main \/ \E c \in Clients : Connect(c) \/ Send(c) \/ Leave(c)
        /\ UNCHANGED <<variant, slots>>

Spec == Init /\ [][Next]_vars

\* the one process of the server runs whenever it can
FairSpec == Spec /\ WF_vars(main /\ UNCHANGED <<variant, slots>>)

-----------------------------------------------------------------------------

InHand(c) == IF pc = "write" /\ client[i] = c THEN n ELSE 0

\* The server never blocks in a read, where it would keep every other client
\* waiting: it reads only descriptors that are ready.  With poll this rests on
\* nready, since the slot of a client just accepted has arbitrary revents.
NeverBlocks == pc = "read" => Readable(client[i])

\* nready counts the reported slots the scan has not reached: when it is 0 there
\* are "no more readable descriptors" (echo_tcp_server_v2.c:77), and no earlier.
CountExact == pc \in {"scan", "read", "write"} =>
                nready = Cardinality({s \in told : s >= i}) /\ nready > 0

\* Every connection accepted and not closed has one slot, no other has, all slots
\* in use are within maxi, where the server looks, and the scan stops neither
\* before nor behind the last slot that was reported.
SlotsSound ==
  /\ CountExact
  /\ \A s, k \in Slot : client[s] # Free /\ client[s] = client[k] => s = k
  /\ \A s \in Slot : client[s] # Free => s <= maxi
  /\ {client[s] : s \in Slot} \ {Free}
       = {c \in Clients : net[c] \notin {"none", "closed"} /\ \A k \in DOMAIN backlog : backlog[k] # c}

\* The server echoes what a client sent, once, and loses nothing of it unless the
\* connection fails.
EchoExact == \A c \in Clients :
               /\ echoed[c] + InHand(c) + unread[c] <= sent[c]
               /\ net[c] \in {"open", "fin"} => echoed[c] + InHand(c) + unread[c] = sent[c]

\* Each client is served as EchoService says, while the other clients connect, leave
\* and fail in between: nothing is echoed twice or after a failure, and the server
\* closes a connection only when it has failed or all of it has been echoed.
Phase(c) == CASE net[c] \in {"none", "closed"} -> "closed"
              [] net[c] = "open" -> "open"
              [] net[c] = "fin" -> "finished"
              [] OTHER -> "failed"
Taken(c) == \E s \in Slot : client[s] = c
Service == INSTANCE EchoService WITH
             phase <- [c \in Clients |-> Phase(c)], taken <- [c \in Clients |-> Taken(c)]
Serves == Service!Spec

\* No accepted client starves: what it sent is read, unless the server died.
AllServed == \A c \in Clients : (unread[c] > 0 /\ \E s \in Slot : client[s] = c)
                                  ~> (unread[c] = 0 \/ pc = "dead")

=============================================================================
