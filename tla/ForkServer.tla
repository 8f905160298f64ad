----------------------------- MODULE ForkServer -----------------------------
(***************************************************************************)
(* The forking echo server of ch4_tcp/echo_tcp_server_v1.c: the parent      *)
(* accepts and forks a child for each connection; the child echoes and      *)
(* exits; the handler of SIGCHLD reaps it.  A signal is one pending bit and *)
(* interrupts the parent between any two of its steps.  A connection stays  *)
(* open until no process has a descriptor for it.  A variable that the code  *)
(* will set before it reads it again is reset.                              *)
(***************************************************************************)
EXTENDS Integers, Sequences

CONSTANTS Clients,
          Pids,      \* the processes there may be at a time (a bound)
          Parent,
          MaxSent,   \* what a client sends at most (a bound)
          None

\* main is none of its children, and None no connection
ServerAssumption == Parent \notin Pids /\ None \notin Clients

VARIABLES restart,   \* the platform has SA_RESTART
          net,       \* the client's end of each connection
          backlog, sent, unread, echoed,
          parent,    \* where main is
          connfd,    \* the connection main works on
          errno,     \* the errno of the parent, as far as main reads it
          handler,   \* sig_child_handler is running
          sigchld,   \* a SIGCHLD is pending
          child,     \* the state of each child
          sockfd,    \* its connection
          n,         \* what its last read returned
          fds        \* the connections each process has open

network == <<net, backlog, sent, unread, echoed>>
server == <<parent, connfd, errno, handler, sigchld>>
children == <<child, sockfd, n>>
vars == <<restart, network, server, children, fds>>

Procs == Pids \cup {Parent}

Init == /\ restart \in BOOLEAN
        /\ net = [c \in Clients |-> "none"]
        /\ backlog = <<>>
        /\ sent = [c \in Clients |-> 0]
        /\ unread = [c \in Clients |-> 0]
        /\ echoed = [c \in Clients |-> 0]
        /\ parent = "accept"
        /\ connfd = None
        /\ errno = "none"
        /\ handler = FALSE
        /\ sigchld = FALSE
        /\ child = [p \in Pids |-> "none"]
        /\ sockfd = [p \in Pids |-> None]
        /\ n = [p \in Pids |-> 0]
        /\ fds = [p \in Procs |-> {}]

Closed(c) == \A p \in Procs : c \notin fds[p]
Waiting(c) == \E k \in DOMAIN backlog : backlog[k] = c

-----------------------------------------------------------------------------
(* The clients and the network *)

\* a client whose connection is over may make a new one
Connect(c) == /\ net[c] \in {"none", "fin", "rst"}
              /\ Closed(c) /\ ~Waiting(c)
              /\ net' = [net EXCEPT ![c] = "open"]
              /\ backlog' = Append(backlog, c)
              /\ sent' = [sent EXCEPT ![c] = 0]
              /\ unread' = [unread EXCEPT ![c] = 0]
              /\ echoed' = [echoed EXCEPT ![c] = 0]
              /\ UNCHANGED <<server, children, fds>>

Send(c) == /\ net[c] = "open"
           /\ sent[c] < MaxSent
           /\ sent' = [sent EXCEPT ![c] = @ + 1]
           /\ unread' = [unread EXCEPT ![c] = @ + 1]
           /\ UNCHANGED <<net, backlog, echoed, server, children, fds>>

\* FIN, or RST, which may discard what was not read
Leave(c) == /\ \/ net[c] = "open" /\ net' = [net EXCEPT ![c] = "fin"] /\ UNCHANGED unread
               \/ /\ net[c] \in {"open", "fin"}
                  /\ net' = [net EXCEPT ![c] = "rst"]
                  /\ \E kept \in {0, unread[c]} : unread' = [unread EXCEPT ![c] = kept]
            /\ UNCHANGED <<backlog, sent, echoed, server, children, fds>>

-----------------------------------------------------------------------------
(* main, which takes a step only when the handler is not running *)

Main(from, to) == /\ ~handler
                  /\ parent = from
                  /\ parent' = to
                  /\ UNCHANGED <<restart, handler, sigchld>>

Accept == /\ Main("accept", "fork")
          /\ backlog # <<>>
          /\ connfd' = Head(backlog)
          /\ backlog' = Tail(backlog)
          /\ fds' = [fds EXCEPT ![Parent] = @ \cup {Head(backlog)}]
          /\ UNCHANGED <<net, sent, unread, echoed, errno, children>>

\* accept fails, and not because of a signal: err_quit
AcceptError == /\ Main("accept", "exit")
               /\ backlog # <<>>
               /\ UNCHANGED <<network, connfd, errno, children, fds>>

\* accept returned because of a signal: main looks at errno
Interrupted == /\ ~handler
               /\ parent = "interrupted"
               /\ parent' = IF errno = "EINTR" THEN "accept" ELSE "quit"
               /\ errno' = "none"
               /\ UNCHANGED <<restart, network, connfd, handler, sigchld, children, fds>>

\* the child has all descriptors of the parent (Close(listenfd) is of no account)
ForkChild == /\ Main("fork", "close")
             /\ \E p \in Pids :
                  /\ child[p] = "none"
                  /\ child' = [child EXCEPT ![p] = "read"]
                  /\ sockfd' = [sockfd EXCEPT ![p] = connfd]
                  /\ fds' = [fds EXCEPT ![p] = fds[Parent]]
             /\ UNCHANGED <<network, connfd, errno, n>>

\* fork fails: err_sys prints, and main goes on as the parent
ForkFails == /\ Main("fork", "close")
             /\ UNCHANGED <<network, connfd, errno, children, fds>>

ParentCloses == /\ Main("close", "accept")
                /\ fds' = [fds EXCEPT ![Parent] = @ \ {connfd}]
                /\ connfd' = None
                /\ UNCHANGED <<network, errno, children>>

main == Accept \/ ForkChild \/ ForkFails \/ ParentCloses \/ Interrupted

-----------------------------------------------------------------------------
(* sig_child_handler: the signal is blocked while it runs *)

\* without SA_RESTART a signal ends an accept that blocks
Deliver == /\ sigchld
           /\ ~handler
           /\ parent \notin {"exit", "quit"}
           /\ sigchld' = FALSE
           /\ handler' = TRUE
           /\ \/ UNCHANGED parent
              \/ parent = "accept" /\ ~restart /\ parent' = "interrupting"
           /\ UNCHANGED <<restart, network, connfd, errno, children, fds>>

\* mutant: waitpid is called once
Reap_Once(p) == /\ handler
                /\ child[p] = "zombie"
                /\ child' = [child EXCEPT ![p] = "none"]
                /\ handler' = FALSE
                /\ UNCHANGED <<restart, network, parent, connfd, errno, sigchld, sockfd, n, fds>>

Reap(p) == /\ handler
           /\ child[p] = "zombie"
           /\ child' = [child EXCEPT ![p] = "none"]
           /\ UNCHANGED <<restart, network, server, sockfd, n, fds>>

\* mutant: without WNOHANG waitpid returns only when there is no child
NoneLeft_Wait == \A p \in Pids : child[p] = "none"

NoneLeft == \A p \in Pids : child[p] # "zombie"

\* the last waitpid returns 0, or -1 and sets errno if there is no child at all;
\* the accept the signal interrupted sets errno after that
HandlerReturns ==
  /\ handler
  /\ NoneLeft
  /\ handler' = FALSE
  /\ parent' = IF parent = "interrupting" THEN "interrupted" ELSE parent
  /\ errno' = IF parent = "interrupting" THEN "EINTR"
              ELSE IF parent = "interrupted" /\ \A p \in Pids : child[p] = "none"
                THEN "ECHILD" ELSE errno
  /\ UNCHANGED <<restart, network, connfd, sigchld, children, fds>>

sig_child_handler == Deliver \/ HandlerReturns \/ \E p \in Pids : Reap(p)

-----------------------------------------------------------------------------
(* A child *)

\* str_echo
ReadData(p) == /\ child[p] = "read"
               /\ \E k \in 1..unread[sockfd[p]] :
                    /\ n' = [n EXCEPT ![p] = k]
                    /\ unread' = [unread EXCEPT ![sockfd[p]] = @ - k]
               /\ child' = [child EXCEPT ![p] = "write"]
               /\ UNCHANGED <<restart, net, backlog, sent, echoed, server, sockfd, fds>>

\* mutant: what a short write has sent is sent again
WriteBack_Twice(p) == /\ child[p] = "write"
                      /\ net[sockfd[p]] # "rst"
                      /\ echoed' = [echoed EXCEPT ![sockfd[p]] = @ + 2 * n[p]]
                      /\ child' = [child EXCEPT ![p] = "read"]
                      /\ n' = [n EXCEPT ![p] = 0]
                      /\ UNCHANGED <<restart, net, backlog, sent, unread, server, sockfd, fds>>

WriteBack(p) == /\ child[p] = "write"
                /\ net[sockfd[p]] # "rst"
                /\ echoed' = [echoed EXCEPT ![sockfd[p]] = @ + n[p]]
                /\ child' = [child EXCEPT ![p] = "read"]
                /\ n' = [n EXCEPT ![p] = 0]
                /\ UNCHANGED <<restart, net, backlog, sent, unread, server, sockfd, fds>>

\* Writen fails, which str_echo does not look at
WriteFails(p) == /\ child[p] = "write"
                 /\ net[sockfd[p]] = "rst"
                 /\ child' = [child EXCEPT ![p] = "read"]
                 /\ n' = [n EXCEPT ![p] = 0]
                 /\ UNCHANGED <<restart, network, server, sockfd, fds>>

Ends(p) == /\ child' = [child EXCEPT ![p] = "zombie"]
           /\ fds' = [fds EXCEPT ![p] = {}]
           /\ sigchld' = TRUE
           /\ sockfd' = [sockfd EXCEPT ![p] = None]
           /\ n' = [n EXCEPT ![p] = 0]
           /\ UNCHANGED <<restart, network, parent, connfd, errno, handler>>

\* mutant: at the FIN what is unread is forgotten
ChildExits_Early(p) == /\ child[p] = "read"
                       /\ net[sockfd[p]] \in {"fin", "rst"}
                       /\ Ends(p)

\* read returns 0 or fails: str_echo returns, Close and exit
ChildExits(p) == /\ child[p] = "read"
                 /\ unread[sockfd[p]] = 0
                 /\ net[sockfd[p]] \in {"fin", "rst"}
                 /\ Ends(p)

\* SIGPIPE
ChildKilled(p) == /\ child[p] = "write"
                  /\ net[sockfd[p]] = "rst"
                  /\ Ends(p)

str_echo(p) == ReadData(p) \/ WriteBack(p) \/ WriteFails(p) \/ ChildExits(p) \/ ChildKilled(p)

Next == \/ main
        \/ AcceptError
        \/ sig_child_handler
        \/ \E p \in Pids : str_echo(p)
        \/ (\E c \in Clients : Connect(c) \/ Send(c) \/ Leave(c)) /\ UNCHANGED restart

Spec == Init /\ [][Next]_vars

\* every process is scheduled, and pending signals are delivered
FairSpec == /\ Spec
            /\ WF_vars(main)
            /\ WF_vars(sig_child_handler)
            /\ \A p \in Pids : WF_vars(str_echo(p))

-----------------------------------------------------------------------------

Running(p) == child[p] \in {"read", "write"}
Up == parent \notin {"exit", "quit"}
InHand(c) == LET P == {p \in Pids : child[p] = "write" /\ sockfd[p] = c}
             IN IF P = {} THEN 0 ELSE n[CHOOSE p \in P : TRUE]

\* "signals are not queued" (echo_tcp_server_v1.c:175): although one SIGCHLD may
\* stand for many children, whenever there is a zombie the signal is pending or
\* the handler has not yet finished its loop.
NoZombieForgotten == Up /\ (\E p \in Pids : child[p] = "zombie") => sigchld \/ handler

\* A connection has one child; descriptors are open where they are used and
\* nowhere else, so that the client sees the end of the connection when its
\* child ends.
DescriptorsExact ==
  /\ \A p \in Pids : fds[p] = IF Running(p) THEN {sockfd[p]} ELSE {}
  /\ fds[Parent] = IF parent \in {"fork", "close"} THEN {connfd} ELSE {}
  /\ \A p, q \in Pids : Running(p) /\ Running(q) /\ sockfd[p] = sockfd[q] => p = q

\* A child echoes what its client sent, once, and loses nothing of it unless the
\* connection is reset or was closed without a child.
EchoExact == \A c \in Clients :
               /\ echoed[c] + InHand(c) + unread[c] <= sent[c]
               /\ net[c] # "rst" => echoed[c] + InHand(c) + unread[c] = sent[c]

\* Each client is served as EchoService says, though processes fork, end and are
\* reaped in between: nothing is echoed twice or after a failure, and a child leaves
\* its connection only when that has failed or all of it has been echoed.  Whom no
\* child can be forked for is refused.
Taken(c) == \E p \in Pids : Running(p) /\ sockfd[p] = c
Phase(c) == IF Waiting(c) \/ (parent = "fork" /\ connfd = c) \/ Taken(c)
              THEN CASE net[c] = "fin" -> "finished"
                     [] net[c] = "rst" -> "failed"
                     [] OTHER -> "open"
              ELSE IF net[c] = "open" THEN "refused" ELSE "closed"
Service == INSTANCE EchoService WITH
             phase <- [c \in Clients |-> Phase(c)], taken <- [c \in Clients |-> Taken(c)]
Serves == Service!Spec

\* The parent is never held up for good by the handler or by a client: who
\* connects is accepted, as long as the server is up.
Accepted == \A c \in Clients : Waiting(c) ~> (~Waiting(c) \/ ~Up)

\* A client that has finished sees the server close the connection.
Released == \A c \in Clients : net[c] = "fin" ~> (net[c] # "fin" \/ (Closed(c) /\ ~Waiting(c)) \/ ~Up)

\* "to improve portability" (echo_tcp_server_v1.c:72) main accepts again after an
\* accept that a signal interrupted: signals do not end the server.
SurvivesSignals == parent # "quit"

=============================================================================
