---------------------------- MODULE SignalsServer ----------------------------
(***************************************************************************)
(* The programs that live on signals: those of Signals, and ForkServer,      *)
(* whose parent depends on SIGCHLD.  They do not interact: a behaviour is one *)
(* of one of the programs, while the others stand still.                     *)
(***************************************************************************)
EXTENDS Signals

CONSTANTS Clients, Pids, Parent, MaxSent, None

VARIABLES serves,  \* what runs is the server
          restart, net, backlog, sent, unread, echoed, parent, connfd, errno,
          handler, sigchld, child, sockfd, n, fds

Server == INSTANCE ForkServer

ASSUME ForkAssumption == Server!ServerAssumption

server == <<restart, net, backlog, sent, unread, echoed, parent, connfd, errno,
            handler, sigchld, child, sockfd, n, fds>>
allvars == <<serves, vars, server>>

\* while the server runs the other program is one that waits for the user
AllInit == /\ serves \in BOOLEAN
           /\ Init /\ Server!Init
           /\ IF serves THEN program = "sig_test6" ELSE restart

AllNext == \/ ~serves /\ Next /\ UNCHANGED <<serves, server>>
           \/ serves /\ Server!Next /\ UNCHANGED <<serves, vars>>

AllSpec == AllInit /\ [][AllNext]_allvars

\* Handlers jump where they may, give the mask back, and a jump out of the handler of
\* SIGALRM leaves it blocked.
HandlersSound == JumpSafe /\ MaskRestored /\ AlarmOnce

\* Critical regions are not interrupted; parent and child wait for each other, and
\* system_m1 for its command, without being disturbed by a signal or disturbing the
\* caller.
WaitsSound == NotInterrupted /\ Rendezvous /\ SystemTransparent

\* abort1 ends the process with SIGABRT and nothing else, and whoever changes the
\* terminal leaves it as it was.
EndsRight == [][AbortsOnly /\ TerminalRestored]_allvars

\* Programs end that do not wait for the user, and a signal that is blocked when it
\* comes is not lost.
SignalsArrive == ProgramsEnd /\ NotLost

\* No child of the server is forgotten, and no descriptor is open where it is not used.
ChildrenExact == Server!NoZombieForgotten /\ Server!DescriptorsExact

\* Each child echoes what its client sent, once and without loss.
ChildrenEcho == Server!EchoExact

\* Children and parent together are an echo service for each client.
ChildrenServe == Server!Serves

\* Who connects is accepted, and who has finished sees the end of the connection.
ClientsServed == Server!Accepted /\ Server!Released

=============================================================================
