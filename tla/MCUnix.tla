------------------------------- MODULE MCUnix -------------------------------
(***************************************************************************)
(* The programs over Unix, for TLC: a behaviour is one program of Suite, or  *)
(* some that talk to each other.                                             *)
(***************************************************************************)
EXTENDS ProcessTests, PipeTests, SocketTests

Tcp == INSTANCE TcpTests
Udp == INSTANCE UdpTests

VARIABLE program

---------------------------------------------------------------------------
(* Small callers of the functions of the libraries.                         *)

\* keeps what a call returned and the buffer as they are for one step
look == <<set("after", 1), sleep, set("after", 0)>>

reader(call) == <<
  pipe("rd", "wr"),
  fork("pid", <<exit(0)>>,
       <<close("rd"), write("wr", <<say("l1")>>), write("wr", <<say("l2")>>), write("wr", <<say("\n")>>),
         write("wr", <<say("l3")>>), _exit(0)>>,
       <<close("wr")>>)>> \o call \o look \o <<exit(0)>>

writer(call) == <<
  open("f", InputFile), read("n", "f", 3), pipe("rd", "wr")>> \o call \o <<set("wrote", 1)>> \o look \o <<exit(0)>>

daemon_caller(become) == become \o <<sleep, exit(0)>>

\* somebody else sends a datagram to the client
stranger == <<await("client"), open("f", InputFile), read("n", "f", 1), udp("s", ""), sendto("s", "client"), exit(0)>>

---------------------------------------------------------------------------
\* out is the terminal unless the output is redirected; must says which of the
\* processes the system starts with have to end, 0 all and their children too
Run(codes, must) == [codes |-> codes, must |-> must, out |-> Terminal, keyboard |-> <<>>, lossy |-> FALSE]
One(prog) == Run(<<prog>>, {0})
ToFile(r) == [r EXCEPT !.out = Redirected]
Typed(r, lines) == [r EXCEPT !.keyboard = lines]
Lossy(r) == [r EXCEPT !.lossy = TRUE]

Processes ==
     "process_test1" :> One(process_test1)
  @@ "process_test1 > file" :> ToFile(One(process_test1))
  @@ "process_test2" :> One(process_test2)
  @@ "process_test2 > file" :> ToFile(One(process_test2))
  @@ "process_test3" :> One(process_test3)
  @@ "process_test4" :> One(process_test4)
  @@ "process_test5" :> One(process_test5(<<loop(<<pause>>)>>, 0))
  @@ "process_test5 3" :> One(process_test5(<<>>, 3))
  @@ "rise_condition_test" :> One(rise_condition_test)
  @@ "interp_test" :> One(interp_test(exec(command(0))))
  @@ "interp_test, no file" :> One(interp_test(execMissing))
  @@ "bash_script_test" :> One(bash_script_test(execMissing))
  @@ "system_test" :> One(system_test)
  @@ "process_times_test" :> One(process_times_test)
  @@ "system_m_test" :> One(system_m_test)
  @@ "process_counter_test" :> One(process_counter_test)
  @@ "exit_test" :> One(exit_test)
  @@ "env_test" :> One(env_test)

Pipes ==
     "pipe_test1" :> One(pipe_test1)
  @@ "pipe_test2" :> One(pipe_test2(exec(pager)))
  @@ "pipe_test2, no pager" :> One(pipe_test2(execMissing))
  @@ "parent_child_sync_test1" :> One(parent_child_sync_test1)
  @@ "pager_test2" :> One(pager_test2)
  @@ "popen_test1" :> Typed(One(popen_test1), <<"A", "\n", "b", "\n">>)
  @@ "two streams, first first" :> One(two_streams("fp1", "fp2"))
  @@ "two streams, last first" :> One(two_streams("fp2", "fp1"))
  @@ "coprocess_test1" :> Typed(One(coprocess_test1(exec(add2))), <<"1 2", "x">>)
  @@ "coprocess_test1, no add2" :> Typed(One(coprocess_test1(execMissing)), <<"1 2", "x">>)
  @@ "dead_lock_test" :> One(dead_lock_test)
  @@ "file_lock_test" :> One(file_lock_test)
  @@ "Readn" :> One(reader(Readn("r", "rd", 2)))
  @@ "readn" :> One(reader(readn("r", "rd", 2)))
  @@ "Readn beyond the end" :> One(reader(Readn("r", "rd", 5)))
  @@ "readline_v1" :> One(reader(readline_v1("r", "rd", 4)))
  @@ "readline_v1, short buffer" :> One(reader(readline_v1("r", "rd", 3)))
  @@ "Writen" :> One(writer(Writen("r", "wr", 3)))
  @@ "writen" :> One(writer(writen("r", "wr", 3)))

Sockets ==
     "unix_socket_test1" :> One(unix_socket_test1)
  @@ "unix_socket_test2" :> Run(<<unix_socket_server_test2, unix_socket_client_test2("c1"), unix_socket_client_test2("c2")>>, {})
  @@ "send_fd" :> Run(<<send_fd_server_test1, recv_fd_client_test1("c1")>>, {})
  @@ "open_client_v1" :> Typed(One(start_open_client_v1(cs_open("fd"))), <<"l1">>)
  @@ "my_open" :> One(unix_domain_socket_trans_fp_test(exec(openfile(4))))
  @@ "unix_domain_socket_test1" :> One(unix_domain_socket_test1)
  @@ "unix_domain_tcp" :> Typed(Run(<<<<await("server")>> \o unix_domain_tcp_client, unix_domain_tcp_server>>, {1}), <<"l1", "l2">>)
  @@ "unix_domain_udp" :> Lossy(Typed(Run(<<<<await("server")>> \o unix_domain_udp_client("c1"), unix_domain_udp_server>>, {1}), <<"l1", "l2">>))
  @@ "reread_config_test1" :> One(reread_config_test1)
  @@ "daemon_init" :> One(daemon_caller(daemon_init))
  @@ "daytime_server" :> Run(<<<<await("daytime")>> \o Tcp!daytime_tcp_client, daytime_server>>, {1})
  @@ "daemon_inetd_test" :> One(<<close("0"), open("fd", DevNull)>> \o daemon_inetd_test)

Echo(client, serve) ==
  Run(<<<<await("echo")>> \o Tcp!echo_tcp_client_v1(client), Tcp!echo_tcp_server_v1(serve)>>, {1})
Datagrams8(cli, server) == Run(<<<<await("echo")>> \o Udp!echo_udp_client_v1(cli), server>>, {1})

Streams ==
     "str_cli" :> Lossy(Typed(Echo(Tcp!str_cli("sockfd"), Tcp!str_echo("connfd")), <<"l1\n", "l2\n">>))
  @@ "str_cli, sums" :> Lossy(Typed(Echo(Tcp!str_cli("sockfd"), Tcp!str_sum("connfd")), <<"1 2\n", "A\n">>))
  @@ "str_cli_v2" :> Lossy(Typed(Echo(Tcp!str_cli_v2("sockfd"), Tcp!bin_sum("connfd")), <<"A\n", "1 2\n">>))
  @@ "str_cli_v3" :> Typed(Echo(Tcp!str_cli_v3("sockfd"), Tcp!str_echo("connfd")), <<"l1\n", "l2\n">>)
  @@ "str_cli_v4, stdio server" :> Lossy(Typed(Echo(Tcp!str_cli_v4("sockfd"), Udp!str_echo_stdio("connfd")), <<"l1\n", "l2\n">>))
  @@ "several sockets" :> Lossy(Typed(Run(<<<<await("echo")>> \o Tcp!echo_tcp_client_v1_multi, Tcp!echo_tcp_server_v1(Tcp!str_echo("connfd"))>>, {1}), <<"l1\n">>))
  @@ "daytime_tcp_client" :> Run(<<Tcp!daytime_tcp_client, Tcp!daytime_tcp_server>>, {1})
  @@ "daytime_tcp_cli_v1" :> Run(<<Tcp!daytime_tcp_cli_v1(<<"down", "daytime">>), Tcp!daytime_tcp_server_v1(<<"daytime">>)>>, {1})
  @@ "daytime_tcp_cli_v2" :> Run(<<<<await("daytime")>> \o Tcp!daytime_tcp_cli_v2(<<"down", "daytime">>), Tcp!daytime_tcp_server_v1(<<"daytime">>)>>, {1})
  @@ "ipv4" :> Run(<<<<await("v4")>> \o Tcp!ipv4_client(<<"v4">>), Tcp!ipv4_server(<<"v4">>)>>, {1})
  @@ "ipv6" :> Run(<<Tcp!ipv6_client(<<"v4", "v6">>), Tcp!ipv6_server(<<"v6">>)>>, {1})
  @@ "ruptime v1" :> Run(<<<<await("ruptime")>> \o Tcp!ruptime_client_v1(<<"ruptime">>), Tcp!ruptime_server(<<"ruptime">>, Tcp!serve_v1)>>, {1})
  @@ "ruptime v2" :> Run(<<<<await("ruptime")>> \o Tcp!ruptime_client_v1(<<"ruptime">>), Tcp!ruptime_server(<<"ruptime">>, Tcp!serve_v2(exec(Tcp!uptime)))>>, {1})

Sent == <<"l1", "l2">>
Datagram ==
     "dg_client" :> Lossy(Typed(Datagrams8(Udp!dg_client("sockfd"), Udp!echo_udp_server_v1), Sent))
  @@ "dg_client_v2" :> Lossy(Typed([Datagrams8(Udp!dg_client_v2("sockfd"), Udp!echo_udp_server_v1) EXCEPT !.codes = Append(@, stranger)], Sent))
  @@ "dg_client_v3" :> Lossy(Typed(Datagrams8(Udp!dg_client_v3("sockfd"), Udp!echo_udp_server_v2), Sent))
  @@ "dg_client_v4" :> Datagrams8(Udp!dg_client_v4("sockfd"), Udp!echo_udp_server_v1)
  @@ "both protocols" :> Typed(Run(<<<<await("echo")>> \o Udp!echo_udp_client_v1(Udp!dg_client_v1_alarm("sockfd")),
                                     <<await("echo tcp"), socket("s"), connect("r", "s", "echo tcp", ""), write("s", <<say("x")>>), read("n", "s", 1), exit(0)>>,
                                     Udp!echo_udp_server_v2>>, {1}), <<"l1">>)
  @@ "connect_timeo" :> Run(<<<<await("echo"), socket("s")>> \o Udp!connect_timeo("n", "s", "echo") \o <<exit(0)>>,
                              Tcp!echo_tcp_server_v1(Tcp!str_echo("connfd"))>>, {1})
  @@ "dg_client_v1, alarm" :> Typed(Datagrams8(Udp!dg_client_v1_alarm("sockfd"), Udp!echo_udp_server_v1), Sent)
  @@ "dg_client_v2, select" :> Typed(Datagrams8(Udp!dg_client_v2_select("sockfd"), Udp!echo_udp_server_v1), Sent)
  @@ "dg_cli_v3" :> Typed(Datagrams8(Udp!dg_cli_v3("sockfd"), Udp!echo_udp_server_v1), Sent)
  @@ "daytime by datagram" :> Lossy(Run(<<<<await("daytime")>> \o Udp!daytime_udp_cli_v1, Udp!daytime_udp_server_v1>>, {1}))
  @@ "ruptime v3" :> Run(<<Udp!ruptime_client_v3, Udp!ruptime_server_v3>>, {1})
  @@ "sctp_str_cli" :> Typed(Run(<<<<await("echo")>> \o Udp!echo_sctp_client_v1(Udp!sctp_str_cli("sock_fd")), Udp!echo_sctp_server_v1>>, {1}), <<"[0]l1", "l2", "[1]l2">>)
  @@ "sctp_str_cli_echoall" :> Typed(Run(<<<<await("echo")>> \o Udp!echo_sctp_client_v1(Udp!sctp_str_cli_echoall("sock_fd")), Udp!echo_sctp_server_v1>>, {1}), Sent)

Suite == Processes @@ Pipes @@ Sockets @@ Streams @@ Datagram

Lines(ts) == [k \in DOMAIN ts |-> [text |-> ts[k], nums |-> <<>>, fd |-> None]]

Init ==
  /\ program \in DOMAIN Suite
  /\ code = [p \in DOMAIN Suite[program].codes |-> CodeOf(Suite[program].codes[p])]
  /\ procs = [p \in DOMAIN Suite[program].codes |->
                NewProcess(p, <<1>>, <<Terminal, Suite[program].out, Terminal>>)]
  /\ queue = << Lines(Suite[program].keyboard), <<>>, <<>>, Lines(<<"l1", "l2", "l3">>) >>
  /\ names = << >> /\ locks = {} /\ faults = 0

\* a datagram, or the answer to a line that could not be written, never comes
Interrupted == \E p \in Pids : "errno" \in DOMAIN procs[p].v /\ procs[p].v["errno"] = 4
Lost == faults > 0 /\ ~Interrupted

Over == \/ 0 \in Suite[program].must /\ \A p \in Pids : ~Alive(p)
        \/ 0 \notin Suite[program].must /\ \A p \in Suite[program].must : ~Alive(p) \/ Ready(p, "await")
        \/ Suite[program].lossy /\ Lost

allvars == <<vars, code, program>>
Runs == (\E p \in Pids : Step(p)) /\ UNCHANGED <<code, program>>
Next == Runs \/ (Over /\ UNCHANGED allvars)

Spec == Init /\ [][Next]_allvars /\ WF_allvars(Runs)

\* the two programs that pass a descriptor, alone
PassingSpec == Init /\ program = "send_fd" /\ [][Next]_allvars

---------------------------------------------------------------------------
Texts(s) == [k \in DOMAIN s |-> s[k].text]
Printed(T) == SelectSeq(Texts(queue[2]), LAMBDA t : t \in T)
Numbers(text) == FlattenSeq([k \in DOMAIN queue[2] |-> IF queue[2][k].text = text THEN queue[2][k].nums ELSE <<>>])
\* s without some of its elements
Shortened(s) ==
  {LET order == SetToSortSeq(D, <) IN [k \in DOMAIN order |-> s[order[k]]] : D \in SUBSET DOMAIN s}
Has(p, x) == x \in DOMAIN procs[p].v

(* Every program comes to its end, or waits for a server that is not there:  *)
(* no end of a pipe stays open in a process that waits for its end, no lock  *)
(* and no answer is waited for that cannot come.                             *)
Finishes == <>Over

\* the processes that have to end have ended, and no call has failed
Done == /\ faults = 0
        /\ \A p \in Pids : p \in Suite[program].must \/ 0 \in Suite[program].must => ~Alive(p)

\* what a program is to show of its input, or of what its server sends
Copies ==
     [name \in {"pipe_test2", "pager_test2", "my_open"} |-> <<"l1", "l2", "l3">>]
  @@ [name \in {"popen_test1"} |-> <<"a", "\n", "b", "\n">>]
  @@ [name \in {"coprocess_test1"} |-> <<"3", "Invalid args">>]
  @@ [name \in {"unix_domain_tcp"} |-> <<"l1", "l2">>]
  @@ [name \in {"str_cli", "str_cli_v4, stdio server"} |-> <<"l1\n", "l2\n">>]
  @@ [name \in {"str_cli, sums"} |-> <<"3\n", "input error\n">>]
  @@ [name \in {"str_cli_v2"} |-> <<"3\n">>]
  @@ [name \in {"several sockets"} |-> <<"l1\n">>]
  @@ [name \in {"daytime_server", "daytime_tcp_cli_v2"} |-> <<"time">>]
  @@ [name \in {"ipv4"} |-> <<"Hello">>]
  @@ [name \in {"ruptime v1", "ruptime v2"} |-> <<"uptime">>]
\* these may end before they have shown it all
Started ==
     [name \in {"str_cli_v3"} |-> <<"l1\n", "l2\n">>]
  @@ [name \in {"daytime_tcp_client", "daytime_tcp_cli_v1"} |-> <<"time">>]
  @@ [name \in {"ipv6"} |-> <<"Hello">>]

(* What comes out at the other end of pipes, streams and servers is what went *)
(* in: nothing twice, nothing in another order, and nothing left out when no  *)
(* call has failed.                                                           *)
CopiesExact ==
  /\ program \in DOMAIN (Copies @@ Started) =>
       LET whole == (Copies @@ Started)[program]
           shown == Printed(Range(whole))
       IN shown \in Shortened(whole) /\ (faults = 0 => IsPrefix(shown, whole))
  /\ program \in DOMAIN Copies /\ Done => Printed(Range(Copies[program])) = Copies[program]

Statuses ==
     "process_test3" :> <<7, 134, 136>>
  @@ [name \in {"system_test", "system_m_test"} |-> <<0, 127, 44>>]
  @@ "process_times_test" :> <<0, 3>>

(* A status that is shown is that of the child that was waited for, in the    *)
(* order the children were started; pclose_m returns that of its own child.   *)
StatusExact ==
  /\ program \in DOMAIN Statuses =>
       LET shown == SelectSeq(Numbers("exit"), LAMBDA n : n \notin {-1, Undefined})
       IN /\ shown \in Shortened(Statuses[program])
          /\ Done => shown = Statuses[program]
  /\ program = "process_test5" => Numbers("child") \in Shortened(<<1019, 1018, 143>>)
  /\ program = "process_test5" /\ Numbers("child") # <<>> /\ (\A p \in Pids : ~Alive(p)) =>
       Last(Numbers("child")) = 143
  /\ \A p \in Pids : Has(p, "stat") => procs[p].v["stat"] \in {-1, 0}

\* what is shown second is shown only after what is first
Turns ==
     "parent_child_sync_test1" :> {<<"child init", "parent running">>, <<"parent init", "child running">>, <<"parent running", "child end">>}
  @@ [name \in {"process_test2", "process_test2 > file"} |-> {<<"child exit", "parent running">>}]
  @@ "exit_test" :> {<<"argv", "second exit handler">>, <<"second exit handler", "first exit handler">>}

(* Nobody runs before his turn: parent and child that tell each other over    *)
(* pipes, vfork, and the exit handlers.                                       *)
TurnsKept ==
  program \in DOMAIN Turns =>
    \A t \in Turns[program] : \A k \in DOMAIN queue[2] :
      queue[2][k].text = t[2] /\ faults = 0 => \E j \in 1..(k - 1) : queue[2][j].text = t[1]

(* A datagram client shows every answer once, in the order of its lines, and  *)
(* no datagram of a stranger; a line or its answer may be lost, and then the  *)
(* next answer is shown later than it was asked for, but not another one.     *)
AnswersInOrder ==
  /\ program \in DOMAIN Datagram \ {"both protocols", "ruptime v3", "daytime by datagram", "sctp_str_cli", "sctp_str_cli_echoall"} =>
       Printed({"l1", "l2"}) \in Shortened(Sent)
  /\ program = "sctp_str_cli" => \A t \in {"[0]l1", "[1]l2"} : Len(Printed({t})) <= 1
  /\ program = "sctp_str_cli_echoall" => \A t \in {"l1", "l2"} : Len(Printed({t})) <= Udp!SERV_MAX_SCTP_STREAM

(* What one process does before another, it has done when the other is seen   *)
(* to act: processes of one program wait for their turns, and the answers of  *)
(* a server come in the order they were asked for.                            *)
OrderKept == TurnsKept /\ AnswersInOrder

(* readn, Readn and readline_v1 return the number of messages that are in     *)
(* their buffer, and these are the first ones that were sent; a line that     *)
(* does not fit is counted with the end of the string.  writen and Writen     *)
(* return the number that went into the pipe.                                 *)
CountsExact ==
  \A p \in Pids : Has(p, "after") /\ procs[p].v["after"] = 1 /\ procs[p].v["r"] >= 0 =>
    LET r == procs[p].v["r"]
        buf == Texts(procs[p].buf)
        whole == IF Has(p, "wrote") THEN Texts(queue[4]) \o buf ELSE <<"l1", "l2", "\n", "l3">>
        moved == IF Has(p, "wrote") THEN Texts(queue[5]) ELSE buf
        cut == program = "readline_v1, short buffer" /\ Len(buf) = 2
    IN /\ r = Len(moved) + (IF cut THEN 1 ELSE 0)
       /\ IsPrefix(moved, whole)

(* What a program moves is what it was given, and the functions that move it   *)
(* for the program say how much of it they have moved.                        *)
DataExact == CopiesExact /\ CountsExact

(* A daemon has no terminal: its three standard descriptors are /dev/null,    *)
(* its session is not that of a terminal, and it cannot get one because it is *)
(* not the leader of its session.                                             *)
Daemonized ==
  \A p \in Pids : Has(p, "daemon") /\ Alive(p) =>
    /\ \A f \in 0..2 : procs[p].fd[f] = DevNull
    /\ Terminal \notin Range(procs[p].fd)
    /\ procs[p].session \notin {0, p}

(* recv_fd returns the descriptor that came with the message: it is there to  *)
(* "receive a file descriptor" (apue.c:544).                                  *)
DescriptorReturned ==
  \A p \in Pids : Has(p, "arrived") /\ procs[p].v["arrived"] >= 0 /\ Has(p, "recv_new_fd") =>
    procs[p].v["recv_new_fd"] = procs[p].v["arrived"]

=============================================================================
