------------------------------ MODULE UdpTests ------------------------------
(***************************************************************************)
(* Clients and servers over UDP and SCTP: the echo programs of ch8, the      *)
(* clients of ch14 that do not wait for ever, daytime (ch11) and ruptime     *)
(* (ch16 of the first book) by datagram, and the SCTP echo of ch10.          *)
(*                                                                           *)
(* A datagram may be lost.  After a timeout its answer may still come, and   *)
(* is then read as the answer to the next one.                               *)
(***************************************************************************)
EXTENDS Libraries

ECHO_SERV_PORT == "echo"
ECHO_TCP_PORT == "echo tcp"   \* the same number for the other protocol
NDG == 3                      \* 2000 in the code
SERV_MAX_SCTP_STREAM == 2     \* 10 in the code
exit_failure == exit(255)

\* the loop over the lines of the input
each_line(body) == <<loop(<<Fgets("line", "0"), when("line", {1}, <<>>, <<break>>)>> \o body)>>

---------------------------------------------------------------------------
(* ch8                                                                      *)

dg_client(sockfd) == each_line(<<
  Sendto(sockfd, ECHO_SERV_PORT), Recvfrom("n", sockfd), Fputs>>)

dg_client_v2_AnySender(sockfd) == each_line(<<
  Sendto(sockfd, ECHO_SERV_PORT), Recvfrom("n", sockfd), Fputs>>)

\* an answer of somebody else costs the line its own answer
dg_client_v2(sockfd) == each_line(<<
  Sendto(sockfd, ECHO_SERV_PORT),
  Recvfrom("n", sockfd),
  copy("other", "from"), minus("other", "to"),
  when("other", {0}, <<Fputs>>, <<>>)>>)

dg_client_v3(sockfd) == func(
  <<connectudp("n", sockfd, ECHO_SERV_PORT),
    when("n", Failed, <<return>>, <<>>)>> \o each_line(<<
  send(sockfd),
  Read("n", sockfd),
  when("n", Failed, <<print(<<say("garbage")>>)>>, <<Fputs>>)>>))

dg_client_v4(sockfd) == <<
  uninit, set("i", 0),
  loop(<<when("i", 0..(NDG - 1), <<>>, <<break>>), Sendto(sockfd, ECHO_SERV_PORT), add("i", 1)>>)>>

\* The connect of main has an address for a length and always fails.  client is
\* the port the system gives to the socket with its first datagram.
echo_udp_client_v1(cli) == <<udp("sockfd", "client")>> \o cli

dg_echo(sockfd) == <<loop(<<Recvfrom("n", sockfd), add("recv_count", 1), reply(sockfd)>>)>>

echo_udp_server_v1 == <<udp("sockfd", ECHO_SERV_PORT), set("recv_count", 0)>> \o dg_echo("sockfd")

\* one process for UDP, and a child for each client of TCP
tcp_echo(sockfd) == <<
  loop(<<read("n", sockfd, 1), when("n", {1}, <<>>, <<break>>)>> \o Writen("w", sockfd, 1))>>

echo_udp_server_v2 == <<
  Socket("listenfd"), Bind("r", "listenfd", ECHO_TCP_PORT), Listen("listenfd", ECHO_TCP_PORT),
  udp("udpfd", ECHO_SERV_PORT),
  sigchld,
  loop(<<selectintr(<<"listenfd", "udpfd">>),
         when("n", Failed, <<>>,
              <<when("readylistenfd", {1},
                     <<Accept("connfd", "listenfd"),
                       Fork("childpid", <<Close("listenfd")>> \o tcp_echo("connfd") \o <<exit(0)>>, <<>>),
                       Close("connfd")>>, <<>>),
                when("readyudpfd", {1}, <<Recvfrom("n", "udpfd"), reply("udpfd")>>, <<>>)>>)>>)>>

---------------------------------------------------------------------------
(* ch14: the answer is waited for by alarm, by select, by a socket option.  *)
(* The five seconds are over only while the client waits.                   *)

dg_client_v1_alarm(sockfd) == each_line(<<
  Sendto(sockfd, ECHO_SERV_PORT),
  readtimeo("n", sockfd),
  when("n", Failed, <<>>, <<Fputs>>)>>)

readable_timeo(fd) == <<Select(<<fd>>, TRUE)>>

dg_client_v2_select(sockfd) == each_line(
  <<Sendto(sockfd, ECHO_SERV_PORT)>> \o readable_timeo(sockfd) \o
  <<when("n", {0}, <<>>, <<Recvfrom("n", sockfd), Fputs>>)>>)

dg_cli_v3(sockfd) == each_line(<<
  Sendto(sockfd, ECHO_SERV_PORT),
  readtimeo("n", sockfd),
  when("n", Failed, <<>>, <<Fputs>>)>>)

connect_timeo(n, sockfd, name) == <<
  connect(n, sockfd, name, ""), when(n, Failed, <<close(sockfd)>>, <<>>)>>

\* stdio on a socket: the answers stay in the buffer of fpout until the child ends
str_echo_stdio(sockfd) == <<
  clear, set("one", 1),
  loop(<<readmore("n", sockfd, "one"), when("n", {1}, <<>>, <<break>>)>>),
  put(sockfd)>>

---------------------------------------------------------------------------
(* Daytime and ruptime by datagram.                                         *)

Udp_client(sockfd) == <<Getaddrinfo("n", {1}), when("n", {0}, <<>>, <<exit_failure>>), udp(sockfd, "")>>
Udp_server(sockfd) == <<Getaddrinfo("n", {1}), when("n", {0}, <<>>, <<exit_failure>>), udp(sockfd, "daytime")>>

daytime_udp_cli_v1 == Udp_client("sockfd") \o <<
  uninit, Sendto("sockfd", "daytime"), Recvfrom("n", "sockfd"), Fputs, exit(0)>>

daytime_udp_server_v1 == Udp_server("sockfd") \o <<
  loop(<<Recvfrom("n", "sockfd"), answer("garbage" :> "time"), reply("sockfd")>>)>>

\* err_sys does not end the function: a write of -1 bytes, which fails, follows
print_uptime == <<
  uninit, sendto("sockfd", "ruptime"),
  readtimeo("n", "sockfd"),
  when("n", Failed, <<>>, <<put("1")>>)>>

ruptime_client_v3 ==
  <<mayfail("err", Failed), when("err", Failed, <<exit_failure>>, <<>>),
    udp("sockfd", "")>> \o print_uptime \o <<exit(0)>>

\* Its socket is one that listens, and no datagram arrives there.
serve_v3 == <<
  loop(<<read("n", "sockfd", 1), when("n", Failed, <<exit(1)>>, <<>>),
         mayfail("fp", Failed), when("fp", Failed, <<reply("sockfd"), die(11)>>, <<>>)>>)>>

ruptime_server_v3 ==
  <<mayfail("err", Failed), when("err", Failed, <<exit(1)>>, <<>>),
    socket("sockfd"), bind("r", "sockfd", "ruptime"), listen("sockfd", "ruptime")>> \o serve_v3

---------------------------------------------------------------------------
(* SCTP: one socket for all associations, and several streams on each.      *)

sctp_str_cli(sock_fd) == each_line(<<
  said({"[0]l1", "[1]l2"},
       <<sendto(sock_fd, ECHO_SERV_PORT), Recvfrom("rd_sz", sock_fd),
         when("rd_sz", Failed, <<break>>, <<Fputs>>)>>,
       <<>>)>>)

sctp_str_cli_echoall(sock_fd) ==
  LET for(body) == <<set("i", 0),
                     loop(<<when("i", 0..(SERV_MAX_SCTP_STREAM - 1), <<>>, <<break>>)>> \o body \o <<add("i", 1)>>)>>
  IN each_line(for(<<sendto(sock_fd, ECHO_SERV_PORT)>>) \o for(<<Recvfrom("rd_sz", sock_fd), Fputs>>))

echo_sctp_client_v1(cli) == <<sctp("sock_fd", "client", "sctp")>> \o cli \o <<Close("sock_fd"), exit(0)>>

echo_sctp_server_v1 == <<
  sctp("sockfd", ECHO_SERV_PORT, "sctp events"),
  loop(<<Recvfrom("rd_size", "sockfd"),
         said({"notification"}, <<>>, <<reply("sockfd")>>)>>)>>

=============================================================================
