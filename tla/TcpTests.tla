------------------------------ MODULE TcpTests ------------------------------
(***************************************************************************)
(* Clients and servers over TCP of both books: the echo client of ch4 with  *)
(* its four forms of str_cli, the daytime programs of ch0 and ch11, the     *)
(* IPv4 and IPv6 pair of ch12, ruptime and the helpers of network_ipc.c.    *)
(*                                                                           *)
(* A line, with its newline, is one message; so is a record of the binary   *)
(* form.  Address families do not matter to what the programs do: a host    *)
(* has a sequence of addresses, and an address that answers has a name.     *)
(***************************************************************************)
EXTENDS Libraries

ECHO_SERV_PORT == "echo"
CLIENT_SOCKETS == 2         \* 5 in the code
time == <<say("time")>>
exit_failure == exit(255)

\* What a function prints that does not ask whether the buffer was filled.
recvline(n) == when(n, Failed, <<print(<<say("garbage")>>)>>, <<Fputs>>)

\* the addresses of a host one after the other, until each breaks; res is 0
\* when none is left
foreach(addresses, each(_)) ==
  <<loop(<<set("res", 1)>> \o FlattenSeq([k \in DOMAIN addresses |-> each(addresses[k])])
         \o <<set("res", 0), break>>)>>

---------------------------------------------------------------------------
(* The echo client: Fgets, Writen and readline in turn, or select on both.  *)

str_cli(socketfd) == <<
  loop(<<Fgets("n", "0"), when("n", {1}, <<>>, <<break>>)>>
       \o Writen("w", socketfd, 1) \o readline_v1("n", socketfd, 2)
       \o <<when("n", {0}, <<exit_failure>>, <<recvline("n")>>)>>)>>

str_cli_v2(socketfd) == <<
  loop(<<Fgets("n", "0"), when("n", {1}, <<>>, <<break>>),
         said({"1 2\n"},
              Writen("w", socketfd, 1) \o Readn("n", socketfd, 1)
              \o <<when("n", {0}, <<exit_failure>>, <<recvline("n")>>)>>,
              <<>>)>>)>>

str_cli_v3(socketfd) == func(<<
  loop(<<Select(<<"0", socketfd>>, FALSE),
         when("ready" \o socketfd, {1},
              readline_v1("n", socketfd, 2)
              \o <<when("n", {0}, <<exit_failure>>, <<recvline("n")>>)>>,
              <<>>),
         when("ready0", {1},
              <<Fgets("n", "0"), when("n", {1}, Writen("w", socketfd, 1), <<return>>)>>,
              <<>>)>>)>>)

\* After the end of its input it only waits for the server to finish.  What it
\* sends is as long as the string in the buffer, which Read does not terminate.
str_cli_v4(socketfd) == func(<<
  set("stdin_eof", 0),
  loop(<<when("stdin_eof", {0}, <<Select(<<"0", socketfd>>, FALSE)>>,
                                <<Select(<<socketfd>>, FALSE), set("ready0", 0)>>),
         when("ready" \o socketfd, {1},
              <<read("n", socketfd, 1),
                when("n", {0}, <<when("stdin_eof", {1}, <<return>>, <<exit_failure>>)>>, Writen("w", "1", 1))>>,
              <<>>),
         when("ready0", {1},
              <<read("n", "0", 1),
                when("n", {0}, <<set("stdin_eof", 1), Shutdown(socketfd)>>, <<garbled(socketfd)>>)>>,
              <<>>)>>)>>)

echo_tcp_client_v1(client) ==
  <<Socket("sockfd"), connect("r", "sockfd", ECHO_SERV_PORT, "")>> \o client
  \o <<Close("sockfd"), exit(0)>>

echo_tcp_client_v1_multi ==
  <<set("i", 0),
    loop(<<when("i", 0..(CLIENT_SOCKETS - 1), <<>>, <<break>>),
           Socket("fd"), store("sockfd", "i", "fd"),
           connect("connfd", "fd", ECHO_SERV_PORT, ""),
           add("i", 1)>>)>> \o str_cli("sockfd0") \o <<Close("sockfd0"), exit(0)>>

\* The server the client talks to, and what its child does for a client.
str_echo(sockfd) == <<
  loop(<<read("n", sockfd, 1), when("n", {1}, <<>>, <<break>>)>> \o Writen("w", sockfd, 1))>>

str_sum(sockfd) == func(<<
  loop(readline_v1("n", sockfd, 2)
       \o <<when("n", {0}, <<return>>, <<>>), answer("1 2\n" :> "3\n" @@ "A\n" :> "input error\n")>>
       \o <<when("n", Failed, <<uninit>>, <<>>)>> \o Writen("w", sockfd, 1))>>)

bin_sum(sockfd) == func(<<
  loop(Readn("n", sockfd, 1)
       \o <<when("n", {0}, <<return>>, <<>>), answer("1 2\n" :> "3\n")>>
       \o <<when("n", Failed, <<uninit>>, <<>>)>> \o Writen("w", sockfd, 1))>>)

echo_tcp_server_v1(serve) == <<
  Socket("listenfd"), Bind("r", "listenfd", ECHO_SERV_PORT), Listen("listenfd", ECHO_SERV_PORT),
  sigchld,
  loop(<<Accept("connfd", "listenfd"),
         when("connfd", Failed, <<exit_failure>>, <<>>),
         Fork("childpid", <<Close("listenfd")>> \o serve \o <<Close("connfd"), exit(0)>>, <<>>),
         Close("connfd")>>)>>

---------------------------------------------------------------------------
(* Daytime.                                                                 *)

daytime_tcp_server == <<
  Socket("listenfd"), Bind("r", "listenfd", "daytime"), Listen("listenfd", "daytime"),
  loop(<<Accept("connfd", "listenfd"), write("connfd", time), Close("connfd")>>)>>

print_until_end == <<
  loop(<<Read("n", "sockfd"), when("n", {-1, 0}, <<break>>, <<Fputs>>)>>)>>

daytime_tcp_client == <<
  Socket("sockfd"),
  connect("r", "sockfd", "daytime", ""),
  when("r", Failed, <<Close("sockfd"), exit_failure>>, <<>>)>> \o print_until_end \o <<exit(0)>>

\* err_ret leaves main at the first address that refuses
daytime_tcp_cli_v1(addresses) ==
  LET try(address) == <<Socket("sockfd"),
                        connect("r", "sockfd", address, ""),
                        when("r", {0}, <<break>>, <<exit(0)>>)>>
  IN <<mayfail("hp", Failed), when("hp", Failed, <<exit_failure>>, <<>>),
       mayfail("sp", Failed), when("sp", Failed, <<exit_failure>>, <<>>)>>
     \o foreach(addresses, try)
     \o <<when("res", {0}, <<exit_failure>>, <<>>)>> \o print_until_end \o <<exit(0)>>

\* when every address has refused, sockfd is the descriptor closed last
tcp_connect(addresses) ==
  LET try(address) == <<Socket("sockfd"),
                        when("sockfd", Failed, <<>>,
                             <<connect("r", "sockfd", address, ""),
                               when("r", {0}, <<break>>, <<>>),
                               Close("sockfd")>>)>>
  IN <<Getaddrinfo("n", {1}), when("n", {0}, <<>>, <<exit_failure>>)>> \o foreach(addresses, try)

\* an error of Read does not end the loop, and prints what was there before
daytime_tcp_cli_v2(addresses) == tcp_connect(addresses) \o <<
  when("sockfd", Failed, <<exit_failure>>, <<>>),
  loop(<<Read("n", "sockfd"), when("n", {0}, <<break>>, <<Fputs>>)>>),
  exit(0)>>

tcp_listen(addresses) ==
  LET try(address) == <<Socket("listenfd"),
                        when("listenfd", Failed, <<>>,
                             <<bind("r", "listenfd", address),
                               when("r", {0}, <<Listen("listenfd", address), break>>, <<>>),
                               Close("listenfd")>>)>>
  IN <<Getaddrinfo("n", {1}), when("n", {0}, <<>>, <<exit_failure>>)>> \o foreach(addresses, try)
     \o <<when("res", {0}, <<exit_failure>>, <<>>)>>

daytime_tcp_server_v1(addresses) == tcp_listen(addresses) \o <<
  loop(<<Accept("connfd", "listenfd"), write("connfd", time), Close("connfd")>>)>>

---------------------------------------------------------------------------
(* ch12: one line there and back.                                           *)

ipv4_server(addresses) == tcp_listen(addresses) \o <<
  loop(<<Accept("connfd", "listenfd"), Read("len", "connfd"), Write("connfd"), Close("connfd")>>)>>
ipv6_server(addresses) == ipv4_server(addresses)

ipv4_client(addresses) ==
  LET try(address) == <<socket("sockfd"),
                        when("sockfd", Failed, <<>>,
                             <<connect("r", "sockfd", address, ""),
                               when("r", {0}, <<break>>, <<>>),
                               Close("sockfd")>>)>>
  IN <<Getaddrinfo("n", {1})>> \o foreach(addresses, try) \o <<
       when("res", {0}, <<exit_failure>>, <<>>),
       write("sockfd", <<say("Hello")>>),
       Read("n", "sockfd"), Fputs,
       Close("sockfd"),
       exit(0)>>
ipv6_client(addresses) == ipv4_client(addresses)

---------------------------------------------------------------------------
(* network_ipc.c and ruptime.  The loops over numsec never count.           *)

connect_retry(r, fd, name) == <<
  loop(<<connect(r, fd, name, ""), when(r, {0}, <<break>>, <<sleep>>)>>)>>

connect_retry_v2(fd, name) == func(<<
  loop(<<socket(fd), when(fd, Failed, <<return>>, <<>>),
         connect("r", fd, name, ""),
         when("r", {0}, <<return>>, <<close(fd), sleep>>)>>)>>)

init_server(fd, name) == func(<<
  socket(fd),
  when(fd, Failed, <<return>>, <<>>),
  bind("r", fd, name),
  when("r", Failed, <<close(fd), set(fd, -1), return>>, <<listen(fd, name)>>)>>)

print_uptime == <<
  loop(<<read("n", "sockfd", PipeCap), when("n", {-1, 0}, <<break>>, <<put("1")>>)>>)>>

ruptime_client_v1(addresses) ==
  LET try(address) == connect_retry_v2("sockfd", address)
                      \o <<when("sockfd", Failed, <<>>, print_uptime \o <<exit(0)>>)>>
  IN <<mayfail("err", Failed), when("err", Failed, <<exit_failure>>, <<>>)>>
     \o foreach(addresses, try) \o <<exit_failure>>

ruptime_server(addresses, serve) ==
  LET try(address) == init_server("sockfd", address) \o <<when("sockfd", Failed, <<>>, serve)>>
  IN <<mayfail("err", Failed), when("err", Failed, <<exit(1)>>, <<>>)>>
     \o foreach(addresses, try) \o <<exit(255)>>

\* uptime's only line through popen
serve_v1 == <<
  loop(<<accept("clfd", "sockfd"),
         when("clfd", Failed, <<exit(1)>>, <<>>),
         mayfail("fp", Failed),
         when("fp", Failed, <<write("clfd", <<say("error")>>)>>, <<write("clfd", <<say("uptime")>>)>>),
         close("clfd")>>)>>

uptime == <<write("1", <<say("uptime")>>), exit(0)>>

\* a child that cannot run uptime goes on as a server
serve_v2(execl) == <<
  loop(<<accept("clfd", "sockfd"),
         when("clfd", Failed, <<exit(1)>>, <<>>),
         fork("pid", <<exit(1)>>,
              <<dup2("clfd", 1), dup2("clfd", 2), close("clfd"), execl>>,
              <<close("clfd"), waitpid("w", "pid")>>)>>)>>

=============================================================================
