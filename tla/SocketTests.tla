---------------------------- MODULE SocketTests ----------------------------
(***************************************************************************)
(* Programs over Unix domain sockets (ch17 and ch16 of the first book, ch15  *)
(* of the second): servers found by a name in the file system, descriptors   *)
(* handed from process to process, and the daemons of both books.            *)
(*                                                                           *)
(* A byte of the open protocol is a message; a line of the echo programs is  *)
(* one.  What is printed in endless loops is left out.                       *)
(***************************************************************************)
EXTENDS Libraries

UNIX_DOMAIN_SOCKET_PATH == "server"

unix_socket_test1 == <<
  socket("fd"), when("fd", Failed, <<exit(255)>>, <<>>),
  bind("r", "fd", "foo"), when("r", Failed, <<exit(255)>>, <<>>),
  unlink("foo"),
  exit(0)>>

unix_socket_server_test2 == func(
  serv_listen("listen_fd", UNIX_DOMAIN_SOCKET_PATH) \o
  <<when("listen_fd", -4..(-1), <<return>>, <<>>)>> \o
  serv_accept("fd", "listen_fd") \o
  <<when("fd", -4..(-1), <<return>>, <<>>),
    loop(<<read("n", "fd", PipeCap)>>)>>)

unix_socket_client_test2(path) == func(
  cli_conn("fd", path, UNIX_DOMAIN_SOCKET_PATH) \o
  <<when("fd", -4..(-1), <<return>>, <<>>),
    loop(<<write("fd", <<say("data")>>), sleep>>)>>)

send_fd_server_test1 == func(
  serv_listen("listen_fd", UNIX_DOMAIN_SOCKET_PATH) \o
  <<when("listen_fd", -4..(-1), <<return>>, <<>>)>> \o
  serv_accept("socket_fd", "listen_fd") \o
  <<when("socket_fd", -4..(-1), <<return>>, <<>>)>> \o
  send_fd("socket_fd", "1") \o
  <<loop(<<sleep>>)>>)

\* what the received descriptor is used for comes after the assertion
recv_fd_client_test1(path) == func(
  cli_conn("socket_fd", path, UNIX_DOMAIN_SOCKET_PATH) \o
  <<when("socket_fd", -4..(-1), <<return>>, <<>>)>> \o
  recv_fd("recv_new_fd", "socket_fd", error_process_func) \o
  <<when("recv_new_fd", 0..Undefined, <<>>, <<exit(255)>>),
    loop(<<write("recv_new_fd", <<>>), sleep>>)>>)

---------------------------------------------------------------------------
(* The open server: a client sends a request that ends in a 0, the server    *)
(* answers every byte it reads.                                              *)

request == <<say("open"), say("\\0")>>

\* a request of one byte has no name in it: there is never a file to open
buf_args == <<set("r", -1)>>

handle_request(fd) ==
  <<said({"\\0"}, buf_args, <<set("r", -1)>>),
    when("r", Failed, send_err(fd, <<>>), <<>>)>>

start_open_server_v1 == <<
  loop(<<read("nread", "0", 1),
         when("nread", {0}, <<break>>, <<>>)>>
       \o handle_request("1"))>>

cs_open(newfd) == func(<<
  when("fd0", Failed,
       <<socketpair("fd0", "fd1"),
         when("fd1", Failed, <<undefined(newfd), return>>, <<>>),
         fork("pid", <<undefined(newfd), return>>,
              <<close("fd0"),
                when("fd1", {0}, <<>>, <<dup2("fd1", 0)>>),
                when("fd1", {1}, <<>>, <<dup2("fd1", 1)>>),
                exec(start_open_server_v1)>>,
              <<>>),
         close("fd1")>>,
       <<>>),
  write("fd0", request)>> \o recv_fd(newfd, "fd0", write_2))

csopen_v2(newfd, path) == func(
  <<when("csfd", Failed,
         cli_conn("csfd", path, "opend") \o
         <<when("csfd", -4..(-1), <<undefined(newfd), return>>, <<>>)>>,
         <<>>),
    write("csfd", request)>> \o recv_fd(newfd, "csfd", write_2))

\* A descriptor without a file is read as an error.
start_open_client_v1(call) == <<
  set("fd0", -1), set("csfd", -1),
  loop(<<read("n", "0", 1),
         when("n", {1}, <<>>, <<break>>)>> \o call \o
       <<when("fd", Failed, <<>>,
              <<loop(<<read("n", "fd", PipeCap), when("n", {-1, 0}, <<break>>, <<>>)>>),
                close("fd")>>)>>),
  exit(0)>>

---------------------------------------------------------------------------
(* mycat: openfile opens the file and sends the descriptor back.            *)

read_fd(recvfd_, fd) == <<recvfd("n", fd, recvfd_)>>
write_fd(fd, sendfd) == <<Sendmsg(fd, sendfd)>>

openfile(sockfd) == <<
  set("sockfd", sockfd),
  mayfail("r", Failed), when("r", Failed, <<exit(2)>>, <<open("fd", InputFile)>>)>>
  \o write_fd("sockfd", "fd") \o <<exit(0)>>

\* a child that cannot run openfile goes on as its own parent
my_open(fd, call) == func(<<
  undefined("status"), set("opened", -1),
  Socketpair("sock0", "sock1"),
  Fork("childpid", <<Close("sock0"), call>>, <<>>),
  Close("sock1"),
  waitpid("w", "childpid"),
  when("status", {0}, read_fd("opened", "sock0"), <<>>),
  Close("sock0"),
  copy(fd, "opened")>>)

unix_domain_socket_trans_fp_test(call) == my_open("fd", call) \o <<
  loop(<<Read("n", "fd"),
         when("n", {-1, 0}, <<break>>, <<>>),
         Write("1")>>),
  exit(0)>>

unix_domain_socket_test1 == <<
  Socket("sockfd"), unlink("bound"), Bind("r", "sockfd", "bound"), exit(0)>>

---------------------------------------------------------------------------
(* The echo programs over Unix domain sockets.                              *)

str_echo(sockfd) == <<loop(<<Read("n", sockfd), Write(sockfd)>>)>>

unix_domain_tcp_server == <<
  Socket("listenfd"),
  unlink(UNIX_DOMAIN_SOCKET_PATH),
  Bind("r", "listenfd", UNIX_DOMAIN_SOCKET_PATH),
  Listen("listenfd", UNIX_DOMAIN_SOCKET_PATH),
  loop(<<Accept("connfd", "listenfd"),
         Fork("childpid", <<Close("listenfd")>> \o str_echo("connfd"), <<>>),
         Close("connfd")>>)>>

str_cli(input_fd, sockfd) == <<
  loop(<<read("n", input_fd, 1),
         when("n", {-1, 0}, <<break>>, <<>>),
         Write(sockfd),
         Read("n", sockfd),
         when("n", {-1, 0}, <<break>>, <<>>),
         echo>>)>>

unix_domain_tcp_client == func(<<
  Socket("sockfd"),
  connect("r", "sockfd", UNIX_DOMAIN_SOCKET_PATH, ""),
  when("r", Failed, <<return>>, <<>>)>> \o str_cli("0", "sockfd") \o <<exit(0)>>)

dg_echo(sockfd) == <<loop(<<Recvfrom("n", sockfd), reply(sockfd)>>)>>
unix_domain_udp_server == <<unlink(UNIX_DOMAIN_SOCKET_PATH), udp("sockfd", UNIX_DOMAIN_SOCKET_PATH)>> \o dg_echo("sockfd")

dg_client(sockfd) == <<
  loop(<<Fgets("n", "0"), when("n", {1}, <<>>, <<break>>),
         Sendto(sockfd, UNIX_DOMAIN_SOCKET_PATH),
         Recvfrom("n", sockfd),
         Fputs>>)>>
unix_domain_udp_client(path) == <<udp("sockfd", path)>> \o dg_client("sockfd") \o <<exit(0)>>

---------------------------------------------------------------------------
(* Daemons.  daemon is set once the process has become one.                 *)

close_all == <<set("i", 0), loop(<<when("i", 0..MaxFd, <<>>, <<break>>), Close("i"), add("i", 1)>>)>>

daemonize == func(<<
  fork("pid", <<return>>, <<>>, <<exit(0)>>),
  setsid("sid"),
  fork("pid", <<return>>, <<>>, <<exit(0)>>)>> \o
  close_all \o
  <<open("fd0", DevNull), dup("fd1", "0"), dup("fd2", "0"),
    when("fd0", {0}, <<>>, <<exit(1)>>),
    when("fd1", {1}, <<>>, <<exit(1)>>),
    when("fd2", {2}, <<>>, <<exit(1)>>),
    set("daemon", 1)>>)

lockfile(r) == <<set(r, 0)>>
alread_runing(r) == <<
  open("fd", Redirected),
  when("fd", Failed, <<exit(1)>>, <<>>)>> \o
  lockfile("locked") \o
  <<when("locked", Failed, <<close("fd"), set(r, 1)>>, <<write("fd", <<say("pid")>>), set(r, 0)>>)>>

reread_config_test1 ==
  daemonize \o alread_runing("running") \o
  <<when("running", {1}, <<exit(1)>>, <<set("alone", 1)>>),
    mayfail("r", Failed), when("r", Failed, <<exit(1)>>, <<>>),
    mayfail("r", Failed), when("r", Failed, <<exit(1)>>, <<>>),
    exit(0)>>

daemon_init_Leader == func(<<
  fork("pid", <<return>>, <<>>, <<_exit(0)>>),
  setsid("sid"), when("sid", Failed, <<return>>, <<>>)>> \o
  close_all \o
  <<open("fd0", DevNull), open("fd1", DevNull), open("fd2", DevNull),
    set("daemon", 1)>>)

daemon_init == func(<<
  fork("pid", <<return>>, <<>>, <<_exit(0)>>),
  setsid("sid"), when("sid", Failed, <<return>>, <<>>),
  fork("pid", <<return>>, <<>>, <<_exit(0)>>)>> \o
  close_all \o
  <<open("fd0", DevNull), open("fd1", DevNull), open("fd2", DevNull),
    set("daemon", 1)>>)

\* the list of addresses is tried from its first element on
Tcp_listen(listenfd, addresses, service) == <<
  Getaddrinfo("n", {1}), when("n", {0}, <<set("res", addresses)>>, <<exit(255)>>),
  loop(<<Socket(listenfd),
         when(listenfd, Failed, <<>>,
              <<bind("r", listenfd, service), when("r", {0}, <<break>>, <<>>), Close(listenfd)>>),
         add("res", -1),
         when("res", {0}, <<break>>, <<>>)>>),
  when("res", {0}, <<exit(255)>>, <<>>),
  Listen(listenfd, service)>>

daytime_server ==
  daemon_init \o Tcp_listen("listenfd", 2, "daytime") \o
  <<loop(<<Accept("connfd", "listenfd"),
           write("connfd", <<say("time")>>),
           Close("connfd")>>)>>

\* started by inetd, with the connection on descriptor 0
daemon_inetd_test == <<write("0", <<say("time")>>), Close("0"), exit(0)>>

=============================================================================
