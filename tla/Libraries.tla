----------------------------- MODULE Libraries -----------------------------
(***************************************************************************)
(* The libraries of the two books: common/apue.c and util/unp.c.  The       *)
(* wrappers of unp.c print when a call fails and return what it returned, so *)
(* that they are the call itself.  err_ret returns from the function that    *)
(* uses it: with no value where the function has one.                        *)
(***************************************************************************)
EXTENDS Unix

Socket(x) == socket(x)
Listen(x, name) == listen(x, name)
Bind(c, x, name) == bind(c, x, name)
Accept(c, x) == accept(c, x)
Shutdown(x) == shutdown(x)
Fork(x, child, parent) == fork(x, parent, child, parent)
Select(xs, timeout) == select(xs, timeout)
Write(x) == put(x)
Read(c, x) == read(c, x, PipeCap)
Close(x) == close(x)
Recvfrom(c, x) == read(c, x, 1)
Sendto(x, name) == sendto(x, name)
Sendmsg(x, fdx) == write(x, <<pass("", fdx)>>)
Getaddrinfo(x, failures) == mayfail(x, failures)
Socketpair(x, y) == socketpair(x, y)
Fgets(c, x) == read(c, x, 1)
Fputs == echo

---------------------------------------------------------------------------
(* Reading and writing n bytes or a line.  Writen writes what the buffer    *)
(* ends with.                                                               *)

Readn_Whole(r, fd, n) == func(<<
  clear, set("nleft", n),
  loop(<<when("nleft", {0}, <<break>>, <<>>),
         readmore("nread", fd, "nleft"),
         when("nread", Failed, <<when("errno", {4}, <<set("nread", 0)>>, <<set(r, -1), return>>)>>,
              <<when("nread", {0}, <<break>>, <<>>)>>),
         minus("nleft", "nread")>>),
  set(r, n)>>)

Readn_NoEnd(r, fd, n) == func(<<
  clear, set("nleft", n),
  loop(<<when("nleft", {0}, <<break>>, <<>>),
         readmore("nread", fd, "nleft"),
         when("nread", Failed, <<when("errno", {4}, <<set("nread", 0)>>, <<set(r, -1), return>>)>>, <<>>),
         minus("nleft", "nread")>>),
  set(r, n), minus(r, "nleft")>>)

Readn(r, fd, n) == func(<<
  clear, set("nleft", n),
  loop(<<when("nleft", {0}, <<break>>, <<>>),
         readmore("nread", fd, "nleft"),
         when("nread", Failed, <<when("errno", {4}, <<set("nread", 0)>>, <<set(r, -1), return>>)>>,
              <<when("nread", {0}, <<break>>, <<>>)>>),
         minus("nleft", "nread")>>),
  set(r, n), minus(r, "nleft")>>)

Writen(r, fd, n) == func(<<
  set("nleft", n),
  loop(<<when("nleft", {0}, <<break>>, <<>>),
         writesome("nwritten", fd, "nleft"),
         when("nwritten", Failed, <<when("errno", {4}, <<set("nwritten", 0)>>, <<set(r, -1), return>>)>>, <<>>),
         minus("nleft", "nwritten")>>),
  set(r, n), minus(r, "nleft")>>)

readline_v1(r, fd, maxlen) == func(<<
  clear, set(r, 1), set("one", 1),
  loop(<<when(r, 1..(maxlen - 1), <<>>, <<break>>),
         loop(<<readmore("rc", fd, "one"),
                when("rc", Failed, <<when("errno", {4}, <<>>, <<set(r, -1), return>>)>>, <<break>>)>>),
         when("rc", {0}, <<add(r, -1), return>>, <<>>),
         said({"\n"}, <<break>>, <<>>),
         add(r, 1)>>)>>)

\* apue.c's: an error counts only when nothing was read or written yet
readn(r, fd, n) == func(<<
  clear, set("nleft", n),
  loop(<<when("nleft", {0}, <<break>>, <<>>),
         readmore("nread", fd, "nleft"),
         when("nread", Failed, <<when("nleft", {n}, <<set(r, -1), return>>, <<break>>)>>,
              <<when("nread", {0}, <<break>>, <<>>)>>),
         minus("nleft", "nread")>>),
  set(r, n), minus(r, "nleft")>>)

writen(r, fd, n) == func(<<
  set("nleft", n),
  loop(<<when("nleft", {0}, <<break>>, <<>>),
         writesome("nwritten", fd, "nleft"),
         when("nwritten", Failed, <<when("nleft", {n}, <<set(r, -1), return>>, <<break>>)>>, <<>>),
         minus("nleft", "nwritten")>>),
  set(r, n), minus(r, "nleft")>>)

---------------------------------------------------------------------------
(* Rendezvous over a socket with a name in the file system.                 *)

serv_listen(fd, name) == func(<<
  socket(fd),
  when(fd, Failed, <<set(fd, -2), return>>, <<>>),
  unlink(name),
  bind("rval", fd, name),
  when("rval", Failed, <<close(fd), set(fd, -3), return>>, <<>>),
  mayfail("rval", Failed),
  when("rval", Failed, <<close(fd), set(fd, -4), return>>, <<listen(fd, name)>>)>>)

serv_accept(clifd, listenfd) == func(<<
  accept(clifd, listenfd),
  when(clifd, Failed, <<set(clifd, -2), return>>, <<>>),
  statpath("rval"),
  when("rval", Failed, <<close(clifd), set(clifd, -3), return>>, <<>>),
  unlinkpeer>>)

\* path is the name the client takes, its process id is part of it
cli_conn(fd, path, server_sock_path) == func(<<
  socket(fd),
  when(fd, Failed, <<return>>, <<>>),
  unlink(path),
  bind("rval", fd, path),
  when("rval", Failed, <<close(fd), set(fd, -2), return>>, <<>>),
  connect("rval", fd, server_sock_path, path),
  when("rval", Failed, <<close(fd), unlink(path), set(fd, -4)>>, <<>>)>>)

---------------------------------------------------------------------------
(* Descriptors that travel: a descriptor goes with two bytes, 0 and the     *)
(* status.  recv_fd reads into a buffer of MAXLINE = 1 byte: the 0 is never   *)
(* followed by the status, and "message format error" returns without a       *)
(* value.  So status stays -1, its test at the end (apue.c:603) never holds,  *)
(* and after any other byte the loop goes on.                                 *)

send_fd(fd, fdx) == <<write(fd, <<pass("\\0", fdx), say("\\0")>>)>>

send_err(fd, msg) == <<write(fd, msg \o <<say("\\0"), say("1")>>)>>

recv_fd(newfd, fd, error_process_func) == func(<<
  loop(<<recvfd("nr", fd, "arrived"),
         when("nr", {-1, 0}, <<undefined(newfd), return>>, <<>>),
         said({"\\0"}, <<undefined(newfd), return>>, <<>>)>>     \* "message format error"
       \o error_process_func \o
       <<when("nwrite", {1}, <<>>, <<set(newfd, -1), return>>)>>)>>)

error_process_func == <<put("2"), set("nwrite", 0)>>
write_2 == <<put("2"), set("nwrite", 1)>>                      \* write itself

=============================================================================
