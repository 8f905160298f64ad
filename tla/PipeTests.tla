----------------------------- MODULE PipeTests -----------------------------
(***************************************************************************)
(* The programs of ch13_io/ipc_test.c (pipes, TELL and WAIT over pipes,      *)
(* popen_m, the coprocess) with their helpers add2.c and myuclc.c, and the   *)
(* record locks of ch13_io/io_test.c.                                        *)
(*                                                                           *)
(* A line, or a character where the code reads characters, is a message.     *)
(* The buffer of a stream that writes to a pipe is left out.                 *)
(***************************************************************************)
EXTENDS Unix

crash == die(11)                                  \* stdio on a NULL stream
fgets(n, fp) == <<when(fp, Failed, <<crash>>, <<>>), read(n, fp, 1)>>
fopen(fp) == <<mayfail("r", Failed), when("r", Failed, <<set(fp, -1)>>, <<open(fp, InputFile)>>)>>

\* cat, less: copies its input and needs its end to end itself
pager == <<loop(<<read("n", "0", 1), when("n", {1}, <<put("1")>>, <<break>>)>>), exit(0)>>

pipe_test1 == func(<<
  pipe("fd0", "fd1"),
  fork("pid", <<return>>,
       <<close("fd1"), read("n", "fd0", PipeCap), echo>>,
       <<close("fd0"), write("fd1", <<say("abcde")>>), print(<<say("send message")>>)>>)>>)

pipe_test2(execl) == func(fopen("fp") \o <<
  pipe("fd0", "fd1"),
  fork("pid", <<return>>,
       <<close("fd1"),
         when("fd0", {0}, <<>>, <<dup2("fd0", 0), close("fd0"), execl>>)>>,
       <<close("fd0"),
         loop(fgets("n", "fp") \o <<when("n", {1}, <<put("fd1")>>, <<break>>)>>),
         close("fd1"),
         print(<<say("wait child exit")>>),
         waitpid("w", "pid")>>),
  exit(0)>>)

---------------------------------------------------------------------------
TELL_WAIT == <<pipe("pfd1r", "pfd1w"), pipe("pfd2r", "pfd2w")>>
TELL_PARENT == <<write("pfd2w", <<say("c")>>)>>
WAIT_PARENT == <<read("n", "pfd1r", 1), said({"p"}, <<>>, <<exit(255)>>)>>
TELL_CHILD == <<write("pfd1w", <<say("p")>>)>>
WAIT_CHILD == <<read("n", "pfd2r", 1), said({"c"}, <<>>, <<exit(255)>>)>>

\* The process that fork made plays the parent.
parent_child_sync_test1 == func(TELL_WAIT \o <<
  print(<<say("main thread running")>>),
  fork("pid", <<return>>,
       <<print(<<say("parent init")>>)>> \o WAIT_CHILD \o TELL_CHILD \o
       <<print(<<say("parent running")>>), sleep>> \o TELL_CHILD \o
       <<sleep, print(<<say("parent exit")>>), exit(0)>>,
       <<print(<<say("child init")>>)>> \o TELL_PARENT \o WAIT_PARENT \o
       <<print(<<say("child running")>>), sleep>> \o WAIT_PARENT \o
       <<print(<<say("child end")>>), exit(0)>>)>>)

---------------------------------------------------------------------------
(* popen_m and pclose_m: childpid is an array over the descriptors.         *)

childpid_NULL == [f \in 1..(MaxFd + 1) |-> set("childpid" \o ToString(f - 1), 0)]

close_childpid == <<   \* the loop over childpid in the child
  set("i", 0),
  loop(<<when("i", 0..MaxFd,
              <<load("c", "childpid", "i"), when("c", 1..MaxProc, <<close("i")>>, <<>>), add("i", 1)>>,
              <<break>>)>>)>>

\* fp is the descriptor of the stream, or -1 for NULL
popen_m(fp, type, cmdstring) ==
  LET mine   == IF type = "r" THEN "pfd0" ELSE "pfd1"
      theirs == IF type = "r" THEN "pfd1" ELSE "pfd0"
      std    == IF type = "r" THEN 1 ELSE 0
  IN func(<<
    set(fp, -1),
    pipe("pfd0", "pfd1"),
    when("pfd1", Failed, <<return>>, <<>>),
    fork("popen", <<return>>,
         <<close(mine), when(theirs, {std}, <<>>, <<dup2(theirs, std), close(theirs)>>)>>
           \o close_childpid \o <<exec(cmdstring), _exit(127)>>,
         <<>>),
    close(theirs),
    mayfail("r", Failed), when("r", Failed, <<return>>, <<>>),   \* fdopen
    copy(fp, mine),
    store("childpid", fp, "popen")>>)

pclose_m(stat, fp) == func(<<
  set(stat, -1),
  load("popen", "childpid", fp),
  when("popen", {0}, <<return>>, <<>>),
  set("zero", 0), store("childpid", fp, "zero"),
  close(fp),
  loop(<<waitintr("w", "popen"),
         when("w", Failed, <<when("errno", {4}, <<>>, <<return>>)>>, <<break>>)>>),
  copy(stat, "status")>>)

pager_test2 == func(childpid_NULL \o
  <<mayfail("r", Failed), when("r", Failed, <<return>>, <<>>), open("fpin", InputFile)>> \o
  popen_m("fpout", "w", pager) \o
  <<when("fpout", Failed, <<return>>, <<>>),
    loop(fgets("n", "fpin") \o <<when("n", {1}, <<put("fpout")>>, <<break>>)>>),
    print(<<say("pclose exit1")>>)>> \o
  pclose_m("stat", "fpout") \o
  <<print(<<say("pclose exit2")>>), close("fpin"), exit(0)>>)

\* getchar, tolower and putchar; the newline flushes the buffer
myuclc == <<loop(<<read("n", "0", 1),
                   when("n", {1}, <<>>, <<break>>),
                   answer("A" :> "a"),
                   echo,
                   said({"\n"}, <<fflush>>, <<>>)>>),
            exit(0)>>

popen_test1 == func(childpid_NULL \o popen_m("fpin", "r", myuclc) \o
  <<loop(<<print(<<say("prompt> ")>>)>> \o fgets("n", "fpin") \o
         <<when("n", {1}, <<>>, <<break>>), echo>>)>> \o
  pclose_m("stat", "fpin") \o <<exit(0)>>)

\* a caller of popen_m with two streams open at once, closed in either order
two_streams(first, second) == func(childpid_NULL \o
  popen_m("fp1", "w", pager) \o popen_m("fp2", "w", pager) \o
  <<when("fp1", Failed, <<>>, <<write("fp1", <<say("one")>>)>>),
    when("fp2", Failed, <<>>, <<write("fp2", <<say("two")>>)>>),
    when(first, Failed, <<>>, pclose_m("stat1", first)),
    when(second, Failed, <<>>, pclose_m("stat2", second)), sleep>>)

---------------------------------------------------------------------------
add2 == <<
  loop(<<read("n", "0", PipeCap),
         when("n", {0, -1}, <<break>>, <<>>),
         answer("1 2" :> "3" @@ "x" :> "Invalid args"),
         put("1")>>),
  exit(0)>>

sig_pipe_handler == <<print(<<say("SIGPIPE caught")>>), exit(0)>>

coprocess_test1(execl) == func(<<
  sigpipe(sig_pipe_handler),
  pipe("pfd1r", "pfd1w"), pipe("pfd2r", "pfd2w"),
  fork("pid", <<return>>,
       <<close("pfd1w"), close("pfd2r"),
         when("pfd1r", {0}, <<>>, <<dup2("pfd1r", 0), close("pfd1r")>>),
         when("pfd2w", {1}, <<>>, <<dup2("pfd2w", 1), close("pfd2w")>>),
         execl>>,
       <<close("pfd1r"), close("pfd2w"),
         loop(<<read("n", "0", 1),
                when("n", {1}, <<>>, <<break>>),
                put("pfd1w"),
                read("n", "pfd2r", PipeCap),
                when("n", {0, -1}, <<return>>, <<>>),
                echo>>),
         exit(0)>>),
  exit(0)>>)

---------------------------------------------------------------------------
(* Record locks.  err_sys only prints, so that "got the lock" is printed    *)
(* with and without the lock.                                               *)

lockabyte(name, offset) == <<
  fcntl("lock", offset, "write"),
  print(<<show(name, <<"lock">>)>>)>>

dead_lock_test == <<
  open("fd", Redirected),
  write("fd", <<say("ab")>>),
  fork("pid", <<>>,
       lockabyte("child", 0) \o lockabyte("child", 1),
       lockabyte("parent", 1) \o lockabyte("parent", 0))>>

file_lock_test == func(<<
  open("fd", Redirected),
  write("fd", <<say("abcdef")>>),
  mayfail("r", Failed), when("r", Failed, <<return>>, <<>>),   \* fstat, fchmod
  fork("pid", <<return>>,
       <<sleep,
         trylock("lock", 0, "read"),
         when("lock", Failed, <<>>, <<return>>),
         print(<<say("read lock get failed")>>), print(<<say("read success")>>)>>,
       <<trylock("lock", 0, "write"),
         sleep,
         waitpid("w", "pid"), when("w", Failed, <<return>>, <<>>)>>),
  exit(0)>>)

=============================================================================
