---------------------------- MODULE ThreadTests ----------------------------
(***************************************************************************)
(* The programs of ch7_12_process and ch17_IPC that start threads, as       *)
(* sequences of the calls they make.  A loop of a sender that never ends is  *)
(* cut after TIMES rounds; of the NTHREADS threads and NQ message queues     *)
(* that a program starts the model has as many as the constants say.         *)
(***************************************************************************)
EXTENDS Threads

CONSTANTS TIMES, NTHREADS, NQ

must(x) == when(x, {0}, <<>>, <<exit(255)>>)           \* ASSERT(x == 0), err_quit
orReturn(x) == when(x, {0}, <<>>, <<return>>)          \* err_ret
forever(body) == <<loop(body)>>
times(x, body) ==
  <<set(x, 0), loop(<<when(x, {TIMES}, <<break>>, <<>>), add(x, 1)>> \o body)>>
concat(Part(_), n) == FlattenSeq([j \in 1..n |-> Part(j)])

---------------------------------------------------------------------------
(* thread_test.c: what a thread returns, and who gets it                    *)

thread_fun1 == <<print(<<say("child thread")>>), thread_return(0)>>
thread_test1 == <<
  create("err", "ntid1", thread_fun1), orReturn("err"),
  print(<<say("main thread")>>), sleep, exit(0)>>

thread_fun2 == <<print(<<say("thread2 running")>>), thread_return(1)>>
thread_fun3 == <<
  set("ix", 0), print(<<say("thread3 running")>>),
  loop(<<when("ix", {5}, <<print(<<say("thread2 exit")>>), pthread_exit(2)>>, <<>>),
         sleep, add("ix", 1), print(<<show("ix", <<"ix">>)>>)>>)>>
thread_exit_test2 == <<
  create("err", "tid1", thread_fun2), orReturn("err"),
  create("err", "tid2", thread_fun3), orReturn("err"),
  join("tid1", "tret"), print(<<show("thread1 exit", <<"tret">>)>>),
  join("tid2", "tret"), print(<<show("thread2 exit", <<"tret">>)>>),
  exit(0)>>

\* fp points to the stack of a thread that has ended
thread_fun4 == <<
  set("a", 1), print(<<say("thread fun4 running")>>), print(<<show("child thread", <<"a">>)>>), pthread_exit(4)>>
thread_exit_test3 == <<
  create("ret", "tid", thread_fun4), orReturn("ret"),
  join("tid", "fp"), sleep, undefined("a"), print(<<show("main thread", <<"a">>)>>), exit(0)>>

cleanup(arg) == <<print(<<say(arg)>>)>>
thread_fun5 == <<
  print(<<say("thread5 start")>>),
  cleanup_push(cleanup("thread5 first handler")), cleanup_push(cleanup("thread5 second handler")),
  thread_return(1)>>
\* mutant: returns
thread_fun6_Returns == <<
  print(<<say("thread6 start")>>),
  cleanup_push(cleanup("thread6 first handler")), cleanup_push(cleanup("thread6 second handler")),
  thread_return(2)>>

thread_fun6 == <<
  print(<<say("thread6 start")>>),
  cleanup_push(cleanup("thread6 first handler")), cleanup_push(cleanup("thread6 second handler")),
  pthread_exit(2)>>
thread_cleanup_test1 == <<
  create("err", "tid5", thread_fun5), orReturn("err"),
  create("err", "tid6", thread_fun6), orReturn("err"),
  join("tid5", "tret"), print(<<show("thread5 exit", <<"tret">>)>>),
  join("tid6", "tret"), print(<<show("thread6 exit", <<"tret">>)>>),
  exit(0)>>

\* the size that is asserted has no value yet
thread_property_test1 == <<
  undefined("real_stack_size"), when("real_stack_size", {0}, <<exit(255)>>, <<>>),
  create("ret", "tid", thread_fun3), must("ret"), join("tid", "thread_ret")>>

---------------------------------------------------------------------------
(* thread_test.c: locks                                                     *)

thread9_entry == times("k", <<
  lock("mutex8"), lock("mutex9"),
  fetch("n", "test_cnt8"), add("n", 1), assign("test_cnt8", "n"), print(<<show("cnt", <<"n">>)>>),
  unlock("mutex9"), unlock("mutex8")>>) \o <<pause>>
thread_lock_test2 == <<
  create("ret", "tid8", thread9_entry), orReturn("ret"),
  create("ret", "tid9", thread9_entry), orReturn("ret"), pause>>

\* mutant: waits without a limit
thread_lock_test3_Untimed == <<
  lock("lock"), print(<<say("mutex is locked")>>), lock("lock"), print(<<say("locked again")>>)>>

thread_lock_test3 == <<
  lock("lock"), print(<<say("mutex is locked")>>), timedlock("ret", "lock"),
  when("ret", {0}, <<print(<<say("locked again")>>)>>, <<print(<<say("can't lock again")>>)>>)>>

\* The handlers of pthread_atfork: a fork finds both mutexes in the hands of
\* the thread that forks.
prepare == <<print(<<say("prepare locking")>>), lock("lock12"), lock("lock13")>>
parent == <<print(<<say("parent unlocking")>>), unlock("lock12"), unlock("lock13")>>
child == <<print(<<say("child unlocking")>>), unlock("lock12"), unlock("lock13")>>
thread_fun12 == <<print(<<say("thread started")>>), pause>>
fork_handler_test1 == <<
  create("err", "tid", thread_fun12), must("err"), sleep, print(<<say("prepare to fork")>>)>>
  \o prepare \o <<
  fork("pid", parent \o <<return>>,
       child \o <<print(<<say("child return from fork")>>)>>,
       parent \o <<print(<<say("parent return from fork")>>)>>),
  exit(0)>>

---------------------------------------------------------------------------
(* The environment: getenv_m has one buffer for all threads, getenv_r_m      *)
(* fills the buffer of its caller, getenv_r_m2 one of each thread.  environ  *)
(* gives the length of each value; the names are numbers, and a buffer holds *)
(* the name whose value is in it.                                            *)

PATH == 1
LANG == 2
HOME == 3   \* not in the environment
ENOENT == 2
ENOSPC == 28
environ == (PATH :> 2) @@ (LANG :> 1)

getenv_m(x, name) ==
  IF name \in DOMAIN environ THEN <<set("v", name), assign("envbuf_m", "v"), sleep, fetch(x, "envbuf_m")>>
  ELSE <<set(x, 0)>>

thread_init == <<bump("mutex10 made")>>
\* what is copied begins with the '=', and is cut at the end of the buffer
getenv_r_m(r, buf, name, buflen) ==
  once("init_done", thread_init) \o <<lock_recursive("mutex10")>>
  \o IF name \notin DOMAIN environ THEN <<unlock("mutex10"), set(r, ENOENT)>>
     ELSE IF environ[name] > buflen THEN <<unlock("mutex10"), set(r, ENOSPC)>>
     ELSE <<set(buf, name), set("terminated", IF environ[name] + 1 < buflen THEN 1 ELSE 0),
            unlock("mutex10"), set(r, 0)>>
getenv_test ==
  getenv_m("path", PATH) \o <<print(<<show("getenv_m", <<"path">>)>>)>>
  \o getenv_r_m("r", "path", PATH, 4) \o <<print(<<show("getenv_r_m", <<"path">>)>>)>>

thread_init2 == <<bump("key made")>>
\* mutant: one buffer for all threads
getenv_r_m2_Shared(x, name) ==
  once("init_done", thread_init2) \o <<lock("mutex")>>
  \o (IF name \in DOMAIN environ
      THEN <<set("v", name), assign("envbuf", "v"), unlock("mutex"), fetch(x, "envbuf")>>
      ELSE <<unlock("mutex"), set(x, 0)>>)

getenv_r_m2(x, name) ==
  once("init_done", thread_init2) \o <<lock("mutex")>>
  \o func(<<when("specific", {0}, <<mayfail("envbuf", {-1}),
                                   when("envbuf", {-1}, <<unlock("mutex"), set(x, 0), return>>, <<>>),
                                   set("specific", 1)>>, <<>>)>>
          \o (IF name \in DOMAIN environ THEN <<set("heap", name), unlock("mutex"), copy(x, "heap"), return>>
              ELSE <<>>)
          \o <<unlock("mutex"), set(x, 0)>>)
getenv_test3 == <<set("specific", 0)>> \o getenv_r_m2("path", PATH) \o <<print(<<show("path", <<"path">>)>>)>>

\* the test and the setting of init_done2 are two steps: see thread_test12
thread_fun11 == <<
  fetch("d", "init_done2"),
  when("d", {0}, <<set("one", 1), assign("init_done2", "one"), bump("keys")>>, <<>>)>>
thread_test11 == concat(LAMBDA j : <<create("ret", "tid", thread_fun11), must("ret")>>, NTHREADS)

thread_init12 == <<bump("key12 made")>>
thread_test12 == once("initflag", thread_init12)

---------------------------------------------------------------------------
(* messagequeue_test.c, ipc_test.c and fifo_test.c of ch17_IPC              *)

thread1_fun == times("k", <<write("s_mq", <<show("hello", <<"k">>)>>), print(<<say("send msg")>>), sleep>>) \o <<pause>>
\* mutant: does not block, and shows its buffer whether a message came or not
thread2_fun_NonBlocking == forever(<<
  select(<<"s_mq">>, TRUE), when("n", {0}, <<>>, <<read("n", "s_mq", 1)>>), echo, sleep>>)

thread2_fun == forever(<<read("n", "s_mq", 1), echo, sleep>>)
mq_test1 == <<
  mkfifo("r", "mq"), openfifo("s_mq", "mq"), when("s_mq", {-1}, <<return>>, <<>>),
  create("ret", "tid1", thread1_fun), orReturn("ret"),
  create("ret", "tid2", thread2_fun), orReturn("ret"), pause>>

Nr(x, j) == x \o ToString(j)
helper(j) == forever(<<
  read("n", Nr("qid", j), 1), when("n", {-1}, <<print(<<say("msgrcv error")>>)>>, <<put(Nr("fd1 ", j))>>)>>)
socketpair_recv_test ==
  concat(LAMBDA j : <<
    mkfifo("r", Nr("q", j)), openfifo(Nr("qid", j), Nr("q", j)), when(Nr("qid", j), {-1}, <<return>>, <<>>),
    socketpair(Nr("fd0 ", j), Nr("fd1 ", j)),
    create("err", Nr("thread", j), helper(j)), orReturn("err")>>, NQ)
  \o forever(
    <<select([j \in 1..NQ |-> Nr("fd0 ", j)], FALSE)>>
    \o concat(LAMBDA j : <<when(Nr("readyfd0 ", j), {1}, <<read("n", Nr("fd0 ", j), 1), echo>>, <<>>)>>, NQ))
socketpair_send_test(key, message) == func(<<
  openfifo("qid", key), when("qid", {-1}, <<exit(255)>>, <<>>), write("qid", <<say(message)>>)>>)

send_entry1 == times("k", <<write("fd0", <<show("hello", <<"k">>)>>), sleep>>) \o <<pause>>
recv_entry1 == forever(<<read("nrecv", "fd1", 1), echo>>)
uds_thread_test == <<
  socketpair("fd0", "fd1"),
  create("ret", "th_send", send_entry1), create("ret", "th_recv", recv_entry1)>> \o forever(<<sleep>>)

sender_thread2(fifo_name) ==
  <<openfifo("fd", fifo_name)>> \o times("k", <<write("fd", <<show("123456", <<"k">>)>>), sleep>>) \o <<pause>>
sender_thread == sender_thread2("FIFO_NAME")
\* the buffer has room for all that a FIFO holds here: a read takes what several
\* writes have left, and of that %s shows the first
receiver_thread == <<mkfifo("ret", "FIFO_NAME"), openfifo("fd", "FIFO_NAME")>>
                   \o forever(<<read("recv_len", "fd", PipeCap), echofirst>>)

\* both descriptors are those of FIFO_NAME
receiver_thread2 == <<
  mkfifo("ret", "FIFO_NAME"), mkfifo("ret", "FIFO_NAME2"),
  openfifo("fd1", "FIFO_NAME"), openfifo("fd2", "FIFO_NAME")>>
  \o forever(<<
    select(<<"fd1", "fd2">>, FALSE),
    when("readyfd1", {1}, <<read("recv_len", "fd1", PipeCap), echofirst>>, <<>>),
    when("readyfd2", {1}, <<read("recv_len", "fd2", PipeCap), echofirst>>, <<>>)>>)

=============================================================================
