------------------------------ MODULE MCThreads ------------------------------
(***************************************************************************)
(* The programs that start threads, for TLC: a behaviour is one program of   *)
(* Suite, some with the processes they talk to.                              *)
(***************************************************************************)
EXTENDS ThreadTests

VARIABLE program

---------------------------------------------------------------------------
(* Small callers of functions that nothing in the repository calls from     *)
(* several threads.                                                         *)

asks(name) == <<set("specific", 0), set("asked", name)>> \o getenv_r_m2("seen", name) \o <<sleep, thread_return(0)>>
getenv_caller == <<create("e", "a", asks(PATH)), create("e", "b", asks(LANG)), pause>>

fills(name, size) == <<set("asked", name)>> \o getenv_r_m("err", "seen", name, size) \o <<sleep, thread_return(0)>>
getenv_r_caller == <<create("e", "a", fills(PATH, 2)), create("e", "b", fills(HOME, 2)), create("e", "c", fills(PATH, 1)), pause>>

once_caller == <<create("e", "a", thread_test12 \o <<thread_return(0)>>)>> \o thread_test12 \o <<pause>>

\* a shell that runs the sender again
sends(key, messages) ==
  FlattenSeq([k \in DOMAIN messages |-> socketpair_send_test(key, messages[k])]) \o <<_exit(0)>>

---------------------------------------------------------------------------
Suite ==
     "thread_test1" :> <<thread_test1>>
  @@ "thread_exit_test2" :> <<thread_exit_test2>>
  @@ "thread_exit_test3" :> <<thread_exit_test3>>
  @@ "thread_cleanup_test1" :> <<thread_cleanup_test1>>
  @@ "thread_property_test1" :> <<thread_property_test1>>
  @@ "thread_lock_test2" :> <<thread_lock_test2>>
  @@ "thread_lock_test3" :> <<thread_lock_test3>>
  @@ "fork_handler_test1" :> <<fork_handler_test1>>
  @@ "getenv_test" :> <<getenv_test>>
  @@ "getenv_test3" :> <<getenv_test3>>
  @@ "getenv_caller" :> <<getenv_caller>>
  @@ "getenv_r_caller" :> <<getenv_r_caller>>
  @@ "thread_test11" :> <<thread_test11>>
  @@ "thread_test12" :> <<once_caller>>
  @@ "mq_test1" :> <<mq_test1>>
  @@ "socketpair_recv_test" :> <<socketpair_recv_test, sends("q1", <<"m1", "m2">>), sends("q2", <<"m3">>)>>
  @@ "uds_thread_test" :> <<uds_thread_test>>
  @@ "fifo" :> <<receiver_thread, sender_thread>>
  @@ "two fifos" :> <<receiver_thread2, sender_thread, sender_thread2("FIFO_NAME2")>>

allvars == <<vars, task, code, program>>

Init ==
  /\ program \in DOMAIN Suite
  /\ code = [p \in DOMAIN Suite[program] |-> CodeOf(Suite[program][p])]
  /\ procs = [p \in DOMAIN code |-> NewProcess(p, <<1>>, <<Terminal, Terminal, Terminal>>)]
  /\ task = [p \in DOMAIN code |-> NewTask(p)]
  /\ queue = << <<>>, <<>>, <<>>, <<>> >> /\ names = << >> /\ locks = {} /\ faults = 0

\* nothing more happens to thread t
Quiet(t) ==
  \/ ~Alive(t) \/ ~Alive(Team(t)) \/ procs[t].at = "pause"
  \/ procs[t].at = "read" /\ Fd(t, Call(t).y)[2] # 0 /\ queue[Fd(t, Call(t).y)[2]] = <<>>
  \/ procs[t].at = "select" /\ \A j \in DOMAIN Call(t).xs : ~Readable(t, Call(t).xs[j])
  \/ program = "uds_thread_test" /\ t = 1 /\ procs[t].at = "sleep"
  \/ program = "uds_thread_test" /\ faults > 0   \* nobody looks whether the receiver was started
  \/ program = "two fifos" /\ t = 3              \* nobody reads the second FIFO

Over == \A t \in Pids : Quiet(t)

Next == (\E t \in Pids : ThreadStep(t)) /\ UNCHANGED <<code, program>>

Spec == Init /\ [][Next]_allvars /\ WF_allvars(Next)

---------------------------------------------------------------------------
Shown(T) == SelectSeq(queue[2], LAMBDA m : m.text \in T)
Texts(s) == [k \in DOMAIN s |-> s[k].text]
Numbers(text) == FlattenSeq([k \in DOMAIN queue[2] |-> IF queue[2][k].text = text THEN queue[2][k].nums ELSE <<>>])
Has(t, x) == x \in DOMAIN procs[t].v
Left(t) == procs[t].todo = <<>> /\ procs[t].code < 128    \* t has ended by itself

(* Every program comes to its end, or to where nobody has anything to do: no  *)
(* thread waits for a mutex or for another thread for ever, and nothing that   *)
(* was sent stays unread.                                                     *)
Finishes == <>Over

(* pthread_join returns what the thread it waits for has returned; a thread   *)
(* that calls pthread_exit first runs its handlers, the last pushed first,    *)
(* and one that returns does not.                                             *)
JoinedExact ==
  /\ \A w \in {<<"thread1 exit", 1>>, <<"thread2 exit", 2>>, <<"thread5 exit", 1>>, <<"thread6 exit", 2>>} :
       IsPrefix(Numbers(w[1]), <<w[2]>>)
  /\ LET handlers == Texts(Shown({"thread5 first handler", "thread5 second handler",
                                  "thread6 first handler", "thread6 second handler"}))
     IN /\ IsPrefix(handlers, <<"thread6 second handler", "thread6 first handler">>)
        /\ Numbers("thread6 exit") # <<>> => Len(handlers) = 2

(* Nobody who has ended by himself holds a mutex; only thread_lock_test3 ends *)
(* with the mutex it has locked.                                              *)
LocksReleased ==
  \A t \in Pids : Left(t) /\ program # "thread_lock_test3" =>
    \A m \in DOMAIN task[Team(t)].mutex : Owner(t, m)[1] # t

(* What the threads share: no increment of a counter is lost, what            *)
(* pthread_once guards happens once, and getenv_r_m and getenv_r_m2 give each *)
(* thread the value of the name it asked for.                                 *)
SharedIntact ==
  /\ LET shown == Numbers("cnt") IN shown = [k \in 1..Len(shown) |-> k]
  /\ \A t \in Pids : \A made \in {"mutex10 made", "key made", "key12 made"} : Shared(t, made) <= 1
  /\ \A t \in Pids : Has(t, "seen") => procs[t].v["seen"] \in {0, procs[t].v["asked"]}

(* The mutexes are given back, and what they guard is intact.                 *)
SharedSound == LocksReleased /\ SharedIntact

\* in the order of the sends of one sender
InOrder(received, sent) ==
  \A j, k \in DOMAIN received : j < k /\ received[j] \in Range(sent) /\ received[k] \in Range(sent) =>
    (CHOOSE m \in DOMAIN sent : sent[m] = received[j]) < (CHOOSE m \in DOMAIN sent : sent[m] = received[k])

(* What a message queue, a socket pair or a FIFO carries from thread to       *)
(* thread is shown once and in the order it was sent: all of it when the      *)
(* receiver could be started, but of a FIFO only the first of the messages    *)
(* that one read takes.                                                       *)
ArrivesInOrder ==
  /\ \A text \in {"hello", "123456"} : InOrder(Numbers(text), [k \in 1..TIMES |-> k])
  /\ InOrder(Texts(queue[2]), <<"m1", "m2">>) /\ Len(Shown({"m3"})) <= 1
  /\ program \in {"mq_test1", "uds_thread_test"} /\ faults = 0 /\ Over => Numbers("hello") = [k \in 1..TIMES |-> k]

=============================================================================
