-------------------------------- MODULE Batch --------------------------------
(***************************************************************************)
(* The programs that do their work and end, each with requests or threads of *)
(* its own: the copy of aio_test1 (AioCopy), the parallel sort of             *)
(* barrier_test (BarrierSort), the call at a wanted time of                   *)
(* recursive_mutex_test1 (TimedCall), the thread that takes the signals of    *)
(* thread_signal_test1 (SignalThread) and the echo client (EchoClient).  They *)
(* do not interact: a behaviour is one of one of them, while the others stand *)
(* still.                                                                    *)
(***************************************************************************)
EXTENDS AioCopy

CONSTANTS NTHR, TNUM, LONG_MAX,               \* of BarrierSort,
          SECTONSEC, DELAY, Starts, LastSec,  \*   of TimedCall
          MaxSignals, MaxWakeups,             \*   of SignalThread
          MAXLINE, Inputs, Zeros, Cap, Reach  \*   and of EchoClient

VARIABLES program,
          nums, input, at, ix, jx, arrived, idx, snums, out,
          clock, caller, helper, when, now, to_wait, wake, owner, depth, called,
          main, thread, quitflag, lock, waitloc, blocked, pending, signals, wakeups, quits,
          size, zeros, taken, client, stdin_eof, rset, nul, todo, up, down, conn, server, buff, shown, sent

Sort == INSTANCE BarrierSort WITH pc <- at
Timed == INSTANCE TimedCall WITH main <- caller
Quit == INSTANCE SignalThread
Echo == INSTANCE EchoClient

ASSUME BatchAssumption == /\ Sort!SortAssumption /\ Timed!TimeAssumption
                          /\ Quit!UserAssumption /\ Echo!ClientAssumption

sort == <<nums, input, at, ix, jx, arrived, idx, snums, out>>
timed == <<clock, caller, helper, when, now, to_wait, wake, owner, depth, called>>
quit == <<main, thread, quitflag, lock, waitloc, blocked, pending, signals, wakeups, quits>>
echo == <<size, zeros, taken, client, stdin_eof, rset, nul, todo, up, down, conn, server, buff, shown, sent>>
allvars == <<program, vars, sort, timed, quit, echo>>

Programs == {"aio_test1", "barrier_test", "recursive_mutex_test1", "thread_signal_test1",
             "echo_tcp_client_v1"}

\* the input of a program that stands still does not matter
BatchInit == /\ program \in Programs
             /\ Init /\ Sort!Init /\ Timed!Init /\ Quit!Init /\ Echo!Init
             /\ program # "aio_test1" => st_size = CHOOSE bytes \in Sizes : TRUE
             /\ program # "barrier_test" => nums = [k \in Sort!Index |-> 0]
             /\ program # "recursive_mutex_test1" => clock = CHOOSE time \in Starts : TRUE
             /\ program # "echo_tcp_client_v1" => /\ size = CHOOSE bytes \in Inputs : TRUE
                                                  /\ zeros = CHOOSE places \in Zeros : TRUE
                                                  /\ nul = 0

Runs(name, Step) == program = name /\ Step /\ UNCHANGED program
Copies(Step) == Runs("aio_test1", Step) /\ UNCHANGED <<sort, timed, quit, echo>>
Sorts(Step) == Runs("barrier_test", Step) /\ UNCHANGED <<vars, timed, quit, echo>>
Calls(Step) == Runs("recursive_mutex_test1", Step) /\ UNCHANGED <<vars, sort, quit, echo>>
Quits(Step) == Runs("thread_signal_test1", Step) /\ UNCHANGED <<vars, sort, timed, echo>>
Echoes(Step) == Runs("echo_tcp_client_v1", Step) /\ UNCHANGED <<vars, sort, timed, quit>>

BatchNext == Copies(Next) \/ Sorts(Sort!Next) \/ Calls(Timed!Next) \/ Quits(Quit!Next) \/ Echoes(Echo!Next)

BatchSpec == BatchInit /\ [][BatchNext]_allvars

\* the fairness of the FairSpec of each
FairBatch ==
  /\ BatchSpec
  /\ WF_allvars(Copies(aio_test1))
  /\ \A b \in Bufs : WF_allvars(Copies(system(b)))
  /\ WF_allvars(Sorts(Sort!barrier_test))
  /\ \A t \in Sort!Sorters : WF_allvars(Sorts(Sort!thread_fun(t)))
  /\ WF_allvars(Calls(Timed!recursive_mutex_test1)) /\ WF_allvars(Calls(Timed!timeout_helper))
  /\ WF_allvars(Quits(Quit!Proceed \/ (waitloc = "woken" /\ Quit!Wake)))
  /\ WF_allvars(Quits(Quit!thread_fun))
  /\ WF_allvars(Echoes(Echo!str_cli_v4)) /\ WF_allvars(Echoes(Echo!str_echo))

\* The sort merges parts that are sorted and that nobody writes any more; its
\* output is in order and has every number as often as the input, and merge
\* always finds a least head.
MergeSound == Sort!MergeAfterSort /\ Sort!OutputSorted /\ Sort!Conserved /\ Sort!MinIdxSet

\* retry is called in time, and by the helper only outside the region of main.
CallSound == Timed!CalledInTime /\ Timed!RetryAlone

\* main goes on when SIGQUIT has been taken, and does not sleep through it.
QuitSound == Quit!StopsOnQuit /\ Quit!WakeupNotLost

\* The echo client shows what it sends, all of it when it ends well (its input, but for what
\* follows a 0 in one read), fails only with the
\* server and never blocks in a read.
ClientSound == Echo!ShownInOrder /\ Echo!AllShown /\ Echo!FailsWithServer /\ Echo!ReadsReady

\* Each program ends: aio_suspend is never called with nothing to wait for, nobody
\* stays at the barrier, main does not wait for the helper for good, who has sent
\* SIGQUIT sees the end of the process, and the echo client stays with the rest of its
\* input only if both directions of its connection are full.
BatchEnds == /\ program = "aio_test1" => Terminates
             /\ program = "barrier_test" => Sort!Terminates
             /\ program = "recursive_mutex_test1" => Timed!Ends
             /\ program = "thread_signal_test1" => Quit!QuitEnds
             /\ program = "echo_tcp_client_v1" => Echo!Ends

=============================================================================
