# TLA+ models of UnixAdvancedProgramingTest

The repository is a collection of C programs written along two books on Unix
programming. Each file is a program or a set of test functions of its own; there
is no one system, but there is a good deal of concurrent and failure-prone code:
thread pools, reference counts, lists under locks, barriers, servers for many
clients, forked workers, signals, asynchronous I/O. This directory models that
code in TLA+, checks the models with TLC and proves the most important results
with TLAPS. Below, `UAP` is `src/UnixAdvancedProgramming` and `UNP` is
`src/UnixNetworkProgrammingVol1`.

## 1. Inventory

Each entry: the state it keeps, its operations, what is hard about it, and what
makes it correct.

**Thread synchronisation (UAP/ch7_12_process).**

- *Reference counted object* (`lock_test1.c`). One `struct foo` with a count and
  a mutex; `foo_alloc`, `foo_hold`, `foo_release`, and threads that hold and
  release for ever. Hard: `++`/`--` are not atomic; the last release destroys the
  mutex. Correct: the count is the number of references; nobody uses freed memory.
- *Object table under two locks* (`lock_test2.c`). Does not compile (line 65
  calls `foo_hold` with a mutex pointer through a missing declaration).
- *Object table under one lock* (`lock_test3.c`). Hash chains, counts and ids under
  `hashlock`; `foo_alloc`, `foo_hold`, `foo_find`, `foo_release`. Correct: chains
  hold live objects only, each once; counts are exact; no thread locks twice.
- *Job queue* (`lock_test4.c`). A doubly linked list under a read-write lock;
  `job_insert`, `job_append`, `job_remove`, `job_find`. No callers. Correct: the
  links are those of the queue asked for, whatever jobs are put again; walks end; walkers
  see queued jobs.
- *Timed calls* (`lock_test5.c`). `timeout` runs a function at once or from a
  detached thread, under a recursive mutex.
- *Work queue* (`cond_test1.c`). A list of messages, a mutex and a condition
  variable; one producer, ten consumers. Hard: lost wakeups, several threads woken
  for one message, `malloc` reusing blocks. Correct: see `WorkQueue` below.
- *Barrier sort* (`barier_test1.c`). Eight threads sort parts of an array, a
  barrier for nine, the main thread merges. Correct: the merge starts after all
  sorting; the output is the sorted input; the program ends.
- *Signal thread* (`signal_test1.c`). All signals blocked, one thread in
  `sigwait`; SIGQUIT sets a flag under a mutex and signals a condition variable.
- *Thread tests* (`thread_test.c`, `getenv_test.c`, `timer_test.c`): two mutexes,
  `pthread_once` and thread-specific data, cancellation, cleanup handlers, `atfork`.

**Processes and signals (UAP/ch7_12_process).**

- `process_relation.c`: handlers and masks, `sleep1`/`sleep2` (alarm races,
  `longjmp` out of a handler), `sigsuspend` tests, `TELL_WAIT` with SIGUSR1/2,
  `abort1`, `system_m1`.
- `process_control.c`: fork, wait and exec tests, a race of two processes on
  stdout, `system_m`, `process_enviroment.c`: exit handlers, `setjmp`.
- `session_m.c`, `terminal_test.c`, `messagequeue_test.c`.

**I/O and IPC (UAP/ch13_io, ch17_IPC, ch16_socket, common).**

- *AIO copy* (`aio_test1.c`): a pipeline of asynchronous reads, translation and
  writes over eight buffers; `aio_test2.c`: tests of the AIO calls.
- *Pipes* (`ipc_test.c`): TELL/WAIT over two pipes, `popen_m`/`pclose_m`, a
  coprocess; `add2.c`, `myuclc.c` are its filters.
- *Record locks, select, mmap* (`io_test.c`), *daemon* (`daemon_test1.c`), *sockets*
  (`network_ipc.c`), *message queue to socket helper, descriptor passing, FIFOs*
  (`ch17_IPC`), *open server and client* (`ch16_socket`), *ruptime* servers,
  *library* (`common/apue.c`: record locks, readn/writen, unix sockets, passing
  descriptors).
- *Terminal and pseudo terminal* (`ch18_terminal_io`, `ch19`).
- Single-call demonstrations: `ch1` to `ch6`, `ch20`, `libuv_ipc_test.c`.

**Network programs (UNP).**

- *Forking echo server* (`ch4_tcp/echo_tcp_server_v1.c`): one child per
  connection, SIGCHLD handler. *Single-process echo server* (`echo_tcp_server_v2.c`):
  select, pselect or poll with a table of clients. *Echo client*
  (`echo_tcp_client_v1.c`): four versions of the loop between terminal and socket.
- *UDP echo* (`ch8_udp`), *daytime* (`ch0_intro`, `ch11_dns`, `ch13_daemon_inetd`), *SCTP*
  (`ch10_sctp`), *IPv4/IPv6* (`ch12`), *timeouts* (`ch14`), *unix sockets and
  descriptor passing* (`ch15`), *socket options* (`ch7`).
- *Library* (`util/unp.c`): wrappers that print an error and go on, `Readn`,
  `Writen`, `readline`, connection helpers.

How they interact: the files do not call each other, except that all of them use
`common/apue.c` or `util/unp.c`. Within a program the parts meet in shared memory
(threads), in pipes, sockets, queues and files (processes), in signals, and in the
callbacks of handlers. An important point for every model: `err_sys` of both
libraries only prints, `err_ret` prints and returns from the function it stands
in, `err_quit`, `err_exit` and `err_dump` end the process.

## 2. Modules

| module | models | composed with |
|---|---|---|
| `WorkQueue` | `cond_test1.c`: list, mutex, condition variable, heap | refines `MessageStack` |
| `MessageStack` | what the list promises: an atomic stack of messages | |
| `WorkQueue_proofs` | theorems about both | |
| `FooRef` | `lock_test1.c`: an object counted under a mutex | `Tables` |
| `FooCoarse`, `FooCoarse_proofs` | `lock_test3.c`: hash chains and counts under one mutex, and theorems about it | `Tables` |
| `JobQueue`, `JobQueue_proofs` | `lock_test4.c`: doubly linked list under a read-write lock, and theorems about it | `Tables` |
| `Tables`, `Tables_proofs` | the three programs above side by side; theorems about `FooRef` and about the composition | |
| `BarrierSort`, `BarrierSort_proofs` | `barier_test1.c`: sorting threads, barrier, merge, and theorems about it | `Batch` |
| `AioCopy` | `aio_test1.c`: the ring of asynchronous requests | `Batch` |
| `TimedCall` | `lock_test5.c`: a call at a wanted time, with a recursive mutex and a clock | `Batch` |
| `SignalThread` | `signal_test1.c`: a thread that takes the signals, a flag, a condition variable | `Batch` |
| `EchoClient` | `echo_tcp_client_v1.c`: `str_cli_v4` byte by byte, with `str_echo` at the other end | `Batch` |
| `Batch`, `AioCopy_proofs` | the five programs above side by side; theorems about `AioCopy`, `TimedCall`, `SignalThread`, `EchoClient` and about the composition | |
| `EchoService` | what an echo server promises each of its clients | |
| `EchoServer`, `EchoServer_proofs` | `echo_tcp_server_v2.c`: the select, pselect and poll servers, and theorems about them | refines `EchoService` |
| `ForkServer` | `echo_tcp_server_v1.c`: a child per connection, SIGCHLD | `SignalsServer`; refines `EchoService` |
| `Signals` | `process_relation.c` and the modes of the terminal of `term_io.c`: programs made of signal calls, two processes, the kernel | `SignalsServer` |
| `SignalsServer`, `SignalsServer_proofs` | the programs of `Signals` and the server of `ForkServer` side by side; theorems about both | |
| `Unix` | the calls of the system: processes, descriptors, pipes, sockets, datagrams, record locks, the stdio buffer; and the control flow of C functions written as sequences of calls | |
| `Libraries` | `apue.c` and `unp.c`: the functions both books' programs call | on `Unix` |
| `ProcessTests` | `process_control.c`, `process_enviroment.c` | on `Unix` |
| `PipeTests` | `ch13_io/ipc_test.c`, `add2.c`, `myuclc.c`, the record locks of `io_test.c` | on `Unix` |
| `SocketTests` | unix sockets and descriptors passed over them (ch15, ch16, ch17), daemons | on `Libraries` |
| `TcpTests` | echo, daytime, ruptime, IPv4 and IPv6 over connections: clients and servers | on `Libraries` |
| `UdpTests` | echo, daytime, ruptime and SCTP over datagrams, socket timeouts | on `Libraries` |
| `Threads` | threads on top of `Unix`: shared variables, mutexes, FIFOs and message queues | on `Unix` |
| `ThreadTests` | `thread_test.c`, `getenv_test.c`, `messagequeue_test.c`, `ch17_IPC` | on `Threads` |
| `MC*` | the instances for TLC | |

`Tables`, `Batch` and `SignalsServer` compose programs that do not interact: a behaviour is
one of one of them, while the others stand still. They keep the constants of their parts as
constants, so that what is proved of a part for all constants is a theorem of the composition
that a run checks. A module that is only instantiated states what it expects of its constants
as an operator (`TableAssumption`, `QueueAssumption`, `SortAssumption`, `TimeAssumption`, `UserAssumption`,
`ClientAssumption`, `ServerAssumption`);
the composition assumes it.

The programs come in two kinds. Where the interesting state is a data structure (a
list, a table, a ring of requests), the module has that structure as its variables and
an action for each step of the code. Where it is an order of system calls by several
processes, the function is written as the sequence of the calls it makes, under the
name it has in the file, and one module models what each call does. Nearly all of
the repository is of the second kind: `Signals` does this for signals, `Unix` for
descriptors and processes, `Threads` for threads.

How state and actions correspond to the code:

- **WorkQueue.** `pc` is the place of each thread, `workq` the list as the sequence
  of blocks reachable from it (a block's `m_next` is written before the block is
  published and never after), `qlock` the owner of the mutex, `waiting` the threads in
  `pthread_cond_wait`, `heap` the allocated blocks. Each lock, load, store, wait,
  signal, unlock, `malloc` and `free` is an action: `EnqueueLock`, then the link and
  the publication, the unlock and, after it, the signal of `enqueue_msg`; `ProcessLock`,
  the test, the wait, the pop, the unlock, the processing and the `free` of
  `process_msg`. A thread may wake without a signal. A failing `malloc` or
  `pthread_create` runs `err_ret`, which returns from `cond_test1` and so ends the process.
- **FooRef.** `f_count` is loaded into `tmp` and stored back, under `f_lock`; the
  store of a 0 destroys the object (`freed`). `lock_test1` keeps the first reference.
- **FooCoarse.** All operations run under `hashlock`, so each of `foo_alloc`,
  `foo_hold`, `foo_find` and `foo_release` is one step, except that the `free` of an
  unlinked object is outside the lock. `foo_find` of an id in the table keeps
  `hashlock` and blocks on it.
- **JobQueue.** `j_next`, `j_prev`, `q_head`, `q_tail` are those of the code; a writer
  is one step, a reader one step per node. A job that was removed may be put again.
  `queued` is what the clients asked for, `damaged` says that an operation was used that
  is known to be wrong (see the findings), `relinked` that a job was put that a link still named.
- **BarrierSort.** `nums`, `snums`, `idx` are those of the code. Each exchange of the
  sort (`heapsort` of the file is an exchange sort) and each element merged is a step.
- **EchoServer.** `client`, `maxi`, `nready`, `i` are those of the code, `revents` the
  result bits of select or poll; `net`, `backlog`, `sent`, `unread` are the connections.
  One action per branch: `Wait`, `Accept`, `AcceptFails`, `NoNewClient`,
  `TooManyClients`, `ScanEnds`, `Skip`, `Found`, `ReadData`, `ReadEOF`, `ReadError`,
  `WriteBack`, `WriteFails`, `BrokenPipe`. A slot of poll that was never used begins
  with any `revents`, as the array is not initialised.
- **ForkServer.** `fds` holds the connections each process has open, `sigchld` the one
  bit a pending signal is, `handler` whether the parent is in `sig_child_handler`,
  `errno` what its last failing call left. `Deliver` interrupts the parent between any
  two of its actions.
- **AioCopy.** `op`, `last`, `aiolist`, `aio_op_num`, `off`, `i` are those of the code,
  `request`, `ret` and `data` what the system does with each `aiocb`. One action per
  branch of the switch on `op`.
- **Signals.** A program is the sequence of its calls that concern signals, in the
  order of the function it is named after; `Code` names all of them, handlers included.
  The kernel and C library that run them are modelled once, for a parent and a child:
  masks, pending signals, actions, alarms, frames of handlers with the mask for their
  return, interrupted and restarted calls, `setjmp`, `fork`, `wait`. `sleep2_again`
  and `system_waits` are callers the file does not have: they call `sleep2` twice, and
  `system_m1` with a handler for SIGCHLD that waits. `tty` is the mode of the terminal,
  what `save_termios` saved, `ttystate`, and whether a call that was to restore the terminal
  has failed; each `tcsetattr`, `tcgetattr` and assignment of `ttystate` is a step. Each of
  these calls may fail, and a `tcsetattr` that changes or restores may do only a part and
  not tell; a handler that ends the process (`sig_catch`) and a signal that ends or stops it
  are among the steps too.
- **Unix.** A process of `procs` has its local variables (`v`), descriptors (`fd`), the
  data it read last (`buf`), its stdio buffer (`out`), its exit handlers and the place in
  its program (`todo`). `when`, `said`, `loop`, `break`, `func` and `return` are the
  statements of C; `CodeOf` works out once for each program where each of them leads. A
  step is one call with what the process does up to its next call: it touches only the
  process's own variables in between. Data is counted in messages: a byte, a line or a
  datagram, whichever the program handles; a queue holds `PipeCap` of them, writers wait
  when it is full, and `read` returns what is there. Pipes end when the last descriptor
  that writes is closed, also those in children that inherited it and those in messages
  on their way. `fork` copies everything, the stdio buffer included; `exec` keeps only
  descriptors; `exit` runs the handlers and flushes, `_exit` does not. At most
  `MaxFaults` calls that the program expects to work fail: `fork`, `wait` with EINTR,
  reads and writes in the library loops, an allocation, a datagram that is lost.
- **ProcessTests, PipeTests, SocketTests, TcpTests, UdpTests.** Each definition is a C
  function. What happens between the calls is kept when a branch or a result depends on
  it (the status of a child, the count of a read, which descriptors are ready) and left
  out when it only formats. Commands of the shell, the pager and `uptime` are external.
  `process_test5` is stopped and continued by a user; `system_m` ignores `SIGINT` and
  blocks `SIGCHLD` in `Signals` (as `system_m1`), here it forks, executes and waits.
- **Threads.** A thread is a process that shares the task (`mem`, `mutex`) of another one
  and stops when that one ends. A shared variable is fetched and assigned in two steps.
  The receivers of `fifo_test.c` read all that is there and show only the first message of it.
- **TimedCall.** `caller` (`main` in the module) and `helper` are the places of the two
  threads, `owner` and `depth` the recursive mutex, `when`, `now` and `to_wait` the
  variables of the code, with seconds and nanoseconds. `Tick` lets the clock go on between
  any two steps, so every call may be late by any amount. `Sleep` is `clock_nanosleep`, which
  refuses a negative time and returns at once. `exit` of the main thread ends the helper
  wherever it is, so `retry` may never be called.
- **SignalThread.** Blocking, creating the thread, each lock, test, wait, unlock, the
  reset of `quitflag`, restoring the mask and `exit` are actions of main; `SigWait`, lock, set,
  unlock and the signal of the condition are those of the thread. `User` sends SIGINT or
  SIGQUIT at any time: blocked it becomes pending, otherwise it ends the process.
  `pthread_cond_wait` gives the mutex up and sleeps in one step and takes the mutex again in
  another, which may come without a signal.
- **EchoClient.** `stdin_eof` and `rset` are those of `str_cli_v4`, `client` is where it is
  in its loop, `buff` what `str_echo` has read and not written yet, `up` and `down` are the two
  directions of the connection. Every read and write moves any number of bytes that
  there are, or room for, so `Writen` takes as many steps as the connection makes it
  take, and blocks while its direction is full. `nul` is the place of the first 0 in
  `sendline`: `Read` does not write one, so what `strlen` finds depends on the lines before,
  and `Line` sends bytes that are not of the input (`Stale`). `zeros` are the places of the
  bytes of the input that are 0 themselves: `strlen` stops at the first of them in a read, and
  what the same read has brought behind it is not sent. `Kill` ends the server at any
  moment, with a FIN, or with a reset if there is data it has not read; a reset is
  reported to one call (`reset`), after which `read` finds the end and `write` raises
  SIGPIPE (`broken`). `err_sys` only prints, so a failed `Read` or `Shutdown` does not end the
  client; that the -1 of the `Read` goes to `Writen` as a size shows nothing, as no `write`
  of Linux takes so many bytes. The connection is taken to stand when `str_cli_v4` begins.
- **EchoService.** Of each connection it knows its phase, whether the service has taken it,
  and how much was sent and echoed. `Close` is allowed only for a connection that has failed
  or is finished and fully echoed, `Refuse` only for one to which nothing was echoed. Both servers
  map their own variables to these (`Phase` and `Taken`): one slot of the table or one child is what
  "taken" means.

## 3. Runs

| run | instance | shows |
|---|---|---|
| `workqueue` | 2 pool threads, 3 blocks | the wait loop finds a message, every block has one owner, no lost wakeup, the list is the atomic stack, queued messages are served |
| `tables` | counted object: 3 threads; table: 2 threads, 3 blocks, 3 ids, 2 chains; queue: 4 jobs, 2 readers | the count is exact, nothing is freed in use, chains, references and counts agree, the list is the queue asked for, walks end (in a damaged list: if no job is put that a link still names) |
| `aio_copy` | the copy: 2 buffers of 2, sizes 0 to 8; the sort: 2 threads, parts of 3, numbers below 3, all 729 arrays; the call: seconds of 3 nanoseconds, 3 starts; the signal thread: 4 signals, 2 wakeups without a reason; the echo client: 0 to 3 bytes, buffers of 2, 2 bytes on the way in each direction | count and list of requests exact, blocks owned, output exact; the merge of sorted parts; the call not early and alone in its region; main goes on only after SIGQUIT and does not sleep through it; the echo in order and whole, failures reported only with the server gone; all end |
| `echo` | 2 clients, 1 or 2 slots, 2 units of data | no read blocks, slots and the count of ready ones sound, echo exact, refines the echo service, all served |
| `signals` | 17 programs, 3 signals of the user (2 for `abnormal_terminal_test`); the forking server with 2 clients, 2 children at a time, 1 unit of data | critical regions, jumps, masks, TELL and WAIT, `system_m1`, `abort1`, the terminal, lost signals; no forgotten child, descriptors and echo exact, refines the echo service, clients accepted and released |
| `unix` | 75 programs of up to 3 communicating processes and their children | what pipes, streams, descriptors and datagrams carry is exact, statuses, turns, counts of partial reads and writes, daemons, everything ends |
| `threads` | 19 programs of 2 or 3 threads | joins and cleanup handlers, the handlers of a fork, counters and per-thread data, messages in order, everything ends |
| `foo_coarse_relock`, `job_queue_append`, `job_queue_remove`, `fork_server_signals`, `recv_fd` | as above | the findings below |

Programs that do not interact share a run, as each has few states: a variable says which
one a behaviour is about, as `main.c` picks one test; the others stand still. Where
a run states one property for several of them, the definition is the conjunction of
named parts (`QueueSound`, `WaitsSound`, `MergeSound`, `CallSound`, `ClientSound`, `SharedSound`, `DataExact`, ...).

*Bounds, and why they are enough.* Two pool threads suffice for a woken thread to find
the list emptied by another; the third block lets two messages be queued while one is
processed, and a freed block return from `malloc`. Three threads with the counted object
give a lost update a third thread that sees it. Three blocks and two chains give a chain
of two with a removal at its head and behind it, and a block reused in another chain;
four jobs give a middle of two. Parts of three numbers below three include sorted,
reversed and equal ones. One slot makes the table of the echo servers full with the
second client; the clients connect again, so slots are used again. Two children let
one end while the other is reaped. Sizes up to four blocks give each of the two buffers
two blocks, with a last block that is full, half or alone. Three signals let one arrive
in each of three places of a program, the third interrupting handlers of the first two; in
`abnormal_terminal_test` two of them nest one `sig_catch` in another.
Clients and blocks that come back make the runs finite without making the histories
short. `MaxSlots`, `MaxSent`, `Pids`, `MaxStored`, `Blocks`, `Jobs` (which may be put again for ever) and `MaxSignals` are
the bounds the code does not have (or has larger).

In `unix` and `threads`: `MaxProc` = 5 processes or threads ever created is one more than
the largest program needs (the parent, three children of `process_test3`), and a program
that would start a sixth stands still, which `Finishes` would show. `MaxFd` = 8 leaves
the largest program, `popen_m` with two streams, descriptors to spare. `PipeCap` = 3 (2
with threads) makes a writer of three or four messages wait for the reader. Two or
three lines of input are one more than what fits a reordering or a loss; an input
file of three lines needs a second `read`. `MaxFaults` = 1: each error path is taken from
every state before it; two failures in one behaviour are not examined. `TIMES` = 3 rounds of senders that never stop;
`NTHREADS` = 2 and `NQ` = 2 of the threads and queues that are started in loops.

In `aio_copy`: `SECTONSEC` = 3 nanoseconds make a second, and the call starts at any nanosecond
of second 3: as with real times, the seconds since 1970 are more than any number of
nanoseconds in a second, which matters at `lock_test5.c:90`. The wanted time is `DELAY` = 1
second away and the clock runs to `LastSec` = 7, so `timeout` may come before, in and
after the second of the wanted time, with a borrow and without, and each wait may end late.
`MaxSignals` = 4 lets SIGINT come before, between and after two SIGQUIT, `MaxWakeups` = 2 lets
main wake for nothing, wait again and wake for nothing again. The echo client has an input
of up to three bytes for a buffer of `MAXLINE` = 2, so up to three reads, whose lines `strlen`
makes up to `Reach` = 3 bytes long; its second byte may be a 0 (`Zeros`), which then is the first
or the last of a read; the at most nine bytes it sends are more than the buffers and
the two directions of `Cap` = 2 hold, so both sides do block (`Stuck`).

Deadlock is checked where the program is supposed to go on or to end in a final state
that stutters (`workqueue`, `unix`). It is not checked in the servers (when every client
is gone and the bound on data is reached nothing happens, and a dead server stops), in
`tables` (the threads of the counted object end), in `signals` (ended programs, and programs that wait for
the user) and in `threads`, where the end is the state that `Quiet` describes.

*What "ends" means.* `MCUnix!Over`: the processes a run names have ended (all, with their
children, for programs without a server), or wait for the user to start a server that
another failure has ended, or a datagram was lost and its reader has no timeout.
`MCThreads!Over`: each thread has ended, pauses, or waits for data that nobody will send.
Both are what `Finishes` demands in the end; a lock, a `wait`, a `join` or an end of file
that is waited for and cannot come violates it. Two exceptions are stated in `Quiet`:
`uds_thread_test` does not look whether its receiver was started, so its sender may wait
for ever, and in `fifo_test.c` both descriptors are those of `FIFO_NAME` (line 122), so
the sender to `FIFO_NAME2` waits when that is full.

*Fairness.* `WorkQueue`: threads that can run do (weak fairness), and a mutex that is
released again and again is obtained at last (strong fairness on the lock steps); no
fairness for spurious wakeups and failures. `EchoServer`, `ForkServer`: weak
fairness of each process of the server, and of the handler; none for clients. `AioCopy`:
weak fairness of the thread, and every request ends, as `aio_suspend` without a timeout
assumes. `BarrierSort`: weak fairness of the main thread and of each sorting thread that was
created. `TimedCall`: weak fairness of both threads. `SignalThread`: weak fairness of both threads, but
not for main to wake without being woken. `EchoClient`: weak fairness of the client and of
the server, none for who kills it. `Signals`: weak fairness of each process and of alarms; none for the user and
none for `read` of the terminal. In `MCSignals` one fairness condition covers a process of
`Signals` or one of `ForkServer` (`Either`), whichever the behaviour is about. `MCUnix` and
`MCThreads`: weak fairness of all steps together (`Runs`), that is, the system does not
stand still while somebody can go on. This is less than fairness of each process, and
enough: their programs have only finite behaviours, as input, rounds and time are
bounded. Nothing else is assumed, and the schedulers of Linux give this.

## 4. Proofs

TLAPS proves the following for all values of the constants. In each module `IInv` is the
inductive invariant: the properties, and beside them what each step relies on and leaves
behind. Its module says of every part what it means; this says why it is needed.

`WorkQueue_proofs`, from `PoolAssumption` (the pool is not empty; the main thread and
the null pointer are distinct from threads and blocks): `TypeCorrect`, `TakesAMessage`,
`OwnersUnique`, `WakeupsNotLost` and `ImplementsStack`. `IInv` adds
- `MutexInv`: a thread is in a critical section exactly if it owns `qlock`;
- `WaitInv`: the wait set of the condition variable is the threads in `wait`;
- `BlockInv`: a thread that owns a message outside the list has a block of the heap in `mp`;
- `LinkInv`, `HeadInv`: what was read under the mutex is still the list;
that is, what each thread knows of the list while it is inside. `TakesAMessage`
follows because the test and the pop are in one critical section; `OwnersUnique`
because `LinkInv` and `HeadInv` say that each step moves a block from one owner to
the next; the lemmas on sequences (`PushElements`, `PushInjective`, `PopElements`) say what
a push and a pop do to the owners. `ImplementsStack` maps the list to the stack at
the publication and the pop. All other steps stutter.

`FooCoarse_proofs`, from `TableAssumption` (threads are finite, ids are naturals, there is a chain):
`ChainsAreSound` and `CountsAreExact`. Blocks come back: `malloc` may return any that was
freed. So `CountInv` gives the count of every block, not only of those in use; `ChainInv`
says that the chains hold exactly the objects with a reference, each once and in the chain
of its id; and `HeapInv` that what has a reference or is about to be freed is allocated,
and that one thread frees it: only so does `malloc` return no block that a chain still reaches.

`JobQueue_proofs`, from `QueueAssumption` (the null pointer is no job):
`ListIsFaithful`, `FindsQueued` and `FindAlwaysEnds`. A walk of an undamaged list ends because
the list is the queue (`FaithfulEnds`), whatever jobs were put again. The theorem also speaks of the damaged lists
of findings 2 and 3, where there is no queue to compare with, under the condition they need:
no job was put while a link still named it (`relinked`). The argument there is a
ranking (`DownInv`): there is one in which `j_next` always leads down, so a walk cannot come
round. `job_insert` puts its job above all others, `job_append` below them; a removal links
neighbours, and keeps the ranking only because of what `EntryInv` (nothing points to the
head, no two to the same job) and `ApartInv` (after finding 2 the tail is out of reach) say
of the nodes it links.

`Tables_proofs`: `CountIsExact` and `NotFreedInUse` of `FooRef`, from the finiteness of the set
of threads. `IInv` has `LockInv` (the thread between load and store owns `f_lock`, and its `tmp`
is `f_count`), without which an update could be lost. `TableIsSound` and `QueueIsSound` are
the properties the run `tables` checks. They follow from the theorems of `FooCoarse_proofs` and
`JobQueue_proofs`: `SameTable` and `SameQueue` say that the instances there and in `Tables` are
the same formulas, `TablesRefine` that a behaviour of the composition is one of each program.

`AioCopy_proofs`, from `AioAssumption` (numbers and sizes of buffers are positive):
`CountIsExact`, `BlocksHaveOwners` and `OutputIsExact`. `IInv` adds what the state of a
buffer says of its request and its block (`RequestInv`), when a block is known to be the
last (`LastInv`), that blocks not asked for are not written and those that left their
buffer are (`WrittenInv`), and what holds when the loop is over (`DoneInv`). The
arithmetic it takes is that offsets are multiples of the size of a buffer (`NextMultiple`,
`NoMultipleBetween`). Steps that only move the thread are one lemma (`ControlStep`). By
`BatchRefines` the theorems hold in the composition (`CopyIsSound`), and so does `MergeIsSound`,
which rests on `BarrierSort_proofs` below.

`AioCopy_proofs`, the call, from `TimeAssumption` (a second has nanoseconds; times are
naturals): `CallIsSound`. Of its invariant (`TimedInv`) `MutexInv` gives owner and depth of the recursive mutex by the places of both
threads; that the helper is in its region only when main has left its own follows from it.
`WaitInv` carries the wanted time from step to step: until the helper sleeps, `to_wait` is what was
left when it was asked (`Asked`), and the clock has not gone back since; so the
sleep ends at the wanted time or later (`WaitLongEnough`, the arithmetic of the borrow)
unless now and the wanted time are in one second.

`AioCopy_proofs`, the signal thread: `QuitIsSound`. Of its invariant (`QuitInv`) `LifeInv` says that the thread lives, and the
signals are blocked, between its creation and the end; `LockInv` who holds the mutex;
`FlagInv` that `quitflag` is set only by a thread that took SIGQUIT and has not come to its
loop again. The wakeup cannot be missed since main tests `quitflag` and begins to wait without giving
the mutex up between (`LockInv`), while the thread sets it with the mutex and signals after it.

`AioCopy_proofs`, the echo client, from `ClientAssumption` (buffers and connection hold something, and
`strlen` may find its 0 behind the buffer): `EchoIsShown`. Its invariant is `EchoInv`. `FlowInv` says
that what was sent is, in its order, what is shown, what is on its way back, what the server holds,
what is on its way to it and what `Writen` has left; with a killed server the last three are any
rest. Each read or write cuts one of these in two and moves the cut (`Cut`, `Moved`), so nothing is
doubled, skipped or put before something else. `EndsInv` ties the places of both to their
buffers and says that the server ends by itself only when nothing is left on its way to it;
so at a good end all that was sent is shown. `InputInv` says that what was sent contains the
`Counted` bytes of the input in their order, whatever `strlen` has added: those with no 0 so
shortly before them that one read may have brought both.

`BarrierSort_proofs`, from `SortAssumption`: `MergesAfterSort` and `OutputIsSorted`. `PhaseInv`
ties the threads to the barrier (a thread is behind it only when all parts are finished, and
main merges only then), `Reached` is the loop invariant of the sort of one thread, `MergeInv` that of
the merge. That `merge` finds a least head takes that a finite set of numbers has a least
element (`LeastNat`), by descent over the naturals.

`EchoServer_proofs`, from `SlotsAssumption`: `ReadsNeverBlock`, `SlotsAreSound` and `EchoIsExact`, for
`select` and `poll`. The count `nready` is the hard part: it is decremented per slot, and
`CountExact` holds in the scan only because `ToldInv` says that a slot select reported keeps
its connection until the scan is there, and that any other set bit (the stale `revents` of a new
slot) lies behind all reported ones, where the scan has ended. `BacklogInv` and
`SlotInv` say that a connection is in the backlog or in one slot, `AcceptInv` what a new
connection finds, `ReadInv` that only reported slots are read.

`ImplementsEcho` maps the server to `EchoService`: `Accept` takes a connection, `WriteBack` echoes,
`ReadEOF` and `ReadError` close; the other steps of the scan stutter. The invariant is
what makes each map to the step of one client: by `SlotInv` a slot that is read is the only
one of its client, and what is unread or in the buffer is what was sent and not yet echoed.

`SignalsServer_proofs`, the server, from `ServerAssumption`: `ChildrenAreExact` and `ChildrenEchoExactly`. `IInv`
adds `BacklogInv`, `WorkInv` (who works on a connection has one) and `ForkInv` (the connection
main is about to fork for has no child yet), which keeps two children from one
client. `NoZombieForgotten` is inductive beside them: though SIGCHLD is not queued, a
zombie implies a pending signal or a running handler, which reaps until none is left.
`ChildrenImplementEcho` maps it to `EchoService` too: `fork` takes a connection, a child's end closes it, a
`fork` that fails refuses it. It needs `HeldOnce` (a connection is held by the backlog, by main or by
one child, and the end of one child does not release another's) and the invariant `FreshInv`: a
client that no child serves yet has connected, and nothing has been echoed to it. So both servers promise the same
to each client, whatever the others do.

`SignalsServer_proofs`, the programs of `Signals`, from `ProgramsAssumption` (what runs is one
of the seventeen main functions), for any number of signals of the user: `HandlersAreSound`,
`WaitsAreSound` and the action property `EndsAreRight`. A main function is a sequence of calls,
and a handler may start between any two of them and on top of another handler, so stacks, masks
and pending sets have no bound that is worth a case distinction. The proof has three layers:

- a table lemma per function (`SigTest4Calls`, ...): its calls, by their number;
- `StepCodes`: every step has one of eleven shapes (`Shapes`: a call that concerns its process
  only, a kill, a fork, a jump, a blocking call entered, left or interrupted, a return, an end, ...),
  which say what it changes and what it keeps. It needs, and keeps, `CodesInv`: what the
  stack of each process is made of, which handlers it may have installed, which signals may
  reach it and where a jump may go;
- an invariant per question, which then is checked shape by shape: `MaskInv` (the mask of the
  main function is given by its place, and is kept for it in the first handler's frame while
  handlers run, or beside `sigsuspend` while that waits), `JumpInv` (no signal whose handler
  jumps can come before there is a place to jump to), `OnceInv` (after the first SIGALRM
  it stays blocked), `QuietInv` (no handler in a critical region), `SystemInv` (the child of
  system_m1 exists only while the parent stands at its wait, with the signals of the terminal
  ignored and SIGCHLD blocked) and `TellInv` (what shows that the other process has come: the
  flag, the pending signal, the handler that runs or the place of the caller). For the ends:
  `AbortInv` (what abort1 has blocked and reset at each place, and that its handler is never
  on the stack twice), `GetpassInv` and `TtyInv`: `TtyAt` and `CatchAt` say what holds of the
  terminal, of what is saved of it and of `ttystate` at each call of the main function and of
  the handler `sig_catch`. They are inductive because a call that fails to change the terminal leaves
  it as it was, because a call that fails to restore it is remembered (`tty.failed`, after which
  nothing is claimed), and because `sig_catch` never returns to a main function whose notes
  it has changed.

*Only model-checked.* All liveness properties: `tlapm` cannot prove liveness under
fairness here. The properties of the programs on `Unix` and `Threads`: `Unix`
compiles programs with RECURSIVE operators, which puts it and what is built on it out of
reach; its properties (`DataExact`, `StatusExact`, `OrderKept` and `Daemonized` of `unix`, `JoinedExact`,
`SharedSound` and `ArrivesInOrder` of `threads`) are about given programs on given inputs, for which
TLC's search is complete up to the bounds above. What a recursive function computes for every input: that takes induction over data.

## 5. Findings

1. `lock_test3.c:66`: `foo_find` calls `foo_hold` with `hashlock` held; a find that
   succeeds blocks for ever, and every thread after it (`foo_coarse_relock`).
2. `lock_test4.c:58`: `job_append` to a queue that is not empty moves the head instead
   of the tail (`job_queue_append`).
3. `lock_test4.c:82`: `job_remove` from the middle does not unlink the job: `jp->j_prev`
   becomes `jp->j_next->j_prev`, which is `jp` itself, `jp->j_next` stays what it is, and no
   neighbour is touched (`job_queue_remove`). If the job is put again, the list that still has it
   becomes a cycle, and `job_find` for an id that is not in it never ends, with the read lock held.
4. `apue.c:585`: `recv_fd` never returns the descriptor it has received. It reads into
   `MAXLINE` = 1 byte, so the 0 that announces the status comes without the status, and
   "message format error" ends the call without a value; the descriptor stays open
   (`recv_fd`). With a larger buffer line 603 would be in the way, which asks for a status
   above 0 where `send_fd` sends 0; it is not reached, and the model has no such test.
5. `echo_tcp_server_v1.c:72`: `errno` is tested after a handler that changes it, so
   without SA_RESTART the server may exit (`fork_server_signals`).

`QueueSound` is stated for queues on which neither 2 nor 3 happened. Its part `FindEnds` also
holds for damaged ones, as long as no job is put while a link names it: with one that is,
it is false (the cycle of finding 3). `ProgramsEnd` and `AlarmOnce` state precisely what
the comments of `process_relation.c` at lines 425, 438 and 522 suspect of `sleep1` and
`longjmp`. The three tests that find 1 to 3 would each take a call or two: the file's
functions have no callers.

Other things the models made visible, which the properties state as exceptions:

- `lock_test5.c:90` compares nanoseconds with seconds. Within the second of the wanted
  time `timeout` therefore calls the function at once, up to a second early (the comment at
  line 108 speaks of a time that has passed). `CalledInTime` allows that and nothing else.
  If the thread cannot be created the function is not called at all.
- The terminal is left as it was but for what `TerminalRestored` lists. A call that was to
  restore it fails or does only a part: nobody looks at the result (lines 729, 739, 802 and 812
  of `term_io.c`, and `sig_catch`, which passes over what line 831 returns) or it is only
  a reason to give up (`abnormal_terminal_test`). `getpass_m` does not look whether `tcgetattr`
  fails (line 662), and then restores garbage. It blocks SIGINT and SIGTSTP only: the echo stays off
  after SIGQUIT, as its comment at line 656 says, and after SIGTERM. `abnormal_terminal_test`
  does not catch SIGTSTP, which stops it in raw mode. And line 817 (and 744) sets `ttystate`
  after the terminal was changed: a signal between the two makes `sig_catch` end the program
  without resetting the terminal. TLC reaches each of these.
- `str_cli_v3` (`echo_tcp_client_v1.c:182`) returns at the end of its input with echoes on
  their way; `CopiesExact` demands all lines only of the other versions.
- `str_cli_v4` (line 271) sends `strlen(sendline)` bytes of a buffer that `Read` does not terminate:
  what it shows may be more than its input, though the comment at line 227 names
  different sizes of input and output as what this version is to mend. And what a read brings
  behind a 0 byte is never sent. `AllShown` therefore says that the output contains the
  `Counted` bytes of the input. While it is in that `Writen` it does not read: with
  both directions full it and the server wait for each other for good, which `Ends` states.
  After a failed `Read` (line 249) it goes on, and after the end of its input it calls a server
  that was killed a normal end; `FailsWithServer` says that the converse cannot happen.
- `readline_v1` counts the terminating zero when a line fills its buffer, and only then:
  `CountsExact` says so.
- `thread_test11` makes its key once per thread that gets between lines 581 and 582;
  the comment there says why `pthread_once` is used below.

## 6. What is not modelled, and why

- `fork_handler_test1`: no thread but the one that forks ever locks the two mutexes, so the
  handlers of `pthread_atfork` are run, with a fork that fails too, and not put to the test
  they are made for.
- In the modelled programs: output for the terminal that no property is about; `select`
  with a failing `accept` (`FD_SET(-1)` is undefined) and a table of FD_SETSIZE clients
  (line 72 of `echo_tcp_server_v2.c`: descriptors beyond it are written outside the set);
  writes of that server that block because a client does not read (line 265: it would
  stop every other client; a single process has no remedy for it); the `aio_fsync`
  nobody waits for; failures of `sigprocmask`, `sigaction` and `kill` with valid arguments;
  two failing calls in one behaviour of a program on `Unix`.
- `lock_test2.c` does not compile; `loop1` and `loop2` of the open server and `lockfile`
  of the daemon are stubs, so their defects bite nobody yet: `client_alloc`
  (`open_server_v2.c:37`) grows the table to its old size, a second daemon does not see
  the first.
- The pseudo terminal (`term_io.c` from line 960 on): `ptys_open` returns 0 instead of the
  descriptor it opened, and `pty_fork` passes addresses of pointers as settings, so what
  its child does is undefined from there on. `ch19` has only comments.
- `job_find` returns a pointer after it gave the lock up (`lock_test4.c:101`); it has no
  caller, so nothing says how long the pointer is used.
- `aio_test2.c`: each function makes one request and waits for it in one way.
- The rest prints what the system says (identities, limits, attributes, addresses,
  terminal settings, directories), or is a demonstration of a single call (`ch1` to `ch6`,
  `network_ipc.c` and `ch11_dns` lookups, `ch7_socket`, `libuv_ipc_test.c`, which writes to a
  server the repository does not have): there is no behaviour of their own to get
  wrong. Declarations, comments and code that is not compiled make up a large part of
  the files.

## 7. What could come next

`pselect` and the flags of `sigaction` where they differ from what is
modelled; two failures in one behaviour of the programs on `Unix`.
