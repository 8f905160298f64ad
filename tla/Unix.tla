------------------------------- MODULE Unix -------------------------------
(***************************************************************************)
(* The calls of a Unix system that the test programs are made of: processes, *)
(* descriptors, pipes, sockets, record locks, and the stdio buffer.          *)
(*                                                                           *)
(* The modules that extend this one write every C function as the sequence   *)
(* of the calls it makes: branches (when, said), loops (loop, break), calls  *)
(* that return (func, return) and the branches of fork are calls that hold   *)
(* sequences of their own, subs.  A process is a record; its field todo says *)
(* where in its program it is: <<i>> at call i, <<i, k, j>> at call j of the  *)
(* k-th sequence that call i holds.  Behind it, todo has the places to return *)
(* to from handlers.  Each step of the system is one call of one process;    *)
(* tests of local variables between two calls are part of the step before    *)
(* (Settle).                                                                 *)
(*                                                                           *)
(* Everything that is read and written, bytes or lines, is a message.        *)
(* queue[k] holds the messages of pipe, socket direction or file k.  A       *)
(* descriptor is <<kind, k, l>>: it reads queue[k] and writes queue[l].      *)
(* queue[1] is the keyboard, queue[2] the screen, queue[3] a file the output *)
(* may have been redirected to, and queue[4] the input file.                 *)
(***************************************************************************)
EXTENDS Integers, Sequences, FiniteSets, FiniteSetsExt, SequencesExt, TLC

CONSTANTS MaxFd,      \* descriptors are 0 .. MaxFd
          MaxProc,    \* bound on the number of processes ever created
          PipeCap,    \* messages that fit into a pipe
          MaxFaults   \* how many calls fail that the program expects to work

VARIABLES code,   \* the programs of the system, which never change
          procs,  \* the processes, by pid
          queue,
          names,  \* file system names in use: name :> the queue of the listener
          locks,  \* record locks: <<pid, byte, type>>
          faults  \* calls that have failed

vars == <<procs, queue, names, locks, faults>>

None == <<"none", 0, 0>>
Terminal == <<"tty", 1, 2>>
Redirected == <<"file", 0, 3>>
InputFile == <<"file", 4, 0>>
DevNull == <<"null", 0, 0>>

---------------------------------------------------------------------------
(* Calls and what programs are put together from.                           *)

Failed == {-1}
Undefined == 9999   \* the value of a function that ended without one
say(text) == [text |-> text, xs |-> <<>>, fdx |-> ""]
show(text, xs) == [text |-> text, xs |-> xs, fdx |-> ""]
pass(text, fdx) == [text |-> text, xs |-> <<>>, fdx |-> fdx]

set(x, n) == [op |-> "set", x |-> x, n |-> n]
copy(x, y) == [op |-> "copy", x |-> x, y |-> y]
load(x, a, i) == [op |-> "load", x |-> x, y |-> a, z |-> i]
store(a, i, x) == [op |-> "store", x |-> x, y |-> a, z |-> i]
add(x, n) == [op |-> "add", x |-> x, n |-> n]
minus(x, y) == [op |-> "minus", x |-> x, y |-> y]
clear == [op |-> "clear"]
uninit == [op |-> "uninit"]     \* a buffer nobody has filled
when(x, S, then, else) == [op |-> "when", x |-> x, set |-> S, subs |-> <<then, else>>]
said(T, then, else) == [op |-> "said", texts |-> T, subs |-> <<then, else>>]
loop(body) == [op |-> "loop", subs |-> <<body>>]
break == [op |-> "break"]
return == [op |-> "return"]
func(body) == <<[op |-> "func", subs |-> <<body>>]>>

fork(x, failed, child, parent) == [op |-> "fork", x |-> x, subs |-> <<child, parent, failed>>]
vfork(x, failed, child, parent) == [op |-> "vfork", x |-> x, subs |-> <<child, parent, failed>>]
exec(prog) == [op |-> "exec", found |-> TRUE, subs |-> <<prog>>]
execMissing == [op |-> "exec", found |-> FALSE, subs |-> <<>>]
exit(n) == [op |-> "exit", n |-> n]
exitvar(x) == [op |-> "exitvar", x |-> x]
_exit(n) == [op |-> "_exit", n |-> n]
die(sig) == [op |-> "_exit", n |-> 128 + sig]
atexit(body) == [op |-> "atexit", subs |-> <<body>>]
waitpid(x, pid) == [op |-> "wait", x |-> x, y |-> pid, news |-> FALSE, intr |-> FALSE]
waitnews(x, pid) == [op |-> "wait", x |-> x, y |-> pid, news |-> TRUE, intr |-> FALSE]
waitintr(x, pid) == [op |-> "wait", x |-> x, y |-> pid, news |-> FALSE, intr |-> TRUE]
wait(x) == waitpid(x, "")
sleep == [op |-> "sleep"]
pause == [op |-> "pause"]
sigpipe(body) == [op |-> "sigpipe", subs |-> <<body>>]
setsid(x) == [op |-> "setsid", x |-> x]

pipe(x, y) == [op |-> "pipe", x |-> x, y |-> y]
socketpair(x, y) == [op |-> "socketpair", x |-> x, y |-> y]
open(x, desc) == [op |-> "open", x |-> x, desc |-> desc]
close(x) == [op |-> "close", x |-> x]
dup(x, y) == [op |-> "dup", x |-> x, y |-> y]
dup2(x, n) == [op |-> "dup2", x |-> x, n |-> n]
read(c, x, n) == [op |-> "read", x |-> c, y |-> x, n |-> n, timeo |-> FALSE]
readtimeo(c, x) == [op |-> "read", x |-> c, y |-> x, n |-> 1, timeo |-> TRUE]   \* gives up after some seconds
readmore(c, x, n) == [op |-> "readmore", x |-> c, y |-> x, z |-> n]    \* into the rest of a buffer
writesome(c, x, n) == [op |-> "writesome", x |-> c, y |-> x, z |-> n]  \* the last n messages of it
write(x, data) == [op |-> "write", y |-> x, data |-> data]
put(x) == [op |-> "put", y |-> x]
garbled(x) == [op |-> "garbled", y |-> x]
recvfd(c, x, y) == [op |-> "recvfd", x |-> c, y |-> x, z |-> y]
print(data) == [op |-> "print", data |-> data]
echo == [op |-> "printbuf"]
echofirst == [op |-> "printfirst"]   \* %s of a buffer with several messages, each with its 0
fflush == [op |-> "fflush"]
answer(f) == [op |-> "answer", f |-> f]
undefined(x) == [op |-> "undefined", x |-> x]
mayfail(x, S) == [op |-> "mayfail", x |-> x, set |-> S]
fcntl(x, byte, type) == [op |-> "setlkw", x |-> x, n |-> byte, type |-> type]
trylock(x, byte, type) == [op |-> "setlk", x |-> x, n |-> byte, type |-> type]

socket(x) == [op |-> "socket", x |-> x]
bind(c, x, name) == [op |-> "bind", x |-> c, y |-> x, name |-> name]
listen(x, name) == [op |-> "listen", x |-> x, name |-> name]
connect(c, x, name, from) == [op |-> "connect", x |-> c, y |-> x, name |-> name, from |-> from]
accept(c, x) == [op |-> "accept", x |-> c, y |-> x]
statpath(c) == [op |-> "stat", x |-> c]      \* of the name that was received last
unlink(name) == [op |-> "unlink", name |-> name]
unlinkpeer == [op |-> "unlink", name |-> ""]
shutdown(x) == [op |-> "shutdown", x |-> x]
select(xs, timeout) == [op |-> "select", xs |-> xs, timeout |-> timeout, intr |-> FALSE]
selectintr(xs) == [op |-> "select", xs |-> xs, timeout |-> FALSE, intr |-> TRUE]  \* may find EINTR
sigchld == set("sigchld", 1)   \* the handler of SIGCHLD waits for the children that have ended
await(name) == [op |-> "await", name |-> name]   \* the user starts the program when name is served
udp(x, name) == [op |-> "udp", x |-> x, kind |-> "dgram", name |-> name]
sctp(x, name, kind) == [op |-> "udp", x |-> x, kind |-> kind, name |-> name]
connectudp(c, x, name) == [op |-> "connectudp", x |-> c, y |-> x, name |-> name]
sendto(x, name) == [op |-> "sendto", y |-> x, name |-> name]
reply(x) == [op |-> "sendto", y |-> x, name |-> ""]          \* to where the last datagram came from
send(x) == [op |-> "sendto", y |-> x, name |-> "connected"]

---------------------------------------------------------------------------
(* Where control goes, worked out once for each program: its code says of    *)
(* every place what is called there, where the program goes on (next), and   *)
(* where the sequences begin that the call holds (to).  A program that falls *)
(* off its last statement exits; a handler returns to where it was entered.  *)

TheEnd == <<0>>
Killed == <<-1>>
HandlerEnds == <<-2>>

\* The place where control really is when it comes to call j of body, which is
\* at path; next follows body, and out says where break and return lead.
RECURSIVE Entry(_, _, _, _, _)
Entry(body, path, j, next, out) ==
  IF j > Len(body) THEN next
  ELSE LET i == body[j]
           Begin(after) == Entry(i.subs[1], path \o <<j, 1>>, 1, after, out)
       IN CASE i.op = "loop"   -> Begin(TheEnd)
            [] i.op = "func"   -> Entry(i.subs[1], path \o <<j, 1>>, 1, Entry(body, path, j + 1, next, out),
                                        [out EXCEPT !.return = Entry(body, path, j + 1, next, out)])
            [] i.op = "break"  -> out.break
            [] i.op = "return" -> out.return
            [] OTHER           -> path \o <<j>>

RECURSIVE Compiled(_, _, _, _)
Compiled(body, path, next, out) ==
  LET CallAt(j) ==
        LET i == body[j]
            subs == IF "subs" \in DOMAIN i THEN i.subs ELSE <<>>
            after == Entry(body, path, j + 1, next, out)
            start == Entry(body, path, j, next, [out EXCEPT !.break = after])
            follows == CASE i.op = "loop" -> start
                         [] i.op \in {"exec", "pthread_create"} -> TheEnd
                         [] i.op \in {"atexit", "sigpipe"} -> HandlerEnds
                         [] OTHER -> after
            leads == [out EXCEPT !.break = IF i.op = "loop" THEN after ELSE @,
                                 !.return = IF i.op = "func" THEN after ELSE @]
            within == [k \in DOMAIN subs |-> path \o <<j, k>>]
        IN (path \o <<j>> :> [call |-> [f \in DOMAIN i \ {"subs"} |-> i[f]], next |-> after,
                              to |-> [k \in DOMAIN subs |-> Entry(subs[k], within[k], 1, follows, leads)]])
           @@ FoldSeq(LAMBDA k, c : Compiled(subs[k], within[k], follows, leads) @@ c, <<>>,
                      [k \in DOMAIN subs |-> k])
  IN FoldSeq(LAMBDA j, c : CallAt(j) @@ c, <<>>, [j \in DOMAIN body |-> j])

CodeOf(body) ==
  (TheEnd :> [call |-> exit(0)]) @@ (Killed :> [call |-> die(13)])
  @@ (HandlerEnds :> [call |-> [op |-> "handler ends"]])
  @@ Compiled(func(body), <<>>, TheEnd, [break |-> TheEnd, return |-> TheEnd])

At(p) == code[p.root][Head(p.todo)]

Var(p, x) == p.v[x]
Item(p, i) == i.y \o ToString(Var(p, i.z))
Assign(p, x, n) == [p EXCEPT !.v = (x :> n) @@ @]

Once(Op(_), x) == CHOOSE y \in {Op(z) : z \in {x}} : TRUE  \* Op(x), for which TLC evaluates x once

Garbage == <<[text |-> "garbage", nums |-> <<>>, fd |-> None]>>

\* What a process does between two calls.
Test(p, at) ==
  LET i == at.call
      holds == IF i.op = "when" THEN Var(p, i.x) \in i.set
               ELSE p.buf # <<>> /\ Last(p.buf).text \in i.texts
  IN CASE i.op \in {"when", "said"} -> [p EXCEPT !.todo[1] = at.to[IF holds THEN 1 ELSE 2]]
       [] i.op = "func"             -> [p EXCEPT !.todo[1] = at.to[1]]
       [] i.op = "handler ends"     -> [p EXCEPT !.todo = Tail(@)]

Assignment(p, i) ==
  CASE i.op = "set"    -> Assign(p, i.x, i.n)
    [] i.op = "copy"   -> Assign(p, i.x, Var(p, i.y))
    [] i.op = "load"   -> Assign(p, i.x, Var(p, Item(p, i)))
    [] i.op = "store"  -> Assign(p, Item(p, i), Var(p, i.x))
    [] i.op = "add"    -> Assign(p, i.x, Var(p, i.x) + i.n)
    [] i.op = "minus"  -> Assign(p, i.x, Var(p, i.x) - Var(p, i.y))
    [] i.op = "clear"  -> [p EXCEPT !.buf = <<>>]
    [] i.op = "uninit" -> [p EXCEPT !.buf = Garbage]
    [] i.op = "answer" -> [p EXCEPT !.buf = [m \in DOMAIN @ |->
                             IF @[m].text \in DOMAIN i.f THEN [@[m] EXCEPT !.text = i.f[@]] ELSE @[m]]]

Tests == {"when", "said", "func", "handler ends"}
Assignments == {"set", "copy", "load", "store", "add", "minus", "clear", "uninit", "answer"}

RECURSIVE Settle(_)
Settled(p, at) ==
  IF at.call.op \in Tests THEN Settle(Test(p, at))
  ELSE IF at.call.op \in Assignments THEN Settle([Assignment(p, at.call) EXCEPT !.todo[1] = at.next])
  ELSE [p EXCEPT !.at = at.call.op]
Settle(q) == Once(LAMBDA p : Once(LAMBDA at : Settled(p, at), At(p)), q)

NewProcess(root, place, fds) ==
  Settle([status |-> "run", parent |-> 0, code |-> 0, root |-> root, todo |-> <<place>>, at |-> "",
          v |-> [x \in {"0", "1", "2"} |-> CHOOSE n \in 0..2 : ToString(n) = x],
          fd |-> [f \in 0..MaxFd |-> IF f < Len(fds) THEN fds[f + 1] ELSE None],
          out |-> <<>>, buf |-> <<>>, onpipe |-> Killed, onexit |-> <<>>,
          news |-> "", leader |-> TRUE, session |-> 0])

---------------------------------------------------------------------------
Pids == DOMAIN procs
Alive(p) == procs[p].status \in {"run", "stopped", "vfork"}
Ready(p, op) == procs[p].at = op /\ procs[p].status = "run"

Call(p) == At(procs[p]).call
Goes(p) == [procs[p] EXCEPT !.todo[1] = At(procs[p]).next]
Begins(p, k) == At(procs[p]).to[k]
Enters(p, k) == [procs[p] EXCEPT !.todo[1] = Begins(p, k)]
Back(p, q) == [procs EXCEPT ![p] = Settle(q)]
Return(p, x, n) == Back(p, Assign(Goes(p), x, n))

Fd(p, x) == IF Var(procs[p], x) \in 0..MaxFd THEN procs[p].fd[Var(procs[p], x)] ELSE None
FreeFds(p) == {f \in 0..MaxFd : p.fd[f] = None}
Opened(p, x, desc) ==   \* the lowest free descriptor, or -1
  IF FreeFds(p) = {} THEN Assign(p, x, -1)
  ELSE LET f == Min(FreeFds(p)) IN Assign([p EXCEPT !.fd[f] = desc], x, f)

\* Every descriptor that is open in a process or on its way to one.
Descriptors ==
  LET held == UNION {Range(procs[p].fd) : p \in Pids}
  IN held \union {m.fd : m \in UNION {Range(queue[k]) : k \in {d[2] : d \in held} \ {0}}}
HasWriter(k) == k # 0 /\ \E d \in Descriptors : d[3] = k
HasReader(k) == k # 0 /\ \E d \in Descriptors : d[2] = k
Datagrams == {"dgram", "sctp", "sctp events"}

Message(p, data) ==
  [j \in DOMAIN data |->
     [text |-> data[j].text,
      nums |-> [k \in DOMAIN data[j].xs |-> Var(procs[p], data[j].xs[k])],
      fd |-> IF data[j].fdx = "" THEN None ELSE Fd(p, data[j].fdx)]]

\* What a write of msgs to descriptor desc does: done is the writer after it,
\* broken the writer that finds nobody who can read.  The first data sent to a
\* peer that has gone may seem to be sent.
Put(p, desc, msgs, done, broken) ==
  LET socket_ == desc[1] \in {"sock", "socket"}
      stored == desc[1] \in {"tty", "file"} \/ HasReader(desc[3])
      nowhere == msgs = <<>> \/ (desc[3] = 0 /\ ~socket_)
  IN \/ /\ nowhere
        /\ procs' = Back(p, done) /\ UNCHANGED queue
     \/ /\ ~nowhere /\ stored
        /\ desc[1] \in {"pipe", "sock"} =>
             Len(queue[desc[3]]) + Len(msgs) <= PipeCap \/ queue[desc[3]] = <<>>
        /\ queue' = [queue EXCEPT ![desc[3]] = @ \o msgs]
        /\ procs' = Back(p, done)
     \/ /\ ~nowhere /\ ~stored
        /\ procs' \in {Back(p, broken)} \union (IF desc[1] = "sock" THEN {Back(p, done)} ELSE {})
        /\ UNCHANGED queue

---------------------------------------------------------------------------
(* Processes.                                                               *)

Child(p) == [Enters(p, 1) EXCEPT !.parent = p, !.news = "", !.leader = FALSE]

sys_fork(p) ==
  /\ Ready(p, "fork") /\ Len(procs) < MaxProc
  /\ LET x == Call(p).x
     IN procs' = Append(Back(p, Assign(Enters(p, 2), x, Len(procs) + 1)), Settle(Assign(Child(p), x, 0)))
  /\ UNCHANGED <<queue, names, locks, faults>>

sys_vfork(p) ==  \* the parent stands still: what it would share it gets back in Dead and Exec
  /\ Ready(p, "vfork") /\ Len(procs) < MaxProc
  /\ procs' = Append([procs EXCEPT ![p].status = "vfork"], Settle(Assign(Child(p), Call(p).x, 0)))
  /\ UNCHANGED <<queue, names, locks, faults>>

ForkFails(p) ==
  /\ Ready(p, "fork") \/ Ready(p, "vfork")
  /\ faults < MaxFaults /\ faults' = faults + 1
  /\ procs' = Back(p, Assign(Enters(p, 3), Call(p).x, -1))
  /\ UNCHANGED <<queue, names, locks>>

\* the parent that waits in vfork goes on with the memory its child used
Released(ps, p) ==
  [q \in DOMAIN ps |->
     IF q = ps[p].parent /\ ps[q].status = "vfork"
     THEN LET me == [Enters(q, 2) EXCEPT !.status = "run", !.v = ps[p].v, !.out = ps[p].out]
          IN Settle(Assign(me, Call(q).x, p))
     ELSE ps[q]]

sys_execve(p) ==
  /\ Ready(p, "exec") /\ Call(p).found
  /\ procs' = [Released(procs, p) EXCEPT ![p] =
                 [NewProcess(procs[p].root, Begins(p, 1), <<>>) EXCEPT !.parent = procs[p].parent, !.fd = procs[p].fd,
                  !.leader = procs[p].leader, !.session = procs[p].session]]
  /\ UNCHANGED <<queue, names, locks, faults>>

ExecFails(p) ==
  /\ Ready(p, "exec") /\ ~Call(p).found
  /\ procs' = Back(p, Goes(p))
  /\ UNCHANGED <<queue, names, locks, faults>>

\* the processes after p has ended with status n; init reaps the orphans
Dead(p, n) ==
  LET ps == Released(procs, p)
      dead == [ps[p] EXCEPT !.status = IF ps[p].parent = 0 THEN "gone" ELSE "zombie", !.code = n,
                 !.fd = [f \in 0..MaxFd |-> None], !.todo = <<>>, !.at = "", !.out = <<>>, !.buf = <<>>]
      orphan(q) == [ps[q] EXCEPT !.parent = 0, !.status = IF @ = "zombie" THEN "gone" ELSE @]
  IN [q \in DOMAIN ps |-> CASE q = p -> dead
                            [] q # p /\ ps[q].parent = p -> orphan(q)
                            [] OTHER -> ps[q]]

Ends(p, n) == procs' = Dead(p, n) /\ locks' = {l \in locks : l[1] # p} /\ UNCHANGED <<names, faults>>

sys_exit_group(p) == Ready(p, "_exit") /\ Ends(p, Call(p).n) /\ UNCHANGED queue

\* exit: the handlers in reverse order, then what is left in the buffer
Exits(p) == Ready(p, "exit") \/ Ready(p, "exitvar")

RunsHandler(p) ==
  /\ Exits(p) /\ procs[p].onexit # <<>>
  /\ procs' = Back(p, [procs[p] EXCEPT !.todo = <<Last(procs[p].onexit)>> \o @, !.onexit = Front(@)])
  /\ UNCHANGED <<queue, names, locks, faults>>

sys_exit(p) ==
  /\ Exits(p) /\ procs[p].onexit = <<>>
  /\ LET desc == procs[p].fd[1]
         out == procs[p].out
         n == IF Call(p).op = "exit" THEN Call(p).n ELSE Var(procs[p], Call(p).x)
     IN IF out = <<>> \/ desc[3] = 0 THEN Ends(p, n) /\ UNCHANGED queue
        ELSE IF desc[1] \in {"tty", "file"} \/ HasReader(desc[3])
             THEN /\ queue' = [queue EXCEPT ![desc[3]] = @ \o out]
                  /\ Ends(p, n)
             ELSE Ends(p, 128 + 13) /\ UNCHANGED queue

Children(p, pid) == {q \in Pids : /\ procs[q].parent = p /\ procs[q].status # "gone"
                                  /\ pid \in {-1, 0, q}}
sys_wait(p) ==
  /\ Ready(p, "wait")
  /\ LET i == Call(p)
         pid == IF i.y = "" THEN -1 ELSE Var(procs[p], i.y)
         mine == Children(p, pid)
         Result(n, status) == Assign(Assign(Goes(p), i.x, n), "status", status)
     IN \/ \E q \in {c \in mine : procs[c].status = "zombie"} :
             procs' = [Back(p, Result(q, procs[q].code)) EXCEPT ![q].status = "gone"]
        \/ \E q \in {c \in mine : i.news /\ Alive(c) /\ procs[c].news # ""} :
             procs' = [Back(p, Result(q, IF procs[q].news = "stopped" THEN 1019 ELSE 1018))
                         EXCEPT ![q].news = ""]
        \/ /\ mine = {}
           /\ procs' = Back(p, Assign(Assign(Goes(p), i.x, -1), "errno", 10))
  /\ UNCHANGED <<queue, names, locks, faults>>

\* the parent waits in its handler, wherever it is
sig_child_handler(p) ==
  /\ procs[p].status = "zombie" /\ "sigchld" \in DOMAIN procs[procs[p].parent].v
  /\ procs' = [procs EXCEPT ![p].status = "gone"]
  /\ UNCHANGED <<queue, names, locks, faults>>

WaitInterrupted(p) ==
  /\ Ready(p, "wait") /\ Call(p).intr
  /\ faults < MaxFaults /\ faults' = faults + 1
  /\ procs' = Back(p, Assign(Assign(Goes(p), Call(p).x, -1), "errno", 4))
  /\ UNCHANGED <<queue, names, locks>>

\* a user stops, continues and at last ends a process that pauses
kill(p) ==
  /\ \/ /\ Ready(p, "pause") /\ faults < MaxFaults /\ faults' = faults + 1
        /\ procs' = [procs EXCEPT ![p].status = "stopped", ![p].news = "stopped"]
        /\ UNCHANGED <<queue, names, locks>>
     \/ /\ procs[p].status = "stopped"
        /\ procs' = [procs EXCEPT ![p].status = "run", ![p].news = "continued"]
        /\ UNCHANGED <<queue, names, locks, faults>>
     \/ /\ Ready(p, "pause")
        /\ Ends(p, 128 + 15) /\ UNCHANGED queue

\* what changes nothing but the process
Local(p) ==
  /\ \/ Ready(p, "sleep") /\ procs' = Back(p, Goes(p))
     \/ Ready(p, "atexit") /\ procs' = Back(p, [Goes(p) EXCEPT !.onexit = Append(@, Begins(p, 1))])
     \/ Ready(p, "sigpipe") /\ procs' = Back(p, [Goes(p) EXCEPT !.onpipe = Begins(p, 1)])
     \/ Ready(p, "await") /\ Call(p).name \in DOMAIN names /\ names[Call(p).name] # 0 /\ procs' = Back(p, Goes(p))
     \/ Ready(p, "undefined") /\ \E n \in {-1, 0, Undefined} : procs' = Return(p, Call(p).x, n)
     \/ /\ Ready(p, "setsid")  \* the leader of a process group cannot leave its session
        /\ procs' = Back(p, IF procs[p].leader THEN Assign(Goes(p), Call(p).x, -1)
                            ELSE Assign([Goes(p) EXCEPT !.leader = TRUE, !.session = p], Call(p).x, p))
  /\ UNCHANGED <<queue, names, locks, faults>>

\* a call of the library that works, or fails with one of the results in set
MayFail(p) ==
  /\ Ready(p, "mayfail")
  /\ \/ procs' = Return(p, Call(p).x, 0) /\ UNCHANGED faults
     \/ /\ faults < MaxFaults /\ faults' = faults + 1
        /\ \E n \in Call(p).set : procs' = Return(p, Call(p).x, n)
  /\ UNCHANGED <<queue, names, locks>>

---------------------------------------------------------------------------
(* Descriptors and what goes through them.                                  *)

sys_pipe(p) ==
  /\ Ready(p, "pipe") \/ Ready(p, "socketpair")
  /\ LET i == Call(p)
         k == Len(queue) + 1
         a == IF i.op = "pipe" THEN <<"pipe", k, 0>> ELSE <<"sock", k, k + 1>>
         b == IF i.op = "pipe" THEN <<"pipe", 0, k>> ELSE <<"sock", k + 1, k>>
     IN /\ procs' = Back(p, Opened(Opened(Goes(p), i.x, a), i.y, b))
        /\ queue' = queue \o (IF i.op = "pipe" THEN << <<>> >> ELSE << <<>>, <<>> >>)
  /\ UNCHANGED <<names, locks, faults>>

sys_open(p) ==
  /\ Ready(p, "open")
  /\ procs' = Back(p, IF Call(p).desc = None THEN Assign(Goes(p), Call(p).x, -1)
                      ELSE Opened(Goes(p), Call(p).x, Call(p).desc))
  /\ UNCHANGED <<queue, names, locks, faults>>

sys_close(p) ==  \* a socket that listens leaves its name in the file system
  /\ Ready(p, "close")
  /\ LET f == Var(procs[p], Call(p).x)
     IN procs' = Back(p, IF f \in 0..MaxFd THEN [Goes(p) EXCEPT !.fd[f] = None] ELSE Goes(p))
  /\ UNCHANGED <<queue, names, locks, faults>>

sys_dup(p) ==
  /\ \/ Ready(p, "dup2") /\ procs' = Back(p, [Goes(p) EXCEPT !.fd[Call(p).n] = Fd(p, Call(p).x)])
     \/ Ready(p, "dup") /\ procs' = Back(p, IF Fd(p, Call(p).y) = None THEN Assign(Goes(p), Call(p).x, -1)
                                           ELSE Opened(Goes(p), Call(p).x, Fd(p, Call(p).y)))
  /\ UNCHANGED <<queue, names, locks, faults>>

\* At the end of a file or of the terminal, and of a pipe without a writer, 0.
\* A datagram is read alone, and tells where it came from.
sys_read(p) ==
  /\ Ready(p, "read")
  /\ LET i == Call(p)
         desc == Fd(p, i.y)
         k == desc[2]
         datagram == desc[1] \in Datagrams
         n == IF k = 0 THEN 0 ELSE Min({IF datagram THEN 1 ELSE i.n, Len(queue[k])})
         Got(m, data) == LET q == Assign([Goes(p) EXCEPT !.buf = data], i.x, m)
                         IN IF datagram /\ data # <<>> THEN Assign(q, "from", data[1].nums[1]) ELSE q
     IN IF desc[1] \in {"none", "listen"} \/ (k = 0 /\ desc[1] # "null") THEN procs' = Back(p, Got(-1, <<>>)) /\ UNCHANGED queue
        ELSE IF n > 0 THEN /\ queue' = [queue EXCEPT ![k] = SubSeq(@, n + 1, Len(@))]
                           /\ procs' = Back(p, Got(n, SubSeq(queue[k], 1, n)))
        ELSE /\ UNCHANGED queue
             /\ \/ /\ ~datagram /\ (desc[1] \in {"pipe", "sock"} => ~HasWriter(k))
                   /\ procs' = Back(p, Got(0, <<>>))
                \/ /\ i.timeo \/ (datagram /\ desc[3] # 0 /\ ~HasReader(desc[3]))  \* nobody is there
                   /\ procs' = Back(p, Got(-1, <<>>))
  /\ UNCHANGED <<names, locks, faults>>

\* A read or write of some of the bytes that are wanted, or of none: EINTR or EIO.
SomeFails(p) ==
  /\ Ready(p, "readmore") \/ Ready(p, "writesome")
  /\ faults < MaxFaults /\ faults' = faults + 1
  /\ \E errno \in {4, 5} : procs' = Back(p, Assign(Assign(Goes(p), Call(p).x, -1), "errno", errno))
  /\ UNCHANGED <<queue, names, locks>>

ReadSome(p) ==
  /\ Ready(p, "readmore")
  /\ LET i == Call(p)
         k == Fd(p, i.y)[2]
         Got(n) == Assign([Goes(p) EXCEPT !.buf = @ \o SubSeq(queue[k], 1, n)], i.x, n)
     IN \/ k = 0 /\ procs' = Back(p, Assign(Assign(Goes(p), i.x, -1), "errno", 9)) /\ UNCHANGED queue
        \/ /\ k # 0 /\ queue[k] = <<>> /\ ~HasWriter(k)
           /\ procs' = Back(p, Got(0)) /\ UNCHANGED queue
        \/ /\ k # 0 /\ queue[k] # <<>>
           /\ LET n == Min({Var(procs[p], i.z), Len(queue[k])})
              IN /\ queue' = [queue EXCEPT ![k] = SubSeq(@, n + 1, Len(@))]
                 /\ procs' = Back(p, Got(n))
  /\ UNCHANGED <<names, locks, faults>>

\* recvmsg of one byte with the descriptor that comes with it: c is the count,
\* z the descriptor or -1.
sys_recvmsg(p) ==
  /\ Ready(p, "recvfd")
  /\ LET i == Call(p)
         k == Fd(p, i.y)[2]
         Got(m) == Assign(Assign(Goes(p), i.z, -1), i.x, m)
     IN IF k = 0 THEN procs' = Back(p, Got(-1)) /\ UNCHANGED queue
        ELSE IF queue[k] # <<>>
             THEN LET m == Head(queue[k])
                      q == [Got(1) EXCEPT !.buf = <<m>>]
                  IN /\ queue' = [queue EXCEPT ![k] = Tail(@)]
                     /\ procs' = Back(p, IF m.fd = None THEN q ELSE Opened(q, i.z, m.fd))
             ELSE ~HasWriter(k) /\ procs' = Back(p, Got(0)) /\ UNCHANGED queue
  /\ UNCHANGED <<names, locks, faults>>

Broken(p) == [Goes(p) EXCEPT !.todo = <<procs[p].onpipe>> \o @]

sys_write(p) ==
  /\ Ready(p, "write")
  /\ Put(p, Fd(p, Call(p).y), Message(p, Call(p).data), Goes(p), Broken(p))
  /\ UNCHANGED <<names, locks, faults>>

\* writes what was read; the length of a buffer that is not terminated is the
\* length of what it holds and maybe of what lies behind it
PutBuf(p) ==
  /\ Ready(p, "put") \/ Ready(p, "garbled")
  /\ LET data == [j \in DOMAIN procs[p].buf |-> [procs[p].buf[j] EXCEPT !.fd = None]]
     IN \E rest \in {<<>>} \union (IF Call(p).op = "garbled" THEN {Garbage} ELSE {}) :
          Put(p, Fd(p, Call(p).y), data \o rest, Goes(p), Broken(p))
  /\ UNCHANGED <<names, locks, faults>>

WriteSome(p) ==
  /\ Ready(p, "writesome")
  /\ LET i == Call(p)
         left == Var(procs[p], i.z)
         buf == procs[p].buf
     IN \/ /\ Fd(p, i.y) = None
           /\ procs' = Back(p, Assign(Assign(Goes(p), i.x, -1), "errno", 9)) /\ UNCHANGED queue
        \/ Fd(p, i.y) # None /\ \E n \in 1..left :
          Put(p, Fd(p, i.y), SubSeq(buf, Len(buf) - left + 1, Len(buf) - left + n), Assign(Goes(p), i.x, n), Broken(p))
  /\ UNCHANGED <<names, locks, faults>>

\* printf: to the terminal at once, to a file or a pipe by fflush or at the end
Printf(p) ==
  /\ \E op \in {"print", "printbuf", "printfirst", "fflush"} : Ready(p, op)
  /\ LET out == procs[p].out \o (CASE Call(p).op = "print" -> Message(p, Call(p).data)
                                   [] Call(p).op = "printbuf" -> procs[p].buf
                                   [] Call(p).op = "printfirst" /\ procs[p].buf # <<>> -> <<Head(procs[p].buf)>>
                                   [] OTHER -> <<>>)
     IN IF procs[p].fd[1][1] = "tty" \/ Call(p).op = "fflush"
        THEN Put(p, procs[p].fd[1], out, [Goes(p) EXCEPT !.out = <<>>], Broken(p))
        ELSE procs' = Back(p, [Goes(p) EXCEPT !.out = out]) /\ UNCHANGED queue
  /\ UNCHANGED <<names, locks, faults>>

---------------------------------------------------------------------------
(* Record locks: a request that would complete a circle of processes that   *)
(* wait for each other fails.                                               *)

Against(p, byte, type) == {l \in locks : l[1] # p /\ l[2] = byte /\ "write" \in {l[3], type}}
Stuck(q, p) == /\ Ready(q, "setlkw")
               /\ \E l \in Against(q, Call(q).n, Call(q).type) : l[1] = p
Granted(p) ==
  /\ locks' = {l \in locks : <<l[1], l[2]>> # <<p, Call(p).n>>}
                \union (IF Call(p).type = "unlock" THEN {} ELSE {<<p, Call(p).n, Call(p).type>>})
  /\ procs' = Return(p, Call(p).x, 0)

sys_fcntl(p) ==
  /\ Ready(p, "setlkw") \/ Ready(p, "setlk")
  /\ LET against == Against(p, Call(p).n, Call(p).type)
     IN IF against = {} THEN Granted(p)
        ELSE /\ Call(p).op = "setlk" \/ \E l \in against : Stuck(l[1], p)
             /\ procs' = Return(p, Call(p).x, -1) /\ UNCHANGED locks
  /\ UNCHANGED <<queue, names, faults>>

---------------------------------------------------------------------------
(* Sockets.  names says which queue a name leads to: 0 when it is bound and  *)
(* nobody listens.  The first message from a peer holds its name, and for a  *)
(* datagram the queue to answer to.                                          *)

sys_socket(p) ==
  /\ Ready(p, "socket")
  /\ procs' = Back(p, Opened(Goes(p), Call(p).x, <<"socket", 0, 0>>))
  /\ UNCHANGED <<queue, names, locks, faults>>

sys_bind(p) ==
  /\ Ready(p, "bind")
  /\ LET i == Call(p)
     IN IF i.name \in DOMAIN names THEN procs' = Return(p, i.x, -1) /\ UNCHANGED names
        ELSE names' = names @@ (i.name :> 0) /\ procs' = Return(p, i.x, 0)
  /\ UNCHANGED <<queue, locks, faults>>

sys_listen(p) ==
  /\ Ready(p, "listen")
  /\ LET i == Call(p)
         k == Len(queue) + 1
         f == Var(procs[p], i.x)
     IN IF f \in 0..MaxFd
        THEN /\ queue' = Append(queue, <<>>)
             /\ names' = [n \in DOMAIN names |-> IF n = i.name THEN k ELSE names[n]]
             /\ procs' = Back(p, [Goes(p) EXCEPT !.fd[f] = <<"listen", k, 0>>])
        ELSE procs' = Back(p, Goes(p)) /\ UNCHANGED <<queue, names>>
  /\ UNCHANGED <<locks, faults>>

sys_connect(p) ==
  /\ Ready(p, "connect")
  /\ LET i == Call(p)
         k == Len(queue) + 1
         f == Var(procs[p], i.y)
     IN IF f \in 0..MaxFd /\ i.name \in DOMAIN names /\ HasReader(names[i.name])
        THEN /\ queue' = [queue EXCEPT ![names[i.name]] =
                            Append(@, [text |-> i.from, nums |-> <<>>, fd |-> <<"sock", k + 1, k>>])]
                          \o << <<>>, <<>> >>
             /\ procs' = Back(p, Assign([Goes(p) EXCEPT !.fd[f] = <<"sock", k, k + 1>>], i.x, 0))
        ELSE procs' = Return(p, i.x, -1) /\ UNCHANGED queue
  /\ UNCHANGED <<names, locks, faults>>

sys_accept(p) ==
  /\ Ready(p, "accept")
  /\ LET k == Fd(p, Call(p).y)[2]
     IN IF k = 0 THEN procs' = Return(p, Call(p).x, -1) /\ UNCHANGED queue
        ELSE /\ queue[k] # <<>>
             /\ queue' = [queue EXCEPT ![k] = Tail(@)]
             /\ procs' = Back(p, Opened([Goes(p) EXCEPT !.buf = <<Head(queue[k])>>], Call(p).x, Head(queue[k]).fd))
  /\ UNCHANGED <<names, locks, faults>>

sys_path(p) ==  \* stat and unlink
  /\ LET name == IF Ready(p, "unlink") /\ Call(p).name # "" THEN Call(p).name ELSE procs[p].buf[1].text
     IN \/ /\ Ready(p, "stat")
           /\ procs' = Return(p, Call(p).x, IF name \in DOMAIN names THEN 0 ELSE -1)
           /\ UNCHANGED names
        \/ /\ Ready(p, "unlink")
           /\ names' = [n \in DOMAIN names \ {name} |-> names[n]]
           /\ procs' = Back(p, Goes(p))
  /\ UNCHANGED <<queue, locks, faults>>

sys_shutdown(p) ==
  /\ Ready(p, "shutdown")
  /\ procs' = Back(p, [Goes(p) EXCEPT !.fd[Var(procs[p], Call(p).x)][3] = 0])
  /\ UNCHANGED <<queue, names, locks, faults>>

\* x is readable when there is something to read, or the end
Readable(p, x) ==
  LET k == Fd(p, x)[2]
  IN IF k = 0 THEN TRUE
     ELSE queue[k] # <<>> \/ Fd(p, x)[1] \in {"tty", "file"} \/ (Fd(p, x)[1] \in {"pipe", "sock"} /\ ~HasWriter(k))

\* sets ready<x> for the descriptors asked for, and "n" to their number, or 0
\* when the time is over
sys_select(p) ==
  /\ Ready(p, "select")
  /\ LET xs == Call(p).xs
         is == {j \in DOMAIN xs : Readable(p, xs[j])}
         flags == [x \in {"ready" \o xs[j] : j \in DOMAIN xs} |->
                     IF \E j \in is : x = "ready" \o xs[j] THEN 1 ELSE 0]
     IN \/ /\ is # {} \/ Call(p).timeout
           /\ procs' = Back(p, Assign([Goes(p) EXCEPT !.v = flags @@ @], "n", Cardinality(is)))
           /\ UNCHANGED faults
        \/ /\ Call(p).intr /\ faults < MaxFaults /\ faults' = faults + 1
           /\ procs' = Return(p, "n", -1)
  /\ UNCHANGED <<queue, names, locks>>

sys_udp(p) ==
  /\ Ready(p, "udp")
  /\ queue' = Append(queue, <<>>)
  /\ names' = IF Call(p).name = "" THEN names ELSE (Call(p).name :> Len(queue) + 1) @@ names
  /\ procs' = Back(p, Opened(Goes(p), Call(p).x, <<Call(p).kind, Len(queue) + 1, 0>>))
  /\ UNCHANGED <<locks, faults>>

sys_connectudp(p) ==
  /\ Ready(p, "connectudp")
  /\ LET i == Call(p)
     IN procs' = Back(p, IF i.name \in DOMAIN names
                         THEN Assign([Goes(p) EXCEPT !.fd[Var(procs[p], i.y)][3] = names[i.name]], i.x, 0)
                         ELSE Assign(Goes(p), i.x, -1))
  /\ UNCHANGED <<queue, names, locks, faults>>

\* What was read goes to the named socket, to the one x is connected to, or
\* back to where it came from.  A datagram may be lost, and nobody is told; one
\* that finds no room is.  SCTP only delays it; its other end may ask to be told
\* of the association too.
sys_sendto(p) ==
  /\ Ready(p, "sendto")
  /\ LET i == Call(p)
         me == procs[p]
         desc == Fd(p, i.y)
         to == CASE i.name = "" -> me.buf[1].nums[1]
                 [] i.name = "connected" -> desc[3]
                 [] OTHER -> IF i.name \in DOMAIN names THEN names[i.name] ELSE 0
         takers == {d \in Descriptors : to # 0 /\ d[1] \in Datagrams /\ d[2] = to /\ d[3] \in {0, desc[2]}}
         taken == takers # {} /\ Len(queue[to]) < PipeCap
         datagram == [text |-> me.buf[1].text, nums |-> <<desc[2]>>, fd |-> None]
         arrives == {<<datagram>>} \union
                    (IF \E d \in takers : d[1] = "sctp events"
                     THEN {<<[datagram EXCEPT !.text = "notification"], datagram>>} ELSE {})
     IN /\ \/ /\ taken /\ UNCHANGED faults
              /\ \E msgs \in arrives : queue' = [queue EXCEPT ![to] = @ \o msgs]
           \/ ~taken /\ UNCHANGED <<queue, faults>>
           \/ /\ taken /\ faults < MaxFaults /\ faults' = faults + 1
              /\ queue' = IF desc[1] = "dgram" THEN queue ELSE [queue EXCEPT ![to] = <<datagram>> \o @]
        /\ procs' = Back(p, Assign(Goes(p), "to", to))
  /\ UNCHANGED <<names, locks>>

---------------------------------------------------------------------------
Step(p) ==
  \/ sys_fork(p) \/ sys_vfork(p) \/ ForkFails(p) \/ sys_execve(p) \/ ExecFails(p)
  \/ sys_exit_group(p) \/ RunsHandler(p) \/ sys_exit(p)
  \/ sys_wait(p) \/ sig_child_handler(p) \/ WaitInterrupted(p) \/ kill(p) \/ Local(p) \/ MayFail(p)
  \/ sys_pipe(p) \/ sys_open(p) \/ sys_close(p) \/ sys_dup(p)
  \/ sys_read(p) \/ sys_recvmsg(p) \/ SomeFails(p) \/ ReadSome(p) \/ WriteSome(p)
  \/ sys_write(p) \/ PutBuf(p) \/ Printf(p)
  \/ sys_fcntl(p)
  \/ sys_socket(p) \/ sys_bind(p) \/ sys_listen(p) \/ sys_connect(p) \/ sys_accept(p) \/ sys_path(p)
  \/ sys_shutdown(p) \/ sys_select(p) \/ sys_udp(p) \/ sys_connectudp(p) \/ sys_sendto(p)

=============================================================================
