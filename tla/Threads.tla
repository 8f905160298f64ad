------------------------------ MODULE Threads ------------------------------
(***************************************************************************)
(* Threads on top of Unix: a thread is a process whose team is another one,  *)
(* the first thread of its process; it stops when that one ends.  What the   *)
(* threads of a process share is in the task of the first: static variables, *)
(* which are 0 at first, and mutexes.  Every access to a shared variable is  *)
(* a step.  Return from a thread is _exit, pthread_exit is exit, and the     *)
(* handlers of pthread_cleanup_push are those of atexit.                     *)
(*                                                                           *)
(* A FIFO and a message queue are pipes with a name.                         *)
(***************************************************************************)
EXTENDS Unix

VARIABLE task      \* [team, mem, mutex] of each thread

vars_but_procs == <<queue, names, locks, faults>>

create(r, tid, body) == [op |-> "pthread_create", x |-> tid, y |-> r, subs |-> <<body>>]
thread_return(n) == _exit(n)
pthread_exit(n) == exit(n)
cleanup_push(body) == atexit(body)
join(tid, ret) == [op |-> "join", x |-> ret, y |-> tid]
fetch(x, s) == [op |-> "fetch", x |-> x, s |-> s]
assign(s, x) == [op |-> "assign", x |-> x, s |-> s]
bump(s) == [op |-> "bump", s |-> s]
lock(m) == [op |-> "lock", m |-> m, recursive |-> FALSE]
lock_recursive(m) == [op |-> "lock", m |-> m, recursive |-> TRUE]
timedlock(x, m) == [op |-> "timedlock", x |-> x, m |-> m]
unlock(m) == [op |-> "unlock", m |-> m]
mkfifo(x, name) == [op |-> "mkfifo", x |-> x, name |-> name]
openfifo(x, name) == [op |-> "openfifo", x |-> x, name |-> name]

\* the body of pthread_once, that whoever comes meanwhile waits for
once(flag, body) ==
  <<lock(flag), fetch("done", flag), when("done", {0}, body \o <<bump(flag)>>, <<>>), unlock(flag)>>

---------------------------------------------------------------------------
Team(t) == task[t].team
Shared(t, s) == LET mem == task[Team(t)].mem IN IF s \in DOMAIN mem THEN mem[s] ELSE 0
Owner(t, m) == LET held == task[Team(t)].mutex IN IF m \in DOMAIN held THEN held[m] ELSE <<0, 0>>
NewTask(team) == [team |-> team, mem |-> <<>>, mutex |-> <<>>]

Write(t, s, n) == task' = [task EXCEPT ![Team(t)].mem = (s :> n) @@ @]
Hold(t, m, depth) == [task EXCEPT ![Team(t)].mutex = (m :> (IF depth = 0 THEN <<0, 0>> ELSE <<t, depth>>)) @@ @]
Ahead(t) == procs' = Back(t, Goes(t))

\* A process that forks has one thread in the child, with the locks it holds.
pthread_fork(t) ==
  /\ sys_fork(t)
  /\ LET child == Len(procs) + 1
         mine == task[Team(t)]
         Inherits(l) == IF l[1] = t THEN <<child, l[2]>> ELSE l
     IN task' = Append(task, [mine EXCEPT !.team = child, !.mutex = [m \in DOMAIN @ |-> Inherits(@[m])]])

pthread_create(t) ==
  /\ Ready(t, "pthread_create")
  /\ LET i == Call(t)
         new == Len(procs) + 1
         Created == Assign(Assign(Goes(t), i.x, new), i.y, 0)
     IN \/ /\ new <= MaxProc
           /\ procs' = Append(Back(t, Created), Settle([Enters(t, 1) EXCEPT !.onexit = <<>>]))
           /\ task' = Append(task, NewTask(Team(t)))
           /\ UNCHANGED faults
        \/ /\ faults < MaxFaults /\ faults' = faults + 1
           /\ procs' = Return(t, i.y, 11) /\ UNCHANGED task
  /\ UNCHANGED <<queue, names, locks>>

pthread_join(t) ==
  /\ Ready(t, "join")
  /\ LET other == Var(procs[t], Call(t).y)
     IN procs[other].status = "gone" /\ procs' = Return(t, Call(t).x, procs[other].code)
  /\ UNCHANGED <<vars_but_procs, task>>

Memory(t) ==
  /\ \/ Ready(t, "fetch") /\ procs' = Return(t, Call(t).x, Shared(t, Call(t).s)) /\ UNCHANGED task
     \/ Ready(t, "assign") /\ Ahead(t) /\ Write(t, Call(t).s, Var(procs[t], Call(t).x))
     \/ Ready(t, "bump") /\ Ahead(t) /\ Write(t, Call(t).s, Shared(t, Call(t).s) + 1)
  /\ UNCHANGED vars_but_procs

pthread_mutex_lock(t) ==
  /\ Ready(t, "lock")
  /\ LET m == Call(t).m
         held == Owner(t, m)
     IN /\ held[1] = 0 \/ (Call(t).recursive /\ held[1] = t)
        /\ task' = Hold(t, m, held[2] + 1)
  /\ Ahead(t)
  /\ UNCHANGED vars_but_procs

pthread_mutex_timedlock(t) ==
  /\ Ready(t, "timedlock")
  /\ LET m == Call(t).m
     IN \/ Owner(t, m)[1] = 0 /\ task' = Hold(t, m, 1) /\ procs' = Return(t, Call(t).x, 0)
        \/ Owner(t, m)[1] # 0 /\ procs' = Return(t, Call(t).x, 110) /\ UNCHANGED task
  /\ UNCHANGED vars_but_procs

pthread_mutex_unlock(t) ==
  /\ Ready(t, "unlock")
  /\ task' = Hold(t, Call(t).m, Owner(t, Call(t).m)[2] - 1)
  /\ Ahead(t)
  /\ UNCHANGED vars_but_procs

Fifos(t) ==
  /\ LET i == Call(t)
     IN \/ /\ Ready(t, "mkfifo")
           /\ IF i.name \in DOMAIN names THEN procs' = Return(t, i.x, -1) /\ UNCHANGED <<queue, names>>
              ELSE /\ queue' = Append(queue, <<>>) /\ names' = names @@ (i.name :> Len(queue) + 1)
                   /\ procs' = Return(t, i.x, 0)
        \/ /\ Ready(t, "openfifo")
           /\ procs' = Back(t, IF i.name \in DOMAIN names
                               THEN Opened(Goes(t), i.x, <<"pipe", names[i.name], names[i.name]>>)
                               ELSE Assign(Goes(t), i.x, -1))
           /\ UNCHANGED <<queue, names>>
  /\ UNCHANGED <<locks, faults, task>>

Unthreaded(t) ==
  /\ \/ ForkFails(t) \/ sys_exit_group(t) \/ RunsHandler(t) \/ sys_exit(t) \/ Local(t) \/ MayFail(t)
     \/ sys_pipe(t) \/ sys_read(t) \/ sys_write(t) \/ PutBuf(t) \/ Printf(t) \/ sys_select(t)
  /\ UNCHANGED task

ThreadStep(t) ==
  /\ Alive(Team(t))
  /\ \/ pthread_fork(t) \/ pthread_create(t) \/ pthread_join(t) \/ Memory(t)
     \/ pthread_mutex_lock(t) \/ pthread_mutex_timedlock(t) \/ pthread_mutex_unlock(t)
     \/ Fifos(t) \/ Unthreaded(t)

=============================================================================
