------------------------------ MODULE WorkQueue ------------------------------
(***************************************************************************)
(* The thread pool of ch7_12_process/cond_test1.c: the main thread makes   *)
(* messages and pushes them on the list workq under the mutex qlock; the   *)
(* pool threads wait on the condition variable qready, pop the list and    *)
(* process and free what they popped.                                      *)
(*                                                                         *)
(* A message is the heap block it lives in, so a freed block may come back *)
(* from the next malloc.  A pointer into the list is the sequence of the   *)
(* blocks reachable from it: m_next is written once, before the block is   *)
(* published, so a list never changes behind a pointer to it.              *)
(***************************************************************************)
EXTENDS Naturals, Sequences, Functions

CONSTANTS Pool,      \* the threads running process_msg
          Main,      \* the thread running cond_test1 and enqueue_msg
          Blocks,    \* the heap blocks a message may be allocated in (a bound)
          Null       \* no thread, no block

ASSUME PoolAssumption == /\ Pool # {}
                         /\ Main \notin Pool
                         /\ Null \notin Pool \cup {Main}
                         /\ Null \notin Blocks

VARIABLES pc,        \* where each thread is
          workq,     \* the list head: the blocks queued, the next to pop first
          qlock,     \* the owner of the mutex, or Null
          waiting,   \* the threads blocked on the condition variable
          mp,        \* the local mp of each thread
          next,      \* the m_next of the message being enqueued
          heap,      \* the blocks malloc handed out and nobody freed
          alive      \* the process has not exited

vars == <<pc, workq, qlock, waiting, mp, next, heap, alive>>

Threads == Pool \cup {Main}

Goto(t, from, to) == /\ alive
                     /\ pc[t] = from
                     /\ pc' = [pc EXCEPT ![t] = to]

Lock(t) == qlock = Null /\ qlock' = t
Unlock(t) == qlock' = Null

Init == /\ pc = [t \in Threads |-> IF t = Main THEN "create" ELSE "none"]
        /\ workq = <<>>
        /\ qlock = Null
        /\ waiting = {}
        /\ mp = [t \in Threads |-> Null]
        /\ next = <<>>
        /\ heap = {}
        /\ alive = TRUE

-----------------------------------------------------------------------------
(* cond_test1: the pool is created, then messages are made for ever.  A    *)
(* failing pthread_create or malloc runs err_ret, whose macro returns from *)
(* cond_test1; main then returns and the process exits with all threads.   *)

CreateThread(c) == /\ pc[Main] = "create"
                   /\ Goto(c, "none", "lock")
                   /\ UNCHANGED <<workq, qlock, waiting, mp, next, heap, alive>>

PoolCreated == /\ \A c \in Pool : pc[c] # "none"
               /\ Goto(Main, "create", "malloc")
               /\ UNCHANGED <<workq, qlock, waiting, mp, next, heap, alive>>

\* mutant: the results of malloc are not checked
Malloc_Unchecked(b) == /\ Goto(Main, "malloc", "lock")
                       /\ mp' = [mp EXCEPT ![Main] = Null]
                       /\ UNCHANGED <<workq, qlock, waiting, next, heap, alive>>

Malloc(b) == /\ b \in Blocks \ heap
             /\ Goto(Main, "malloc", "lock")
             /\ heap' = heap \cup {b}
             /\ mp' = [mp EXCEPT ![Main] = b]
             /\ UNCHANGED <<workq, qlock, waiting, next, alive>>

ErrRet == /\ alive
          /\ pc[Main] \in {"create", "malloc"}
          /\ alive' = FALSE
          /\ UNCHANGED <<pc, workq, qlock, waiting, mp, next, heap>>

(* enqueue_msg *)

EnqueueLock == /\ Goto(Main, "lock", "link")
               /\ Lock(Main)
               /\ UNCHANGED <<workq, waiting, mp, next, heap, alive>>

\* mutant: m_next is not set, the rest of the list is lost
EnqueueLink_Lost == /\ Goto(Main, "link", "publish")
                    /\ next' = <<>>
                    /\ UNCHANGED <<workq, qlock, waiting, mp, heap, alive>>

EnqueueLink == /\ Goto(Main, "link", "publish")
               /\ next' = workq
               /\ UNCHANGED <<workq, qlock, waiting, mp, heap, alive>>

EnqueuePublish == /\ Goto(Main, "publish", "unlock")
                  /\ workq' = <<mp[Main]>> \o next
                  /\ UNCHANGED <<qlock, waiting, mp, next, heap, alive>>

EnqueueUnlock == /\ Goto(Main, "unlock", "signal")
                 /\ Unlock(Main)
                 /\ UNCHANGED <<workq, waiting, mp, next, heap, alive>>

\* mutant: enqueue_msg does not signal
EnqueueSignal_None == /\ Goto(Main, "signal", "malloc")
                      /\ mp' = [mp EXCEPT ![Main] = Null]
                      /\ UNCHANGED <<workq, qlock, waiting, next, heap, alive>>

\* pthread_cond_signal wakes a waiting thread if there is one: it leaves the
\* wait set and has to lock the mutex again before pthread_cond_wait returns
EnqueueSignal ==
  /\ alive
  /\ pc[Main] = "signal"
  /\ \/ /\ waiting = {}
        /\ pc' = [pc EXCEPT ![Main] = "malloc"]
        /\ UNCHANGED waiting
     \/ \E c \in waiting :
          /\ waiting' = waiting \ {c}
          /\ pc' = [pc EXCEPT ![Main] = "malloc", ![c] = "relock"]
  /\ mp' = [mp EXCEPT ![Main] = Null]
  /\ UNCHANGED <<workq, qlock, next, heap, alive>>

-----------------------------------------------------------------------------
(* process_msg *)

\* mutant: `if` in place of `while`, the condition is not tested again
ProcessLock_If(c) == /\ \/ Goto(c, "lock", "test")
                        \/ Goto(c, "relock", "take")
                     /\ Lock(c)
                     /\ UNCHANGED <<workq, waiting, mp, next, heap, alive>>

ProcessLock(c) == /\ \/ Goto(c, "lock", "test")
                     \/ Goto(c, "relock", "test")
                  /\ Lock(c)
                  /\ UNCHANGED <<workq, waiting, mp, next, heap, alive>>

\* mutant: the thread waits without testing the list
CondWait_Blind(c) == /\ Goto(c, "test", "wait")
                     /\ Unlock(c)
                     /\ waiting' = waiting \cup {c}
                     /\ UNCHANGED <<workq, mp, next, heap, alive>>

\* the while loop: wait gives up the mutex and blocks in one step
CondWait(c) == /\ workq = <<>>
               /\ Goto(c, "test", "wait")
               /\ Unlock(c)
               /\ waiting' = waiting \cup {c}
               /\ UNCHANGED <<workq, mp, next, heap, alive>>

NotEmpty(c) == /\ workq # <<>>
               /\ Goto(c, "test", "take")
               /\ UNCHANGED <<workq, qlock, waiting, mp, next, heap, alive>>

\* POSIX lets pthread_cond_wait return without a signal
SpuriousWakeup(c) == /\ c \in waiting
                     /\ Goto(c, "wait", "relock")
                     /\ waiting' = waiting \ {c}
                     /\ UNCHANGED <<workq, qlock, mp, next, heap, alive>>

ProcessTake(c) == /\ Goto(c, "take", "pop")
                  /\ mp' = [mp EXCEPT ![c] = Head(workq)]
                  /\ UNCHANGED <<workq, qlock, waiting, next, heap, alive>>

\* mutant: the message popped stays at the head of the list
ProcessPop_Kept(c) == /\ Goto(c, "pop", "unlock")
                      /\ UNCHANGED <<workq, qlock, waiting, mp, next, heap, alive>>

ProcessPop(c) == /\ Goto(c, "pop", "unlock")
                 /\ workq' = Tail(workq)
                 /\ UNCHANGED <<qlock, waiting, mp, next, heap, alive>>

ProcessUnlock(c) == /\ Goto(c, "unlock", "use")
                    /\ Unlock(c)
                    /\ UNCHANGED <<workq, waiting, mp, next, heap, alive>>

\* the message is printed, then both its blocks are freed outside the lock
ProcessFree(c) == /\ Goto(c, "use", "lock")
                  /\ heap' = heap \ {mp[c]}
                  /\ mp' = [mp EXCEPT ![c] = Null]
                  /\ UNCHANGED <<workq, qlock, waiting, next, alive>>

-----------------------------------------------------------------------------

\* nothing runs in a process that has exited
Exited == ~alive /\ UNCHANGED vars

cond_test1 == \/ \E c \in Pool : CreateThread(c)
              \/ PoolCreated
              \/ \E b \in Blocks : Malloc(b)
              \/ EnqueueLock
              \/ EnqueueLink
              \/ EnqueuePublish
              \/ EnqueueUnlock
              \/ EnqueueSignal

process_msg(c) == \/ ProcessLock(c)
                  \/ CondWait(c)
                  \/ NotEmpty(c)
                  \/ ProcessTake(c)
                  \/ ProcessPop(c)
                  \/ ProcessUnlock(c)
                  \/ ProcessFree(c)

Next == \/ cond_test1
        \/ ErrRet
        \/ \E c \in Pool : process_msg(c) \/ SpuriousWakeup(c)
        \/ Exited

Spec == Init /\ [][Next]_vars

\* Every runnable thread is eventually scheduled.  The mutex promises no order,
\* but each holder sleeps for seconds (1 s in cond_test1, 5 s in process_msg)
\* before it locks again, so a thread that finds the mutex free again and again
\* gets it: strong fairness of the two lock steps.  Nothing is assumed of
\* failures and spurious wakeups.
Fairness == /\ WF_vars(cond_test1)
            /\ SF_vars(EnqueueLock)
            /\ \A c \in Pool : /\ WF_vars(process_msg(c))
                               /\ SF_vars(ProcessLock(c))

FairSpec == Spec /\ Fairness

-----------------------------------------------------------------------------
(* Properties *)

Locked(t) == IF t = Main THEN {"link", "publish", "unlock"}
                         ELSE {"test", "take", "pop", "unlock"}

Queued == Range(workq)

\* the block enqueue_msg has not published yet, and the block a pool thread has
\* unlinked: each is reachable through that thread's mp only
Private(t) == IF t = Main THEN pc[t] \in {"lock", "link", "publish"}
                          ELSE pc[t] \in {"unlock", "use"}

\* Every variable keeps its range; what malloc or the list hands out is a
\* block and never a null pointer (the checks of malloc's results).
TypeOK == /\ pc \in [Threads -> {"create", "malloc", "lock", "link", "publish",
                                 "unlock", "signal", "none", "test", "wait",
                                 "relock", "take", "pop", "use"}]
          /\ pc[Main] \in {"create", "malloc", "lock", "link", "publish",
                           "unlock", "signal"}
          /\ \A c \in Pool : pc[c] \in {"none", "lock", "test", "wait", "relock",
                                       "take", "pop", "unlock", "use"}
          /\ workq \in Seq(Blocks)
          /\ qlock \in Threads \cup {Null}
          /\ waiting \in SUBSET Pool
          /\ mp \in [Threads -> Blocks \cup {Null}]
          /\ next \in Seq(Blocks)
          /\ heap \in SUBSET Blocks
          /\ alive \in BOOLEAN

\* A pool thread that has left the while loop finds a message: process_msg never
\* reads m_next through a null workq, whatever woke it and whoever popped first.
TakeNonEmpty == \A c \in Pool : pc[c] \in {"take", "pop"} => workq # <<>>

\* Every allocated block is reachable from exactly one place (the list, the
\* message being enqueued, or one pool thread processing it), and what is
\* reachable is allocated: no message is processed or freed twice, none is
\* read after free, none leaks.
UniqueOwner ==
  /\ \A i, j \in DOMAIN workq : workq[i] = workq[j] => i = j
  /\ \A t \in Threads : Private(t) => mp[t] \notin Queued
  /\ \A t, u \in Threads : Private(t) /\ Private(u) /\ mp[t] = mp[u] => t = u
  /\ heap = Queued \cup {mp[t] : t \in {u \in Threads : Private(u)}}

\* Signalling after the unlock loses no wakeup: while messages are queued,
\* either some pool thread is not blocked on qready or the enqueuer has yet to
\* signal.
NoLostWakeup == workq # <<>> /\ Pool \subseteq waiting
                  => pc[Main] \in {"unlock", "signal"}

\* The list is promised to behave as an atomic stack of messages with unique
\* owners: a message enters it when it is published and leaves it at the pop.
MsgStack == INSTANCE MessageStack WITH
  stack <- workq,
  fresh <- IF Private(Main) THEN mp[Main] ELSE Null,
  held  <- [c \in Pool |-> IF Private(c) THEN mp[c] ELSE Null],
  open  <- alive

Refines == MsgStack!Spec

\* Queued messages do not wait for ever with the pool asleep: some thread pops
\* the list again, unless the process exits.
QueueServed == workq # <<>> ~> (~alive \/ \E c \in Pool : pc[c] = "pop")

=============================================================================
