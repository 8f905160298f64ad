------------------------------- MODULE JobQueue -------------------------------
(***************************************************************************)
(* The job queue of ch7_12_process/lock_test4.c: a doubly linked list under *)
(* a read-write lock, so that each of job_insert, job_append and job_remove *)
(* is one step; job_find walks the list under the read lock, one node per   *)
(* step, while other readers walk too.  The file has no callers.  Its       *)
(* clients put a job that is not queued, and may put it again after they     *)
(* removed it; they remove a job they have put and not removed.  Ops says    *)
(* which operations they use.                                                *)
(***************************************************************************)
EXTENDS Naturals, Sequences, SequencesExt

CONSTANTS Jobs,     \* the jobs
          Finders,  \* the threads running job_find
          Ops,      \* {"insert", "append", "remove_end", "remove_middle"} or less
          NULL

\* no job is at address 0
QueueAssumption == NULL \notin Jobs

VARIABLES q_head, q_tail,
          j_next, j_prev,
          queued,   \* history: the jobs put and not removed, in the order asked for
          relinked, \* history: a job was put while a link still named it
          damaged,  \* history: an append, or a removal from the middle, was done
          at,       \* the node each job_find has reached; NULL: it is not running
          crashed   \* a null pointer was followed

vars == <<q_head, q_tail, j_next, j_prev, queued, damaged, relinked, at, crashed>>

\* queue_init
Init == /\ q_head = NULL
        /\ q_tail = NULL
        /\ j_next = [j \in Jobs |-> NULL]
        /\ j_prev = [j \in Jobs |-> NULL]
        /\ queued = <<>>
        /\ damaged = FALSE
        /\ relinked = FALSE
        /\ at = [f \in Finders |-> NULL]
        /\ crashed = FALSE

\* mutant: a writer does not wait for the readers
WriteLock_Shared == ~crashed

\* the write lock: no job_find is inside
WriteLock == ~crashed /\ \A f \in Finders : at[f] = NULL

\* a pointer of the list, or of a job in it or out of it, is the job's address
Named(j) == j \in {q_head, q_tail} \/ \E k \in Jobs : j \in {j_next[k], j_prev[k]}

job_insert(j) ==
  /\ "insert" \in Ops
  /\ WriteLock
  /\ ~Contains(queued, j)
  /\ j_next' = [j_next EXCEPT ![j] = q_head]
  /\ j_prev' = [k \in Jobs |-> IF k = j THEN NULL ELSE IF k = q_head THEN j ELSE j_prev[k]]
  /\ q_tail' = IF q_head = NULL THEN j ELSE q_tail
  /\ q_head' = j
  /\ queued' = <<j>> \o queued
  /\ relinked' = (relinked \/ Named(j))
  /\ UNCHANGED <<damaged, at, crashed>>

\* q_tail moves only if the list was empty, q_head always
job_append(j) ==
  /\ "append" \in Ops
  /\ WriteLock
  /\ ~Contains(queued, j)
  /\ j_prev' = [j_prev EXCEPT ![j] = q_tail]
  /\ j_next' = [k \in Jobs |-> IF k = j THEN NULL ELSE IF k = q_tail THEN j ELSE j_next[k]]
  /\ q_tail' = IF q_tail = NULL THEN j ELSE q_tail
  /\ q_head' = j
  /\ queued' = Append(queued, j)
  /\ relinked' = (relinked \/ Named(j))
  /\ damaged' = (damaged \/ queued # <<>>)
  /\ UNCHANGED <<at, crashed>>

\* jp->j_next->j_prev = ... or jp->j_prev->j_next = ..., which crash at NULL
Relink(links, k, to) == IF k = NULL
                          THEN crashed' = TRUE /\ UNCHANGED links
                          ELSE links' = [links EXCEPT ![k] = to] /\ UNCHANGED crashed

RemoveHead(j) == /\ j = q_head
                 /\ q_head' = j_next[j]
                 /\ IF j = q_tail
                      THEN q_tail' = NULL /\ UNCHANGED <<j_prev, crashed>>
                      ELSE Relink(j_prev, j_next[j], j_prev[j]) /\ UNCHANGED q_tail
                 /\ UNCHANGED j_next

RemoveTail(j) == /\ j # q_head
                 /\ j = q_tail
                 /\ q_tail' = j_prev[j]
                 /\ Relink(j_next, j_prev[j], j_next[j])
                 /\ UNCHANGED <<q_head, j_prev>>

\* The branch for a job in the middle assigns to the job's own links: jp->j_prev becomes
\* jp->j_next->j_prev, in an undamaged list jp itself, and jp->j_next what it is.
RemoveMiddle(j) == /\ j \notin {q_head, q_tail}
                   /\ IF j_next[j] = NULL
                        THEN crashed' = TRUE /\ UNCHANGED <<j_prev, j_next>>
                        ELSE LET p == j_prev[j_next[j]] IN
                             /\ j_prev' = [j_prev EXCEPT ![j] = p]
                             /\ IF p = NULL
                                  THEN crashed' = TRUE /\ UNCHANGED j_next
                                  ELSE j_next' = [j_next EXCEPT ![j] = j_next[p]] /\ UNCHANGED crashed
                   /\ UNCHANGED <<q_head, q_tail>>

job_remove(j) ==
  /\ WriteLock
  /\ Contains(queued, j)
  /\ IF j \in {q_head, q_tail} THEN "remove_end" \in Ops ELSE "remove_middle" \in Ops
  /\ RemoveHead(j) \/ RemoveTail(j) \/ RemoveMiddle(j)
  /\ queued' = RemoveFirst(queued, j)
  /\ damaged' = (damaged \/ j \notin {q_head, q_tail})
  /\ UNCHANGED <<relinked, at>>

\* job_find takes the read lock and starts at the head; an empty queue is left
FindStart(f) == /\ ~crashed
                /\ at[f] = NULL
                /\ q_head # NULL
                /\ at' = [at EXCEPT ![f] = q_head]
                /\ UNCHANGED <<q_head, q_tail, j_next, j_prev, queued, damaged, relinked, crashed>>

\* the job is found here, or the walk goes on, and ends at NULL
FindStep(f) == /\ ~crashed
               /\ at[f] # NULL
               /\ \E to \in {NULL, j_next[at[f]]} : at' = [at EXCEPT ![f] = to]
               /\ UNCHANGED <<q_head, q_tail, j_next, j_prev, queued, damaged, relinked, crashed>>

Crashed == crashed /\ UNCHANGED vars

Next == \/ \E j \in Jobs : job_insert(j) \/ job_append(j) \/ job_remove(j)
        \/ \E f \in Finders : FindStart(f) \/ FindStep(f)
        \/ Crashed

Spec == Init /\ [][Next]_vars

-----------------------------------------------------------------------------

\* As long as job_append is used on an empty queue only and job_remove at the ends
\* only, the list is the queue its clients asked for: both chains of pointers run
\* through the queued jobs, in order, and end at q_head and q_tail; no pointer is
\* followed to NULL.
ListFaithful ==
  LET n == Len(queued) IN
  ~damaged =>
    /\ q_head = IF n = 0 THEN NULL ELSE queued[1]
    /\ q_tail = IF n = 0 THEN NULL ELSE queued[n]
    /\ \A i \in 1..n : /\ j_next[queued[i]] = IF i = n THEN NULL ELSE queued[i + 1]
                       /\ j_prev[queued[i]] = IF i = 1 THEN NULL ELSE queued[i - 1]
    /\ ~crashed

\* The walk of job_find from q_head ends: no set of jobs with q_head is closed under
\* j_next.  In an undamaged list, whatever jobs are put again; in a damaged one, as long
\* as none is put while a link names it.  (That one makes a cycle: job_remove leaves
\* a job of the middle linked, job_insert links it to q_head, which leads back to it.)
FindEnds == ~damaged \/ ~relinked =>
              \A S \in SUBSET Jobs : q_head \in S => \E j \in S : j_next[j] \notin S

\* A job that job_find looks at is queued: the write lock keeps job_remove, whose
\* caller may free the job, away until every reader has left.
FindOnQueued == ~damaged => \A f \in Finders : at[f] # NULL => at[f] \in Range(queued)

\* "append a job on the tail of the queue" (lock_test4.c:49): the tail is the job
\* appended last.
AppendsAtTail == queued # <<>> => q_tail = Last(queued)

\* "remove a given job from a queue" (lock_test4.c:63): what is linked into the
\* list is queued.
RemovedIsGone == \A i \in DOMAIN queued : j_next[queued[i]] \in Range(queued) \cup {NULL}

=============================================================================
