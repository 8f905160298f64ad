-------------------------------- MODULE Tables --------------------------------
(***************************************************************************)
(* The three lock tests whose data is shared: the object of lock_test1      *)
(* (FooRef), the table of lock_test3 (FooCoarse) and the queue of lock_test4 *)
(* (JobQueue).  The programs do not interact: a behaviour is one of one of   *)
(* them, while the others stand still.                                       *)
(***************************************************************************)
EXTENDS FooRef

CONSTANTS Workers,                 \* the threads that use the table
          Objs, Ids, NHASH, MaxStored,
          Jobs, Finders

VARIABLES program,
          ref, stored, freeing, hashlock, fh, count, f_id, heap,
          q_head, q_tail, j_next, j_prev, queued, damaged, relinked, at, crashed

lock_test1 == vars
lock_test3 == <<ref, stored, freeing, hashlock, fh, count, f_id, heap>>
lock_test4 == <<q_head, q_tail, j_next, j_prev, queued, damaged, relinked, at, crashed>>

Table == INSTANCE FooCoarse WITH Threads <- Workers, f_count <- count

Queue == INSTANCE JobQueue WITH
           NULL <- Null, Ops <- {"insert", "append", "remove_end", "remove_middle"}

ASSUME TablesAssumption == Table!TableAssumption /\ Queue!QueueAssumption

TablesInit == program \in {"lock_test1", "lock_test3", "lock_test4"} /\ Init /\ Table!Init /\ Queue!Init

TablesNext ==
  \/ program = "lock_test1" /\ Next /\ UNCHANGED <<program, lock_test3, lock_test4>>
  \/ program = "lock_test3" /\ Table!Next /\ UNCHANGED <<program, lock_test1, lock_test4>>
  \/ program = "lock_test4" /\ Queue!Next /\ UNCHANGED <<program, lock_test1, lock_test3>>

TablesSpec == TablesInit /\ [][TablesNext]_<<program, lock_test1, lock_test3, lock_test4>>

\* The table has no dangling pointer, in a chain or in the hand of a client, and
\* the counts of its objects are the references there are.
TableSound == Table!ChainsSound /\ Table!CountExact

\* The list is the queue its clients asked for while they use the sound operations;
\* job_find then ends and looks only at queued jobs, and ends in a damaged list too if
\* no job is put back while a link names it.
QueueSound == Queue!ListFaithful /\ Queue!FindEnds /\ Queue!FindOnQueued

=============================================================================
