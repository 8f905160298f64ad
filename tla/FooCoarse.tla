------------------------------ MODULE FooCoarse ------------------------------
(***************************************************************************)
(* The object table of ch7_12_process/lock_test3.c: reference counted       *)
(* objects in hash chains, all of it under the one mutex hashlock, so that  *)
(* a critical section is one step.  The file has no callers: its clients    *)
(* are threads that keep to its protocol.  A thread works with at most one  *)
(* reference (a bound); foo_hold makes a further one, which is stored and   *)
(* may be adopted by any thread.                                            *)
(***************************************************************************)
EXTENDS Naturals, FiniteSets, SequencesExt

CONSTANTS Threads,
          Objs,      \* the blocks malloc hands out (a bound)
          Ids,       \* the f_id of objects, numbers
          NHASH,     \* the length of fh
          MaxStored, \* the stored references to an object (a bound)
          Null

\* any threads, an index for every id, and no block at Null
TableAssumption == /\ IsFiniteSet(Threads)
                   /\ Ids \subseteq Nat /\ Ids # {}
                   /\ NHASH \in Nat \ {0}
                   /\ Null \notin Objs

VARIABLES ref,       \* the reference each thread has, or Null
          stored,    \* the references to each object that no thread has
          freeing,   \* the object each thread unlinked and is about to free
          hashlock,  \* the thread blocked while it owns hashlock, or Null
          fh,        \* the chains
          f_count,
          f_id,
          heap       \* the blocks in use

vars == <<ref, stored, freeing, hashlock, fh, f_count, f_id, heap>>

HASH(id) == id % NHASH

Init == /\ ref = [t \in Threads |-> Null]
        /\ stored = [o \in Objs |-> 0]
        /\ freeing = [t \in Threads |-> Null]
        /\ hashlock = Null
        /\ fh = [i \in 0..(NHASH - 1) |-> <<>>]
        /\ f_count = [o \in Objs |-> 0]
        /\ f_id = [o \in Objs |-> CHOOSE id \in Ids : TRUE]
        /\ heap = {}

\* a thread between two calls, and the mutex free for it
Free(t) == hashlock = Null /\ freeing[t] = Null

\* foo_alloc: a new object with one reference, at the head of its chain
foo_alloc(t, id) ==
  /\ Free(t)
  /\ ref[t] = Null
  /\ \E o \in Objs \ heap :
       /\ heap' = heap \cup {o}
       /\ f_count' = [f_count EXCEPT ![o] = 1]
       /\ f_id' = [f_id EXCEPT ![o] = id]
       /\ fh' = [fh EXCEPT ![HASH(id)] = <<o>> \o @]
       /\ ref' = [ref EXCEPT ![t] = o]
  /\ UNCHANGED <<stored, freeing, hashlock>>

foo_hold(t) ==
  /\ Free(t)
  /\ ref[t] # Null
  /\ stored[ref[t]] < MaxStored
  /\ f_count' = [f_count EXCEPT ![ref[t]] = @ + 1]
  /\ stored' = [stored EXCEPT ![ref[t]] = @ + 1]
  /\ UNCHANGED <<ref, freeing, hashlock, fh, f_id, heap>>

\* a client takes over a stored reference: no call
Adopt(t) ==
  /\ ref[t] = Null
  /\ freeing[t] = Null
  /\ hashlock # t
  /\ \E o \in Objs : /\ stored[o] > 0
                     /\ stored' = [stored EXCEPT ![o] = @ - 1]
                     /\ ref' = [ref EXCEPT ![t] = o]
  /\ UNCHANGED <<freeing, hashlock, fh, f_count, f_id, heap>>

Chained(id) == \E i \in DOMAIN fh[HASH(id)] : f_id[fh[HASH(id)][i]] = id

\* foo_find of an id in the table: foo_hold locks hashlock again, which this
\* thread owns, and never returns
foo_find_Hit(t, id) ==
  /\ Free(t)
  /\ ref[t] = Null
  /\ Chained(id)
  /\ hashlock' = t
  /\ UNCHANGED <<ref, stored, freeing, fh, f_count, f_id, heap>>

\* foo_find of any other id returns a null pointer and changes nothing
foo_find_Miss(t, id) ==
  /\ Free(t)
  /\ ref[t] = Null
  /\ ~Chained(id)
  /\ UNCHANGED vars

\* mutant: an object that is not the head of its chain stays in it
foo_release_Head(t) ==
  /\ Free(t)
  /\ ref[t] # Null
  /\ LET o == ref[t]
         i == HASH(f_id[o])
     IN /\ f_count' = [f_count EXCEPT ![o] = @ - 1]
        /\ IF f_count'[o] = 0
             THEN /\ fh' = [fh EXCEPT ![i] = IF Head(@) = o THEN Tail(@) ELSE @]
                  /\ freeing' = [freeing EXCEPT ![t] = o]
             ELSE UNCHANGED <<fh, freeing>>
  /\ ref' = [ref EXCEPT ![t] = Null]
  /\ UNCHANGED <<stored, hashlock, f_id, heap>>

\* foo_release: the last reference unlinks the object under the mutex ...
foo_release(t) ==
  /\ Free(t)
  /\ ref[t] # Null
  /\ LET o == ref[t]
         i == HASH(f_id[o])
     IN /\ f_count' = [f_count EXCEPT ![o] = @ - 1]
        /\ IF f_count'[o] = 0
             THEN /\ fh' = [fh EXCEPT ![i] = RemoveFirst(@, o)]
                  /\ freeing' = [freeing EXCEPT ![t] = o]
             ELSE UNCHANGED <<fh, freeing>>
  /\ ref' = [ref EXCEPT ![t] = Null]
  /\ UNCHANGED <<stored, hashlock, f_id, heap>>

\* ... and frees it after giving the mutex up
foo_free(t) ==
  /\ freeing[t] # Null
  /\ heap' = heap \ {freeing[t]}
  /\ freeing' = [freeing EXCEPT ![t] = Null]
  /\ UNCHANGED <<ref, stored, hashlock, fh, f_count, f_id>>

Next == \E t \in Threads :
          \/ foo_hold(t) \/ Adopt(t) \/ foo_release(t) \/ foo_free(t)
          \/ \E id \in Ids : foo_alloc(t, id) \/ foo_find_Hit(t, id) \/ foo_find_Miss(t, id)

Spec == Init /\ [][Next]_vars

-----------------------------------------------------------------------------

\* Every object a client can reach, through a reference or through a chain, is
\* allocated, and a block is in one chain only, once, the one of its id: no
\* pointer of the table or of a client dangles when an object is freed outside
\* the mutex.
ChainsSound ==
  /\ \A i \in DOMAIN fh : \A k \in DOMAIN fh[i] :
       LET o == fh[i][k] IN
       /\ o \in heap
       /\ HASH(f_id[o]) = i
       /\ \A m \in DOMAIN fh[i] : fh[i][m] = o => m = k
       /\ \A t \in Threads : freeing[t] # o
  /\ \A t, u \in Threads : /\ ref[t] # Null => ref[t] \in heap
                           /\ freeing[t] # Null /\ freeing[t] = freeing[u] => t = u
                           /\ freeing[t] # Null => freeing[t] \in heap /\ ref[u] # freeing[t]

\* f_count counts the references that exist, and an object is in its chain as
\* long as there is one: what foo_release walks to is always there.
CountExact ==
  \A o \in Objs :
    /\ o \in heap => f_count[o] = stored[o] + Cardinality({t \in Threads : ref[t] = o})
    /\ o \in heap /\ f_count[o] > 0 => Contains(fh[HASH(f_id[o])], o)

\* No thread locks a mutex it owns already ("the same lock locked twice" is the
\* first cause of deadlock thread_test.c:335 warns of).
NeverRelocks == hashlock = Null

=============================================================================
