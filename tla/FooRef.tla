-------------------------------- MODULE FooRef --------------------------------
(***************************************************************************)
(* The reference counted object of ch7_12_process/lock_test1.c.  lock_test1 *)
(* allocates one struct foo, keeps the first reference and starts threads   *)
(* that hold, read and release the object for ever.  ++ and -- of f_count   *)
(* are a load and a store.                                                  *)
(***************************************************************************)
EXTENDS Naturals, FiniteSets

CONSTANTS Threads, Null

ASSUME ThreadsAssumption == IsFiniteSet(Threads) /\ Null \notin Threads

VARIABLES pc,       \* where each thread is in its loop
          f_count,  \* fp->f_count
          tmp,      \* the value each thread loaded from f_count
          f_lock,   \* the owner of fp->f_lock, or Null
          freed,    \* fp has been destroyed and freed
          alive     \* the process has not exited

vars == <<pc, f_count, tmp, f_lock, freed, alive>>

Init == /\ pc = [t \in Threads |-> "none"]
        /\ f_count = 1
        /\ tmp = [t \in Threads |-> 0]
        /\ f_lock = Null
        /\ freed = FALSE
        /\ alive = TRUE

Goto(t, from, to) == alive /\ pc[t] = from /\ pc' = [pc EXCEPT ![t] = to]

\* lock_test1: pthread_create, or err_ret out of lock_test1 and main
Create(t) == Goto(t, "none", "hold") /\ UNCHANGED <<f_count, tmp, f_lock, freed, alive>>

CreateFails == /\ \E t \in Threads : pc[t] = "none"
               /\ alive
               /\ alive' = FALSE
               /\ UNCHANGED <<pc, f_count, tmp, f_lock, freed>>

Lock(t) == f_lock = Null /\ f_lock' = t
Load(t) == tmp' = [tmp EXCEPT ![t] = f_count]

\* mutant: the count is loaded without the lock
HoldLoad_Racy(t) == /\ Goto(t, "hold", "holding")
                    /\ Load(t)
                    /\ UNCHANGED <<f_count, f_lock, freed, alive>>

\* foo_hold
HoldLoad(t) == /\ Goto(t, "hold", "holding")
               /\ Lock(t)
               /\ Load(t)
               /\ UNCHANGED <<f_count, freed, alive>>

HoldStore(t) == /\ Goto(t, "holding", "use")
                /\ f_count' = tmp[t] + 1
                /\ f_lock' = Null
                /\ UNCHANGED <<tmp, freed, alive>>

\* the printf of thread_entry reads f_id and, without the lock, f_count
Use(t) == Goto(t, "use", "release") /\ UNCHANGED <<f_count, tmp, f_lock, freed, alive>>

\* foo_release: whoever takes the count to 0 unlocks, destroys and frees
ReleaseLoad(t) == /\ Goto(t, "release", "releasing")
                  /\ Lock(t)
                  /\ Load(t)
                  /\ UNCHANGED <<f_count, freed, alive>>

\* mutant: the last reference is believed to be gone one release early
ReleaseStore_Early(t) == /\ Goto(t, "releasing", "hold")
                         /\ f_count' = tmp[t] - 1
                         /\ f_lock' = Null
                         /\ freed' = (freed \/ f_count' <= 1)
                         /\ UNCHANGED <<tmp, alive>>

ReleaseStore(t) == /\ Goto(t, "releasing", "hold")
                   /\ f_count' = tmp[t] - 1
                   /\ f_lock' = Null
                   /\ freed' = (freed \/ f_count' = 0)
                   /\ UNCHANGED <<tmp, alive>>

Exited == ~alive /\ UNCHANGED vars

thread_entry(t) == HoldLoad(t) \/ HoldStore(t) \/ Use(t) \/ ReleaseLoad(t) \/ ReleaseStore(t)

Next == \/ CreateFails
        \/ \E t \in Threads : Create(t) \/ thread_entry(t)
        \/ Exited

Spec == Init /\ [][Next]_vars

-----------------------------------------------------------------------------

Holders == {t \in Threads : pc[t] \in {"use", "release", "releasing"}}

\* Types; a count is never taken below zero.
TypeOK == /\ pc \in [Threads -> {"none", "hold", "holding", "use", "release", "releasing"}]
          /\ f_count \in Nat
          /\ tmp \in [Threads -> Nat]
          /\ f_lock \in Threads \cup {Null}
          /\ freed \in BOOLEAN
          /\ alive \in BOOLEAN

\* f_count is the reference lock_test1 keeps plus one for every thread between
\* its hold and its release, whatever the interleaving of the loads and stores.
CountExact == f_count = 1 + Cardinality(Holders)

\* "make sure the memory has not been freed before the last thread accesses it"
\* (lock_test1.c:5-7): threads dereference fp from their first step on.
NeverFreedInUse == (\E t \in Threads : pc[t] # "none") => ~freed

=============================================================================
