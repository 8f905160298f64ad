----------------------------- MODULE Tables_proofs -----------------------------
(***************************************************************************)
(* Theorems about FooRef, for any finite set of threads, and about Tables:   *)
(* what FooCoarse_proofs and JobQueue_proofs show of the table and of the     *)
(* queue holds of them in this composition.                                  *)
(***************************************************************************)
EXTENDS Tables, FiniteSetTheorems, TLAPS

T == INSTANCE FooCoarse_proofs WITH Threads <- Workers, f_count <- count

Q == INSTANCE JobQueue_proofs WITH
       NULL <- Null, Ops <- {"insert", "append", "remove_end", "remove_middle"}

-----------------------------------------------------------------------------
(* lock_test1 *)

Busy == {"holding", "releasing"}

\* While a thread is between its load and its store it owns the lock, and what it
\* loaded is still the count.
LockInv == \A t \in Threads : /\ pc[t] \in Busy <=> f_lock = t
                              /\ pc[t] \in Busy => tmp[t] = f_count

IInv == /\ TypeOK
        /\ LockInv
        /\ CountExact
        /\ ~freed

LEMMA HoldersFinite == IsFiniteSet(Holders)
  BY ThreadsAssumption, FS_Subset DEF Holders

LEMMA InitIInv == Init => IInv
  <1> SUFFICES ASSUME Init PROVE IInv
    OBVIOUS
  <1>1. Holders = {}
    BY DEF Init, Holders
  <1>2. CountExact
    BY <1>1, FS_EmptySet DEF Init, CountExact
  <1> QED
    BY <1>2, ThreadsAssumption DEF Init, IInv, TypeOK, LockInv, Busy

LEMMA StepIInv == IInv /\ [Next]_vars => IInv'
  <1> SUFFICES ASSUME IInv, [Next]_vars PROVE IInv'
    OBVIOUS
  <1>0. /\ Cardinality(Holders) \in Nat
        /\ f_count = 1 + Cardinality(Holders)
        /\ IsFiniteSet(Holders)
    BY HoldersFinite, FS_CardinalityType DEF IInv, CountExact
  <1> USE ThreadsAssumption DEF IInv, TypeOK, Goto, Lock, Load
  <1>1. ASSUME NEW t \in Threads, Create(t) PROVE IInv'
    <2>1. Holders' = Holders
      BY <1>1 DEF Create, Holders
    <2> QED
      BY <1>1, <2>1 DEF Create, LockInv, Busy, CountExact
  <1>2. CASE CreateFails
    <2>1. Holders' = Holders
      BY <1>2 DEF CreateFails, Holders
    <2> QED
      BY <1>2, <2>1 DEF CreateFails, LockInv, CountExact
  <1>3. ASSUME NEW t \in Threads, HoldLoad(t) PROVE IInv'
    <2>1. Holders' = Holders
      BY <1>3 DEF HoldLoad, Holders
    <2> QED
      BY <1>3, <2>1 DEF HoldLoad, LockInv, Busy, CountExact
  <1>4. ASSUME NEW t \in Threads, HoldStore(t) PROVE IInv'
    <2>1. Holders' = Holders \cup {t} /\ t \notin Holders
      BY <1>4 DEF HoldStore, Holders
    <2>2. Cardinality(Holders') = Cardinality(Holders) + 1
      BY <1>0, <2>1, FS_AddElement
    <2>3. f_count' = f_count + 1
      BY <1>4 DEF HoldStore, LockInv, Busy
    <2>4. CountExact'
      BY <1>0, <2>2, <2>3 DEF CountExact
    <2> QED
      BY <1>4, <2>3, <2>4 DEF HoldStore, LockInv, Busy
  <1>5. ASSUME NEW t \in Threads, Use(t) PROVE IInv'
    <2>1. Holders' = Holders
      BY <1>5 DEF Use, Holders
    <2> QED
      BY <1>5, <2>1 DEF Use, LockInv, Busy, CountExact
  <1>6. ASSUME NEW t \in Threads, ReleaseLoad(t) PROVE IInv'
    <2>1. Holders' = Holders
      BY <1>6 DEF ReleaseLoad, Holders
    <2> QED
      BY <1>6, <2>1 DEF ReleaseLoad, LockInv, Busy, CountExact
  <1>7. ASSUME NEW t \in Threads, ReleaseStore(t) PROVE IInv'
    <2>1. Holders' = Holders \ {t} /\ t \in Holders
      BY <1>7 DEF ReleaseStore, Holders
    <2>2. Cardinality(Holders') = Cardinality(Holders) - 1 /\ Cardinality(Holders) >= 1
      BY <1>0, <2>1, FS_RemoveElement, FS_EmptySet
    <2>3. f_count' = f_count - 1
      BY <1>7 DEF ReleaseStore, LockInv, Busy
    <2>4. CountExact' /\ f_count' \in Nat /\ f_count' >= 1
      BY <1>0, <2>2, <2>3 DEF CountExact
    <2> QED
      BY <1>7, <2>3, <2>4 DEF ReleaseStore, LockInv, Busy
  <1>8. CASE UNCHANGED vars
    BY <1>8 DEF vars, Holders, LockInv, CountExact
  <1> QED
    BY <1>1, <1>2, <1>3, <1>4, <1>5, <1>6, <1>7, <1>8 DEF Next, thread_entry, Exited

THEOREM Invariance == Spec => []IInv
  BY InitIInv, StepIInv, PTL DEF Spec

\* f_count counts lock_test1's reference and the holders exactly.
THEOREM CountIsExact == Spec => []CountExact
  BY Invariance, PTL DEF IInv

\* The object is never freed under a running thread.
THEOREM NotFreedInUse == Spec => []NeverFreedInUse
  <1>1. IInv => NeverFreedInUse
    BY DEF IInv, NeverFreedInUse
  <1> QED
    BY Invariance, <1>1, PTL

-----------------------------------------------------------------------------
(* The composition: what is called T! and Q! in the theorems is what Tables calls Table! and Queue! *)

LEMMA SameTable == /\ T!TableAssumption <=> Table!TableAssumption
                   /\ T!Init <=> Table!Init
                   /\ T!Next <=> Table!Next
                   /\ T!ChainsSound <=> Table!ChainsSound
                   /\ T!CountExact <=> Table!CountExact
  <1>1. T!TableAssumption <=> Table!TableAssumption
    BY DEF T!TableAssumption, Table!TableAssumption, T!IsFiniteSet, Table!IsFiniteSet
  <1>2. T!Init <=> Table!Init
    BY DEF T!Init, Table!Init
  <1>3. T!ChainsSound <=> Table!ChainsSound
    BY DEF T!ChainsSound, Table!ChainsSound, T!HASH, Table!HASH
  <1>4. T!CountExact <=> Table!CountExact
    <2>1. \A S : T!Cardinality(S) = Table!Cardinality(S)
      BY DEF T!Cardinality, Table!Cardinality, T!IsFiniteSet, Table!IsFiniteSet
    <2> QED
      BY <2>1 DEF T!CountExact, Table!CountExact, T!HASH, Table!HASH, T!Contains, Table!Contains
  <1>5. ASSUME NEW t \in Workers
        PROVE  /\ T!foo_hold(t) <=> Table!foo_hold(t)
               /\ T!Adopt(t) <=> Table!Adopt(t)
               /\ T!foo_release(t) <=> Table!foo_release(t)
               /\ T!foo_free(t) <=> Table!foo_free(t)
    <2>1. \A s, o : T!RemoveFirst(s, o) = Table!RemoveFirst(s, o)
      BY DEF T!RemoveFirst, T!RemoveAt, T!SelectInSeq, T!Min, Table!RemoveFirst, Table!RemoveAt, Table!SelectInSeq, Table!Min
    <2> QED
      BY <2>1 DEF T!foo_hold, T!Adopt, T!foo_release, T!foo_free, T!Free, T!HASH,
                  Table!foo_hold, Table!Adopt, Table!foo_release, Table!foo_free, Table!Free, Table!HASH
  <1>6. ASSUME NEW t \in Workers, NEW id \in Ids
        PROVE  /\ T!foo_alloc(t, id) <=> Table!foo_alloc(t, id)
               /\ T!foo_find_Hit(t, id) <=> Table!foo_find_Hit(t, id)
               /\ T!foo_find_Miss(t, id) <=> Table!foo_find_Miss(t, id)
    BY DEF T!foo_alloc, T!foo_find_Hit, T!foo_find_Miss, T!Free, T!HASH, T!Chained, T!vars,
           Table!foo_alloc, Table!foo_find_Hit, Table!foo_find_Miss, Table!Free, Table!HASH, Table!Chained, Table!vars
  <1>7. T!Next <=> Table!Next
    BY <1>5, <1>6 DEF T!Next, Table!Next
  <1> QED
    BY <1>1, <1>2, <1>3, <1>4, <1>7

LEMMA SameQueue == /\ Q!QueueAssumption <=> Queue!QueueAssumption
                   /\ Q!Init <=> Queue!Init
                   /\ Q!Next <=> Queue!Next
                   /\ Q!ListFaithful <=> Queue!ListFaithful
                   /\ Q!FindEnds <=> Queue!FindEnds
                   /\ Q!FindOnQueued <=> Queue!FindOnQueued
  <1>1. Q!QueueAssumption <=> Queue!QueueAssumption
    BY DEF Q!QueueAssumption, Queue!QueueAssumption
  <1>2. Q!Init <=> Queue!Init
    BY DEF Q!Init, Queue!Init
  <1>3. Q!ListFaithful <=> Queue!ListFaithful
    BY DEF Q!ListFaithful, Queue!ListFaithful
  <1>4. Q!FindEnds <=> Queue!FindEnds
    BY DEF Q!FindEnds, Queue!FindEnds
  <1>5. Q!FindOnQueued <=> Queue!FindOnQueued
    BY DEF Q!FindOnQueued, Queue!FindOnQueued, Q!Range, Queue!Range
  <1>6. ASSUME NEW j \in Jobs
        PROVE  /\ Q!job_insert(j) <=> Queue!job_insert(j)
               /\ Q!job_append(j) <=> Queue!job_append(j)
               /\ Q!job_remove(j) <=> Queue!job_remove(j)
    <2>1. Q!job_insert(j) <=> Queue!job_insert(j)
      BY DEF Q!job_insert, Q!WriteLock, Q!Contains, Q!Named,
             Queue!job_insert, Queue!WriteLock, Queue!Contains, Queue!Named
    <2>2. Q!job_append(j) <=> Queue!job_append(j)
      BY DEF Q!job_append, Q!WriteLock, Q!Contains, Q!Named,
             Queue!job_append, Queue!WriteLock, Queue!Contains, Queue!Named
    <2>3. Q!RemoveHead(j) <=> Queue!RemoveHead(j)
      BY DEF Q!RemoveHead, Q!Relink, Queue!RemoveHead, Queue!Relink
    <2>4. Q!RemoveTail(j) <=> Queue!RemoveTail(j)
      BY DEF Q!RemoveTail, Q!Relink, Queue!RemoveTail, Queue!Relink
    <2>5. Q!RemoveMiddle(j) <=> Queue!RemoveMiddle(j)
      BY DEF Q!RemoveMiddle, Queue!RemoveMiddle
    <2>6. Q!RemoveFirst(queued, j) = Queue!RemoveFirst(queued, j)
      BY DEF Q!RemoveFirst, Q!RemoveAt, Q!SelectInSeq, Q!Min, Queue!RemoveFirst, Queue!RemoveAt, Queue!SelectInSeq, Queue!Min
    <2>7. Q!job_remove(j) <=> Queue!job_remove(j)
      BY <2>3, <2>4, <2>5, <2>6 DEF Q!job_remove, Q!WriteLock, Q!Contains,
                                    Queue!job_remove, Queue!WriteLock, Queue!Contains
    <2> QED
      BY <2>1, <2>2, <2>7
  <1>7. ASSUME NEW f \in Finders
        PROVE  /\ Q!FindStart(f) <=> Queue!FindStart(f)
               /\ Q!FindStep(f) <=> Queue!FindStep(f)
    BY DEF Q!FindStart, Q!FindStep, Queue!FindStart, Queue!FindStep
  <1>8. Q!Crashed <=> Queue!Crashed
    BY DEF Q!Crashed, Q!vars, Queue!Crashed, Queue!vars
  <1>9. Q!Next <=> Queue!Next
    BY <1>6, <1>7, <1>8 DEF Q!Next, Queue!Next
  <1> QED
    BY <1>1, <1>2, <1>3, <1>4, <1>5, <1>9

\* Each step of the composition is a step of each of the programs, or leaves it alone.
LEMMA TablesRefine == TablesSpec => Spec /\ T!Spec /\ Q!Spec
  <1>1. TablesInit => Init /\ T!Init /\ Q!Init
    BY SameTable, SameQueue DEF TablesInit
  <1> SUFFICES [TablesNext]_<<program, lock_test1, lock_test3, lock_test4>>
                 => [Next]_vars /\ [T!Next]_(T!vars) /\ [Q!Next]_(Q!vars)
    BY <1>1, PTL DEF TablesSpec, Spec, T!Spec, Q!Spec
  <1>2. lock_test1 = vars /\ lock_test3 = T!vars /\ lock_test4 = Q!vars
    BY DEF lock_test1, lock_test3, lock_test4, T!vars, Q!vars
  <1> QED
    BY <1>2, SameTable, SameQueue DEF TablesNext, lock_test1, lock_test3, lock_test4, T!vars, Q!vars

\* In the composition too f_count counts the holders, and the object is not freed in use.
THEOREM ObjectSound == TablesSpec => [](CountExact /\ NeverFreedInUse)
  BY TablesRefine, CountIsExact, NotFreedInUse, PTL

\* The table is sound for every number of threads, blocks, ids and chains.
THEOREM TableIsSound == TablesSpec => []TableSound
  <1>1. T!Spec => [](T!ChainsSound) /\ [](T!CountExact)
    BY TablesAssumption, SameTable, T!ChainsAreSound, T!CountsAreExact
  <1>2. T!ChainsSound /\ T!CountExact => TableSound
    BY SameTable DEF TableSound
  <1> QED
    BY <1>1, <1>2, TablesRefine, PTL

\* The queue is sound for every number of jobs and of threads in job_find.
THEOREM QueueIsSound == TablesSpec => []QueueSound
  <1>1. Q!Spec => [](Q!ListFaithful) /\ [](Q!FindEnds) /\ [](Q!FindOnQueued)
    BY TablesAssumption, SameQueue, Q!ListIsFaithful, Q!FindAlwaysEnds, Q!FindsQueued
  <1>2. Q!ListFaithful /\ Q!FindEnds /\ Q!FindOnQueued => QueueSound
    BY SameQueue DEF QueueSound
  <1> QED
    BY <1>1, <1>2, TablesRefine, PTL

=============================================================================
