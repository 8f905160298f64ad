--------------------------- MODULE WorkQueue_proofs ---------------------------
(***************************************************************************)
(* Proofs about WorkQueue for every pool, every set of blocks and lists of *)
(* any length.                                                             *)
(***************************************************************************)
EXTENDS WorkQueue, TLAPS

\* The mutex protects what it should: a thread is in its critical section
\* exactly while it owns qlock.
MutexInv == \A t \in Threads : pc[t] \in Locked(t) <=> qlock = t

\* what the threads in the middle of enqueue_msg and of the pop know
WaitInv == waiting = {c \in Pool : pc[c] = "wait"}
LinkInv == pc[Main] = "publish" => next = workq
HeadInv == \A c \in Pool : pc[c] = "pop" => mp[c] = Head(workq)

\* a thread that owns a message outside the list has a block of the heap
BlockInv == \A t \in Threads : Private(t) => mp[t] \in Blocks

IInv == /\ TypeOK
        /\ MutexInv
        /\ WaitInv
        /\ BlockInv
        /\ LinkInv
        /\ TakeNonEmpty
        /\ HeadInv
        /\ UniqueOwner
        /\ NoLostWakeup

\* What holds of pushing on and popping from a list.
LEMMA PushFacts ==
  ASSUME NEW S, NEW s \in Seq(S), NEW e \in S
  PROVE  /\ <<e>> \o s \in Seq(S)
         /\ <<e>> \o s # <<>>
         /\ DOMAIN (<<e>> \o s) = 1..(Len(s) + 1)
         /\ (<<e>> \o s)[1] = e
         /\ \A i \in 1..Len(s) : (<<e>> \o s)[i + 1] = s[i]
         /\ Head(<<e>> \o s) = e
         /\ Tail(<<e>> \o s) = s
  OBVIOUS

LEMMA PopFacts ==
  ASSUME NEW S, NEW s \in Seq(S), s # <<>>
  PROVE  /\ Tail(s) \in Seq(S)
         /\ Head(s) \in S
         /\ Head(s) = s[1]
         /\ DOMAIN s = 1..Len(s)
         /\ Len(s) \in Nat \ {0}
         /\ DOMAIN Tail(s) = 1..(Len(s) - 1)
         /\ \A i \in 1..(Len(s) - 1) : Tail(s)[i] = s[i + 1]
  OBVIOUS

\* What the two operations do to the set of blocks in a list.
LEMMA PushElements ==
  ASSUME NEW S, NEW s \in Seq(S), NEW e \in S
  PROVE  Range(<<e>> \o s) = Range(s) \cup {e}
  <1> DEFINE p == <<e>> \o s
  <1>1. /\ DOMAIN p = 1..(Len(s) + 1)
        /\ DOMAIN s = 1..Len(s)
        /\ Len(s) \in Nat
        /\ p[1] = e
        /\ \A i \in 1..Len(s) : p[i + 1] = s[i]
    BY PushFacts
  <1> HIDE DEF p
  <1>2. ASSUME NEW x \in Range(p) PROVE x \in Range(s) \cup {e}
    <2>1. PICK i \in 1..(Len(s) + 1) : x = p[i]
      BY <1>1, <1>2 DEF Range
    <2>2. CASE i = 1
      BY <1>1, <2>1, <2>2
    <2>3. CASE i # 1
      <3>1. i - 1 \in 1..Len(s) /\ (i - 1) + 1 = i
        BY <1>1, <2>1, <2>3
      <3>2. x = s[i - 1]
        BY <1>1, <2>1, <3>1
      <3> QED
        BY <1>1, <3>1, <3>2 DEF Range
    <2> QED
      BY <2>2, <2>3
  <1>3. ASSUME NEW x \in Range(s) PROVE x \in Range(p)
    <2>1. PICK i \in 1..Len(s) : x = s[i]
      BY <1>1, <1>3 DEF Range
    <2>2. i + 1 \in DOMAIN p /\ p[i + 1] = x
      BY <1>1, <2>1
    <2> QED
      BY <2>2 DEF Range
  <1>4. e \in Range(p)
    <2>1. 1 \in DOMAIN p /\ p[1] = e
      BY <1>1
    <2> QED
      BY <2>1 DEF Range
  <1> QED
    BY <1>2, <1>3, <1>4 DEF p

LEMMA PushInjective ==
  ASSUME NEW S, NEW s \in Seq(S), NEW e \in S \ Range(s),
         \A i, j \in DOMAIN s : s[i] = s[j] => i = j
  PROVE  \A i, j \in DOMAIN (<<e>> \o s) : (<<e>> \o s)[i] = (<<e>> \o s)[j] => i = j
  <1> DEFINE p == <<e>> \o s
  <1>1. /\ DOMAIN p = 1..(Len(s) + 1)
        /\ DOMAIN s = 1..Len(s)
        /\ Len(s) \in Nat
        /\ p[1] = e
        /\ \A i \in 1..Len(s) : p[i + 1] = s[i]
    BY PushFacts
  <1> HIDE DEF p
  <1>2. \A i \in DOMAIN p : i # 1 => i - 1 \in DOMAIN s /\ p[i] = s[i - 1]
    <2>1. SUFFICES ASSUME NEW i \in DOMAIN p, i # 1
                   PROVE  i - 1 \in DOMAIN s /\ p[i] = s[i - 1]
      OBVIOUS
    <2>2. i - 1 \in 1..Len(s) /\ (i - 1) + 1 = i
      BY <1>1, <2>1
    <2> QED
      BY <1>1, <2>2
  <1>3. \A i \in DOMAIN s : s[i] # e
    BY DEF Range
  <1>4. SUFFICES ASSUME NEW i \in DOMAIN p, NEW j \in DOMAIN p, p[i] = p[j]
                 PROVE  i = j
    BY DEF p
  <1>5. CASE i = 1 \/ j = 1
    BY <1>1, <1>2, <1>3, <1>4, <1>5
  <1>6. CASE i # 1 /\ j # 1
    <2>1. i - 1 = j - 1
      BY <1>2, <1>4, <1>6
    <2> QED
      BY <1>1, <2>1
  <1> QED
    BY <1>5, <1>6

LEMMA PopElements ==
  ASSUME NEW S, NEW s \in Seq(S), s # <<>>,
         \A i, j \in DOMAIN s : s[i] = s[j] => i = j
  PROVE  /\ Range(Tail(s)) = Range(s) \ {Head(s)}
         /\ Head(s) \in Range(s)
  <1> DEFINE q == Tail(s)
  <1>1. /\ DOMAIN s = 1..Len(s)
        /\ Len(s) \in Nat \ {0}
        /\ DOMAIN q = 1..(Len(s) - 1)
        /\ Head(s) = s[1]
        /\ \A i \in 1..(Len(s) - 1) : q[i] = s[i + 1]
    BY PopFacts
  <1> HIDE DEF q
  <1>2. ASSUME NEW x \in Range(q) PROVE x \in Range(s) \ {Head(s)}
    <2>1. PICK i \in 1..(Len(s) - 1) : x = q[i]
      BY <1>1, <1>2 DEF Range
    <2>2. i + 1 \in DOMAIN s /\ x = s[i + 1] /\ i + 1 # 1 /\ 1 \in DOMAIN s
      BY <1>1, <2>1
    <2>3. x # s[1]
      BY <2>2
    <2> QED
      BY <1>1, <2>2, <2>3 DEF Range
  <1>3. ASSUME NEW x \in Range(s) \ {Head(s)} PROVE x \in Range(q)
    <2>1. PICK i \in 1..Len(s) : x = s[i]
      BY <1>1, <1>3 DEF Range
    <2>2. i # 1
      BY <1>1, <1>3, <2>1
    <2>3. i - 1 \in DOMAIN q /\ q[i - 1] = x
      <3>1. i - 1 \in 1..(Len(s) - 1) /\ (i - 1) + 1 = i
        BY <1>1, <2>1, <2>2
      <3> QED
        BY <1>1, <2>1, <3>1
    <2> QED
      BY <2>3 DEF Range
  <1>4. Head(s) \in Range(s)
    <2>1. 1 \in DOMAIN s /\ s[1] = Head(s)
      BY <1>1
    <2> QED
      BY <2>1 DEF Range
  <1> QED
    BY <1>2, <1>3, <1>4 DEF q

LEMMA TypeStep == IInv /\ [Next]_vars => TypeOK'
  <1> SUFFICES ASSUME IInv, [Next]_vars PROVE TypeOK'
    OBVIOUS
  <1> USE PoolAssumption DEF IInv, TypeOK, Threads, Goto, Lock, Unlock, BlockInv, LinkInv, TakeNonEmpty, Private
  <1>1. ASSUME NEW c \in Pool, CreateThread(c) PROVE TypeOK'
    BY <1>1 DEF CreateThread
  <1>2. CASE PoolCreated
    BY <1>2 DEF PoolCreated
  <1>3. ASSUME NEW b \in Blocks, Malloc(b) PROVE TypeOK'
    BY <1>3 DEF Malloc
  <1>4. CASE EnqueueLock
    BY <1>4 DEF EnqueueLock
  <1>5. CASE EnqueueLink
    BY <1>5 DEF EnqueueLink
  <1>6. CASE EnqueuePublish
    BY <1>6, PushFacts DEF EnqueuePublish
  <1>7. CASE EnqueueUnlock
    BY <1>7 DEF EnqueueUnlock
  <1>8. CASE EnqueueSignal
    BY <1>8 DEF EnqueueSignal
  <1>9. CASE ErrRet
    BY <1>9 DEF ErrRet
  <1>10. ASSUME NEW c \in Pool, ProcessLock(c) PROVE TypeOK'
    BY <1>10 DEF ProcessLock
  <1>11. ASSUME NEW c \in Pool, CondWait(c) PROVE TypeOK'
    BY <1>11 DEF CondWait
  <1>12. ASSUME NEW c \in Pool, NotEmpty(c) PROVE TypeOK'
    BY <1>12 DEF NotEmpty
  <1>13. ASSUME NEW c \in Pool, SpuriousWakeup(c) PROVE TypeOK'
    BY <1>13 DEF SpuriousWakeup
  <1>14. ASSUME NEW c \in Pool, ProcessTake(c) PROVE TypeOK'
    BY <1>14, PopFacts DEF ProcessTake
  <1>15. ASSUME NEW c \in Pool, ProcessPop(c) PROVE TypeOK'
    BY <1>15, PopFacts DEF ProcessPop
  <1>16. ASSUME NEW c \in Pool, ProcessUnlock(c) PROVE TypeOK'
    BY <1>16 DEF ProcessUnlock
  <1>17. ASSUME NEW c \in Pool, ProcessFree(c) PROVE TypeOK'
    BY <1>17 DEF ProcessFree
  <1>18. CASE UNCHANGED vars
    BY <1>18 DEF vars
  <1> QED
    BY <1>1, <1>2, <1>3, <1>4, <1>5, <1>6, <1>7, <1>8, <1>9, <1>10, <1>11, <1>12,
       <1>13, <1>14, <1>15, <1>16, <1>17, <1>18 DEF Next, cond_test1, process_msg, Exited

LEMMA MutexStep == IInv /\ [Next]_vars => MutexInv'
  <1> SUFFICES ASSUME IInv, [Next]_vars PROVE MutexInv'
    OBVIOUS
  <1> USE PoolAssumption DEF IInv, TypeOK, Threads, Goto, Lock, Unlock, MutexInv, Locked
  <1>1. ASSUME NEW c \in Pool, CreateThread(c) PROVE MutexInv'
    BY <1>1 DEF CreateThread
  <1>2. CASE PoolCreated
    BY <1>2 DEF PoolCreated
  <1>3. ASSUME NEW b \in Blocks, Malloc(b) PROVE MutexInv'
    BY <1>3 DEF Malloc
  <1>4. CASE EnqueueLock
    BY <1>4 DEF EnqueueLock
  <1>5. CASE EnqueueLink
    BY <1>5 DEF EnqueueLink
  <1>6. CASE EnqueuePublish
    BY <1>6 DEF EnqueuePublish
  <1>7. CASE EnqueueUnlock
    BY <1>7 DEF EnqueueUnlock
  <1>8. CASE EnqueueSignal
    <2>1. CASE waiting = {} /\ pc' = [pc EXCEPT ![Main] = "malloc"]
      BY <1>8, <2>1 DEF EnqueueSignal
    <2>2. ASSUME NEW c \in waiting,
                 pc' = [pc EXCEPT ![Main] = "malloc", ![c] = "relock"]
          PROVE  MutexInv'
      <3>1. c \in Pool /\ pc[c] = "wait" /\ c # Main /\ pc[Main] = "signal"
        BY <1>8 DEF EnqueueSignal, WaitInv
      <3> QED
        BY <1>8, <2>2, <3>1 DEF EnqueueSignal
    <2> QED
      BY <1>8, <2>1, <2>2 DEF EnqueueSignal
  <1>9. CASE ErrRet
    BY <1>9 DEF ErrRet
  <1>10. ASSUME NEW c \in Pool, ProcessLock(c) PROVE MutexInv'
    BY <1>10 DEF ProcessLock
  <1>11. ASSUME NEW c \in Pool, CondWait(c) PROVE MutexInv'
    BY <1>11 DEF CondWait
  <1>12. ASSUME NEW c \in Pool, NotEmpty(c) PROVE MutexInv'
    BY <1>12 DEF NotEmpty
  <1>13. ASSUME NEW c \in Pool, SpuriousWakeup(c) PROVE MutexInv'
    BY <1>13 DEF SpuriousWakeup
  <1>14. ASSUME NEW c \in Pool, ProcessTake(c) PROVE MutexInv'
    BY <1>14 DEF ProcessTake
  <1>15. ASSUME NEW c \in Pool, ProcessPop(c) PROVE MutexInv'
    BY <1>15 DEF ProcessPop
  <1>16. ASSUME NEW c \in Pool, ProcessUnlock(c) PROVE MutexInv'
    BY <1>16 DEF ProcessUnlock
  <1>17. ASSUME NEW c \in Pool, ProcessFree(c) PROVE MutexInv'
    BY <1>17 DEF ProcessFree
  <1>18. CASE UNCHANGED vars
    BY <1>18 DEF vars
  <1> QED
    BY <1>1, <1>2, <1>3, <1>4, <1>5, <1>6, <1>7, <1>8, <1>9, <1>10, <1>11, <1>12,
       <1>13, <1>14, <1>15, <1>16, <1>17, <1>18 DEF Next, cond_test1, process_msg, Exited

LEMMA WaitStep == IInv /\ [Next]_vars => WaitInv'
  <1> SUFFICES ASSUME IInv, [Next]_vars PROVE WaitInv'
    OBVIOUS
  <1> USE PoolAssumption DEF IInv, TypeOK, Threads, Goto, Lock, Unlock, WaitInv
  <1>1. ASSUME NEW c \in Pool, CreateThread(c) PROVE WaitInv'
    BY <1>1 DEF CreateThread
  <1>2. CASE PoolCreated
    BY <1>2 DEF PoolCreated
  <1>3. ASSUME NEW b \in Blocks, Malloc(b) PROVE WaitInv'
    BY <1>3 DEF Malloc
  <1>4. CASE EnqueueLock
    BY <1>4 DEF EnqueueLock
  <1>5. CASE EnqueueLink
    BY <1>5 DEF EnqueueLink
  <1>6. CASE EnqueuePublish
    BY <1>6 DEF EnqueuePublish
  <1>7. CASE EnqueueUnlock
    BY <1>7 DEF EnqueueUnlock
  <1>8. CASE EnqueueSignal
    BY <1>8 DEF EnqueueSignal
  <1>9. CASE ErrRet
    BY <1>9 DEF ErrRet
  <1>10. ASSUME NEW c \in Pool, ProcessLock(c) PROVE WaitInv'
    BY <1>10 DEF ProcessLock
  <1>11. ASSUME NEW c \in Pool, CondWait(c) PROVE WaitInv'
    BY <1>11 DEF CondWait
  <1>12. ASSUME NEW c \in Pool, NotEmpty(c) PROVE WaitInv'
    BY <1>12 DEF NotEmpty
  <1>13. ASSUME NEW c \in Pool, SpuriousWakeup(c) PROVE WaitInv'
    BY <1>13 DEF SpuriousWakeup
  <1>14. ASSUME NEW c \in Pool, ProcessTake(c) PROVE WaitInv'
    BY <1>14 DEF ProcessTake
  <1>15. ASSUME NEW c \in Pool, ProcessPop(c) PROVE WaitInv'
    BY <1>15 DEF ProcessPop
  <1>16. ASSUME NEW c \in Pool, ProcessUnlock(c) PROVE WaitInv'
    BY <1>16 DEF ProcessUnlock
  <1>17. ASSUME NEW c \in Pool, ProcessFree(c) PROVE WaitInv'
    BY <1>17 DEF ProcessFree
  <1>18. CASE UNCHANGED vars
    BY <1>18 DEF vars
  <1> QED
    BY <1>1, <1>2, <1>3, <1>4, <1>5, <1>6, <1>7, <1>8, <1>9, <1>10, <1>11, <1>12,
       <1>13, <1>14, <1>15, <1>16, <1>17, <1>18 DEF Next, cond_test1, process_msg, Exited

LEMMA BlockStep == IInv /\ [Next]_vars => BlockInv'
  <1> SUFFICES ASSUME IInv, [Next]_vars PROVE BlockInv'
    OBVIOUS
  <1> USE PoolAssumption DEF IInv, TypeOK, Threads, Goto, Lock, Unlock, BlockInv, HeadInv, TakeNonEmpty, Private
  <1>1. ASSUME NEW c \in Pool, CreateThread(c) PROVE BlockInv'
    BY <1>1 DEF CreateThread
  <1>2. CASE PoolCreated
    BY <1>2 DEF PoolCreated
  <1>3. ASSUME NEW b \in Blocks, Malloc(b) PROVE BlockInv'
    BY <1>3 DEF Malloc
  <1>4. CASE EnqueueLock
    BY <1>4 DEF EnqueueLock
  <1>5. CASE EnqueueLink
    BY <1>5 DEF EnqueueLink
  <1>6. CASE EnqueuePublish
    BY <1>6 DEF EnqueuePublish
  <1>7. CASE EnqueueUnlock
    BY <1>7 DEF EnqueueUnlock
  <1>8. CASE EnqueueSignal
    BY <1>8 DEF EnqueueSignal
  <1>9. CASE ErrRet
    BY <1>9 DEF ErrRet
  <1>10. ASSUME NEW c \in Pool, ProcessLock(c) PROVE BlockInv'
    BY <1>10 DEF ProcessLock
  <1>11. ASSUME NEW c \in Pool, CondWait(c) PROVE BlockInv'
    BY <1>11 DEF CondWait
  <1>12. ASSUME NEW c \in Pool, NotEmpty(c) PROVE BlockInv'
    BY <1>12 DEF NotEmpty
  <1>13. ASSUME NEW c \in Pool, SpuriousWakeup(c) PROVE BlockInv'
    BY <1>13 DEF SpuriousWakeup
  <1>14. ASSUME NEW c \in Pool, ProcessTake(c) PROVE BlockInv'
    BY <1>14 DEF ProcessTake
  <1>15. ASSUME NEW c \in Pool, ProcessPop(c) PROVE BlockInv'
    BY <1>15, PopFacts DEF ProcessPop
  <1>16. ASSUME NEW c \in Pool, ProcessUnlock(c) PROVE BlockInv'
    BY <1>16 DEF ProcessUnlock
  <1>17. ASSUME NEW c \in Pool, ProcessFree(c) PROVE BlockInv'
    BY <1>17 DEF ProcessFree
  <1>18. CASE UNCHANGED vars
    BY <1>18 DEF vars
  <1> QED
    BY <1>1, <1>2, <1>3, <1>4, <1>5, <1>6, <1>7, <1>8, <1>9, <1>10, <1>11, <1>12,
       <1>13, <1>14, <1>15, <1>16, <1>17, <1>18 DEF Next, cond_test1, process_msg, Exited

LEMMA LinkStep == IInv /\ [Next]_vars => LinkInv'
  <1> SUFFICES ASSUME IInv, [Next]_vars PROVE LinkInv'
    OBVIOUS
  <1> USE PoolAssumption DEF IInv, TypeOK, Threads, Goto, Lock, Unlock, LinkInv, MutexInv, Locked
  <1>1. ASSUME NEW c \in Pool, CreateThread(c) PROVE LinkInv'
    BY <1>1 DEF CreateThread
  <1>2. CASE PoolCreated
    BY <1>2 DEF PoolCreated
  <1>3. ASSUME NEW b \in Blocks, Malloc(b) PROVE LinkInv'
    BY <1>3 DEF Malloc
  <1>4. CASE EnqueueLock
    BY <1>4 DEF EnqueueLock
  <1>5. CASE EnqueueLink
    BY <1>5 DEF EnqueueLink
  <1>6. CASE EnqueuePublish
    BY <1>6 DEF EnqueuePublish
  <1>7. CASE EnqueueUnlock
    BY <1>7 DEF EnqueueUnlock
  <1>8. CASE EnqueueSignal
    BY <1>8 DEF EnqueueSignal
  <1>9. CASE ErrRet
    BY <1>9 DEF ErrRet
  <1>10. ASSUME NEW c \in Pool, ProcessLock(c) PROVE LinkInv'
    BY <1>10 DEF ProcessLock
  <1>11. ASSUME NEW c \in Pool, CondWait(c) PROVE LinkInv'
    BY <1>11 DEF CondWait
  <1>12. ASSUME NEW c \in Pool, NotEmpty(c) PROVE LinkInv'
    BY <1>12 DEF NotEmpty
  <1>13. ASSUME NEW c \in Pool, SpuriousWakeup(c) PROVE LinkInv'
    BY <1>13 DEF SpuriousWakeup
  <1>14. ASSUME NEW c \in Pool, ProcessTake(c) PROVE LinkInv'
    BY <1>14 DEF ProcessTake
  <1>15. ASSUME NEW c \in Pool, ProcessPop(c) PROVE LinkInv'
    BY <1>15 DEF ProcessPop
  <1>16. ASSUME NEW c \in Pool, ProcessUnlock(c) PROVE LinkInv'
    BY <1>16 DEF ProcessUnlock
  <1>17. ASSUME NEW c \in Pool, ProcessFree(c) PROVE LinkInv'
    BY <1>17 DEF ProcessFree
  <1>18. CASE UNCHANGED vars
    BY <1>18 DEF vars
  <1> QED
    BY <1>1, <1>2, <1>3, <1>4, <1>5, <1>6, <1>7, <1>8, <1>9, <1>10, <1>11, <1>12,
       <1>13, <1>14, <1>15, <1>16, <1>17, <1>18 DEF Next, cond_test1, process_msg, Exited

LEMMA TakeStep == IInv /\ [Next]_vars => TakeNonEmpty'
  <1> SUFFICES ASSUME IInv, [Next]_vars PROVE TakeNonEmpty'
    OBVIOUS
  <1> USE PoolAssumption DEF IInv, TypeOK, Threads, Goto, Lock, Unlock, TakeNonEmpty, LinkInv, BlockInv, Private, MutexInv, Locked
  <1>1. ASSUME NEW c \in Pool, CreateThread(c) PROVE TakeNonEmpty'
    BY <1>1 DEF CreateThread
  <1>2. CASE PoolCreated
    BY <1>2 DEF PoolCreated
  <1>3. ASSUME NEW b \in Blocks, Malloc(b) PROVE TakeNonEmpty'
    BY <1>3 DEF Malloc
  <1>4. CASE EnqueueLock
    BY <1>4 DEF EnqueueLock
  <1>5. CASE EnqueueLink
    BY <1>5 DEF EnqueueLink
  <1>6. CASE EnqueuePublish
    BY <1>6, PushFacts DEF EnqueuePublish
  <1>7. CASE EnqueueUnlock
    BY <1>7 DEF EnqueueUnlock
  <1>8. CASE EnqueueSignal
    BY <1>8 DEF EnqueueSignal
  <1>9. CASE ErrRet
    BY <1>9 DEF ErrRet
  <1>10. ASSUME NEW c \in Pool, ProcessLock(c) PROVE TakeNonEmpty'
    BY <1>10 DEF ProcessLock
  <1>11. ASSUME NEW c \in Pool, CondWait(c) PROVE TakeNonEmpty'
    BY <1>11 DEF CondWait
  <1>12. ASSUME NEW c \in Pool, NotEmpty(c) PROVE TakeNonEmpty'
    BY <1>12 DEF NotEmpty
  <1>13. ASSUME NEW c \in Pool, SpuriousWakeup(c) PROVE TakeNonEmpty'
    BY <1>13 DEF SpuriousWakeup
  <1>14. ASSUME NEW c \in Pool, ProcessTake(c) PROVE TakeNonEmpty'
    BY <1>14 DEF ProcessTake
  <1>15. ASSUME NEW c \in Pool, ProcessPop(c) PROVE TakeNonEmpty'
    BY <1>15 DEF ProcessPop
  <1>16. ASSUME NEW c \in Pool, ProcessUnlock(c) PROVE TakeNonEmpty'
    BY <1>16 DEF ProcessUnlock
  <1>17. ASSUME NEW c \in Pool, ProcessFree(c) PROVE TakeNonEmpty'
    BY <1>17 DEF ProcessFree
  <1>18. CASE UNCHANGED vars
    BY <1>18 DEF vars
  <1> QED
    BY <1>1, <1>2, <1>3, <1>4, <1>5, <1>6, <1>7, <1>8, <1>9, <1>10, <1>11, <1>12,
       <1>13, <1>14, <1>15, <1>16, <1>17, <1>18 DEF Next, cond_test1, process_msg, Exited

LEMMA HeadStep == IInv /\ [Next]_vars => HeadInv'
  <1> SUFFICES ASSUME IInv, [Next]_vars PROVE HeadInv'
    OBVIOUS
  <1> USE PoolAssumption DEF IInv, TypeOK, Threads, Goto, Lock, Unlock, HeadInv, MutexInv, Locked
  <1>1. ASSUME NEW c \in Pool, CreateThread(c) PROVE HeadInv'
    BY <1>1 DEF CreateThread
  <1>2. CASE PoolCreated
    BY <1>2 DEF PoolCreated
  <1>3. ASSUME NEW b \in Blocks, Malloc(b) PROVE HeadInv'
    BY <1>3 DEF Malloc
  <1>4. CASE EnqueueLock
    BY <1>4 DEF EnqueueLock
  <1>5. CASE EnqueueLink
    BY <1>5 DEF EnqueueLink
  <1>6. CASE EnqueuePublish
    BY <1>6 DEF EnqueuePublish
  <1>7. CASE EnqueueUnlock
    BY <1>7 DEF EnqueueUnlock
  <1>8. CASE EnqueueSignal
    BY <1>8 DEF EnqueueSignal
  <1>9. CASE ErrRet
    BY <1>9 DEF ErrRet
  <1>10. ASSUME NEW c \in Pool, ProcessLock(c) PROVE HeadInv'
    BY <1>10 DEF ProcessLock
  <1>11. ASSUME NEW c \in Pool, CondWait(c) PROVE HeadInv'
    BY <1>11 DEF CondWait
  <1>12. ASSUME NEW c \in Pool, NotEmpty(c) PROVE HeadInv'
    BY <1>12 DEF NotEmpty
  <1>13. ASSUME NEW c \in Pool, SpuriousWakeup(c) PROVE HeadInv'
    BY <1>13 DEF SpuriousWakeup
  <1>14. ASSUME NEW c \in Pool, ProcessTake(c) PROVE HeadInv'
    BY <1>14 DEF ProcessTake
  <1>15. ASSUME NEW c \in Pool, ProcessPop(c) PROVE HeadInv'
    BY <1>15 DEF ProcessPop
  <1>16. ASSUME NEW c \in Pool, ProcessUnlock(c) PROVE HeadInv'
    BY <1>16 DEF ProcessUnlock
  <1>17. ASSUME NEW c \in Pool, ProcessFree(c) PROVE HeadInv'
    BY <1>17 DEF ProcessFree
  <1>18. CASE UNCHANGED vars
    BY <1>18 DEF vars
  <1> QED
    BY <1>1, <1>2, <1>3, <1>4, <1>5, <1>6, <1>7, <1>8, <1>9, <1>10, <1>11, <1>12,
       <1>13, <1>14, <1>15, <1>16, <1>17, <1>18 DEF Next, cond_test1, process_msg, Exited

LEMMA OwnerStep == IInv /\ [Next]_vars => UniqueOwner'
  <1> SUFFICES ASSUME IInv, [Next]_vars PROVE UniqueOwner'
    OBVIOUS
  <1> USE PoolAssumption DEF IInv, TypeOK, Threads, Goto, Lock, Unlock, UniqueOwner, BlockInv, Private
  <1>1. ASSUME NEW c \in Pool, CreateThread(c) PROVE UniqueOwner'
    <2>1. Queued' = Queued
      BY <1>1 DEF CreateThread, Queued
    <2> QED
      BY <1>1, <2>1 DEF CreateThread
  <1>2. CASE PoolCreated
    <2>1. Queued' = Queued
      BY <1>2 DEF PoolCreated, Queued
    <2> QED
      BY <1>2, <2>1 DEF PoolCreated
  <1>3. ASSUME NEW b \in Blocks, Malloc(b) PROVE UniqueOwner'
    <2>1. Queued' = Queued
      BY <1>3 DEF Malloc, Queued
    <2> QED
      BY <1>3, <2>1 DEF Malloc
  <1>4. CASE EnqueueLock
    <2>1. Queued' = Queued
      BY <1>4 DEF EnqueueLock, Queued
    <2> QED
      BY <1>4, <2>1 DEF EnqueueLock
  <1>5. CASE EnqueueLink
    <2>1. Queued' = Queued
      BY <1>5 DEF EnqueueLink, Queued
    <2> QED
      BY <1>5, <2>1 DEF EnqueueLink
  <1>6. CASE EnqueuePublish
    <2> DEFINE b == mp[Main]
    <2>1. /\ next = workq
          /\ b \in Blocks
          /\ Private(Main)
      BY <1>6 DEF EnqueuePublish, LinkInv
    <2>2. Queued' = Queued \cup {b}
      BY <1>6, <2>1, PushElements DEF EnqueuePublish, Queued
    <2>3. \A i, j \in DOMAIN workq' : workq'[i] = workq'[j] => i = j
      BY <1>6, <2>1, PushInjective DEF EnqueuePublish, Queued
    <2>4. \A t \in Threads : Private(t)' <=> Private(t) /\ t # Main
      BY <1>6 DEF EnqueuePublish
    <2> QED
      BY <1>6, <2>1, <2>2, <2>3, <2>4 DEF EnqueuePublish
  <1>7. CASE EnqueueUnlock
    <2>1. Queued' = Queued
      BY <1>7 DEF EnqueueUnlock, Queued
    <2> QED
      BY <1>7, <2>1 DEF EnqueueUnlock
  <1>8. CASE EnqueueSignal
    <2>1. Queued' = Queued
      BY <1>8 DEF EnqueueSignal, Queued
    <2>2. CASE waiting = {} /\ pc' = [pc EXCEPT ![Main] = "malloc"]
      BY <1>8, <2>1, <2>2 DEF EnqueueSignal
    <2>3. ASSUME NEW c \in waiting,
                 pc' = [pc EXCEPT ![Main] = "malloc", ![c] = "relock"]
          PROVE  UniqueOwner'
      <3>1. c \in Pool /\ pc[c] = "wait" /\ c # Main /\ pc[Main] = "signal"
        BY <1>8 DEF EnqueueSignal, WaitInv
      <3> QED
        BY <1>8, <2>1, <2>3, <3>1 DEF EnqueueSignal
    <2> QED
      BY <1>8, <2>2, <2>3 DEF EnqueueSignal
  <1>9. CASE ErrRet
    <2>1. Queued' = Queued
      BY <1>9 DEF ErrRet, Queued
    <2> QED
      BY <1>9, <2>1 DEF ErrRet
  <1>10. ASSUME NEW c \in Pool, ProcessLock(c) PROVE UniqueOwner'
    <2>1. Queued' = Queued
      BY <1>10 DEF ProcessLock, Queued
    <2> QED
      BY <1>10, <2>1 DEF ProcessLock
  <1>11. ASSUME NEW c \in Pool, CondWait(c) PROVE UniqueOwner'
    <2>1. Queued' = Queued
      BY <1>11 DEF CondWait, Queued
    <2> QED
      BY <1>11, <2>1 DEF CondWait
  <1>12. ASSUME NEW c \in Pool, NotEmpty(c) PROVE UniqueOwner'
    <2>1. Queued' = Queued
      BY <1>12 DEF NotEmpty, Queued
    <2> QED
      BY <1>12, <2>1 DEF NotEmpty
  <1>13. ASSUME NEW c \in Pool, SpuriousWakeup(c) PROVE UniqueOwner'
    <2>1. Queued' = Queued
      BY <1>13 DEF SpuriousWakeup, Queued
    <2> QED
      BY <1>13, <2>1 DEF SpuriousWakeup
  <1>14. ASSUME NEW c \in Pool, ProcessTake(c) PROVE UniqueOwner'
    <2>1. Queued' = Queued
      BY <1>14 DEF ProcessTake, Queued
    <2> QED
      BY <1>14, <2>1 DEF ProcessTake
  <1>15. ASSUME NEW c \in Pool, ProcessPop(c) PROVE UniqueOwner'
    <2> DEFINE b == mp[c]
    <2>1. /\ workq # <<>>
          /\ b = Head(workq)
          /\ ~Private(c)
      BY <1>15 DEF ProcessPop, HeadInv, TakeNonEmpty
    <2>2. Queued' = Queued \ {b}
      BY <1>15, <2>1, PopElements DEF ProcessPop, Queued
    <2>3. b \in Queued
      BY <1>15, <2>1, PopElements DEF ProcessPop, Queued
    <2>4. \A i, j \in DOMAIN workq' : workq'[i] = workq'[j] => i = j
      BY <1>15, <2>1, PopFacts DEF ProcessPop
    <2>5. \A t \in Threads : Private(t)' <=> Private(t) \/ t = c
      BY <1>15 DEF ProcessPop
    <2> QED
      BY <1>15, <2>1, <2>2, <2>3, <2>4, <2>5 DEF ProcessPop
  <1>16. ASSUME NEW c \in Pool, ProcessUnlock(c) PROVE UniqueOwner'
    <2>1. Queued' = Queued
      BY <1>16 DEF ProcessUnlock, Queued
    <2> QED
      BY <1>16, <2>1 DEF ProcessUnlock
  <1>17. ASSUME NEW c \in Pool, ProcessFree(c) PROVE UniqueOwner'
    <2>1. Queued' = Queued
      BY <1>17 DEF ProcessFree, Queued
    <2> QED
      BY <1>17, <2>1 DEF ProcessFree
  <1>18. CASE UNCHANGED vars
    BY <1>18 DEF vars, Queued
  <1> QED
    BY <1>1, <1>2, <1>3, <1>4, <1>5, <1>6, <1>7, <1>8, <1>9, <1>10, <1>11, <1>12,
       <1>13, <1>14, <1>15, <1>16, <1>17, <1>18 DEF Next, cond_test1, process_msg, Exited

LEMMA WakeupStep == IInv /\ [Next]_vars => NoLostWakeup'
  <1> SUFFICES ASSUME IInv, [Next]_vars PROVE NoLostWakeup'
    OBVIOUS
  <1> USE PoolAssumption DEF IInv, TypeOK, Threads, Goto, Lock, Unlock, NoLostWakeup, WaitInv, MutexInv, Locked
  <1>1. ASSUME NEW c \in Pool, CreateThread(c) PROVE NoLostWakeup'
    BY <1>1 DEF CreateThread
  <1>2. CASE PoolCreated
    BY <1>2 DEF PoolCreated
  <1>3. ASSUME NEW b \in Blocks, Malloc(b) PROVE NoLostWakeup'
    BY <1>3 DEF Malloc
  <1>4. CASE EnqueueLock
    BY <1>4 DEF EnqueueLock
  <1>5. CASE EnqueueLink
    BY <1>5 DEF EnqueueLink
  <1>6. CASE EnqueuePublish
    BY <1>6 DEF EnqueuePublish
  <1>7. CASE EnqueueUnlock
    BY <1>7 DEF EnqueueUnlock
  <1>8. CASE EnqueueSignal
    BY <1>8 DEF EnqueueSignal
  <1>9. CASE ErrRet
    BY <1>9 DEF ErrRet
  <1>10. ASSUME NEW c \in Pool, ProcessLock(c) PROVE NoLostWakeup'
    BY <1>10 DEF ProcessLock
  <1>11. ASSUME NEW c \in Pool, CondWait(c) PROVE NoLostWakeup'
    BY <1>11 DEF CondWait
  <1>12. ASSUME NEW c \in Pool, NotEmpty(c) PROVE NoLostWakeup'
    BY <1>12 DEF NotEmpty
  <1>13. ASSUME NEW c \in Pool, SpuriousWakeup(c) PROVE NoLostWakeup'
    BY <1>13 DEF SpuriousWakeup
  <1>14. ASSUME NEW c \in Pool, ProcessTake(c) PROVE NoLostWakeup'
    BY <1>14 DEF ProcessTake
  <1>15. ASSUME NEW c \in Pool, ProcessPop(c) PROVE NoLostWakeup'
    BY <1>15 DEF ProcessPop
  <1>16. ASSUME NEW c \in Pool, ProcessUnlock(c) PROVE NoLostWakeup'
    BY <1>16 DEF ProcessUnlock
  <1>17. ASSUME NEW c \in Pool, ProcessFree(c) PROVE NoLostWakeup'
    BY <1>17 DEF ProcessFree
  <1>18. CASE UNCHANGED vars
    BY <1>18 DEF vars
  <1> QED
    BY <1>1, <1>2, <1>3, <1>4, <1>5, <1>6, <1>7, <1>8, <1>9, <1>10, <1>11, <1>12,
       <1>13, <1>14, <1>15, <1>16, <1>17, <1>18 DEF Next, cond_test1, process_msg, Exited

LEMMA InitIInv == Init => IInv
  <1> SUFFICES ASSUME Init PROVE IInv
    OBVIOUS
  <1>1. TypeOK
    BY PoolAssumption DEF Init, TypeOK, Threads
  <1>6. MutexInv /\ WaitInv
    BY PoolAssumption DEF Init, Threads, MutexInv, Locked, WaitInv
  <1>2. \A t \in Threads : ~Private(t)
    BY PoolAssumption DEF Init, Threads, Private
  <1>3. BlockInv /\ LinkInv /\ TakeNonEmpty /\ HeadInv /\ NoLostWakeup
    BY <1>2, PoolAssumption DEF Init, Threads, BlockInv, LinkInv, TakeNonEmpty, HeadInv, NoLostWakeup
  <1>4. Queued = {} /\ DOMAIN workq = {}
    BY DEF Init, Queued, Range
  <1>5. UniqueOwner
    BY <1>2, <1>4 DEF Init, UniqueOwner
  <1> QED
    BY <1>1, <1>3, <1>5, <1>6 DEF IInv

LEMMA StepIInv == IInv /\ [Next]_vars => IInv'
  BY TypeStep, MutexStep, WaitStep, BlockStep, LinkStep, TakeStep, HeadStep, OwnerStep,
     WakeupStep DEF IInv

THEOREM Invariance == Spec => []IInv
  BY InitIInv, StepIInv, PTL DEF Spec

\* Every variable of the work queue keeps its type.
THEOREM TypeCorrect == Spec => []TypeOK
  BY Invariance, PTL DEF IInv

\* No pool thread leaves the wait loop to find the list empty.
THEOREM TakesAMessage == Spec => []TakeNonEmpty
  BY Invariance, PTL DEF IInv

\* Every allocated message has exactly one owner, in every reachable state.
THEOREM OwnersUnique == Spec => []UniqueOwner
  BY Invariance, PTL DEF IInv

\* Queued messages never coincide with a pool that sleeps and an enqueuer that
\* has no signal left to send.
THEOREM WakeupsNotLost == Spec => []NoLostWakeup
  BY Invariance, PTL DEF IInv
-----------------------------------------------------------------------------
(* The list implements the atomic stack of MessageStack. *)

fresh == IF Private(Main) THEN mp[Main] ELSE Null
held == [c \in Pool |-> IF Private(c) THEN mp[c] ELSE Null]
Mapped == [MsgStack!Next]_(MsgStack!vars)

LEMMA MapInit == Init => MsgStack!Init
  BY PoolAssumption DEF Init, MsgStack!Init, Private, Threads

\* a step that moves no message and keeps the process running is a stutter
LEMMA MapStutter ==
  ASSUME UNCHANGED <<workq, alive>>, fresh' = fresh, held' = held
  PROVE  Mapped
  BY DEF Mapped, MsgStack!vars, fresh, held

\* the blocks the abstract stack knows are the allocated ones
LEMMA LiveIsHeap == IInv => MsgStack!Live \ {Null} = heap
  <1> SUFFICES ASSUME IInv PROVE MsgStack!Live \ {Null} = heap
    OBVIOUS
  <1>1. MsgStack!Live = Queued \cup {fresh} \cup {held[c] : c \in Pool}
    BY DEF MsgStack!Live, fresh, held, Queued, Range
  <1>2. heap = Queued \cup {mp[t] : t \in {u \in Threads : Private(u)}}
    BY DEF IInv, UniqueOwner
  <1>3. Null \notin heap
    BY PoolAssumption DEF IInv, TypeOK
  <1>4. ASSUME NEW b, b # Null
        PROVE  b \in {fresh} \cup {held[c] : c \in Pool}
                 <=> \E t \in Threads : Private(t) /\ b = mp[t]
    <2>1. b = fresh <=> Private(Main) /\ b = mp[Main]
      BY <1>4 DEF fresh
    <2>2. \A c \in Pool : b = held[c] <=> Private(c) /\ b = mp[c]
      BY <1>4 DEF held
    <2> QED
      BY <2>1, <2>2 DEF Threads
  <1> QED
    BY <1>1, <1>2, <1>3, <1>4

LEMMA MapStep == IInv /\ [Next]_vars => Mapped
  <1> SUFFICES ASSUME IInv, [Next]_vars PROVE Mapped
    OBVIOUS
  <1> USE PoolAssumption DEF IInv, TypeOK, Threads, Goto, Private
  <1>1. ASSUME NEW c \in Pool, CreateThread(c) PROVE Mapped
    <2>1. UNCHANGED <<workq, alive>> /\ fresh' = fresh
      BY <1>1 DEF CreateThread, fresh
    <2>2. held' = held
      BY <1>1 DEF CreateThread, held
    <2> QED
      BY <2>1, <2>2, MapStutter
  <1>2. CASE PoolCreated
    <2>1. UNCHANGED <<workq, alive>> /\ fresh' = fresh
      BY <1>2 DEF PoolCreated, fresh
    <2>2. held' = held
      BY <1>2 DEF PoolCreated, held
    <2> QED
      BY <2>1, <2>2, MapStutter
  <1>3. ASSUME NEW b \in Blocks, Malloc(b) PROVE Mapped
    <2>1. fresh = Null /\ fresh' = b /\ held' = held /\ UNCHANGED <<workq, alive>> /\ alive
      BY <1>3 DEF Malloc, fresh, held
    <2>2. b \in Blocks \ MsgStack!Live
      BY <1>3, LiveIsHeap DEF Malloc
    <2>3. MsgStack!Make
      BY <2>1, <2>2 DEF MsgStack!Make, fresh, held
    <2> QED
      BY <2>1, <2>3 DEF Mapped, MsgStack!Next
  <1>4. CASE EnqueueLock
    <2>1. UNCHANGED <<workq, alive>> /\ fresh' = fresh
      BY <1>4 DEF EnqueueLock, fresh
    <2>2. held' = held
      BY <1>4 DEF EnqueueLock, held
    <2> QED
      BY <2>1, <2>2, MapStutter
  <1>5. CASE EnqueueLink
    <2>1. UNCHANGED <<workq, alive>> /\ fresh' = fresh
      BY <1>5 DEF EnqueueLink, fresh
    <2>2. held' = held
      BY <1>5 DEF EnqueueLink, held
    <2> QED
      BY <2>1, <2>2, MapStutter
  <1>6. CASE EnqueuePublish
    <2>1. fresh = mp[Main] /\ fresh # Null /\ fresh' = Null /\ alive
      BY <1>6 DEF EnqueuePublish, fresh, BlockInv
    <2>2. held' = held /\ alive' = alive
      BY <1>6 DEF EnqueuePublish, held
    <2>3. workq' = <<fresh>> \o workq
      BY <1>6, <2>1 DEF EnqueuePublish, LinkInv
    <2>4. MsgStack!Push
      BY <2>1, <2>2, <2>3 DEF MsgStack!Push, fresh, held
    <2> QED
      BY <2>1, <2>4 DEF Mapped, MsgStack!Next
  <1>7. CASE EnqueueUnlock
    <2>1. UNCHANGED <<workq, alive>> /\ fresh' = fresh
      BY <1>7 DEF EnqueueUnlock, fresh
    <2>2. held' = held
      BY <1>7 DEF EnqueueUnlock, held
    <2> QED
      BY <2>1, <2>2, MapStutter
  <1>8. CASE EnqueueSignal
    <2>1. UNCHANGED <<workq, alive>> /\ fresh' = fresh
      BY <1>8 DEF EnqueueSignal, fresh, WaitInv
    <2>2. held' = held
      BY <1>8 DEF EnqueueSignal, held, WaitInv
    <2> QED
      BY <2>1, <2>2, MapStutter
  <1>9. CASE ErrRet
    <2>1. fresh' = fresh /\ held' = held /\ workq' = workq /\ alive /\ alive' = FALSE
      BY <1>9 DEF ErrRet, fresh, held
    <2>2. MsgStack!Stop
      BY <2>1 DEF MsgStack!Stop, fresh, held
    <2> QED
      BY <2>1, <2>2 DEF Mapped, MsgStack!Next
  <1>10. ASSUME NEW c \in Pool, ProcessLock(c) PROVE Mapped
    <2>1. UNCHANGED <<workq, alive>> /\ fresh' = fresh
      BY <1>10 DEF ProcessLock, fresh
    <2>2. held' = held
      BY <1>10 DEF ProcessLock, held
    <2> QED
      BY <2>1, <2>2, MapStutter
  <1>11. ASSUME NEW c \in Pool, CondWait(c) PROVE Mapped
    <2>1. UNCHANGED <<workq, alive>> /\ fresh' = fresh
      BY <1>11 DEF CondWait, fresh
    <2>2. held' = held
      BY <1>11 DEF CondWait, held
    <2> QED
      BY <2>1, <2>2, MapStutter
  <1>12. ASSUME NEW c \in Pool, NotEmpty(c) PROVE Mapped
    <2>1. UNCHANGED <<workq, alive>> /\ fresh' = fresh
      BY <1>12 DEF NotEmpty, fresh
    <2>2. held' = held
      BY <1>12 DEF NotEmpty, held
    <2> QED
      BY <2>1, <2>2, MapStutter
  <1>13. ASSUME NEW c \in Pool, SpuriousWakeup(c) PROVE Mapped
    <2>1. UNCHANGED <<workq, alive>> /\ fresh' = fresh
      BY <1>13 DEF SpuriousWakeup, fresh
    <2>2. held' = held
      BY <1>13 DEF SpuriousWakeup, held
    <2> QED
      BY <2>1, <2>2, MapStutter
  <1>14. ASSUME NEW c \in Pool, ProcessTake(c) PROVE Mapped
    <2>1. UNCHANGED <<workq, alive>> /\ fresh' = fresh
      BY <1>14 DEF ProcessTake, fresh
    <2>2. held' = held
      BY <1>14 DEF ProcessTake, held
    <2> QED
      BY <2>1, <2>2, MapStutter
  <1>15. ASSUME NEW c \in Pool, ProcessPop(c) PROVE Mapped
    <2>1. workq # <<>> /\ mp[c] = Head(workq) /\ workq' = Tail(workq) /\ alive
      BY <1>15 DEF ProcessPop, HeadInv, TakeNonEmpty
    <2>2. fresh' = fresh /\ alive' = alive
      BY <1>15 DEF ProcessPop, fresh
    <2>3. held[c] = Null /\ held' = [held EXCEPT ![c] = mp[c]]
      BY <1>15 DEF ProcessPop, held
    <2>4. MsgStack!Pop(c)
      BY <2>1, <2>2, <2>3 DEF MsgStack!Pop, fresh, held
    <2> QED
      BY <2>1, <2>4 DEF Mapped, MsgStack!Next
  <1>16. ASSUME NEW c \in Pool, ProcessUnlock(c) PROVE Mapped
    <2>1. UNCHANGED <<workq, alive>> /\ fresh' = fresh
      BY <1>16 DEF ProcessUnlock, fresh
    <2>2. held' = held
      BY <1>16 DEF ProcessUnlock, held
    <2> QED
      BY <2>1, <2>2, MapStutter
  <1>17. ASSUME NEW c \in Pool, ProcessFree(c) PROVE Mapped
    <2>1. UNCHANGED <<workq, alive>> /\ fresh' = fresh /\ alive
      BY <1>17 DEF ProcessFree, fresh
    <2>2. held[c] # Null /\ held' = [held EXCEPT ![c] = Null]
      BY <1>17 DEF ProcessFree, held, BlockInv
    <2>3. MsgStack!Dispose(c)
      BY <2>1, <2>2 DEF MsgStack!Dispose, fresh, held
    <2> QED
      BY <2>1, <2>3 DEF Mapped, MsgStack!Next
  <1>18. CASE UNCHANGED vars
    BY <1>18, MapStutter DEF vars, fresh, held
  <1> QED
    BY <1>1, <1>2, <1>3, <1>4, <1>5, <1>6, <1>7, <1>8, <1>9, <1>10, <1>11, <1>12,
       <1>13, <1>14, <1>15, <1>16, <1>17, <1>18 DEF Next, cond_test1, process_msg, Exited

\* cond_test1.c implements the atomic stack: every interleaving of the pool and
\* the enqueuer is one that MessageStack allows.
THEOREM ImplementsStack == Spec => Refines
  BY Invariance, MapInit, MapStep, PTL DEF Spec, Refines, MsgStack!Spec, Mapped

=============================================================================
