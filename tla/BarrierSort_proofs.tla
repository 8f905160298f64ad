-------------------------- MODULE BarrierSort_proofs --------------------------
(***************************************************************************)
(* Theorems about BarrierSort, for every number of threads, length of a part *)
(* and bound of the numbers.                                                 *)
(***************************************************************************)
EXTENDS BarrierSort, FiniteSetTheorems, NaturalsInduction, WellFoundedInduction, TLAPS

AllDone == \A t \in Sorters : pc[t] = "done"

\* Who is where: the barrier lets nobody through before everybody has come, and the
\* main thread merges only then.
PhaseInv ==
  /\ pc[Main] \in {"create", "wait", "merge", "exited"}
  /\ \A t \in Sorters : /\ pc[t] \in {"none", "sort", "wait", "done"}
                        /\ pc[t] \in {"wait", "done"} => ix[t] = TNUM - 1
                        /\ pc[t] = "done" => AllDone /\ pc[Main] \in {"merge", "exited"}
  /\ pc[Main] = "merge" => AllDone
  /\ arrived = {t \in Threads : pc[t] = "wait"}
  /\ ~AllDone => out = 0 /\ \A t \in Sorters : idx[t] = First(t)

\* What the heapsort of thread t has reached: the numbers before ix are in order and
\* not above those behind them, and the number at ix is not above those up to jx.
Reached(t) ==
  LET k == First(t) + ix[t] IN
  /\ jx[t] > ix[t]
  /\ ix[t] < TNUM - 1 => jx[t] <= TNUM - 1
  /\ \A a \in First(t)..(k - 1), b \in First(t)..(End(t) - 1) : a <= b => nums[a] <= nums[b]
  /\ \A b \in k..(First(t) + jx[t] - 1) : nums[k] <= nums[b]

\* What is written is not above what is not merged, and no element is counted twice.
MergeInv == /\ Cardinality(Remaining) + out = NUMNUM
            /\ \A j \in 0..(out - 1), k \in Remaining : snums[j] <= nums[k]

IInv == /\ TypeOK
        /\ PhaseInv
        /\ \A t \in Sorters : Reached(t)
        /\ MergeInv
        /\ OutputSorted
        /\ Conserved

-----------------------------------------------------------------------------
(* The parts *)

\* A nonempty set of numbers has a least one.
LEMMA LeastNat ==
  ASSUME NEW T \in SUBSET Nat, T # {}
  PROVE  \E m \in T : \A k \in T : m <= k
  <1> DEFINE Less == {p \in Nat \X Nat : p[1] < p[2]}
  <1>1. IsWellFoundedOn(Less, Nat)
    BY NatLessThanWellFounded DEF OpToRel
  <1> HIDE DEF Less
  <1>2. PICK m \in T : \A k \in T : ~(<<k, m>> \in Less)
    BY <1>1, WFMin
  <1>3. ASSUME NEW k \in T, k < m PROVE FALSE
    <2>1. <<k, m>> \in Less
      BY <1>3 DEF Less
    <2> QED
      BY <1>2, <2>1
  <1> QED
    BY <1>3

LEMMA Times ==
  ASSUME NEW a \in Nat, NEW b \in Nat, NEW c \in Nat
  PROVE  /\ a * c \in Nat
         /\ (a + 1) * c = a * c + c
         /\ a <= b => a * c <= b * c
  <1>1. a * c \in Nat /\ (a + 1) * c = a * c + c
    OBVIOUS
  <1>2. ASSUME a <= b PROVE a * c <= b * c
    <2>1. PICK d \in Nat : b = a + d
      BY <1>2
    <2>2. b * c = a * c + d * c /\ d * c \in Nat /\ a * c \in Nat
      BY <2>1
    <2> QED
      BY <2>2
  <1> QED
    BY <1>1, <1>2

\* The parts lie one behind the other and make up the array.
LEMMA Parts ==
  ASSUME SortAssumption
  PROVE  /\ NUMNUM \in Nat /\ NTHR \in Nat /\ TNUM \in Nat /\ TNUM >= 1
         /\ \A t \in Sorters : /\ t \in Nat /\ t \in Threads /\ t # Main
                               /\ First(t) \in Nat /\ End(t) = First(t) + TNUM /\ End(t) <= NUMNUM
         /\ \A t, u \in Sorters : t < u => End(t) <= First(u)
         /\ \A k \in Index : \E t \in Sorters : First(t) <= k /\ k < End(t)
         /\ Threads = Sorters \cup {Main} /\ Main \in Threads
         /\ Sorters # {}
  <1> USE DEF SortAssumption, NUMNUM, First, End, Sorters, Threads, Main
  <1>1. NUMNUM \in Nat /\ NTHR \in Nat /\ TNUM \in Nat /\ TNUM >= 1
    BY Times
  <1>2. ASSUME NEW t \in Sorters
        PROVE  /\ t \in Nat /\ t \in Threads /\ t # Main
               /\ First(t) \in Nat /\ End(t) = First(t) + TNUM /\ End(t) <= NUMNUM
    <2>1. t \in Nat /\ t \in Threads /\ t # Main /\ t + 1 \in Nat /\ t + 1 <= NTHR
      OBVIOUS
    <2>2. t * TNUM \in Nat /\ (t + 1) * TNUM = t * TNUM + TNUM
      BY <2>1, <1>1, Times
    <2>3. (t + 1) * TNUM <= NTHR * TNUM
      BY <2>1, <1>1, Times
    <2> QED
      BY <2>1, <2>2, <2>3
  <1>3. ASSUME NEW t \in Sorters, NEW u \in Sorters, t < u PROVE End(t) <= First(u)
    <2>1. t + 1 \in Nat /\ u \in Nat /\ t + 1 <= u
      BY <1>3
    <2> QED
      BY <2>1, <1>1, Times
  <1>4. ASSUME NEW k \in Index PROVE \E t \in Sorters : First(t) <= k /\ k < End(t)
    <2> DEFINE T == {t \in Nat : k < (t + 1) * TNUM}
    <2>1. k \in Nat /\ k < NTHR * TNUM /\ NTHR >= 1
      BY <1>1 DEF Index
    <2>2. NTHR - 1 \in T
      BY <2>1
    <2>3. PICK t \in T : \A x \in T : t <= x
      BY <2>2, LeastNat
    <2>4. t \in Sorters
      BY <2>1, <2>2, <2>3
    <2>5. First(t) <= k
      <3>1. CASE t = 0
        <4>1. First(t) = 0
          BY <3>1, <1>1
        <4> QED
          BY <4>1, <2>1
      <3>2. CASE t # 0
        <4>1. t - 1 \in Nat /\ ~(t <= t - 1)
          BY <2>3, <3>2
        <4>2. t - 1 \notin T
          BY <2>3, <4>1
        <4>3. ~(k < ((t - 1) + 1) * TNUM)
          BY <4>1, <4>2
        <4>4. (t - 1) + 1 = t
          BY <4>1
        <4>5. t * TNUM \in Nat
          BY <1>1, <2>3, Times
        <4> QED
          BY <4>3, <4>4, <4>5, <2>1
      <3> QED
        BY <3>1, <3>2
    <2> QED
      BY <2>3, <2>4, <2>5
  <1>5. Threads = Sorters \cup {Main} /\ Main \in Threads /\ Sorters # {}
    BY <1>1
  <1> QED
    BY <1>1, <1>2, <1>3, <1>4, <1>5

-----------------------------------------------------------------------------
(* Counting *)

LEMMA IndexFinite ==
  ASSUME SortAssumption
  PROVE  /\ Cardinality(Index) = NUMNUM
         /\ \A K \in SUBSET Index : IsFiniteSet(K)
         /\ \A n \in Nat : IsFiniteSet(0..n) /\ IsFiniteSet(0..(n - 1))
  <1>1. NUMNUM \in Nat
    BY Parts
  <1>2. IsFiniteSet(Index) /\ Cardinality(Index) = NUMNUM
    BY <1>1, FS_Interval DEF Index
  <1>3. \A K \in SUBSET Index : IsFiniteSet(K)
    BY <1>2, FS_Subset
  <1>4. \A n \in Nat : IsFiniteSet(0..n) /\ IsFiniteSet(0..(n - 1))
    BY FS_Interval
  <1> QED
    BY <1>2, <1>3, <1>4

\* An exchange changes no count.
LEMMA SwapCount ==
  ASSUME SortAssumption, NEW a \in [Index -> Number], NEW k \in Index, NEW m \in Index, k # m, NEW v
  PROVE  Occurs(Swap(a, k, m), Index, v) = Occurs(a, Index, v)
  <1> DEFINE A == {j \in Index : a[j] = v}
             B == {j \in Index : Swap(a, k, m)[j] = v}
  <1>1. \A j \in Index : Swap(a, k, m)[j] = IF j = m THEN a[k] ELSE IF j = k THEN a[m] ELSE a[j]
    BY DEF Swap
  <1>2. IsFiniteSet(A) /\ Cardinality(A) \in Nat
    BY IndexFinite, FS_CardinalityType
  <1>3. CASE a[k] = a[m]
    <2>1. A = B
      BY <1>1, <1>3
    <2> QED
      BY <2>1 DEF Occurs
  <1>4. CASE a[k] # a[m] /\ a[k] = v
    <2>1. B = (A \ {k}) \cup {m} /\ k \in A /\ m \notin A \ {k}
      BY <1>1, <1>4
    <2>2. Cardinality(B) = Cardinality(A)
      <3> HIDE DEF A, B
      <3>1. IsFiniteSet(A \ {k}) /\ Cardinality(A \ {k}) = Cardinality(A) - 1
        BY <1>2, <2>1, FS_RemoveElement
      <3>2. Cardinality((A \ {k}) \cup {m}) = Cardinality(A \ {k}) + 1
        BY <2>1, <3>1, FS_AddElement
      <3> QED
        BY <1>2, <2>1, <3>1, <3>2
    <2> QED
      BY <2>2 DEF Occurs
  <1>5. CASE a[k] # a[m] /\ a[m] = v
    <2>1. B = (A \ {m}) \cup {k} /\ m \in A /\ k \notin A \ {m}
      BY <1>1, <1>5
    <2>2. Cardinality(B) = Cardinality(A)
      <3> HIDE DEF A, B
      <3>1. IsFiniteSet(A \ {m}) /\ Cardinality(A \ {m}) = Cardinality(A) - 1
        BY <1>2, <2>1, FS_RemoveElement
      <3>2. Cardinality((A \ {m}) \cup {k}) = Cardinality(A \ {m}) + 1
        BY <2>1, <3>1, FS_AddElement
      <3> QED
        BY <1>2, <2>1, <3>1, <3>2
    <2> QED
      BY <2>2 DEF Occurs
  <1>6. CASE a[k] # v /\ a[m] # v
    <2>1. A = B
      BY <1>1, <1>6
    <2> QED
      BY <2>1 DEF Occurs
  <1> QED
    BY <1>3, <1>4, <1>5, <1>6

\* Before the merge everything remains.
LEMMA AllRemains ==
  ASSUME SortAssumption, \A t \in Sorters : idx[t] = First(t)
  PROVE  Remaining = Index
  BY Parts DEF Remaining

-----------------------------------------------------------------------------
(* The steps *)

LEMMA InitIInv == ASSUME SortAssumption, Init PROVE IInv
  <1>1. NTHR \in Nat \ {0} /\ TNUM \in Nat \ {0} /\ LONG_MAX \in Nat \ {0} /\ NUMNUM \in Nat
    BY Parts DEF SortAssumption
  <1>2. Remaining = Index
    BY AllRemains DEF Init
  <1>3. TypeOK
    <2>1. idx \in [Sorters -> Nat] /\ \A t \in Sorters : idx[t] \in First(t)..End(t)
      BY <1>1, Parts DEF Init
    <2>2. pc \in [Threads -> {"create", "none", "sort", "wait", "done", "merge", "exited"}]
      BY DEF Init
    <2>3. ix \in [Sorters -> 0..(TNUM - 1)] /\ jx \in [Sorters -> 1..TNUM]
      BY <1>1 DEF Init
    <2>4. snums \in [Index -> Number] /\ out \in 0..NUMNUM /\ arrived \in SUBSET Threads
      BY <1>1 DEF Init, Number
    <2> QED
      BY <2>1, <2>2, <2>3, <2>4 DEF Init, TypeOK
  <1>4. PhaseInv
    BY Parts DEF Init, PhaseInv, AllDone
  <1>5. ASSUME NEW t \in Sorters PROVE Reached(t)
    <2>1. ix[t] = 0 /\ jx[t] = 1 /\ First(t) \in Nat /\ First(t) \in Index /\ TNUM \in Nat
      BY <1>1, Parts DEF Init, Index
    <2>2. nums[First(t)] \in Nat
      BY <2>1, <1>1 DEF Init, Number
    <2> QED
      BY <2>1, <2>2 DEF Reached
  <1>6. MergeInv
    BY <1>1, <1>2, IndexFinite DEF MergeInv, Init
  <1>7. OutputSorted
    BY DEF Init, OutputSorted
  <1>8. Conserved
    <2>1. 0..(out - 1) = {}
      BY DEF Init
    <2> SUFFICES ASSUME NEW v \in Number
                 PROVE  Occurs(input, Index, v) = Occurs(nums, Index, v) + Occurs(snums, {}, v)
      BY <1>2, <2>1 DEF Conserved
    <2>2. Occurs(snums, {}, v) = 0
      <3>1. {j \in {} : snums[j] = v} = {}
        OBVIOUS
      <3> QED
        BY <3>1, FS_EmptySet DEF Occurs
    <2>3. Occurs(nums, Index, v) \in Nat
      BY IndexFinite, FS_CardinalityType DEF Occurs
    <2> QED
      BY <2>2, <2>3 DEF Init
  <1> QED
    BY <1>3, <1>4, <1>5, <1>6, <1>7, <1>8 DEF IInv

\* What only moves threads needs only a look at where they are.
LEMMA Moves ==
  ASSUME IInv, UNCHANGED <<sorting, input, merging>>,
         pc' \in [Threads -> {"create", "none", "sort", "wait", "done", "merge", "exited"}],
         arrived' \in SUBSET Threads, PhaseInv'
  PROVE  IInv'
  <1>1. UNCHANGED <<nums, ix, jx, input, idx, snums, out>>
    BY DEF sorting, merging
  <1>2. TypeOK'
    BY <1>1 DEF IInv, TypeOK
  <1>3. \A t \in Sorters : Reached(t)'
    BY <1>1 DEF IInv, Reached
  <1>4. MergeInv'
    BY <1>1 DEF IInv, MergeInv, Remaining
  <1>5. OutputSorted' /\ Conserved'
    BY <1>1 DEF IInv, OutputSorted, Conserved, Remaining, Occurs
  <1> QED
    BY <1>2, <1>3, <1>4, <1>5 DEF IInv

LEMMA CreateStep == ASSUME SortAssumption, IInv, NEW t \in Sorters, Create(t) PROVE IInv'
  <1>1. t \in Threads /\ t # Main /\ pc[t] = "none" /\ pc' = [pc EXCEPT ![t] = "sort"]
    BY Parts DEF Create, Goto
  <1>2. UNCHANGED <<nums, ix, jx, input, arrived, idx, snums, out>>
    BY DEF Create, sorting, merging
  <1>3. pc' \in [Threads -> {"create", "none", "sort", "wait", "done", "merge", "exited"}]
    BY <1>1 DEF IInv, TypeOK
  <1>4. \A u \in Threads : pc'[u] = IF u = t THEN "sort" ELSE pc[u]
    BY <1>1 DEF IInv, TypeOK
  <1>5. ~AllDone /\ ~AllDone'
    BY <1>1, <1>4 DEF AllDone
  <1>6. PhaseInv'
    BY <1>1, <1>2, <1>4, <1>5, Parts DEF IInv, PhaseInv
  <1> QED
    BY <1>2, <1>3, <1>6, Moves DEF Create, IInv, TypeOK

LEMMA LeaveStep ==
  ASSUME SortAssumption, IInv, CreateFails \/ Finish
  PROVE  IInv'
  <1>1. /\ pc' = [pc EXCEPT ![Main] = "exited"] /\ pc[Main] \in {"create", "merge"}
        /\ UNCHANGED <<sorting, input, arrived, merging>>
    BY DEF CreateFails, Finish, Goto
  <1>2. UNCHANGED <<nums, ix, jx, input, arrived, idx, snums, out>>
    BY <1>1 DEF sorting, merging
  <1>3. pc' \in [Threads -> {"create", "none", "sort", "wait", "done", "merge", "exited"}]
    BY <1>1 DEF IInv, TypeOK
  <1>4. \A u \in Threads : pc'[u] = IF u = Main THEN "exited" ELSE pc[u]
    BY <1>1 DEF IInv, TypeOK
  <1>5. AllDone' <=> AllDone
    BY <1>4, Parts DEF AllDone
  <1>6. PhaseInv'
    BY <1>1, <1>2, <1>4, <1>5, Parts DEF IInv, PhaseInv
  <1> QED
    BY <1>1, <1>2, <1>3, <1>6, Moves DEF IInv, TypeOK

\* The barrier: the last one to come lets everybody through.
LEMMA ArriveStep ==
  ASSUME SortAssumption, IInv, NEW t \in Threads, NEW from \in {"sort", "create"}, Arrive(t, from),
         t # Main => ix[t] = TNUM - 1 /\ from = "sort",
         t = Main => from = "create"
  PROVE  IInv'
  <1>1. pc[t] = from /\ UNCHANGED <<sorting, input, merging>>
    BY DEF Arrive
  <1>2. UNCHANGED <<nums, ix, jx, input, idx, snums, out>>
    BY <1>1 DEF sorting, merging
  <1>3. ~AllDone
    BY <1>1, Parts DEF AllDone, IInv, PhaseInv
  <1>4. CASE arrived \cup {t} = Threads
    <2>1. pc' = [u \in Threads |-> IF u = Main THEN "merge" ELSE "done"] /\ arrived' = {}
      BY <1>4 DEF Arrive
    <2>2. \A u \in Sorters : pc'[u] = "done" /\ ix'[u] = TNUM - 1
      BY <1>2, <1>4, <2>1, Parts DEF IInv, PhaseInv
    <2>3. pc'[Main] = "merge" /\ AllDone'
      BY <2>1, <2>2, Parts DEF AllDone
    <2>4. arrived' = {u \in Threads : pc'[u] = "wait"}
      BY <2>1
    <2>5. PhaseInv'
      BY <2>2, <2>3, <2>4 DEF PhaseInv
    <2> QED
      BY <1>1, <2>1, <2>5, Moves
  <1>5. CASE arrived \cup {t} # Threads
    <2>1. pc' = [pc EXCEPT ![t] = "wait"] /\ arrived' = arrived \cup {t}
      BY <1>5 DEF Arrive
    <2>2. pc' \in [Threads -> {"create", "none", "sort", "wait", "done", "merge", "exited"}]
      BY <2>1 DEF IInv, TypeOK
    <2>3. \A u \in Threads : pc'[u] = IF u = t THEN "wait" ELSE pc[u]
      BY <2>1 DEF IInv, TypeOK
    <2>4. ~AllDone'
      BY <1>3, <2>3, Parts DEF AllDone
    <2>5. arrived' = {u \in Threads : pc'[u] = "wait"}
      BY <2>1, <2>3 DEF IInv, PhaseInv
    <2>6. PhaseInv'
      BY <1>1, <1>2, <1>3, <2>3, <2>4, <2>5, Parts DEF IInv, PhaseInv
    <2> QED
      BY <1>1, <2>1, <2>2, <2>6, Moves DEF IInv, TypeOK
  <1> QED
    BY <1>4, <1>5

\* A comparison of the heapsort: the other parts are not touched.
LEMMA ExchangeStep == ASSUME SortAssumption, IInv, NEW t \in Sorters, Exchange(t) PROVE IInv'
  <1> DEFINE k == First(t) + ix[t]
             m == First(t) + jx[t]
  <1>0. /\ TNUM \in Nat /\ TNUM >= 1 /\ NUMNUM \in Nat
        /\ First(t) \in Nat /\ End(t) = First(t) + TNUM /\ End(t) <= NUMNUM
    BY Parts
  <1>1. /\ UNCHANGED <<input, pc, arrived, idx, snums, out>>
        /\ pc[t] = "sort" /\ ix[t] < TNUM - 1
        /\ nums' = IF nums[k] > nums[m] THEN Swap(nums, k, m) ELSE nums
        /\ Advance(t)
    BY DEF Exchange, merging
  <1>2. /\ ix[t] \in Nat /\ jx[t] \in Nat /\ ix[t] < jx[t] /\ jx[t] <= TNUM - 1
        /\ ix \in [Sorters -> 0..(TNUM - 1)] /\ jx \in [Sorters -> 1..TNUM]
    BY <1>0, <1>1 DEF IInv, TypeOK, Reached
  <1>3. k \in Nat /\ m \in Nat /\ k \in Index /\ m \in Index /\ First(t) <= k /\ k < m /\ m < End(t)
    BY <1>0, <1>2 DEF Index
  <1>4. nums \in [Index -> Number]
    BY DEF IInv, TypeOK
  <1>5. /\ nums' \in [Index -> Number]
        /\ \A j \in Index : j # k /\ j # m => nums'[j] = nums[j]
        /\ nums'[k] <= nums[k] /\ nums'[k] <= nums[m] /\ nums'[k] <= nums'[m]
        /\ nums'[k] \in {nums[k], nums[m]} /\ nums'[m] \in {nums[k], nums[m]}
    <2> HIDE DEF k, m
    <2>1. \A j \in Index : nums[j] \in Int
      BY <1>4 DEF Number
    <2>2. CASE nums[k] > nums[m]
      BY <1>1, <1>3, <1>4, <2>1, <2>2 DEF Swap
    <2>3. CASE ~(nums[k] > nums[m])
      BY <1>1, <1>3, <1>4, <2>1, <2>3
    <2> QED
      BY <2>2, <2>3
  <1>6. /\ ix' \in [Sorters -> 0..(TNUM - 1)] /\ jx' \in [Sorters -> 1..TNUM]
        /\ \A u \in Sorters : u # t => ix'[u] = ix[u] /\ jx'[u] = jx[u]
        /\ \/ jx[t] < TNUM - 1 /\ ix'[t] = ix[t] /\ jx'[t] = jx[t] + 1
           \/ jx[t] = TNUM - 1 /\ ix'[t] = ix[t] + 1 /\ jx'[t] = ix[t] + 2
    BY <1>0, <1>1, <1>2 DEF Advance
  <1>7. ~AllDone /\ out = 0 /\ Remaining = Index /\ Remaining' = Index
    <2>1. ~AllDone
      BY <1>1 DEF AllDone
    <2>2. out = 0 /\ \A u \in Sorters : idx[u] = First(u)
      BY <2>1 DEF IInv, PhaseInv
    <2>3. Remaining' = Remaining
      BY <1>1 DEF Remaining
    <2> QED
      BY <2>1, <2>2, <2>3, AllRemains
  <1>8. TypeOK'
    BY <1>1, <1>5, <1>6 DEF IInv, TypeOK
  <1>9. PhaseInv'
    <2>1. AllDone' <=> AllDone
      BY <1>1 DEF AllDone
    <2>2. \A u \in Sorters : pc[u] \in {"wait", "done"} => ix'[u] = ix[u]
      BY <1>1, <1>6
    <2> QED
      BY <1>1, <2>1, <2>2 DEF IInv, PhaseInv
  <1>10. Reached(t)'
    <2> HIDE DEF k, m
    <2>0. \A j \in Index : nums[j] \in Int /\ nums'[j] \in Int
      BY <1>4, <1>5 DEF Number
    <2>00. \A j \in First(t)..(End(t) - 1) : j \in Index /\ j \in Int
      BY <1>0 DEF Index
    <2>1. ASSUME NEW a \in First(t)..(k - 1), NEW b \in First(t)..(End(t) - 1), a <= b
          PROVE  nums'[a] <= nums'[b]
      <3>1. \A x \in First(t)..(k - 1), y \in First(t)..(End(t) - 1) : x <= y => nums[x] <= nums[y]
        BY DEF IInv, Reached, k
      <3>2. a \in Index /\ a # k /\ a # m /\ a \in Int /\ a <= k /\ a <= m
        BY <1>0, <1>3 DEF Index
      <3>3. nums'[a] = nums[a]
        BY <1>5, <3>2
      <3>4. nums[a] <= nums[b] /\ nums[a] <= nums[k] /\ nums[a] <= nums[m]
        BY <1>0, <1>3, <2>1, <3>1, <3>2
      <3> QED
        BY <1>5, <2>00, <3>3, <3>4
    <2>2. ASSUME NEW b \in k..m PROVE nums'[k] <= nums'[b]
      <3>1. \A y \in k..(First(t) + jx[t] - 1) : nums[k] <= nums[y]
        BY DEF IInv, Reached, k
      <3>2. CASE b = k \/ b = m
        BY <1>3, <1>5, <2>0, <3>2
      <3>3. CASE b # k /\ b # m
        <4>1. b \in k..(First(t) + jx[t] - 1) /\ b \in Index
          BY <1>0, <1>2, <1>3, <3>3 DEF Index, m
        <4>2. nums[k] <= nums[b] /\ nums'[b] = nums[b]
          BY <1>5, <3>1, <3>3, <4>1
        <4> QED
          BY <1>3, <1>5, <2>0, <4>1, <4>2
      <3> QED
        BY <3>2, <3>3
    <2>3. CASE jx[t] < TNUM - 1 /\ ix'[t] = ix[t] /\ jx'[t] = jx[t] + 1
      <3>1. First(t) + ix'[t] = k /\ First(t) + jx'[t] - 1 = m
        BY <1>0, <1>2, <2>3 DEF k, m
      <3>2. jx'[t] > ix'[t] /\ jx'[t] <= TNUM - 1
        BY <1>0, <1>2, <2>3
      <3> QED
        BY <2>1, <2>2, <3>1, <3>2 DEF Reached
    <2>4. CASE jx[t] = TNUM - 1 /\ ix'[t] = ix[t] + 1 /\ jx'[t] = ix[t] + 2
      <3>1. First(t) + ix'[t] = k + 1 /\ First(t) + jx'[t] - 1 = k + 1 /\ m = End(t) - 1
        BY <1>0, <1>2, <2>4 DEF k, m
      <3>2. jx'[t] > ix'[t] /\ (ix'[t] < TNUM - 1 => jx'[t] <= TNUM - 1)
        BY <1>0, <1>2, <2>4
      <3>3. \A a \in First(t)..k, b \in First(t)..(End(t) - 1) : a <= b => nums'[a] <= nums'[b]
        <4> SUFFICES ASSUME NEW a \in First(t)..k, NEW b \in First(t)..(End(t) - 1), a <= b
                     PROVE  nums'[a] <= nums'[b]
          OBVIOUS
        <4>1. CASE a = k
          BY <1>0, <1>3, <2>2, <3>1, <4>1
        <4>2. CASE a # k
          BY <1>0, <1>3, <2>1, <4>2
        <4> QED
          BY <4>1, <4>2
      <3>4. \A b \in (k + 1)..(k + 1) : nums'[k + 1] <= nums'[b]
        <4>1. k + 1 \in Index
          BY <1>0, <1>3 DEF Index
        <4> QED
          BY <1>3, <2>0, <4>1
      <3>5. (k + 1) - 1 = k
        BY <1>3
      <3> QED
        BY <3>1, <3>2, <3>3, <3>4, <3>5 DEF Reached
    <2> QED
      BY <1>6, <2>3, <2>4
  <1>11. ASSUME NEW u \in Sorters, u # t PROVE Reached(u)'
    <2>0. /\ First(u) \in Nat /\ End(u) = First(u) + TNUM /\ End(u) <= NUMNUM
          /\ ix[u] \in 0..(TNUM - 1) /\ jx[u] \in 1..TNUM
          /\ End(u) <= First(t) \/ End(t) <= First(u)
      <3>1. t \in Nat /\ u \in Nat
        BY Parts
      <3>2. t < u \/ u < t
        BY <3>1, <1>11
      <3> QED
        BY <1>2, <3>2, Parts
    <2>1. \A j \in First(u)..(End(u) - 1) : nums'[j] = nums[j]
      <3> SUFFICES ASSUME NEW j \in First(u)..(End(u) - 1) PROVE nums'[j] = nums[j]
        OBVIOUS
      <3>1. j \in Index /\ j # k /\ j # m
        BY <1>0, <1>3, <2>0 DEF Index
      <3> QED
        BY <1>5, <3>1
    <2>2. /\ \A a \in First(u)..(First(u) + ix[u] - 1) : a \in First(u)..(End(u) - 1)
          /\ \A b \in (First(u) + ix[u])..(First(u) + jx[u] - 1) : b \in First(u)..(End(u) - 1)
          /\ First(u) + ix[u] \in First(u)..(End(u) - 1)
      BY <1>0, <2>0
    <2>3. Reached(u)
      BY DEF IInv
    <2> HIDE DEF k, m
    <2>4. ix'[u] = ix[u] /\ jx'[u] = jx[u]
      BY <1>6, <1>11
    <2> DEFINE h == First(u) + ix[u]
               l == First(u) + jx[u] - 1
    <2>5. First(u) + ix'[u] = h /\ First(u) + jx'[u] - 1 = l
      BY <2>4
    <2>6. /\ \A a \in First(u)..(h - 1) : nums'[a] = nums[a]
          /\ \A b \in h..l : nums'[b] = nums[b]
          /\ nums'[h] = nums[h]
      <3>1. /\ \A a \in First(u)..(h - 1) : a \in First(u)..(End(u) - 1)
            /\ \A b \in h..l : b \in First(u)..(End(u) - 1)
            /\ h \in First(u)..(End(u) - 1)
        BY <1>0, <2>0
      <3> HIDE DEF h, l
      <3> QED
        BY <2>1, <3>1
    <2>7. /\ \A a \in First(u)..(h - 1), b \in First(u)..(End(u) - 1) : a <= b => nums[a] <= nums[b]
          /\ \A b \in h..l : nums[h] <= nums[b]
          /\ jx[u] > ix[u]
          /\ ix[u] < TNUM - 1 => jx[u] <= TNUM - 1
      BY <2>3 DEF Reached
    <2> HIDE DEF h, l
    <2>8. /\ \A a \in First(u)..(h - 1), b \in First(u)..(End(u) - 1) : a <= b => nums'[a] <= nums'[b]
          /\ \A b \in h..l : nums'[h] <= nums'[b]
      BY <2>1, <2>6, <2>7
    <2> QED
      BY <2>4, <2>5, <2>7, <2>8 DEF Reached
  <1>12. MergeInv'
    BY <1>0, <1>1, <1>7, IndexFinite DEF MergeInv
  <1>13. OutputSorted'
    BY <1>1 DEF IInv, OutputSorted
  <1>14. Conserved'
    <2> SUFFICES ASSUME NEW v \in Number PROVE Occurs(nums', Index, v) = Occurs(nums, Index, v)
      BY <1>1, <1>7 DEF IInv, Conserved, Occurs
    <2> QED
      BY <1>1, <1>3, <1>4, SwapCount
  <1> QED
    BY <1>8, <1>9, <1>10, <1>11, <1>12, <1>13, <1>14 DEF IInv

\* When the main thread merges, the parts are sorted.
LEMMA DoneSorted ==
  ASSUME SortAssumption, IInv, pc[Main] = "merge", NEW u \in Sorters
  PROVE  /\ pc[u] = "done"
         /\ \A a, b \in First(u)..(End(u) - 1) : a <= b => nums[a] <= nums[b]
  <1>1. pc[u] = "done" /\ ix[u] = TNUM - 1
    BY DEF IInv, PhaseInv, AllDone
  <1>2. /\ NUMNUM \in Nat /\ TNUM \in Nat /\ TNUM >= 1
        /\ First(u) \in Nat /\ End(u) = First(u) + TNUM /\ End(u) <= NUMNUM
    BY Parts
  <1>3. Reached(u)
    BY DEF IInv
  <1>4. \A x \in First(u)..(First(u) + ix[u] - 1), y \in First(u)..(End(u) - 1) : x <= y => nums[x] <= nums[y]
    BY <1>1, <1>2, <1>3 DEF Reached
  <1>5. ASSUME NEW a \in First(u)..(End(u) - 1), NEW b \in First(u)..(End(u) - 1), a <= b
        PROVE  nums[a] <= nums[b]
    <2>1. First(u) + ix[u] - 1 = End(u) - 2
      BY <1>1, <1>2
    <2>2. CASE a <= End(u) - 2
      <3>1. a \in First(u)..(End(u) - 2)
        BY <1>2, <2>2
      <3> QED
        BY <1>5, <1>4, <2>1, <3>1
    <2>3. CASE a > End(u) - 2
      <3>1. a = b /\ a \in Index
        BY <1>2, <1>5, <2>3 DEF Index
      <3>2. nums[a] \in Nat
        BY <3>1 DEF IInv, TypeOK, Number
      <3> QED
        BY <3>1, <3>2
    <2> QED
      BY <1>2, <2>2, <2>3
  <1> QED
    BY <1>1, <1>5

\* merge takes the least head; what is behind it in its part is not below it.
LEMMA MergeStepStep == ASSUME SortAssumption, IInv, MergeStep PROVE IInv'
  <1>1. /\ pc[Main] = "merge" /\ out < NUMNUM /\ out' = out + 1
        /\ UNCHANGED <<nums, ix, jx, input, pc, arrived>>
    BY DEF MergeStep, sorting
  <1>2. PICK t \in Sorters : MinIdx(t) /\ Take(t) /\ snums' = [snums EXCEPT ![out] = nums[idx[t]]]
    BY DEF MergeStep
  <1> DEFINE j == idx[t]
  <1>3. /\ NUMNUM \in Nat /\ TNUM \in Nat /\ TNUM >= 1
        /\ First(t) \in Nat /\ End(t) = First(t) + TNUM /\ End(t) <= NUMNUM
        /\ out \in Nat /\ j \in Nat /\ First(t) <= j /\ j < End(t) /\ j \in Index /\ out \in Index
        /\ nums \in [Index -> Number] /\ snums \in [Index -> Number]
    <2>1. /\ NUMNUM \in Nat /\ TNUM \in Nat /\ TNUM >= 1
          /\ First(t) \in Nat /\ End(t) = First(t) + TNUM /\ End(t) <= NUMNUM
      BY Parts
    <2>2. idx[t] \in First(t)..End(t) /\ idx[t] < End(t) /\ out \in 0..NUMNUM
      BY <1>2 DEF IInv, TypeOK, MinIdx, Left
    <2>3. nums \in [Index -> Number] /\ snums \in [Index -> Number]
      BY DEF IInv, TypeOK
    <2> QED
      BY <1>1, <2>1, <2>2, <2>3 DEF Index
  <1>4. /\ idx' \in [Sorters -> Nat] /\ idx'[t] = j + 1
        /\ \A u \in Sorters : u # t => idx'[u] = idx[u]
    BY <1>2, <1>3 DEF Take, IInv, TypeOK
  <1>5. /\ AllDone
        /\ \A u \in Sorters : \A a, b \in First(u)..(End(u) - 1) : a <= b => nums[a] <= nums[b]
    BY <1>1, DoneSorted DEF AllDone
  <1>6. j \in Remaining /\ Remaining' = Remaining \ {j} /\ Remaining \in SUBSET Index
    <2>1. ASSUME NEW i \in Index
          PROVE  i \in Remaining' <=> i \in Remaining /\ i # j
      <3>0. i \in Nat
        BY <1>3 DEF Index
      <3>1. ASSUME NEW u \in Sorters, u # t, idx[u] <= i, i < End(u) PROVE i # j
        <4>1. t \in Nat /\ u \in Nat /\ End(u) \in Nat /\ First(u) \in Nat /\ idx[u] \in First(u)..End(u)
          BY <1>3, Parts DEF IInv, TypeOK
        <4>2. End(u) <= First(t) \/ End(t) <= First(u)
          BY <3>1, <4>1, Parts
        <4> QED
          BY <1>3, <3>0, <3>1, <4>1, <4>2
      <3>2. i \in Remaining' <=> \E u \in Sorters : idx'[u] <= i /\ i < End(u)
        BY DEF Remaining
      <3>3. i \in Remaining <=> \E u \in Sorters : idx[u] <= i /\ i < End(u)
        BY DEF Remaining
      <3>4. j + 1 <= i <=> j <= i /\ i # j
        BY <1>3, <3>0
      <3> HIDE DEF j
      <3>5. idx[t] = j
        BY DEF j
      <3> QED
        BY <1>4, <3>1, <3>2, <3>3, <3>4, <3>5
    <2>2. Remaining \subseteq Index /\ Remaining' \subseteq Index
      BY DEF Remaining
    <2>3. j \in Remaining
      BY <1>3 DEF Remaining
    <2> QED
      BY <2>1, <2>2, <2>3
  <1>7. /\ snums' \in [Index -> Number] /\ snums'[out] = nums[j]
        /\ \A i \in 0..(out - 1) : snums'[i] = snums[i] /\ i \in Index
        /\ 0..(out' - 1) = 0..(out - 1) \cup {out} /\ out \notin 0..(out - 1)
    <2>1. \A i \in 0..(out - 1) : i \in Index /\ i # out
      BY <1>1, <1>3 DEF Index
    <2>2. 0..(out' - 1) = 0..(out - 1) \cup {out} /\ out \notin 0..(out - 1)
      BY <1>1, <1>3
    <2> HIDE DEF j
    <2>3. snums' = [snums EXCEPT ![out] = nums[j]]
      BY <1>2 DEF j
    <2> QED
      BY <1>3, <2>1, <2>2, <2>3
  <1> HIDE DEF j
  <1>8. TypeOK'
    <2>1. \A u \in Sorters : idx'[u] \in First(u)..End(u)
      BY <1>3, <1>4 DEF IInv, TypeOK
    <2>2. out' \in 0..NUMNUM
      BY <1>1, <1>3
    <2> QED
      BY <1>1, <1>4, <1>7, <2>1, <2>2 DEF IInv, TypeOK
  <1>9. PhaseInv'
    <2>1. AllDone'
      BY <1>1, <1>5 DEF AllDone
    <2> QED
      BY <1>1, <2>1 DEF IInv, PhaseInv
  <1>10. \A u \in Sorters : Reached(u)'
    BY <1>1 DEF IInv, Reached
  <1>11. MergeInv'
    <2>1. IsFiniteSet(Remaining)
      BY <1>6, IndexFinite
    <2>2. Cardinality(Remaining') = Cardinality(Remaining) - 1 /\ Cardinality(Remaining) \in Nat
      BY <1>6, <2>1, FS_RemoveElement, FS_CardinalityType
    <2>3. Cardinality(Remaining') + out' = NUMNUM
      BY <1>1, <1>3, <2>2 DEF IInv, MergeInv
    <2>4. ASSUME NEW i \in Remaining' PROVE nums[j] <= nums[i]
      <3>1. PICK u \in Sorters : idx[u] <= i /\ i < End(u)
        BY <1>6 DEF Remaining
      <3>2. /\ i \in Index /\ i \in Nat /\ idx[u] \in First(u)..End(u) /\ First(u) \in Nat /\ End(u) \in Nat
            /\ End(u) <= NUMNUM
        <4>1. First(u) \in Nat /\ End(u) = First(u) + TNUM /\ End(u) <= NUMNUM
          BY Parts
        <4>2. idx[u] \in First(u)..End(u)
          BY DEF IInv, TypeOK
        <4>3. i \in Index /\ i \in Nat
          BY <1>3, <1>6 DEF Index
        <4> QED
          BY <1>3, <4>1, <4>2, <4>3
      <3>3. idx[u] < End(u) /\ idx[u] \in First(u)..(End(u) - 1) /\ i \in First(u)..(End(u) - 1) /\ idx[u] \in Index
        BY <1>3, <3>1, <3>2 DEF Index
      <3>4. nums[idx[u]] <= nums[i]
        BY <1>5, <3>1, <3>3
      <3>5. nums[j] <= nums[idx[u]]
        BY <1>2, <3>3 DEF MinIdx, Left, j
      <3>6. nums[j] \in Int /\ nums[i] \in Int /\ nums[idx[u]] \in Int
        BY <1>3, <3>2, <3>3 DEF Number
      <3> QED
        BY <3>4, <3>5, <3>6
    <2>5. ASSUME NEW i \in 0..(out' - 1), NEW l \in Remaining' PROVE snums'[i] <= nums'[l]
      <3>1. CASE i = out
        BY <1>1, <1>7, <2>4, <3>1
      <3>2. CASE i \in 0..(out - 1)
        BY <1>1, <1>6, <1>7, <3>2 DEF IInv, MergeInv
      <3> QED
        BY <1>7, <3>1, <3>2
    <2> QED
      BY <2>3, <2>5 DEF MergeInv
  <1>12. OutputSorted'
    <2> SUFFICES ASSUME NEW a \in 0..(out' - 1), NEW b \in 0..(out' - 1), a <= b PROVE snums'[a] <= snums'[b]
      BY DEF OutputSorted
    <2>1. CASE a \in 0..(out - 1) /\ b \in 0..(out - 1)
      BY <1>7, <2>1 DEF IInv, OutputSorted
    <2>2. CASE a \in 0..(out - 1) /\ b = out
      BY <1>6, <1>7, <2>2 DEF IInv, MergeInv
    <2>3. CASE a = out
      <3>1. b = out
        BY <1>1, <1>3, <2>3
      <3>2. nums[j] \in Int
        BY <1>3 DEF Number
      <3> QED
        BY <1>7, <2>3, <3>1, <3>2
    <2> QED
      BY <1>7, <2>1, <2>2, <2>3
  <1>13. Conserved'
    <2> SUFFICES ASSUME NEW v \in Number
                 PROVE  Occurs(input', Index, v) = Occurs(nums', Remaining', v) + Occurs(snums', 0..(out' - 1), v)
      BY DEF Conserved
    <2>1. Occurs(input, Index, v) = Occurs(nums, Remaining, v) + Occurs(snums, 0..(out - 1), v)
      BY DEF IInv, Conserved
    <2> DEFINE R == {i \in Remaining : nums[i] = v}
               R2 == {i \in Remaining' : nums'[i] = v}
               W == {i \in 0..(out - 1) : snums[i] = v}
               W2 == {i \in 0..(out' - 1) : snums'[i] = v}
    <2>2. R \in SUBSET Index /\ W \in SUBSET Index
      BY <1>6, <1>7
    <2>3. IsFiniteSet(R) /\ Cardinality(R) \in Nat /\ IsFiniteSet(W) /\ Cardinality(W) \in Nat
      BY <2>2, IndexFinite, FS_CardinalityType
    <2>4. Cardinality(R) + Cardinality(W) = Cardinality(R2) + Cardinality(W2)
      <3>1. CASE nums[j] = v
        <4>1. R2 = R \ {j} /\ j \in R
          BY <1>1, <1>6, <3>1
        <4>2. W2 = W \cup {out} /\ out \notin W
          BY <1>7, <3>1
        <4> HIDE DEF R, R2, W, W2
        <4>3. Cardinality(R2) = Cardinality(R) - 1
          BY <2>3, <4>1, FS_RemoveElement
        <4>4. Cardinality(W2) = Cardinality(W) + 1
          BY <2>3, <4>2, FS_AddElement
        <4> QED
          BY <2>3, <4>3, <4>4
      <3>2. CASE nums[j] # v
        <4>1. R2 = R
          BY <1>1, <1>6, <3>2
        <4>2. W2 = W
          BY <1>7, <3>2
        <4> HIDE DEF R, R2, W, W2
        <4> QED
          BY <4>1, <4>2
      <3> QED
        BY <3>1, <3>2
    <2>5. Occurs(input', Index, v) = Occurs(input, Index, v)
      BY <1>1
    <2> QED
      BY <2>1, <2>4, <2>5 DEF Occurs
  <1> QED
    BY <1>8, <1>9, <1>10, <1>11, <1>12, <1>13 DEF IInv

LEMMA StepIInv == ASSUME SortAssumption, IInv, [Next]_vars PROVE IInv'
  <1>1. ASSUME NEW t \in Sorters, SortDone(t) PROVE IInv'
    BY <1>1, ArriveStep, Parts DEF SortDone
  <1>2. CASE MainArrives
    BY <1>2, ArriveStep, Parts DEF MainArrives
  <1>3. CASE UNCHANGED vars
    <2>1. UNCHANGED <<sorting, input, merging, pc, arrived>>
      BY <1>3 DEF vars, sorting, merging
    <2>2. PhaseInv'
      BY <1>3 DEF vars, IInv, PhaseInv, AllDone
    <2> QED
      BY <2>1, <2>2, Moves DEF IInv, TypeOK
  <1>4. ASSUME NEW t \in Sorters, Create(t) \/ Exchange(t) PROVE IInv'
    BY <1>4, CreateStep, ExchangeStep
  <1>5. CASE CreateFails \/ Finish \/ MergeStep
    BY <1>5, LeaveStep, MergeStepStep
  <1> QED
    BY <1>1, <1>2, <1>3, <1>4, <1>5 DEF Next, barrier_test, thread_fun, Exited

THEOREM Invariance == SortAssumption => (Spec => []IInv)
  <1> SUFFICES ASSUME SortAssumption PROVE Spec => []IInv
    OBVIOUS
  <1> QED
    BY InitIInv, StepIInv, PTL DEF Spec

\* min_idx is set: the parts are not all used up before the output is full.
LEMMA HeadExists ==
  ASSUME SortAssumption, IInv, out < NUMNUM
  PROVE  \E t \in Sorters : MinIdx(t)
  <1> DEFINE H == {t \in Sorters : Left(t)}
             V == {nums[idx[t]] : t \in H}
  <1>1. /\ NUMNUM \in Nat /\ LONG_MAX \in Nat /\ out \in Nat
        /\ \A t \in Sorters : t \in Nat
    BY Parts DEF SortAssumption, IInv, TypeOK
  <1>2. \A t \in H : nums[idx[t]] \in Nat /\ nums[idx[t]] < LONG_MAX
    <2> SUFFICES ASSUME NEW t \in H PROVE nums[idx[t]] \in Nat /\ nums[idx[t]] < LONG_MAX
      OBVIOUS
    <2>1. First(t) \in Nat /\ End(t) \in Nat /\ End(t) <= NUMNUM
      BY Parts, <1>1
    <2>2. idx[t] \in First(t)..End(t) /\ idx[t] < End(t)
      BY DEF IInv, TypeOK, Left
    <2>3. idx[t] \in Index
      BY <1>1, <2>1, <2>2 DEF Index
    <2> QED
      BY <1>1, <2>3 DEF IInv, TypeOK, Number
  <1>3. H # {}
    <2>1. Remaining # {}
      BY <1>1, FS_EmptySet DEF IInv, MergeInv
    <2>2. PICK k \in Index, t \in Sorters : idx[t] <= k /\ k < End(t)
      BY <2>1 DEF Remaining
    <2>3. k \in Nat /\ idx[t] \in Nat /\ End(t) \in Nat
      BY <1>1, Parts DEF Index, IInv, TypeOK
    <2> QED
      BY <2>2, <2>3 DEF Left
  <1>4. V \in SUBSET Nat /\ V # {}
    BY <1>2, <1>3
  <1>5. PICK v \in V : \A w \in V : v <= w
    BY <1>4, LeastNat
  <1> DEFINE M == {t \in H : nums[idx[t]] = v}
  <1>6. M \in SUBSET Nat /\ M # {}
    BY <1>1
  <1>7. PICK t \in M : \A u \in M : t <= u
    BY <1>6, LeastNat
  <1>8. t \in Sorters /\ Left(t) /\ nums[idx[t]] < LONG_MAX /\ nums[idx[t]] = v /\ v \in Nat /\ t \in Nat
    BY <1>1, <1>2
  <1>9. ASSUME NEW u \in Sorters, Left(u)
        PROVE  nums[idx[t]] <= nums[idx[u]] /\ (u < t => nums[idx[t]] < nums[idx[u]])
    <2>1. u \in H /\ nums[idx[u]] \in V /\ nums[idx[u]] \in Nat /\ u \in Nat
      BY <1>1, <1>2, <1>9
    <2>2. v <= nums[idx[u]]
      BY <1>5, <2>1
    <2>3. nums[idx[u]] = v => t <= u
      BY <1>7, <2>1
    <2> HIDE DEF H, V, M
    <2> QED
      BY <1>8, <2>1, <2>2, <2>3
  <1> QED
    BY <1>8, <1>9 DEF MinIdx

LEMMA MergeProperties == ASSUME SortAssumption, IInv PROVE MergeAfterSort /\ MinIdxSet
  <1>1. MergeAfterSort
    BY DoneSorted DEF MergeAfterSort
  <1>2. MinIdxSet
    BY HeadExists DEF MinIdxSet
  <1> QED
    BY <1>1, <1>2

\* When merge reads nums every part is sorted, and no thread exchanges in it any more;
\* and merge always finds a least head.
THEOREM MergesAfterSort == SortAssumption => (Spec => [](MergeAfterSort /\ MinIdxSet))
  <1> SUFFICES ASSUME SortAssumption PROVE Spec => [](MergeAfterSort /\ MinIdxSet)
    OBVIOUS
  <1> QED
    BY Invariance, MergeProperties, PTL

\* The output is in order and has every number as often as the input.
THEOREM OutputIsSorted == SortAssumption => (Spec => [](OutputSorted /\ Conserved))
  <1>1. IInv => OutputSorted /\ Conserved
    BY DEF IInv
  <1> QED
    BY <1>1, Invariance, PTL


=============================================================================
