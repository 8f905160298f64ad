----------------------------- MODULE BarrierSort -----------------------------
(***************************************************************************)
(* The parallel sort of ch7_12_process/barier_test1.c: thread t sorts the   *)
(* part nums[t*TNUM .. (t+1)*TNUM - 1] by exchanges, all threads and the    *)
(* main thread meet at a barrier for NTHR + 1, and the main thread merges   *)
(* the sorted parts into snums.                                             *)
(***************************************************************************)
EXTENDS Integers, FiniteSets

CONSTANTS NTHR,     \* the number of sorting threads
          TNUM,     \* the length of a part
          LONG_MAX  \* larger than every number random() returns

\* there is something to sort
SortAssumption == NTHR \in Nat \ {0} /\ TNUM \in Nat \ {0} /\ LONG_MAX \in Nat \ {0}

NUMNUM == NTHR * TNUM
Index == 0..(NUMNUM - 1)
Number == 0..(LONG_MAX - 1)
Sorters == 0..(NTHR - 1)
Main == NTHR
Threads == 0..NTHR
First(t) == t * TNUM
End(t) == (t + 1) * TNUM

VARIABLES nums,      \* the array
          input,     \* what random() put in it (history)
          pc,        \* where each thread is
          ix, jx,    \* the indices of each heapsort, into its part
          arrived,   \* the threads waiting at the barrier
          idx,       \* merge: the next element of each part
          snums,     \* merge: the output ...
          out        \* ... and how much of it is written

vars == <<nums, input, pc, ix, jx, arrived, idx, snums, out>>
sorting == <<nums, ix, jx>>
merging == <<idx, snums, out>>

Init == /\ nums \in [Index -> Number]
        /\ input = nums
        /\ pc = [t \in Threads |-> IF t = Main THEN "create" ELSE "none"]
        /\ ix = [t \in Sorters |-> 0]
        /\ jx = [t \in Sorters |-> 1]
        /\ arrived = {}
        /\ idx = [t \in Sorters |-> First(t)]
        /\ snums = [k \in Index |-> 0]
        /\ out = 0

Goto(t, from, to) == pc[t] = from /\ pc' = [pc EXCEPT ![t] = to]

\* the threads are created in order; a failing pthread_create returns from
\* barrier_test, and the process exits
Create(t) == /\ pc[Main] = "create"
             /\ \A u \in Sorters : u < t => pc[u] # "none"
             /\ Goto(t, "none", "sort")
             /\ UNCHANGED <<sorting, input, arrived, merging>>

CreateFails == /\ \E t \in Sorters : pc[t] = "none"
               /\ Goto(Main, "create", "exited")
               /\ UNCHANGED <<sorting, input, arrived, merging>>

Swap(a, k, m) == [a EXCEPT ![k] = a[m], ![m] = a[k]]

Advance(t) ==
  IF jx[t] < TNUM - 1
    THEN /\ jx' = [jx EXCEPT ![t] = @ + 1]
         /\ UNCHANGED ix
    ELSE /\ ix' = [ix EXCEPT ![t] = @ + 1]
         /\ jx' = [jx EXCEPT ![t] = ix[t] + 2]

\* heapsort: one comparison of p[ix] with p[jx]
Exchange(t) ==
  /\ pc[Main] # "exited"
  /\ pc[t] = "sort"
  /\ ix[t] < TNUM - 1
  /\ LET k == First(t) + ix[t]
         m == First(t) + jx[t]
     IN nums' = IF nums[k] > nums[m] THEN Swap(nums, k, m) ELSE nums
  /\ Advance(t)
  /\ UNCHANGED <<input, pc, arrived, merging>>

\* pthread_barrier_wait: the last thread to arrive releases all
Arrive(t, from) ==
  /\ pc[t] = from
  /\ IF arrived \cup {t} = Threads
       THEN /\ pc' = [u \in Threads |-> IF u = Main THEN "merge" ELSE "done"]
            /\ arrived' = {}
       ELSE /\ pc' = [pc EXCEPT ![t] = "wait"]
            /\ arrived' = arrived \cup {t}
  /\ UNCHANGED <<sorting, input, merging>>

SortDone(t) == pc[Main] # "exited" /\ ix[t] = TNUM - 1 /\ Arrive(t, "sort")

\* mutant: the main thread is not counted by the barrier and does not wait
MainArrives_Uncounted == /\ \A t \in Sorters : pc[t] # "none"
                         /\ Goto(Main, "create", "merge")
                         /\ UNCHANGED <<sorting, input, arrived, merging>>

MainArrives == /\ \A t \in Sorters : pc[t] # "none"
               /\ Arrive(Main, "create")

Left(t) == idx[t] < End(t)

MinIdx(t) == /\ Left(t)
             /\ nums[idx[t]] < LONG_MAX
             /\ \A u \in Sorters : Left(u) => /\ nums[idx[t]] <= nums[idx[u]]
                                              /\ u < t => nums[idx[t]] < nums[idx[u]]

Take(t) == idx' = [idx EXCEPT ![t] = @ + 1]

MergeStep ==
  /\ pc[Main] = "merge"
  /\ out < NUMNUM
  /\ \E t \in Sorters : MinIdx(t) /\ Take(t) /\ snums' = [snums EXCEPT ![out] = nums[idx[t]]]
  /\ out' = out + 1
  /\ UNCHANGED <<sorting, input, pc, arrived>>

\* exit ends all threads
Finish == /\ out = NUMNUM
          /\ Goto(Main, "merge", "exited")
          /\ UNCHANGED <<sorting, input, arrived, merging>>

Exited == pc[Main] = "exited" /\ UNCHANGED vars

thread_fun(t) == Exchange(t) \/ SortDone(t)
barrier_test == MainArrives \/ MergeStep \/ Finish \/ \E t \in Sorters : Create(t)

Next == barrier_test \/ CreateFails \/ Exited \/ \E t \in Sorters : thread_fun(t)

Spec == Init /\ [][Next]_vars

\* every thread is scheduled; threads are not promised to be created
Fairness == /\ WF_vars(barrier_test)
            /\ \A t \in Sorters : WF_vars(thread_fun(t))

FairSpec == Spec /\ Fairness

-----------------------------------------------------------------------------

Remaining == {k \in Index : \E t \in Sorters : idx[t] <= k /\ k < End(t)}
Occurs(a, K, v) == Cardinality({k \in K : a[k] = v})

\* Every variable keeps its range; the indices of merge stay in their parts (one
\* past the end at most).
TypeOK == /\ nums \in [Index -> Number]
          /\ input \in [Index -> Number]
          /\ pc \in [Threads -> {"create", "none", "sort", "wait", "done", "merge", "exited"}]
          /\ ix \in [Sorters -> 0..(TNUM - 1)]
          /\ jx \in [Sorters -> 1..TNUM]
          /\ arrived \in SUBSET Threads
          /\ idx \in [Sorters -> Nat]
          /\ \A t \in Sorters : idx[t] \in First(t)..End(t)
          /\ snums \in [Index -> Number]
          /\ out \in 0..NUMNUM

\* The barrier separates the phases: when the main thread reads nums in merge
\* every part is sorted and no thread writes to it any more.
MergeAfterSort ==
  pc[Main] = "merge" =>
    \A t \in Sorters : /\ pc[t] = "done"
                       /\ \A k, m \in First(t)..(End(t) - 1) : k <= m => nums[k] <= nums[m]

\* The output is in order, as far as it is written.
OutputSorted == \A k, m \in 0..(out - 1) : k <= m => snums[k] <= snums[m]

\* No number is lost or made up: at every moment the numbers not yet merged and
\* the numbers written are those of the input, each as often.
Conserved == \A v \in Number : Occurs(input, Index, v)
                               = Occurs(nums, Remaining, v) + Occurs(snums, 0..(out - 1), v)

\* merge always finds a least head: min_idx is never used before it is set.
MinIdxSet == pc[Main] = "merge" /\ out < NUMNUM => \E t \in Sorters : MinIdx(t)

\* The program ends: nobody stays at the barrier.
Terminates == (\A t \in Sorters : pc[t] # "none") ~> pc[Main] = "exited"

=============================================================================
