---------------------------- MODULE JobQueue_proofs ----------------------------
(***************************************************************************)
(* Theorems about JobQueue, for every set of jobs, of threads and of         *)
(* operations.                                                               *)
(***************************************************************************)
EXTENDS JobQueue, SequenceTheorems, NaturalsInduction, WellFoundedInduction, TLAPS

Distinct(s) == \A k, m \in 1..Len(s) : s[k] = s[m] => k = m

Put == {j \in Jobs : Contains(queued, j)}
Linked == Put \ {q_tail}

TypeOK == /\ q_head \in Jobs \cup {NULL}
          /\ q_tail \in Jobs \cup {NULL}
          /\ j_next \in [Jobs -> Jobs \cup {NULL}]
          /\ j_prev \in [Jobs -> Jobs \cup {NULL}]
          /\ queued \in Seq(Jobs)
          /\ damaged \in BOOLEAN
          /\ relinked \in BOOLEAN
          /\ at \in [Finders -> Jobs \cup {NULL}]
          /\ crashed \in BOOLEAN

\* A job is queued once.
OrderInv == Distinct(queued)

EndsInv == ~crashed /\ q_head = NULL => q_tail = NULL

\* No two nodes lead to the same one, and none to the head; only the tail may.
EntryInv == \A k \in Linked : j_next[k] # NULL =>
              /\ j_next[k] # q_head
              /\ \A m \in Linked : j_next[m] = j_next[k] => m = k

\* If a job was appended behind the tail, the tail is out of reach: the jobs reached from
\* the head are among jobs S that the tail is not, no job outside S has one of S before
\* it, and a job of S that is reached has none outside S before it.
Apart(S) == /\ q_head \in S \cup {NULL} /\ q_tail \notin S
            /\ \A k \in S : j_next[k] \in S \cup {NULL}
            /\ \A k \in Put \ S : j_prev[k] \notin S
            /\ \A k \in S, m \in Linked : j_next[m] = k => j_prev[k] \in S \cup {NULL}
ApartInv == q_tail # NULL /\ j_next[q_tail] # NULL => \E S \in SUBSET Jobs : Apart(S)

\* Jobs can be ranked such that j_next always leads down: job_insert puts a job above all
\* others and job_append below.  What a removal links instead of the removed job lies on
\* the same side of the other.
Down(r, lo, hi) ==
  /\ \A k \in Jobs : lo < r[k] /\ r[k] < hi
  /\ \A k \in Jobs : j_next[k] # NULL => r[j_next[k]] < r[k]
  /\ \A k \in Put : j_prev[k] # NULL => r[k] <= r[j_prev[k]]
  /\ \A k \in Linked : j_next[k] # NULL /\ j_prev[j_next[k]] # NULL => r[j_prev[j_next[k]]] <= r[k]
DownInv == \E r \in [Jobs -> Int], lo, hi \in Int : Down(r, lo, hi)

\* All that of a list to which no job was put while a link named it.
LinksInv == ~relinked => EndsInv /\ EntryInv /\ ApartInv /\ DownInv

IInv == TypeOK /\ OrderInv /\ LinksInv /\ ListFaithful /\ FindOnQueued

-----------------------------------------------------------------------------
(* Sequences of jobs *)

LEMMA PrependJob ==
  ASSUME NEW S, NEW s \in Seq(S), NEW e \in S
  PROVE  /\ <<e>> \o s \in Seq(S)
         /\ \A x : Contains(<<e>> \o s, x) <=> x = e \/ Contains(s, x)
         /\ Distinct(s) /\ ~Contains(s, e) => Distinct(<<e>> \o s)
  <1> DEFINE r == <<e>> \o s
  <1>1. /\ r \in Seq(S) /\ Len(s) \in Nat /\ Len(r) = Len(s) + 1
        /\ \A k \in 1..Len(r) : r[k] = IF k = 1 THEN e ELSE s[k - 1]
    OBVIOUS
  <1> HIDE DEF r
  <1>2. 1 \in 1..Len(r) /\ \A k \in 1..Len(s) : k + 1 \in 1..Len(r) /\ r[k + 1] = s[k]
    BY <1>1
  <1>3. \A k \in 1..Len(r) : k = 1 \/ k - 1 \in 1..Len(s)
    BY <1>1
  <1>4. ASSUME NEW x PROVE Contains(r, x) <=> x = e \/ Contains(s, x)
    BY <1>1, <1>2, <1>3 DEF Contains
  <1>5. ASSUME Distinct(s), ~Contains(s, e), NEW k \in 1..Len(r), NEW m \in 1..Len(r), r[k] = r[m]
        PROVE  k = m
    <2>1. CASE k = 1 \/ m = 1
      BY <1>1, <1>3, <1>5, <2>1 DEF Contains
    <2>2. CASE k # 1 /\ m # 1
      <3>1. k - 1 \in 1..Len(s) /\ m - 1 \in 1..Len(s) /\ s[k - 1] = s[m - 1]
        BY <1>1, <1>3, <1>5, <2>2
      <3>2. k - 1 = m - 1
        BY <1>5, <3>1 DEF Distinct
      <3> QED
        BY <3>2
    <2> QED
      BY <2>1, <2>2
  <1> QED
    BY <1>1, <1>4, <1>5 DEF Distinct, r

LEMMA RemoveAtPosition ==
  ASSUME NEW S, NEW s \in Seq(S), NEW k0 \in 1..Len(s), Distinct(s)
  PROVE  /\ RemoveFirst(s, s[k0]) \in Seq(S)
         /\ Len(RemoveFirst(s, s[k0])) = Len(s) - 1
         /\ \A k \in 1..(Len(s) - 1) : RemoveFirst(s, s[k0])[k] = IF k < k0 THEN s[k] ELSE s[k + 1]
  <1> DEFINE e == s[k0]
             r == RemoveFirst(s, e)
  <1>p. \A k \in 1..Len(s) : s[k] = e <=> k = k0
    BY DEF Distinct
  <1>q. SelectInSeq(s, LAMBDA v : v = e) = k0
    <2>1. {k \in 1..Len(s) : s[k] = e} = {k0}
      BY <1>p
    <2>2. Min({k0}) = k0
      BY DEF Min
    <2> QED
      BY <2>1, <2>2 DEF SelectInSeq
  <1>r. r = SubSeq(s, 1, k0 - 1) \o SubSeq(s, k0 + 1, Len(s))
    BY <1>q DEF RemoveFirst, RemoveAt
  <1> DEFINE a == SubSeq(s, 1, k0 - 1)
             b == SubSeq(s, k0 + 1, Len(s))
  <1>1. a \in Seq(S) /\ Len(a) = k0 - 1 /\ \A k \in 1..(k0 - 1) : a[k] = s[k]
    BY SubSeqProperties
  <1>2. b \in Seq(S) /\ Len(b) = Len(s) - k0 /\ \A k \in 1..(Len(s) - k0) : b[k] = s[k0 + k]
    BY SubSeqProperties
  <1>3. Len(s) \in Nat /\ k0 \in Nat
    OBVIOUS
  <1> HIDE DEF a, b, r
  <1>4. r = a \o b
    BY <1>r DEF a, b
  <1>5. /\ r \in Seq(S) /\ Len(r) = Len(s) - 1
        /\ \A k \in 1..Len(r) : r[k] = IF k <= Len(a) THEN a[k] ELSE b[k - Len(a)]
    <2>1. /\ r \in Seq(S) /\ Len(r) = Len(a) + Len(b)
          /\ \A k \in 1..(Len(a) + Len(b)) : r[k] = IF k <= Len(a) THEN a[k] ELSE b[k - Len(a)]
      BY <1>1, <1>2, <1>4, ConcatProperties
    <2>2. Len(a) + Len(b) = Len(s) - 1
      BY <1>1, <1>2, <1>3
    <2> QED
      BY <2>1, <2>2
  <1>6. ASSUME NEW k \in 1..(Len(s) - 1) PROVE r[k] = IF k < k0 THEN s[k] ELSE s[k + 1]
    <2>1. CASE k < k0
      BY <1>1, <1>3, <1>5, <2>1
    <2>2. CASE ~(k < k0)
      <3>1. /\ k - (k0 - 1) \in 1..(Len(s) - k0) /\ k0 + (k - (k0 - 1)) = k + 1
            /\ ~(k <= k0 - 1) /\ k \in 1..Len(r)
        BY <1>3, <1>5, <2>2
      <3>2. r[k] = b[k - (k0 - 1)]
        BY <1>1, <1>5, <3>1
      <3>3. b[k - (k0 - 1)] = s[k + 1]
        BY <1>2, <3>1
      <3> QED
        BY <2>2, <3>2, <3>3
    <2> QED
      BY <2>1, <2>2
  <1> QED
    BY <1>3, <1>5, <1>6 DEF r

LEMMA RemoveJob ==
  ASSUME NEW S, NEW s \in Seq(S), NEW e, Contains(s, e), Distinct(s)
  PROVE  /\ RemoveFirst(s, e) \in Seq(S)
         /\ \A x : Contains(RemoveFirst(s, e), x) <=> Contains(s, x) /\ x # e
         /\ Distinct(RemoveFirst(s, e))
  <1> DEFINE r == RemoveFirst(s, e)
  <1>1. PICK k0 \in 1..Len(s) : s[k0] = e
    BY DEF Contains
  <1>2. \A k \in 1..Len(s) : s[k] = e <=> k = k0
    BY <1>1 DEF Distinct
  <1>5. /\ r \in Seq(S) /\ Len(s) \in Nat /\ Len(r) = Len(s) - 1
        /\ \A k \in 1..(Len(s) - 1) : r[k] = IF k < k0 THEN s[k] ELSE s[k + 1]
    <2>1. r = RemoveFirst(s, s[k0]) /\ Len(s) \in Nat
      BY <1>1
    <2> HIDE DEF r
    <2> QED
      BY <2>1, RemoveAtPosition
  <1> HIDE DEF r
  <1>6. ASSUME NEW x PROVE Contains(r, x) <=> Contains(s, x) /\ x # e
    <2>1. ASSUME NEW k \in 1..Len(r), r[k] = x PROVE Contains(s, x) /\ x # e
      <3>1. CASE k < k0
        BY <1>1, <1>2, <1>5, <2>1, <3>1 DEF Contains
      <3>2. CASE ~(k < k0)
        <4>1. k + 1 \in 1..Len(s) /\ k + 1 # k0 /\ s[k + 1] = x
          BY <1>1, <1>5, <2>1, <3>2
        <4> QED
          BY <1>2, <4>1 DEF Contains
      <3> QED
        BY <3>1, <3>2
    <2>2. ASSUME NEW k \in 1..Len(s), s[k] = x, x # e PROVE Contains(r, x)
      <3>1. CASE k < k0
        <4>1. k \in 1..Len(r) /\ r[k] = x
          BY <1>1, <1>5, <2>2, <3>1
        <4> QED
          BY <4>1 DEF Contains
      <3>2. CASE ~(k < k0)
        <4>1. k # k0
          BY <1>1, <2>2
        <4>2. k - 1 \in 1..Len(r) /\ ~(k - 1 < k0) /\ (k - 1) + 1 = k
          BY <1>1, <1>5, <2>2, <3>2, <4>1
        <4>3. r[k - 1] = x
          BY <1>5, <2>2, <4>2
        <4> QED
          BY <4>2, <4>3 DEF Contains
      <3> QED
        BY <3>1, <3>2
    <2> QED
      BY <2>1, <2>2 DEF Contains
  <1>7. ASSUME NEW k \in 1..Len(r), NEW m \in 1..Len(r), r[k] = r[m] PROVE k = m
    <2> DEFINE up(j) == IF j < k0 THEN j ELSE j + 1
    <2>1. up(k) \in 1..Len(s) /\ up(m) \in 1..Len(s) /\ s[up(k)] = s[up(m)]
      BY <1>1, <1>5, <1>7
    <2>2. up(k) = up(m)
      BY <2>1 DEF Distinct
    <2> QED
      BY <1>1, <1>5, <2>2
  <1> QED
    BY <1>5, <1>6, <1>7 DEF Distinct, r

LEMMA AppendJob ==
  ASSUME NEW S, NEW s \in Seq(S), NEW e \in S
  PROVE  /\ Append(s, e) \in Seq(S)
         /\ \A x : Contains(Append(s, e), x) <=> x = e \/ Contains(s, x)
         /\ Distinct(s) /\ ~Contains(s, e) => Distinct(Append(s, e))
  <1> DEFINE r == Append(s, e)
  <1>1. /\ r \in Seq(S) /\ Len(s) \in Nat /\ Len(r) = Len(s) + 1
        /\ \A k \in 1..Len(s) : r[k] = s[k]
        /\ r[Len(s) + 1] = e
    BY AppendProperties, LenProperties
  <1> HIDE DEF r
  <1>2. \A k \in 1..Len(r) : k \in 1..Len(s) \/ k = Len(s) + 1
    BY <1>1
  <1>3. \A k \in 1..Len(s) : k \in 1..Len(r)
    BY <1>1
  <1>4. Len(s) + 1 \in 1..Len(r)
    BY <1>1
  <1>5. ASSUME NEW x PROVE Contains(r, x) <=> x = e \/ Contains(s, x)
    BY <1>1, <1>2, <1>3, <1>4 DEF Contains
  <1>6. ASSUME Distinct(s), ~Contains(s, e), NEW k \in 1..Len(r), NEW m \in 1..Len(r), r[k] = r[m]
        PROVE  k = m
    BY <1>1, <1>2, <1>6 DEF Contains, Distinct
  <1> QED
    BY <1>1, <1>5, <1>6 DEF Distinct, r

-----------------------------------------------------------------------------
(* job_insert *)

LEMMA InsertStep ==
  ASSUME QueueAssumption, TypeOK, OrderInv, LinksInv, NEW j \in Jobs, job_insert(j)
  PROVE  TypeOK' /\ OrderInv' /\ LinksInv'
  <1> USE DEF QueueAssumption, TypeOK, OrderInv
  <1>1. /\ ~Contains(queued, j) /\ j # NULL
        /\ ~crashed /\ \A f \in Finders : at[f] = NULL
        /\ \A k \in Jobs : j_next'[k] = IF k = j THEN q_head ELSE j_next[k]
        /\ \A k \in Jobs : j_prev'[k] = IF k = j THEN NULL ELSE IF k = q_head THEN j ELSE j_prev[k]
        /\ q_tail' = IF q_head = NULL THEN j ELSE q_tail
        /\ q_head' = j
        /\ queued' = <<j>> \o queued
        /\ relinked' \in BOOLEAN /\ (~relinked' => ~relinked /\ ~Named(j))
        /\ UNCHANGED <<damaged, at, crashed>>
    BY Zenon DEF job_insert, WriteLock
  <1>2. TypeOK'
    <2>1. queued' \in Seq(Jobs)
      BY <1>1, PrependJob
    <2>2. j_next' \in [Jobs -> Jobs \cup {NULL}] /\ j_prev' \in [Jobs -> Jobs \cup {NULL}]
      BY DEF job_insert
    <2>3. UNCHANGED <<damaged, at, crashed>> /\ q_head' \in Jobs /\ q_tail' \in Jobs \cup {NULL} /\ relinked' \in BOOLEAN
      BY <1>1
    <2> QED
      BY <2>1, <2>2, <2>3
  <1>3. j \notin Put /\ ~Contains(queued, j)
    BY <1>1 DEF Put
  <1>4. Put' = Put \cup {j} /\ Distinct(queued')
    <2>1. /\ \A x : Contains(queued', x) <=> x = j \/ Contains(queued, x)
          /\ Distinct(queued')
      BY <1>1, <1>3, PrependJob
    <2> QED
      BY <2>1 DEF Put
  <1> SUFFICES ASSUME ~relinked' PROVE EndsInv' /\ EntryInv' /\ ApartInv' /\ DownInv'
    BY <1>2, <1>4 DEF LinksInv
  <1>l. EndsInv /\ EntryInv /\ ApartInv /\ DownInv /\ ~Named(j)
    BY <1>1 DEF LinksInv
  <1> USE <1>l
  <1>5. q_head # j /\ q_tail # j
    BY DEF Named
  <1>6. Linked' \subseteq Linked \cup {j} /\ Linked \subseteq Put
    BY <1>1, <1>4 DEF EndsInv, Linked, Put
  <1>7. \A k \in Jobs : j_next[k] # j /\ j_prev[k] # j
    BY DEF Named
  <1>9. EndsInv'
    BY <1>1 DEF EndsInv
  <1>10. EntryInv'
    <2> SUFFICES ASSUME NEW k \in Linked', j_next'[k] # NULL
                 PROVE  j_next'[k] # q_head' /\ \A m \in Linked' : j_next'[m] = j_next'[k] => m = k
      BY DEF EntryInv
    <2>1. k \in Jobs /\ \A m \in Linked' : m \in Jobs
      BY DEF Linked, Put
    <2>2. j_next'[k] # q_head'
      BY <1>1, <1>5, <1>7, <2>1
    <2>3. ASSUME NEW m \in Linked', j_next'[m] = j_next'[k] PROVE m = k
      BY <1>1, <1>6, <2>1, <2>3 DEF EntryInv
    <2> QED
      BY <2>2, <2>3
  <1>11. ApartInv'
    <2> SUFFICES ASSUME q_tail' # NULL, j_next'[q_tail'] # NULL
                 PROVE  \E T \in SUBSET Jobs : Apart(T)'
      BY DEF ApartInv
    <2>1. q_head # NULL /\ q_tail' = q_tail /\ j_next[q_tail] # NULL /\ q_tail \in Jobs
      BY <1>1, <1>5
    <2>2. PICK S \in SUBSET Jobs : Apart(S)
      BY <2>1 DEF ApartInv
    <2> DEFINE T == S \cup {j}
    <2>3. q_head' \in T /\ q_tail' \notin T
      BY <1>1, <1>5, <2>1, <2>2 DEF Apart
    <2>4. \A k \in T : j_next'[k] \in T \cup {NULL}
      BY <1>1, <2>2 DEF Apart
    <2>5. \A k \in Put' \ T : j_prev'[k] \notin T
      <3> SUFFICES ASSUME NEW k \in Put' \ T PROVE j_prev'[k] \notin T
        OBVIOUS
      <3>1. k \in Put \ S /\ k # j /\ k \in Jobs
        BY <1>4 DEF Put
      <3>2. k # q_head
        BY <2>1, <2>2, <3>1 DEF Apart
      <3>3. j_prev[k] \notin S
        BY <2>2, <3>1 DEF Apart
      <3> QED
        BY <1>1, <1>7, <3>1, <3>2, <3>3
    <2>6. \A k \in T, m \in Linked' : j_next'[m] = k => j_prev'[k] \in T \cup {NULL}
      <3> SUFFICES ASSUME NEW k \in T, NEW m \in Linked', j_next'[m] = k PROVE j_prev'[k] \in T \cup {NULL}
        OBVIOUS
      <3>1. m \in Jobs /\ k \in Jobs
        BY DEF Linked, Put
      <3>2. CASE k = j \/ k = q_head
        BY <1>1, <3>1, <3>2
      <3>3. CASE k # j /\ k # q_head
        <4>1. m # j /\ m \in Linked /\ k \in S
          BY <1>1, <1>6, <3>1, <3>3
        <4>2. j_next[m] = k
          BY <1>1, <3>1, <4>1
        <4> QED
          BY <1>1, <2>2, <3>1, <3>3, <4>1, <4>2 DEF Apart
      <3> QED
        BY <3>2, <3>3
    <2>7. Apart(T)'
      BY <2>3, <2>4, <2>5, <2>6 DEF Apart
    <2> QED
      BY <2>7
  <1>12. DownInv'
    <2>1. PICK r \in [Jobs -> Int], lo \in Int, hi \in Int : Down(r, lo, hi)
      BY DEF DownInv
    <2> DEFINE v == IF lo < hi THEN hi ELSE lo + 1
               r2 == [r EXCEPT ![j] = v]
    <2>2. v \in Int /\ lo < v /\ v >= hi /\ v < v + 1
      BY <2>1
    <2>3. r2 \in [Jobs -> Int] /\ \A k \in Jobs : r2[k] = IF k = j THEN v ELSE r[k]
      BY <2>1, <2>2
    <2> HIDE DEF v, r2
    <2>4. \A k \in Jobs \ {j} : lo < r[k] /\ r[k] < hi /\ r2[k] = r[k] /\ r[k] \in Int /\ r[k] < v
      BY <1>1, <2>1, <2>2, <2>3 DEF Down
    <2>5. ASSUME NEW k \in Jobs PROVE lo < r2[k] /\ r2[k] < v + 1
      <3>1. CASE k = j
        BY <2>1, <2>2, <2>3, <3>1
      <3>2. CASE k # j
        BY <2>1, <2>2, <2>4, <3>2
      <3> QED
        BY <3>1, <3>2
    <2>6. q_head # NULL => q_head \in Jobs \ {j}
      BY <1>5
    <2>7. \A k \in Jobs : j_next'[k] # NULL => r2[j_next'[k]] < r2[k]
      <3> SUFFICES ASSUME NEW k \in Jobs, j_next'[k] # NULL PROVE r2[j_next'[k]] < r2[k]
        OBVIOUS
      <3>1. CASE k = j
        BY <1>1, <2>3, <2>4, <2>6, <3>1
      <3>2. CASE k # j
        <4>1. j_next'[k] = j_next[k] /\ j_next[k] \in Jobs \ {j}
          BY <1>1, <1>7, <3>2
        <4> QED
          BY <2>1, <2>4, <3>2, <4>1 DEF Down
      <3> QED
        BY <3>1, <3>2
    <2>8. \A k \in Put' : j_prev'[k] # NULL => r2[k] <= r2[j_prev'[k]]
      <3> SUFFICES ASSUME NEW k \in Put', j_prev'[k] # NULL PROVE r2[k] <= r2[j_prev'[k]]
        OBVIOUS
      <3>1. k \in Put /\ k # j /\ k \in Jobs \ {j}
        BY <1>1, <1>4 DEF Put
      <3>2. CASE k = q_head
        <4>1. j_prev'[k] = j /\ r2[j] = v
          BY <1>1, <2>3, <3>1, <3>2
        <4> QED
          BY <2>2, <2>4, <3>1, <4>1
      <3>3. CASE k # q_head
        <4>1. j_prev'[k] = j_prev[k] /\ j_prev[k] \in Jobs \ {j}
          BY <1>1, <1>7, <3>1, <3>3
        <4> QED
          BY <2>1, <2>4, <3>1, <4>1 DEF Down
      <3> QED
        BY <3>2, <3>3
    <2>9. \A k \in Linked' : j_next'[k] # NULL /\ j_prev'[j_next'[k]] # NULL => r2[j_prev'[j_next'[k]]] <= r2[k]
      <3> SUFFICES ASSUME NEW k \in Linked', j_next'[k] # NULL, j_prev'[j_next'[k]] # NULL
                   PROVE  r2[j_prev'[j_next'[k]]] <= r2[k]
        OBVIOUS
      <3>1. k \in Jobs /\ (k = j \/ k \in Linked)
        BY <1>6 DEF Linked, Put
      <3>2. CASE k = j
        <4>1. j_next'[k] = q_head /\ q_head \in Jobs
          BY <1>1, <3>2, <2>6
        <4>2. j_prev'[q_head] = j
          BY <1>1, <1>5, <4>1
        <4> QED
          BY <2>2, <2>3, <3>2, <4>1, <4>2
      <3>3. CASE k # j
        <4>1. k \in Linked /\ j_next'[k] = j_next[k] /\ j_next[k] \in Jobs
          BY <1>1, <3>1, <3>3
        <4>2. j_next[k] # q_head /\ j_next[k] # j
          BY <1>7, <3>1, <4>1 DEF EntryInv
        <4>3. j_prev'[j_next[k]] = j_prev[j_next[k]]
          BY <1>1, <4>1, <4>2
        <4>4. k \in Jobs \ {j} /\ j_prev[j_next[k]] \in Jobs \ {j}
          BY <1>7, <3>3, <4>1, <4>3 DEF Linked, Put
        <4> QED
          BY <2>1, <2>4, <4>1, <4>3, <4>4 DEF Down
      <3> QED
        BY <3>2, <3>3
    <2>10. Down(r2, lo, v + 1)'
      BY <2>5, <2>7, <2>8, <2>9 DEF Down
    <2>11. v + 1 \in Int
      BY <2>2
    <2> QED
      BY <2>1, <2>3, <2>10, <2>11 DEF DownInv
  <1> QED
    BY <1>9, <1>10, <1>11, <1>12

-----------------------------------------------------------------------------
(* job_append *)

LEMMA AppendStep ==
  ASSUME QueueAssumption, TypeOK, OrderInv, LinksInv, NEW j \in Jobs, job_append(j)
  PROVE  TypeOK' /\ OrderInv' /\ LinksInv'
  <1> USE DEF QueueAssumption, TypeOK, OrderInv
  <1>1. /\ ~Contains(queued, j) /\ j # NULL
        /\ ~crashed /\ \A f \in Finders : at[f] = NULL
        /\ \A k \in Jobs : j_next'[k] = IF k = j THEN NULL ELSE IF k = q_tail THEN j ELSE j_next[k]
        /\ \A k \in Jobs : j_prev'[k] = IF k = j THEN q_tail ELSE j_prev[k]
        /\ q_tail' = IF q_tail = NULL THEN j ELSE q_tail
        /\ q_head' = j
        /\ queued' = Append(queued, j)
        /\ relinked' \in BOOLEAN /\ (~relinked' => ~relinked /\ ~Named(j))
        /\ UNCHANGED <<at, crashed>>
    BY DEF job_append, WriteLock
  <1>2. TypeOK'
    <2>1. queued' \in Seq(Jobs)
      BY <1>1, AppendJob
    <2>2. j_next' \in [Jobs -> Jobs \cup {NULL}] /\ j_prev' \in [Jobs -> Jobs \cup {NULL}]
      BY DEF job_append
    <2>3. /\ UNCHANGED <<at, crashed>> /\ q_head' \in Jobs /\ q_tail' \in Jobs \cup {NULL}
          /\ relinked' \in BOOLEAN
      BY <1>1
    <2>4. damaged' \in BOOLEAN
      BY Zenon DEF job_append
    <2> QED
      BY <2>1, <2>2, <2>3, <2>4
  <1>3. j \notin Put /\ ~Contains(queued, j)
    BY <1>1 DEF Put
  <1>4. Put' = Put \cup {j} /\ Distinct(queued')
    <2>1. /\ \A x : Contains(queued', x) <=> x = j \/ Contains(queued, x)
          /\ Distinct(queued')
      BY <1>1, <1>3, AppendJob
    <2> QED
      BY <2>1 DEF Put
  <1> SUFFICES ASSUME ~relinked' PROVE EndsInv' /\ EntryInv' /\ ApartInv' /\ DownInv'
    BY <1>2, <1>4 DEF LinksInv
  <1>l. EndsInv /\ EntryInv /\ ApartInv /\ DownInv /\ ~Named(j)
    BY <1>1 DEF LinksInv
  <1> USE <1>l
  <1>5. q_head # j /\ q_tail # j
    BY DEF Named
  <1>6. \A k \in Linked' : k \in Jobs /\ (k = j \/ (k \in Linked /\ k # j /\ k # q_tail))
    BY <1>1, <1>3, <1>4 DEF Linked, Put
  <1>7. \A k \in Jobs : j_next[k] # j /\ j_prev[k] # j
    BY DEF Named
  <1>9. EndsInv'
    BY <1>1 DEF EndsInv
  <1>10. EntryInv'
    <2> SUFFICES ASSUME NEW k \in Linked', j_next'[k] # NULL
                 PROVE  j_next'[k] # q_head' /\ \A m \in Linked' : j_next'[m] = j_next'[k] => m = k
      BY DEF EntryInv
    <2>1. k # j /\ k \in Jobs
      BY <1>1, <1>6
    <2>2. j_next'[k] # q_head'
      BY <1>1, <1>6, <1>7, <2>1
    <2>3. ASSUME NEW m \in Linked', j_next'[m] = j_next'[k] PROVE m = k
      BY <1>1, <1>6, <2>1, <2>3 DEF EntryInv
    <2> QED
      BY <2>2, <2>3
  <1>11. ApartInv'
    <2> SUFFICES ASSUME q_tail' # NULL, j_next'[q_tail'] # NULL
                 PROVE  \E T \in SUBSET Jobs : Apart(T)'
      BY DEF ApartInv
    <2>1. q_tail' # j
      BY <1>1
    <2>2. \A k \in Put' \ {j} : j_prev'[k] \notin {j}
      BY <1>1, <1>7 DEF Put
    <2>3. \A m \in Linked' : j_next'[m] # j
      BY <1>1, <1>6, <1>7
    <2>4. Apart({j})'
      BY <1>1, <2>1, <2>2, <2>3 DEF Apart
    <2> QED
      BY <2>4
  <1>12. DownInv'
    <2>1. PICK r \in [Jobs -> Int], lo \in Int, hi \in Int : Down(r, lo, hi)
      BY DEF DownInv
    <2> DEFINE v == IF lo < hi THEN lo ELSE hi - 1
               r2 == [r EXCEPT ![j] = v]
    <2>2. v \in Int /\ v < hi /\ v <= lo /\ v - 1 < v
      BY <2>1
    <2>3. r2 \in [Jobs -> Int] /\ \A k \in Jobs : r2[k] = IF k = j THEN v ELSE r[k]
      BY <2>1, <2>2
    <2> HIDE DEF v, r2
    <2>4. \A k \in Jobs \ {j} : lo < r[k] /\ r[k] < hi /\ k # j /\ r2[k] = r[k] /\ r[k] \in Int /\ v < r[k]
      BY <1>1, <2>1, <2>2, <2>3 DEF Down
    <2>5. ASSUME NEW k \in Jobs PROVE v - 1 < r2[k] /\ r2[k] < hi
      <3>1. CASE k = j
        BY <2>1, <2>2, <2>3, <3>1
      <3>2. CASE k # j
        BY <2>1, <2>2, <2>4, <3>2
      <3> QED
        BY <3>1, <3>2
    <2>6. q_tail # NULL => q_tail \in Jobs \ {j}
      BY <1>5
    <2>7. \A k \in Jobs : j_next'[k] # NULL => r2[j_next'[k]] < r2[k]
      <3> SUFFICES ASSUME NEW k \in Jobs, j_next'[k] # NULL PROVE r2[j_next'[k]] < r2[k]
        OBVIOUS
      <3>0. k # j
        BY <1>1
      <3>1. CASE k = q_tail
        BY <1>1, <2>3, <2>4, <2>6, <3>0, <3>1
      <3>2. CASE k # q_tail
        <4>1. j_next'[k] = j_next[k] /\ j_next[k] \in Jobs \ {j}
          BY <1>1, <1>7, <3>0, <3>2
        <4> QED
          BY <2>1, <2>4, <3>0, <4>1 DEF Down
      <3> QED
        BY <3>1, <3>2
    <2>8. \A k \in Put' : j_prev'[k] # NULL => r2[k] <= r2[j_prev'[k]]
      <3> SUFFICES ASSUME NEW k \in Put', j_prev'[k] # NULL PROVE r2[k] <= r2[j_prev'[k]]
        OBVIOUS
      <3>1. CASE k = j
        <4>1. j_prev'[k] = q_tail /\ q_tail \in Jobs \ {j} /\ r2[j] = v
          BY <1>1, <2>3, <2>6, <3>1
        <4> QED
          BY <2>2, <2>4, <3>1, <4>1
      <3>2. CASE k # j
        <4>1. k \in Put /\ k \in Jobs \ {j}
          BY <1>4, <3>2 DEF Put
        <4>2. j_prev'[k] = j_prev[k] /\ j_prev[k] \in Jobs \ {j}
          BY <1>1, <1>7, <3>2, <4>1
        <4> QED
          BY <2>1, <2>4, <4>1, <4>2 DEF Down
      <3> QED
        BY <3>1, <3>2
    <2>9. \A k \in Linked' : j_next'[k] # NULL /\ j_prev'[j_next'[k]] # NULL => r2[j_prev'[j_next'[k]]] <= r2[k]
      <3> SUFFICES ASSUME NEW k \in Linked', j_next'[k] # NULL, j_prev'[j_next'[k]] # NULL
                   PROVE  r2[j_prev'[j_next'[k]]] <= r2[k]
        OBVIOUS
      <3>1. k \in Jobs /\ k # j /\ k \in Linked /\ k # q_tail
        BY <1>1, <1>6
      <3>2. j_next'[k] = j_next[k] /\ j_next[k] \in Jobs /\ j_next[k] # j
        BY <1>1, <1>7, <3>1
      <3>3. j_prev'[j_next[k]] = j_prev[j_next[k]]
        BY <1>1, <3>2
      <3>4. k \in Jobs \ {j} /\ j_prev[j_next[k]] \in Jobs \ {j}
        BY <1>7, <3>1, <3>2, <3>3 DEF Linked, Put
      <3> QED
        BY <2>1, <2>4, <3>1, <3>2, <3>3, <3>4 DEF Down
    <2>10. Down(r2, v - 1, hi)'
      BY <2>5, <2>7, <2>8, <2>9 DEF Down
    <2>11. v - 1 \in Int
      BY <2>2
    <2> QED
      BY <2>1, <2>3, <2>10, <2>11 DEF DownInv
  <1> QED
    BY <1>9, <1>10, <1>11, <1>12

-----------------------------------------------------------------------------
(* job_remove *)

\* What the removals have in common.
LEMMA RemoveQueued ==
  ASSUME QueueAssumption, TypeOK, OrderInv, LinksInv, NEW j \in Jobs, job_remove(j)
  PROVE  /\ j \in Put /\ j # NULL
         /\ ~crashed /\ \A f \in Finders : at[f] = NULL
         /\ queued' \in Seq(Jobs) /\ Distinct(queued') /\ Put' = Put \ {j}
         /\ relinked' = relinked /\ at' = at /\ damaged' \in BOOLEAN
  <1> USE DEF QueueAssumption, TypeOK, OrderInv
  <1>1. /\ Contains(queued, j) /\ ~crashed /\ \A f \in Finders : at[f] = NULL
        /\ queued' = RemoveFirst(queued, j)
        /\ UNCHANGED <<relinked, at>>
    BY DEF job_remove, WriteLock
  <1>2. j \in Put
    BY <1>1 DEF Put
  <1>3. /\ queued' \in Seq(Jobs) /\ Distinct(queued')
        /\ \A x : Contains(queued', x) <=> Contains(queued, x) /\ x # j
    BY <1>1, RemoveJob
  <1>4. damaged' \in BOOLEAN
    BY Zenon DEF job_remove
  <1> QED
    BY <1>1, <1>2, <1>3, <1>4 DEF Put

LEMMA RemoveHeadStep ==
  ASSUME QueueAssumption, TypeOK, OrderInv, LinksInv, NEW j \in Jobs, job_remove(j), RemoveHead(j)
  PROVE  TypeOK' /\ OrderInv' /\ LinksInv'
  <1> USE DEF QueueAssumption, TypeOK, OrderInv
  <1>1. /\ j \in Put /\ j # NULL
        /\ queued' \in Seq(Jobs) /\ Distinct(queued') /\ Put' = Put \ {j}
        /\ ~crashed /\ relinked' = relinked /\ at' = at /\ damaged' \in BOOLEAN
    BY RemoveQueued
  <1>2. /\ j = q_head /\ q_head' = j_next[j] /\ j_next' = j_next
        /\ q_tail' = IF j = q_tail THEN NULL ELSE q_tail
    BY DEF RemoveHead
  <1>3. /\ j_prev' \in [Jobs -> Jobs \cup {NULL}] /\ crashed' \in BOOLEAN
        /\ \/ j_prev' = j_prev
           \/ /\ j # q_tail /\ j_next[j] # NULL
              /\ \A k \in Jobs : j_prev'[k] = IF k = j_next[j] THEN j_prev[j] ELSE j_prev[k]
        /\ ~crashed' /\ j_next[j] = NULL => j = q_tail
    BY <1>1, Zenon DEF RemoveHead, Relink
  <1>4. TypeOK'
    BY <1>1, <1>2, <1>3
  <1>5. Linked' \subseteq Linked /\ Linked' \subseteq Jobs /\ j \notin Linked'
    BY <1>1, <1>2 DEF Linked, Put
  <1> SUFFICES ASSUME ~relinked' PROVE EndsInv' /\ EntryInv' /\ ApartInv' /\ DownInv'
    BY <1>1, <1>4 DEF LinksInv
  <1>l. EndsInv /\ EntryInv /\ ApartInv /\ DownInv
    BY <1>1 DEF LinksInv
  <1> USE <1>l
  <1>8. EndsInv'
    BY <1>2, <1>3 DEF EndsInv
  \* the next job is not reached from elsewhere
  <1>9. ASSUME NEW k \in Linked', j # q_tail, j_next[j] # NULL PROVE j_next[k] # j_next[j]
    BY <1>1, <1>5, <1>9 DEF EntryInv, Linked
  <1>10. j = q_tail => j_next[j] = NULL
    <2> SUFFICES ASSUME j = q_tail, j_next[j] # NULL PROVE FALSE
      OBVIOUS
    <2>1. PICK S \in SUBSET Jobs : Apart(S)
      BY <1>1 DEF ApartInv
    <2> QED
      BY <1>1, <1>2, <2>1 DEF Apart
  <1>11. EntryInv'
    BY <1>2, <1>5, <1>9, <1>10 DEF EntryInv
  <1>12. ApartInv'
    <2> SUFFICES ASSUME q_tail' # NULL, j_next'[q_tail'] # NULL
                 PROVE  \E T \in SUBSET Jobs : Apart(T)'
      BY DEF ApartInv
    <2>1. q_tail' = q_tail /\ j # q_tail /\ j_next[q_tail] # NULL
      BY <1>2
    <2>2. PICK S \in SUBSET Jobs : Apart(S)
      BY <1>2, <2>1 DEF ApartInv
    <2>3. j \in S /\ j_next[j] \in S \cup {NULL}
      BY <1>1, <1>2, <2>2 DEF Apart
    <2>4. \A k \in Put' \ S : j_prev'[k] \notin S
      <3> SUFFICES ASSUME NEW k \in Put' \ S PROVE j_prev'[k] \notin S
        OBVIOUS
      <3>1. k \in Put \ S /\ k \in Jobs /\ (k # j_next[j] \/ j_next[j] = NULL)
        BY <1>1, <2>3 DEF Put
      <3>2. j_prev'[k] = j_prev[k]
        BY <1>3, <3>1
      <3> QED
        BY <2>2, <3>1, <3>2 DEF Apart
    <2>5. \A k \in S, m \in Linked' : j_next'[m] = k => j_prev'[k] \in S \cup {NULL}
      <3> SUFFICES ASSUME NEW k \in S, NEW m \in Linked', j_next'[m] = k PROVE j_prev'[k] \in S \cup {NULL}
        OBVIOUS
      <3>1. k \in Jobs /\ m \in Linked /\ j_next[m] = k /\ k # NULL
        BY <1>2, <1>5
      <3>2. j_prev'[k] = j_prev[k]
        BY <1>3, <1>9, <2>1, <3>1
      <3> QED
        BY <2>2, <3>1, <3>2 DEF Apart
    <2>6. Apart(S)'
      BY <1>2, <2>1, <2>2, <2>3, <2>4, <2>5 DEF Apart
    <2> QED
      BY <2>6
  <1>13. DownInv'
    <2>1. PICK r \in [Jobs -> Int], lo \in Int, hi \in Int : Down(r, lo, hi)
      BY DEF DownInv
    <2>2. \A k \in Jobs : lo < r[k] /\ r[k] < hi
      BY <1>1, <2>1 DEF Down
    <2>3. \A k \in Jobs : j_next'[k] # NULL => r[j_next'[k]] < r[k]
      BY <1>2, <2>1 DEF Down
    <2>4. \A k \in Put' : j_prev'[k] # NULL => r[k] <= r[j_prev'[k]]
      <3> SUFFICES ASSUME NEW k \in Put', j_prev'[k] # NULL PROVE r[k] <= r[j_prev'[k]]
        OBVIOUS
      <3>1. k \in Put /\ k \in Jobs
        BY <1>1 DEF Put
      <3>2. CASE j_prev'[k] = j_prev[k]
        BY <2>1, <3>1, <3>2 DEF Down
      <3>3. CASE k = j_next[j] /\ j_prev'[k] = j_prev[j]
        <4>1. j_prev[j] \in Jobs /\ r[j] <= r[j_prev[j]] /\ r[k] < r[j]
          BY <1>1, <2>1, <3>1, <3>3 DEF Down
        <4>2. r[j] \in Int /\ r[k] \in Int /\ r[j_prev[j]] \in Int
          BY <2>1, <3>1, <4>1
        <4> QED
          BY <3>3, <4>1, <4>2
      <3> QED
        BY <1>3, <3>1, <3>2, <3>3
    <2>5. \A k \in Linked' : j_next'[k] # NULL /\ j_prev'[j_next'[k]] # NULL => r[j_prev'[j_next'[k]]] <= r[k]
      <3> SUFFICES ASSUME NEW k \in Linked', j_next'[k] # NULL, j_prev'[j_next'[k]] # NULL
                   PROVE  r[j_prev'[j_next'[k]]] <= r[k]
        OBVIOUS
      <3>1. k \in Linked /\ j_next'[k] = j_next[k] /\ j_next[k] \in Jobs
        BY <1>2, <1>5
      <3>2. j_prev'[j_next[k]] = j_prev[j_next[k]]
        BY <1>3, <1>9, <3>1
      <3> QED
        BY <2>1, <3>1, <3>2 DEF Down
    <2>6. Down(r, lo, hi)'
      BY <2>2, <2>3, <2>4, <2>5 DEF Down
    <2> QED
      BY <2>1, <2>6 DEF DownInv
  <1> QED
    BY <1>8, <1>11, <1>12, <1>13

LEMMA RemoveTailStep ==
  ASSUME QueueAssumption, TypeOK, OrderInv, LinksInv, NEW j \in Jobs, job_remove(j), RemoveTail(j)
  PROVE  TypeOK' /\ OrderInv' /\ LinksInv'
  <1> USE DEF QueueAssumption, TypeOK, OrderInv
  <1>1. /\ j \in Put /\ j # NULL
        /\ queued' \in Seq(Jobs) /\ Distinct(queued') /\ Put' = Put \ {j}
        /\ ~crashed /\ relinked' = relinked /\ at' = at /\ damaged' \in BOOLEAN
    BY RemoveQueued
  <1> DEFINE t == j_prev[j]
  <1>2. j # q_head /\ j = q_tail /\ q_tail' = t /\ UNCHANGED <<q_head, j_prev>>
    BY DEF RemoveTail
  <1>3. /\ j_next' \in [Jobs -> Jobs \cup {NULL}] /\ crashed' \in BOOLEAN
        /\ \A k \in Jobs : j_next'[k] = IF k = t THEN j_next[j] ELSE j_next[k]
    BY <1>1, Zenon DEF RemoveTail, Relink
  <1>4. TypeOK'
    BY <1>1, <1>2, <1>3
  <1>5. Linked' = Linked \ {t} /\ \A k \in Linked' : k \in Jobs /\ j_next'[k] = j_next[k]
    BY <1>1, <1>2, <1>3 DEF Linked, Put
  <1> SUFFICES ASSUME ~relinked' PROVE EndsInv' /\ EntryInv' /\ ApartInv' /\ DownInv'
    BY <1>1, <1>4 DEF LinksInv
  <1>l. EndsInv /\ EntryInv /\ ApartInv /\ DownInv
    BY <1>1 DEF LinksInv
  <1> USE <1>l
  <1>8. EndsInv'
    BY <1>1, <1>2 DEF EndsInv
  <1>9. EntryInv'
    BY <1>2, <1>5 DEF EntryInv
  <1> HIDE DEF t
  <1>10. ApartInv'
    <2> SUFFICES ASSUME q_tail' # NULL, j_next'[q_tail'] # NULL
                 PROVE  \E T \in SUBSET Jobs : Apart(T)'
      BY DEF ApartInv
    <2>1. t \in Jobs /\ j_next[j] # NULL
      BY <1>2, <1>3, <1>4
    <2>2. PICK S \in SUBSET Jobs : Apart(S)
      BY <1>1, <1>2, <2>1 DEF ApartInv
    <2>3. t \notin S
      BY <1>1, <1>2, <2>2 DEF Apart, t
    <2>4. \A k \in S : j_next'[k] \in S \cup {NULL}
      BY <1>3, <2>2, <2>3 DEF Apart
    <2>5. \A k \in Put' \ S : j_prev'[k] \notin S
      BY <1>1, <1>2, <2>2 DEF Apart
    <2>6. \A k \in S, m \in Linked' : j_next'[m] = k => j_prev'[k] \in S \cup {NULL}
      BY <1>2, <1>5, <2>2 DEF Apart
    <2>7. Apart(S)'
      BY <1>2, <2>2, <2>3, <2>4, <2>5, <2>6 DEF Apart
    <2> QED
      BY <2>7
  <1>11. DownInv'
    <2>1. PICK r \in [Jobs -> Int], lo \in Int, hi \in Int : Down(r, lo, hi)
      BY DEF DownInv
    <2>2. \A k \in Jobs : lo < r[k] /\ r[k] < hi
      BY <1>1, <2>1 DEF Down
    <2>3. \A k \in Jobs : j_next'[k] # NULL => r[j_next'[k]] < r[k]
      <3> SUFFICES ASSUME NEW k \in Jobs, j_next'[k] # NULL PROVE r[j_next'[k]] < r[k]
        OBVIOUS
      <3>1. CASE k = t
        <4>1. j_next'[k] = j_next[j] /\ r[j_next[j]] < r[j] /\ r[j] <= r[t] /\ j_next[j] \in Jobs
          BY <1>1, <1>3, <2>1, <3>1 DEF Down, t
        <4>2. r[j] \in Int /\ r[k] \in Int /\ r[j_next[j]] \in Int
          BY <2>1, <4>1
        <4> QED
          BY <3>1, <4>1, <4>2
      <3>2. CASE k # t
        BY <1>3, <2>1, <3>2 DEF Down
      <3> QED
        BY <3>1, <3>2
    <2>4. \A k \in Put' : j_prev'[k] # NULL => r[k] <= r[j_prev'[k]]
      BY <1>1, <1>2, <2>1 DEF Down
    <2>5. \A k \in Linked' : j_next'[k] # NULL /\ j_prev'[j_next'[k]] # NULL => r[j_prev'[j_next'[k]]] <= r[k]
      BY <1>2, <1>5, <2>1 DEF Down
    <2>6. Down(r, lo, hi)'
      BY <2>2, <2>3, <2>4, <2>5 DEF Down
    <2> QED
      BY <2>1, <2>6 DEF DownInv
  <1> QED
    BY <1>8, <1>9, <1>10, <1>11

LEMMA RemoveMiddleStep ==
  ASSUME QueueAssumption, TypeOK, OrderInv, LinksInv, NEW j \in Jobs, job_remove(j), RemoveMiddle(j)
  PROVE  TypeOK' /\ OrderInv' /\ LinksInv'
  <1> USE DEF QueueAssumption, TypeOK, OrderInv
  <1>1. /\ j \in Put /\ j # NULL
        /\ queued' \in Seq(Jobs) /\ Distinct(queued') /\ Put' = Put \ {j}
        /\ ~crashed /\ relinked' = relinked /\ at' = at /\ damaged' \in BOOLEAN
    BY RemoveQueued
  <1> DEFINE p == j_prev[j_next[j]]
  <1>2. /\ j # q_head /\ j # q_tail /\ UNCHANGED <<q_head, q_tail>>
        /\ j_next[j] = NULL => UNCHANGED <<j_prev, j_next>>
        /\ j_next[j] # NULL => /\ j_prev' = [j_prev EXCEPT ![j] = p]
                               /\ j_next' = IF p = NULL THEN j_next ELSE [j_next EXCEPT ![j] = j_next[p]]
    BY DEF RemoveMiddle
  <1>3. crashed' \in BOOLEAN
    BY <1>1, Zenon DEF RemoveMiddle
  <1>4. j_next[j] # NULL => p \in Jobs \cup {NULL}
    OBVIOUS
  <1> HIDE DEF p
  <1>5. \A k \in Jobs : k # j => j_next'[k] = j_next[k] /\ j_prev'[k] = j_prev[k]
    BY <1>2
  <1>6. \/ j_next'[j] = j_next[j] /\ j_prev'[j] = j_prev[j]
        \/ j_next[j] # NULL /\ p = NULL /\ j_next'[j] = j_next[j] /\ j_prev'[j] = NULL
        \/ j_next[j] # NULL /\ p # NULL /\ p \in Jobs /\ j_next'[j] = j_next[p] /\ j_prev'[j] = p
    BY <1>2, <1>4
  <1>7. TypeOK'
    <2>1. j_next' \in [Jobs -> Jobs \cup {NULL}] /\ j_prev' \in [Jobs -> Jobs \cup {NULL}]
      BY <1>2, <1>4
    <2> QED
      BY <1>1, <1>2, <1>3, <2>1
  <1> SUFFICES ASSUME ~relinked' PROVE EndsInv' /\ EntryInv' /\ ApartInv' /\ DownInv'
    BY <1>1, <1>7 DEF LinksInv
  <1>l. EndsInv /\ EntryInv /\ ApartInv /\ DownInv
    BY <1>1 DEF LinksInv
  <1> USE <1>l
  <1>10. EndsInv'
    BY <1>1, <1>2 DEF EndsInv
  <1>11. j \in Linked /\ Linked' = Linked \ {j} /\ \A k \in Linked' : k \in Jobs /\ j_next'[k] = j_next[k]
    BY <1>1, <1>2, <1>5 DEF Linked, Put
  <1>12. EntryInv'
    BY <1>2, <1>11 DEF EntryInv
  <1>13. ApartInv'
    <2> SUFFICES ASSUME q_tail' # NULL, j_next'[q_tail'] # NULL
                 PROVE  \E T \in SUBSET Jobs : Apart(T)'
      BY DEF ApartInv
    <2>1. q_tail \in Jobs /\ j_next[q_tail] # NULL
      BY <1>2, <1>5
    <2>2. PICK S \in SUBSET Jobs : Apart(S)
      BY <2>1 DEF ApartInv
    \* from a job of S that is reached j_prev does not lead out of S
    <2>3. j \in S /\ j_next[j] # NULL => j_next[j] \in S /\ p \in S \cup {NULL}
      BY <1>11, <2>2 DEF Apart, p
    <2>4. \A k \in S : j_next'[k] \in S \cup {NULL}
      <3> SUFFICES ASSUME NEW k \in S PROVE j_next'[k] \in S \cup {NULL}
        OBVIOUS
      <3>1. CASE k = j
        BY <1>6, <2>2, <2>3, <3>1 DEF Apart
      <3>2. CASE k # j
        BY <1>5, <2>2, <3>2 DEF Apart
      <3> QED
        BY <3>1, <3>2
    <2>5. \A k \in Put' \ S : j_prev'[k] \notin S
      BY <1>1, <1>5, <2>2 DEF Apart, Put
    <2>6. \A k \in S, m \in Linked' : j_next'[m] = k => j_prev'[k] \in S \cup {NULL}
      <3> SUFFICES ASSUME NEW k \in S, NEW m \in Linked', j_next'[m] = k PROVE j_prev'[k] \in S \cup {NULL}
        OBVIOUS
      <3>1. m \in Linked /\ j_next[m] = k
        BY <1>11
      <3>2. CASE k = j
        BY <1>6, <2>2, <2>3, <3>1, <3>2 DEF Apart
      <3>3. CASE k # j
        BY <1>5, <2>2, <3>1, <3>3 DEF Apart
      <3> QED
        BY <3>2, <3>3
    <2>7. Apart(S)'
      BY <1>2, <2>2, <2>4, <2>5, <2>6 DEF Apart
    <2> QED
      BY <2>7
  <1>14. DownInv'
    <2>1. PICK r \in [Jobs -> Int], lo \in Int, hi \in Int : Down(r, lo, hi)
      BY DEF DownInv
    <2>2. \A k \in Jobs : lo < r[k] /\ r[k] < hi
      BY <1>1, <2>1 DEF Down
    <2>3. j_next[j] # NULL /\ p # NULL => r[p] <= r[j]
      BY <1>11, <2>1 DEF Down, p
    <2>4. \A k \in Jobs : j_next'[k] # NULL => r[j_next'[k]] < r[k]
      <3> SUFFICES ASSUME NEW k \in Jobs, j_next'[k] # NULL PROVE r[j_next'[k]] < r[k]
        OBVIOUS
      <3>1. CASE j_next'[k] = j_next[k]
        BY <2>1, <3>1 DEF Down
      <3>2. CASE k = j /\ j_next[j] # NULL /\ p # NULL /\ p \in Jobs /\ j_next'[j] = j_next[p]
        <4>1. r[j_next[p]] < r[p] /\ r[p] <= r[j] /\ j_next[p] \in Jobs
          BY <2>1, <2>3, <3>2 DEF Down
        <4>2. r[j_next[p]] \in Int /\ r[p] \in Int /\ r[j] \in Int
          BY <2>1, <3>2, <4>1
        <4> QED
          BY <3>2, <4>1, <4>2
      <3> QED
        BY <1>5, <1>6, <3>1, <3>2
    <2>5. \A k \in Put' : j_prev'[k] # NULL => r[k] <= r[j_prev'[k]]
      BY <1>1, <1>5, <2>1 DEF Down, Put
    <2>6. \A k \in Linked' : j_next'[k] # NULL /\ j_prev'[j_next'[k]] # NULL => r[j_prev'[j_next'[k]]] <= r[k]
      <3> SUFFICES ASSUME NEW k \in Linked', j_next'[k] # NULL, j_prev'[j_next'[k]] # NULL
                   PROVE  r[j_prev'[j_next'[k]]] <= r[k]
        OBVIOUS
      <3>1. k \in Jobs /\ k \in Linked /\ j_next'[k] = j_next[k] /\ j_next[k] \in Jobs
        BY <1>11
      <3>2. CASE j_prev'[j_next[k]] = j_prev[j_next[k]]
        BY <2>1, <3>1, <3>2 DEF Down
      <3>3. CASE j_next[k] = j /\ j_next[j] # NULL /\ p # NULL /\ p \in Jobs /\ j_prev'[j] = p
        <4>1. r[j] < r[k] /\ r[p] <= r[j]
          BY <2>1, <2>3, <3>1, <3>3 DEF Down
        <4>2. r[k] \in Int /\ r[p] \in Int /\ r[j] \in Int
          BY <2>1, <3>1, <3>3
        <4> QED
          BY <3>1, <3>3, <4>1, <4>2
      <3> QED
        BY <1>5, <1>6, <3>1, <3>2, <3>3
    <2>7. Down(r, lo, hi)'
      BY <2>2, <2>4, <2>5, <2>6 DEF Down
    <2> QED
      BY <2>1, <2>7 DEF DownInv
  <1> QED
    BY <1>10, <1>12, <1>13, <1>14

-----------------------------------------------------------------------------
(* The list as its clients asked for it *)

\* What ListFaithful says of an undamaged list.
Faithful(s) ==
  /\ q_head = IF Len(s) = 0 THEN NULL ELSE s[1]
  /\ q_tail = IF Len(s) = 0 THEN NULL ELSE s[Len(s)]
  /\ \A i \in 1..Len(s) : /\ j_next[s[i]] = IF i = Len(s) THEN NULL ELSE s[i + 1]
                          /\ j_prev[s[i]] = IF i = 1 THEN NULL ELSE s[i - 1]
  /\ ~crashed

LEMMA FaithfulList == ListFaithful <=> (~damaged => Faithful(queued))
  BY DEF ListFaithful, Faithful

LEMMA InsertFaithful ==
  ASSUME QueueAssumption, TypeOK, OrderInv, ListFaithful, NEW j \in Jobs, job_insert(j)
  PROVE  ListFaithful'
  <1> USE DEF QueueAssumption, TypeOK, OrderInv
  <1> DEFINE n == Len(queued)
  <1> SUFFICES ASSUME ~damaged' PROVE Faithful(queued)'
    BY DEF ListFaithful, Faithful
  <1>1. /\ ~Contains(queued, j) /\ j # NULL /\ ~crashed /\ ~crashed'
        /\ \A k \in Jobs : j_next'[k] = IF k = j THEN q_head ELSE j_next[k]
        /\ \A k \in Jobs : j_prev'[k] = IF k = j THEN NULL ELSE IF k = q_head THEN j ELSE j_prev[k]
        /\ q_tail' = IF q_head = NULL THEN j ELSE q_tail
        /\ q_head' = j
        /\ queued' = <<j>> \o queued
        /\ UNCHANGED <<damaged, crashed>>
    BY DEF job_insert, WriteLock
  <1>2. Faithful(queued)
    BY <1>1, FaithfulList
  <1>3. /\ n \in Nat /\ Len(queued') = n + 1
        /\ \A i \in 1..(n + 1) : queued'[i] = IF i = 1 THEN j ELSE queued[i - 1]
    BY <1>1
  <1>4. \A i \in 1..n : queued[i] \in Jobs /\ queued[i] # j /\ queued[i] # NULL
    BY <1>1 DEF Put, Contains
  <1>5. \A i \in 1..n : queued[i] = q_head <=> i = 1
    BY <1>2, <1>3, <1>4 DEF Faithful, Distinct
  <1>6. q_head = NULL <=> n = 0
    BY <1>2, <1>3, <1>4 DEF Faithful
  <1> HIDE DEF n
  <1>7. q_head' = queued'[1] /\ q_tail' = queued'[n + 1]
    BY <1>1, <1>2, <1>3, <1>6 DEF Faithful, n
  <1>8. ASSUME NEW i \in 1..(n + 1)
        PROVE  /\ j_next'[queued'[i]] = IF i = n + 1 THEN NULL ELSE queued'[i + 1]
               /\ j_prev'[queued'[i]] = IF i = 1 THEN NULL ELSE queued'[i - 1]
    <2>1. CASE i = 1
      <3>1. queued'[i] = j /\ j_next'[j] = q_head /\ j_prev'[j] = NULL
        BY <1>1, <1>3, <2>1
      <3>2. n # 0 => q_head = queued[1] /\ queued'[2] = queued[1]
        BY <1>2, <1>3 DEF Faithful, n
      <3> QED
        BY <1>3, <1>6, <2>1, <3>1, <3>2
    <2>2. CASE i # 1
      <3> DEFINE m == i - 1
      <3>1. m \in 1..n /\ i = m + 1 /\ m \in Nat
        BY <1>3, <2>2
      <3> HIDE DEF m
      <3>2. queued'[i] = queued[m] /\ queued[m] \in Jobs /\ queued[m] # j
        BY <1>3, <1>4, <3>1
      <3>3. j_next[queued[m]] = IF m = n THEN NULL ELSE queued[m + 1]
        BY <1>2, <3>1 DEF Faithful, n
      <3>4. j_prev[queued[m]] = IF m = 1 THEN NULL ELSE queued[m - 1]
        BY <1>2, <3>1 DEF Faithful, n
      <3>5. j_next'[queued[m]] = j_next[queued[m]]
        BY <1>1, <3>2
      <3>6. j_prev'[queued[m]] = IF m = 1 THEN j ELSE j_prev[queued[m]]
        BY <1>1, <1>5, <3>1, <3>2
      <3>7. m # n => queued'[i + 1] = queued[m + 1]
        <4>1. m # n => i + 1 \in 1..(n + 1) /\ i + 1 # 1 /\ (i + 1) - 1 = m + 1
          BY <1>3, <3>1
        <4> QED
          BY <1>3, <4>1
      <3>8. queued'[i - 1] = IF m = 1 THEN j ELSE queued[m - 1]
        <4>1. i - 1 = m /\ m \in 1..(n + 1)
          BY <1>3, <3>1
        <4> QED
          BY <1>3, <4>1
      <3> QED
        BY <1>3, <3>1, <3>2, <3>3, <3>4, <3>5, <3>6, <3>7, <3>8
    <2> QED
      BY <2>1, <2>2
  <1> QED
    <2>1. Len(queued') = n + 1 /\ n + 1 # 0 /\ ~crashed'
      BY <1>1, <1>3
    <2> QED
      BY <1>7, <1>8, <2>1 DEF Faithful

LEMMA AppendFaithful ==
  ASSUME QueueAssumption, TypeOK, OrderInv, ListFaithful, NEW j \in Jobs, job_append(j)
  PROVE  ListFaithful'
  <1> USE DEF QueueAssumption, TypeOK
  <1> SUFFICES ASSUME ~damaged' PROVE Faithful(queued)'
    BY DEF ListFaithful, Faithful
  <1>1. /\ ~damaged /\ queued = <<>> /\ ~crashed /\ crashed' = crashed
        /\ queued' = Append(queued, j) /\ q_head' = j
    BY DEF job_append, WriteLock
  <1>2. q_tail = NULL
    BY <1>1, FaithfulList DEF Faithful
  <1>3. j_next'[j] = NULL /\ j_prev'[j] = NULL /\ q_tail' = j
    BY <1>2 DEF job_append
  <1>4. queued' = <<j>>
    BY <1>1
  <1> QED
    BY <1>1, <1>3, <1>4 DEF Faithful

LEMMA RemoveFaithful ==
  ASSUME QueueAssumption, TypeOK, OrderInv, ListFaithful, NEW j \in Jobs, job_remove(j)
  PROVE  ListFaithful'
  <1> USE DEF QueueAssumption, TypeOK, OrderInv
  <1> DEFINE n == Len(queued)
  <1> SUFFICES ASSUME ~damaged' PROVE Faithful(queued)'
    BY DEF ListFaithful, Faithful
  <1>1. /\ ~damaged /\ ~crashed /\ j \in {q_head, q_tail} /\ Contains(queued, j)
        /\ queued' = RemoveFirst(queued, j)
        /\ RemoveHead(j) \/ RemoveTail(j)
    BY DEF job_remove, WriteLock, RemoveMiddle
  <1>2. Faithful(queued)
    BY <1>1, FaithfulList
  <1>3. n \in Nat /\ n > 0 /\ \A i \in 1..n : queued[i] \in Jobs /\ queued[i] # NULL
    BY <1>1 DEF Contains
  <1>4. q_head = queued[1] /\ q_tail = queued[n] /\ \A i, k \in 1..n : queued[i] = queued[k] => i = k
    BY <1>2, <1>3 DEF Faithful, Distinct
  <1>5. \A i \in 1..n : /\ j_next[queued[i]] = IF i = n THEN NULL ELSE queued[i + 1]
                        /\ j_prev[queued[i]] = IF i = 1 THEN NULL ELSE queued[i - 1]
    BY <1>2 DEF Faithful
  <1> HIDE DEF n, TypeOK, OrderInv
  <1>6. CASE RemoveHead(j)
    <2>1. j = queued[1] /\ 1 \in 1..n
      BY <1>3, <1>4, <1>6 DEF RemoveHead
    <2>2. /\ Len(queued') = n - 1
          /\ \A i \in 1..(n - 1) : queued'[i] = queued[i + 1]
      <3>1. /\ Len(RemoveFirst(queued, queued[1])) = n - 1
            /\ \A i \in 1..(n - 1) : RemoveFirst(queued, queued[1])[i] = IF i < 1 THEN queued[i] ELSE queued[i + 1]
        BY <2>1, RemoveAtPosition DEF n, TypeOK, OrderInv
      <3> QED
        BY <1>1, <1>3, <2>1, <3>1
    <2>3. q_head' = j_next[j] /\ j_next' = j_next
      BY <1>6 DEF RemoveHead
    <2>4. CASE n = 1
      <3>1. q_tail' = NULL /\ crashed' = crashed
        BY <1>4, <1>6, <2>1, <2>4 DEF RemoveHead
      <3>2. q_head' = NULL
        BY <1>5, <2>1, <2>3, <2>4
      <3> QED
        BY <1>1, <2>2, <2>4, <3>1, <3>2 DEF Faithful
    <2>5. CASE n # 1
      <3>1. 2 \in 1..n /\ n \in 1..n /\ n # 1
        BY <1>3, <2>5
      <3>2. j_next[j] = queued[2] /\ j_prev[j] = NULL /\ j # q_tail /\ queued[2] \in Jobs /\ queued[2] # NULL
        BY <1>3, <1>4, <1>5, <2>1, <3>1
      <3>3. q_tail' = q_tail /\ crashed' = crashed /\ j_prev' = [j_prev EXCEPT ![queued[2]] = NULL]
        BY <1>6, <3>2 DEF RemoveHead, Relink
      <3>4. q_head' = queued'[1] /\ q_tail' = queued'[n - 1]
        BY <1>3, <1>4, <2>2, <2>3, <3>1, <3>2, <3>3
      <3>5. ASSUME NEW i \in 1..(n - 1)
            PROVE  /\ j_next'[queued'[i]] = IF i = n - 1 THEN NULL ELSE queued'[i + 1]
                   /\ j_prev'[queued'[i]] = IF i = 1 THEN NULL ELSE queued'[i - 1]
        <4>1. i + 1 \in 1..n /\ i \in Nat /\ i # 0 /\ queued'[i] = queued[i + 1] /\ queued[i + 1] \in Jobs
          BY <1>3, <2>2
        <4>2. /\ j_next'[queued'[i]] = IF i + 1 = n THEN NULL ELSE queued[i + 2]
              /\ j_prev[queued'[i]] = queued[i]
          BY <1>3, <1>5, <2>3, <4>1
        <4>3. i + 1 # n => i + 1 \in 1..(n - 1) /\ queued'[i + 1] = queued[i + 2]
          BY <1>3, <2>2, <4>1
        <4>4. j_prev'[queued'[i]] = IF i = 1 THEN NULL ELSE queued[i]
          <5>1. j_prev'[queued[i + 1]] = IF queued[i + 1] = queued[2] THEN NULL ELSE j_prev[queued[i + 1]]
            BY <3>3, <4>1 DEF TypeOK
          <5>2. queued[i + 1] = queued[2] <=> i = 1
            BY <1>4, <3>1, <4>1
          <5> QED
            BY <4>1, <4>2, <5>1, <5>2
        <4>5. i # 1 => i - 1 \in 1..(n - 1) /\ queued'[i - 1] = queued[i]
          BY <1>3, <2>2, <4>1
        <4> QED
          BY <1>3, <4>1, <4>2, <4>3, <4>4, <4>5
      <3> QED
        BY <1>1, <1>3, <2>2, <2>5, <3>3, <3>4, <3>5 DEF Faithful
    <2> QED
      BY <2>4, <2>5
  <1>7. CASE RemoveTail(j)
    <2>1. j = queued[n] /\ n \in 1..n /\ n # 1
      BY <1>3, <1>4, <1>7 DEF RemoveTail
    <2>2. /\ Len(queued') = n - 1
          /\ \A i \in 1..(n - 1) : queued'[i] = queued[i]
      <3>1. /\ Len(RemoveFirst(queued, queued[n])) = n - 1
            /\ \A i \in 1..(n - 1) : RemoveFirst(queued, queued[n])[i] = IF i < n THEN queued[i] ELSE queued[i + 1]
        BY <2>1, RemoveAtPosition DEF n, TypeOK, OrderInv
      <3> QED
        BY <1>1, <1>3, <2>1, <3>1
    <2>3. q_tail' = j_prev[j] /\ UNCHANGED <<q_head, j_prev>>
      BY <1>7 DEF RemoveTail
    <2>4. n - 1 \in 1..n /\ n - 1 # n /\ n \in Nat
      BY <1>3, <2>1
    <2>5. j_prev[j] = queued[n - 1] /\ j_next[j] = NULL /\ queued[n - 1] \in Jobs /\ queued[n - 1] # NULL
      BY <1>3, <1>5, <2>1, <2>4
    <2>6. crashed' = crashed /\ j_next' = [j_next EXCEPT ![queued[n - 1]] = NULL]
      BY <1>7, <2>5 DEF RemoveTail, Relink
    <2>7. ASSUME NEW i \in 1..(n - 1)
          PROVE  /\ j_next'[queued'[i]] = IF i = n - 1 THEN NULL ELSE queued'[i + 1]
                 /\ j_prev'[queued'[i]] = IF i = 1 THEN NULL ELSE queued'[i - 1]
      <3>1. i \in 1..n /\ i # n /\ queued'[i] = queued[i] /\ queued[i] \in Jobs
        BY <1>3, <2>2, <2>4
      <3>2. j_prev'[queued'[i]] = IF i = 1 THEN NULL ELSE queued'[i - 1]
        BY <1>5, <2>2, <2>3, <2>4, <3>1
      <3>3. j_next'[queued'[i]] = IF i = n - 1 THEN NULL ELSE queued[i + 1]
        <4>1. j_next'[queued[i]] = IF queued[i] = queued[n - 1] THEN NULL ELSE j_next[queued[i]]
          BY <2>6, <3>1 DEF TypeOK
        <4>2. queued[i] = queued[n - 1] <=> i = n - 1
          BY <1>4, <2>4, <3>1
        <4> QED
          BY <1>5, <3>1, <4>1, <4>2
      <3>4. i # n - 1 => queued'[i + 1] = queued[i + 1]
        BY <2>2, <2>4, <3>1
      <3> QED
        BY <3>2, <3>3, <3>4
    <2>8. q_head' = queued'[1] /\ q_tail' = queued'[n - 1] /\ n - 1 # 0
      BY <1>4, <2>2, <2>3, <2>4, <2>5
    <2> QED
      BY <1>1, <2>2, <2>6, <2>7, <2>8 DEF Faithful
  <1> QED
    BY <1>1, <1>6, <1>7

-----------------------------------------------------------------------------
(* job_find, and the invariant *)

LEMMA InitIInv == QueueAssumption /\ Init => IInv
  <1> SUFFICES ASSUME QueueAssumption, Init PROVE IInv
    OBVIOUS
  <1>1. TypeOK
    <2>1. queued \in Seq(Jobs)
      BY EmptySeq DEF Init
    <2>2. damaged \in BOOLEAN /\ relinked \in BOOLEAN /\ crashed \in BOOLEAN
      BY Zenon DEF Init
    <2> QED
      BY <2>1, <2>2 DEF Init, TypeOK
  <1>2. Put = {} /\ Distinct(queued) /\ Len(queued) = 0
    <2>1. queued = <<>> /\ Len(<<>>) = 0
      BY DEF Init
    <2> QED
      BY <2>1 DEF Put, Contains, Distinct
  <1>3. OrderInv /\ EndsInv /\ EntryInv /\ ApartInv
    BY <1>2 DEF Init, QueueAssumption, OrderInv, EndsInv, EntryInv, ApartInv, Linked
  <1>4. DownInv
    <2> DEFINE r == [k \in Jobs |-> 0]
    <2>1. Down(r, -1, 1)
      BY <1>2 DEF Init, Down, Linked
    <2> QED
      BY <2>1 DEF DownInv
  <1>5. ListFaithful
    BY <1>2, FaithfulList DEF Init, Faithful
  <1>6. FindOnQueued
    BY DEF Init, FindOnQueued
  <1> QED
    BY <1>1, <1>3, <1>4, <1>5, <1>6 DEF IInv, LinksInv

\* A step of job_find changes nothing but the place of that thread.
LEMMA QuietStep ==
  ASSUME IInv, UNCHANGED <<q_head, q_tail, j_next, j_prev, queued, damaged, relinked, crashed>>
  PROVE  OrderInv' /\ LinksInv' /\ ListFaithful'
  <1>1. Put' = Put /\ Linked' = Linked
    BY DEF Put, Linked
  <1>2. OrderInv' /\ (EndsInv => EndsInv') /\ (EntryInv => EntryInv')
    BY <1>1 DEF IInv, OrderInv, EndsInv, EntryInv
  <1>3. ApartInv => ApartInv'
    BY <1>1 DEF ApartInv, Apart
  <1>4. DownInv => DownInv'
    BY <1>1 DEF DownInv, Down
  <1>5. ListFaithful'
    BY DEF IInv, ListFaithful
  <1> QED
    BY <1>2, <1>3, <1>4, <1>5 DEF IInv, LinksInv

\* The nodes a job_find of an undamaged list gets to are queued.
LEMMA ReachesQueued ==
  ASSUME QueueAssumption, IInv, ~damaged
  PROVE  /\ q_head # NULL => q_head \in Range(queued)
         /\ \A k \in Range(queued) : j_next[k] # NULL => j_next[k] \in Range(queued)
  <1>1. Faithful(queued)
    BY FaithfulList DEF IInv
  <1>2. /\ Len(queued) \in Nat /\ DOMAIN queued = 1..Len(queued)
        /\ Range(queued) = {queued[i] : i \in 1..Len(queued)}
    BY DEF IInv, TypeOK, Range
  <1>3. q_head # NULL => q_head \in Range(queued)
    <2> SUFFICES ASSUME q_head # NULL PROVE q_head \in Range(queued)
      OBVIOUS
    <2>1. q_head = queued[1] /\ Len(queued) # 0
      BY <1>1 DEF Faithful
    <2>2. 1 \in 1..Len(queued)
      BY <1>2, <2>1
    <2> QED
      BY <1>2, <2>1, <2>2
  <1>4. ASSUME NEW i \in 1..Len(queued), j_next[queued[i]] # NULL
        PROVE  j_next[queued[i]] \in Range(queued)
    <2>1. j_next[queued[i]] = queued[i + 1] /\ i # Len(queued)
      BY <1>1, <1>4 DEF Faithful
    <2>2. Len(queued) \in Nat
      BY <1>2
    <2>3. i + 1 \in 1..Len(queued)
      BY <2>1, <2>2
    <2>4. queued[i + 1] \in Range(queued)
      BY <1>2, <2>3
    <2> QED
      BY <2>1, <2>4
  <1> QED
    BY <1>2, <1>3, <1>4

LEMMA FindStartStep ==
  ASSUME QueueAssumption, IInv, NEW f \in Finders, FindStart(f)
  PROVE  IInv'
  <1>1. /\ UNCHANGED <<q_head, q_tail, j_next, j_prev, queued, damaged, relinked, crashed>>
        /\ q_head # NULL /\ at' = [at EXCEPT ![f] = q_head]
    BY DEF FindStart
  <1>2. TypeOK'
    BY <1>1 DEF IInv, TypeOK
  <1>3. FindOnQueued'
    <2> SUFFICES ASSUME ~damaged', NEW g \in Finders, at'[g] # NULL PROVE at'[g] \in Range(queued')
      BY DEF FindOnQueued
    <2>1. q_head \in Range(queued)
      BY <1>1, ReachesQueued
    <2> QED
      BY <1>1, <2>1 DEF IInv, TypeOK, FindOnQueued
  <1> QED
    BY <1>1, <1>2, <1>3, QuietStep DEF IInv

LEMMA FindStepStep ==
  ASSUME QueueAssumption, IInv, NEW f \in Finders, FindStep(f)
  PROVE  IInv'
  <1>1. PICK to \in {NULL, j_next[at[f]]} : at' = [at EXCEPT ![f] = to]
    BY DEF FindStep
  <1>2. /\ UNCHANGED <<q_head, q_tail, j_next, j_prev, queued, damaged, relinked, crashed>>
        /\ at[f] # NULL /\ at[f] \in Jobs
    BY DEF FindStep, IInv, TypeOK
  <1>3. to \in Jobs \cup {NULL}
    BY <1>1, <1>2 DEF IInv, TypeOK
  <1>4. TypeOK'
    BY <1>1, <1>2, <1>3 DEF IInv, TypeOK
  <1>5. FindOnQueued'
    <2> SUFFICES ASSUME ~damaged', NEW g \in Finders, at'[g] # NULL PROVE at'[g] \in Range(queued')
      BY DEF FindOnQueued
    <2>1. at[f] \in Range(queued)
      BY <1>2 DEF IInv, FindOnQueued
    <2>2. to # NULL => to \in Range(queued)
      BY <1>1, <1>2, <2>1, ReachesQueued
    <2> QED
      BY <1>1, <1>2, <2>2 DEF IInv, TypeOK, FindOnQueued
  <1> QED
    BY <1>2, <1>4, <1>5, QuietStep DEF IInv

LEMMA StepIInv == ASSUME QueueAssumption, IInv, [Next]_vars PROVE IInv'
  <1>1. ASSUME NEW j \in Jobs, job_insert(j) \/ job_append(j) \/ job_remove(j) PROVE IInv'
    <2>1. TypeOK' /\ OrderInv' /\ LinksInv'
      BY <1>1, InsertStep, AppendStep, RemoveHeadStep, RemoveTailStep, RemoveMiddleStep DEF IInv, job_remove
    <2>2. ListFaithful'
      BY <1>1, InsertFaithful, AppendFaithful, RemoveFaithful DEF IInv
    <2>3. FindOnQueued'
      BY <1>1 DEF job_insert, job_append, job_remove, WriteLock, FindOnQueued
    <2> QED
      BY <2>1, <2>2, <2>3 DEF IInv
  <1>2. CASE UNCHANGED vars
    <2>1. UNCHANGED <<q_head, q_tail, j_next, j_prev, queued, damaged, relinked, crashed>> /\ at' = at
      BY <1>2 DEF vars
    <2>2. TypeOK' /\ FindOnQueued'
      BY <2>1 DEF IInv, TypeOK, FindOnQueued
    <2> QED
      BY <2>1, <2>2, QuietStep DEF IInv
  <1> QED
    BY <1>1, <1>2, FindStartStep, FindStepStep DEF Next, Crashed

-----------------------------------------------------------------------------
(* The theorems *)

\* A nonempty set of numbers has a least one.
LEMMA LeastNat ==
  ASSUME NEW T \in SUBSET Nat, T # {}
  PROVE  \E m \in T : \A k \in T : ~(k < m)
  <1> DEFINE Less == {p \in Nat \X Nat : p[1] < p[2]}
  <1>1. IsWellFoundedOn(Less, Nat)
    BY NatLessThanWellFounded DEF OpToRel
  <1> HIDE DEF Less
  <1>2. PICK m \in T : \A k \in T : ~(<<k, m>> \in Less)
    BY <1>1, WFMin
  <1>3. ASSUME NEW k \in T, k < m PROVE FALSE
    <2>1. <<k, m>> \in Less
      BY <1>3 DEF Less
    <2> QED
      BY <1>2, <2>1
  <1> QED
    BY <1>3

\* No set of jobs is closed under j_next in a list whose jobs can be ranked, and none with
\* the head in an undamaged list: take the member of least rank, or the last in the queue.
LEMMA RankedEnds ==
  ASSUME QueueAssumption, IInv, ~relinked, NEW S \in SUBSET Jobs, S # {}, \A k \in S : j_next[k] \in S
  PROVE  FALSE
  <1>1. PICK r \in [Jobs -> Int], lo \in Int, hi \in Int : Down(r, lo, hi)
    BY DEF IInv, LinksInv, DownInv
  <1>2. \A k \in S : k \in Jobs /\ r[j_next[k]] < r[k] /\ r[k] \in Int /\ lo < r[k]
    BY <1>1 DEF QueueAssumption, Down
  <1> DEFINE T == {r[k] - lo : k \in S}
  <1>3. T \in SUBSET Nat /\ T # {}
    BY <1>1, <1>2
  <1>4. PICK m \in T : \A k \in T : ~(k < m)
    BY <1>3, LeastNat
  <1>5. PICK k \in S : m = r[k] - lo
    OBVIOUS
  <1>6. r[j_next[k]] - lo \in T /\ j_next[k] \in S
    OBVIOUS
  <1>7. r[j_next[k]] - lo < r[k] - lo
    BY <1>1, <1>2, <1>6
  <1> QED
    BY <1>4, <1>5, <1>6, <1>7

LEMMA FaithfulEnds ==
  ASSUME QueueAssumption, IInv, ~damaged, NEW S \in SUBSET Jobs, q_head \in S, \A k \in S : j_next[k] \in S
  PROVE  FALSE
  <1> DEFINE n == Len(queued)
             T == {d \in Nat : \E i \in 1..n : d = n - i /\ queued[i] \in S}
  <1>1. Faithful(queued) /\ n \in Nat /\ NULL \notin S
    BY FaithfulList DEF IInv, TypeOK, QueueAssumption
  <1>2. n # 0 /\ queued[1] \in S
    BY <1>1 DEF Faithful
  <1>3. n - 1 \in T
    BY <1>1, <1>2
  <1>4. PICK d \in T : \A e \in T : ~(e < d)
    <2> HIDE DEF T
    <2>1. T \in SUBSET Nat /\ T # {}
      BY <1>3 DEF T
    <2> QED
      BY <2>1, LeastNat
  <1>5. PICK i \in 1..n : d = n - i /\ queued[i] \in S
    OBVIOUS
  <1>6. j_next[queued[i]] \in S /\ j_next[queued[i]] = IF i = n THEN NULL ELSE queued[i + 1]
    BY <1>1, <1>5 DEF Faithful
  <1>7. i # n /\ queued[i + 1] \in S
    BY <1>1, <1>6
  <1>8. i + 1 \in 1..n /\ n - (i + 1) \in Nat /\ n - (i + 1) < d
    BY <1>1, <1>5, <1>7
  <1>9. n - (i + 1) \in T
    BY <1>7, <1>8
  <1> QED
    BY <1>4, <1>8, <1>9

THEOREM Invariance == QueueAssumption => (Spec => []IInv)
  <1> SUFFICES ASSUME QueueAssumption PROVE Spec => []IInv
    OBVIOUS
  <1>1. Init => IInv
    BY InitIInv
  <1>2. IInv /\ [Next]_vars => IInv'
    BY StepIInv
  <1> QED
    BY <1>1, <1>2, PTL DEF Spec

\* An undamaged list is the queue its clients asked for, in both directions, and no null
\* pointer was followed.
THEOREM ListIsFaithful == QueueAssumption => (Spec => []ListFaithful)
  BY Invariance, PTL DEF IInv

\* job_find looks at queued jobs only, as long as the list is undamaged.
THEOREM FindsQueued == QueueAssumption => (Spec => []FindOnQueued)
  BY Invariance, PTL DEF IInv

\* The walk of job_find ends in an undamaged list, whatever jobs were put again, and in
\* a damaged one to which no job was put while a link named it.
THEOREM FindAlwaysEnds == QueueAssumption => (Spec => []FindEnds)
  <1> SUFFICES ASSUME QueueAssumption PROVE Spec => []FindEnds
    OBVIOUS
  <1>1. IInv => FindEnds
    <2> SUFFICES ASSUME IInv, ~damaged \/ ~relinked, NEW S \in SUBSET Jobs, q_head \in S,
                        \A k \in S : j_next[k] \in S
                 PROVE  FALSE
      BY DEF FindEnds
    <2> QED
      BY RankedEnds, FaithfulEnds
  <1> QED
    BY <1>1, Invariance, PTL

=============================================================================
