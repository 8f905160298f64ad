--------------------------- MODULE FooCoarse_proofs ---------------------------
(***************************************************************************)
(* Theorems about FooCoarse, for every finite set of threads, every table    *)
(* and every set of blocks and ids.                                          *)
(***************************************************************************)
EXTENDS FooCoarse, FiniteSetTheorems, SequenceTheorems, TLAPS

Distinct(s) == \A k, m \in 1..Len(s) : s[k] = s[m] => k = m

RefsTo(o) == {t \in Threads : ref[t] = o}

TypeOK == /\ ref \in [Threads -> Objs \cup {Null}]
          /\ stored \in [Objs -> Nat]
          /\ freeing \in [Threads -> Objs \cup {Null}]
          /\ hashlock \in Threads \cup {Null}
          /\ fh \in [0..(NHASH - 1) -> Seq(Objs)]
          /\ f_count \in [Objs -> Nat]
          /\ f_id \in [Objs -> Ids]
          /\ heap \in SUBSET Objs

\* f_count is the number of references, also for a block that is not in use.
CountInv == \A o \in Objs : f_count[o] = stored[o] + Cardinality(RefsTo(o))

\* The chains hold the objects with a reference, each once, in the chain of its id.
ChainInv == /\ \A i \in 0..(NHASH - 1) : Distinct(fh[i])
            /\ \A i \in 0..(NHASH - 1), o \in Objs :
                 Contains(fh[i], o) <=> f_count[o] > 0 /\ HASH(f_id[o]) = i

\* What has a reference is allocated; what is about to be freed is allocated too,
\* has no reference any more, and one thread frees it.
HeapInv == /\ \A o \in Objs : f_count[o] > 0 => o \in heap
           /\ \A t \in Threads : freeing[t] # Null => freeing[t] \in heap /\ f_count[freeing[t]] = 0
           /\ \A t, u \in Threads : freeing[t] # Null /\ freeing[t] = freeing[u] => t = u

IInv == TypeOK /\ CountInv /\ ChainInv /\ HeapInv

-----------------------------------------------------------------------------
(* Chains *)

LEMMA ConsChain ==
  ASSUME NEW S, NEW s \in Seq(S), NEW e \in S
  PROVE  /\ <<e>> \o s \in Seq(S)
         /\ \A x : Contains(<<e>> \o s, x) <=> x = e \/ Contains(s, x)
         /\ Distinct(s) /\ ~Contains(s, e) => Distinct(<<e>> \o s)
  <1> DEFINE r == <<e>> \o s
  <1>1. /\ r \in Seq(S) /\ Len(s) \in Nat /\ Len(r) = Len(s) + 1
        /\ \A k \in 1..Len(r) : r[k] = IF k = 1 THEN e ELSE s[k - 1]
    OBVIOUS
  <1> HIDE DEF r
  <1>2. 1 \in 1..Len(r) /\ \A k \in 1..Len(s) : k + 1 \in 1..Len(r) /\ r[k + 1] = s[k]
    BY <1>1
  <1>3. \A k \in 1..Len(r) : k = 1 \/ k - 1 \in 1..Len(s)
    BY <1>1
  <1>4. ASSUME NEW x PROVE Contains(r, x) <=> x = e \/ Contains(s, x)
    BY <1>1, <1>2, <1>3 DEF Contains
  <1>5. ASSUME Distinct(s), ~Contains(s, e), NEW k \in 1..Len(r), NEW m \in 1..Len(r), r[k] = r[m]
        PROVE  k = m
    <2>1. CASE k = 1 \/ m = 1
      BY <1>1, <1>3, <1>5, <2>1 DEF Contains
    <2>2. CASE k # 1 /\ m # 1
      <3>1. k - 1 \in 1..Len(s) /\ m - 1 \in 1..Len(s) /\ s[k - 1] = s[m - 1]
        BY <1>1, <1>3, <1>5, <2>2
      <3>2. k - 1 = m - 1
        BY <1>5, <3>1 DEF Distinct
      <3> QED
        BY <3>2
    <2> QED
      BY <2>1, <2>2
  <1> QED
    BY <1>1, <1>4, <1>5 DEF Distinct, r

LEMMA UnlinkChain ==
  ASSUME NEW S, NEW s \in Seq(S), NEW e, Contains(s, e), Distinct(s)
  PROVE  /\ RemoveFirst(s, e) \in Seq(S)
         /\ \A x : Contains(RemoveFirst(s, e), x) <=> Contains(s, x) /\ x # e
         /\ Distinct(RemoveFirst(s, e))
  <1> DEFINE r == RemoveFirst(s, e)
  <1>1. PICK k0 \in 1..Len(s) : s[k0] = e
    BY DEF Contains
  <1>2. \A k \in 1..Len(s) : s[k] = e <=> k = k0
    BY <1>1 DEF Distinct
  <1>3. SelectInSeq(s, LAMBDA v : v = e) = k0
    <2>1. {k \in 1..Len(s) : s[k] = e} = {k0}
      BY <1>2
    <2>2. Min({k0}) = k0
      BY <1>1 DEF Min
    <2> QED
      BY <2>1, <2>2 DEF SelectInSeq
  <1>4. r = SubSeq(s, 1, k0 - 1) \o SubSeq(s, k0 + 1, Len(s))
    BY <1>1, <1>3 DEF RemoveFirst, RemoveAt
  <1>5. /\ r \in Seq(S) /\ Len(s) \in Nat /\ Len(r) = Len(s) - 1
        /\ \A k \in 1..(Len(s) - 1) : r[k] = IF k < k0 THEN s[k] ELSE s[k + 1]
    <2> DEFINE a == SubSeq(s, 1, k0 - 1)
               b == SubSeq(s, k0 + 1, Len(s))
    <2>1. a \in Seq(S) /\ Len(a) = k0 - 1 /\ \A k \in 1..(k0 - 1) : a[k] = s[k]
      BY <1>1, SubSeqProperties
    <2>2. b \in Seq(S) /\ Len(b) = Len(s) - k0 /\ \A k \in 1..(Len(s) - k0) : b[k] = s[k0 + k]
      BY <1>1, SubSeqProperties
    <2>3. Len(s) \in Nat /\ k0 \in Nat
      BY <1>1
    <2> HIDE DEF a, b, r
    <2>4. r = a \o b
      BY <1>4 DEF a, b
    <2>5. /\ r \in Seq(S) /\ Len(r) = Len(s) - 1
          /\ \A k \in 1..Len(r) : r[k] = IF k <= Len(a) THEN a[k] ELSE b[k - Len(a)]
      <3>1. /\ r \in Seq(S) /\ Len(r) = Len(a) + Len(b)
            /\ \A k \in 1..(Len(a) + Len(b)) : r[k] = IF k <= Len(a) THEN a[k] ELSE b[k - Len(a)]
        BY <2>1, <2>2, <2>4, ConcatProperties
      <3> QED
        BY <2>1, <2>2, <2>3, <3>1
    <2>6. ASSUME NEW k \in 1..(Len(s) - 1) PROVE r[k] = IF k < k0 THEN s[k] ELSE s[k + 1]
      <3>1. CASE k < k0
        BY <2>1, <2>3, <2>5, <3>1
      <3>2. CASE ~(k < k0)
        <4>1. /\ k - (k0 - 1) \in 1..(Len(s) - k0) /\ k0 + (k - (k0 - 1)) = k + 1
              /\ ~(k <= k0 - 1) /\ k \in 1..Len(r)
          BY <2>3, <2>5, <3>2
        <4>2. r[k] = b[k - (k0 - 1)]
          BY <2>1, <2>5, <4>1
        <4>3. b[k - (k0 - 1)] = s[k + 1]
          BY <2>2, <4>1
        <4> QED
          BY <3>2, <4>2, <4>3
      <3> QED
        BY <3>1, <3>2
    <2> QED
      BY <2>3, <2>5, <2>6
  <1> HIDE DEF r
  <1>6. ASSUME NEW x PROVE Contains(r, x) <=> Contains(s, x) /\ x # e
    <2>1. ASSUME NEW k \in 1..Len(r), r[k] = x PROVE Contains(s, x) /\ x # e
      <3>1. CASE k < k0
        BY <1>1, <1>2, <1>5, <2>1, <3>1 DEF Contains
      <3>2. CASE ~(k < k0)
        <4>1. k + 1 \in 1..Len(s) /\ k + 1 # k0 /\ s[k + 1] = x
          BY <1>1, <1>5, <2>1, <3>2
        <4> QED
          BY <1>2, <4>1 DEF Contains
      <3> QED
        BY <3>1, <3>2
    <2>2. ASSUME NEW k \in 1..Len(s), s[k] = x, x # e PROVE Contains(r, x)
      <3>1. CASE k < k0
        <4>1. k \in 1..Len(r) /\ r[k] = x
          BY <1>1, <1>5, <2>2, <3>1
        <4> QED
          BY <4>1 DEF Contains
      <3>2. CASE ~(k < k0)
        <4>1. k # k0
          BY <1>1, <2>2
        <4>2. k - 1 \in 1..Len(r) /\ ~(k - 1 < k0) /\ (k - 1) + 1 = k
          BY <1>1, <1>5, <2>2, <3>2, <4>1
        <4>3. r[k - 1] = x
          BY <1>5, <2>2, <4>2
        <4> QED
          BY <4>2, <4>3 DEF Contains
      <3> QED
        BY <3>1, <3>2
    <2> QED
      BY <2>1, <2>2 DEF Contains
  <1>7. ASSUME NEW k \in 1..Len(r), NEW m \in 1..Len(r), r[k] = r[m] PROVE k = m
    <2> DEFINE up(j) == IF j < k0 THEN j ELSE j + 1
    <2>1. up(k) \in 1..Len(s) /\ up(m) \in 1..Len(s) /\ s[up(k)] = s[up(m)]
      BY <1>1, <1>5, <1>7
    <2>2. up(k) = up(m)
      BY <2>1 DEF Distinct
    <2> QED
      BY <1>1, <1>5, <2>2
  <1> QED
    BY <1>5, <1>6, <1>7 DEF Distinct, r

LEMMA HashInRange ==
  ASSUME TableAssumption, NEW id \in Ids
  PROVE  HASH(id) \in 0..(NHASH - 1)
  BY DEF TableAssumption, HASH

\* A thread that takes up a reference to o adds one to the references to o, and to no
\* other object.
LEMMA TakesRef ==
  ASSUME TableAssumption, NEW o \in Objs, NEW t \in Threads, ref \in [Threads -> Objs \cup {Null}],
         ref[t] = Null, ref' = [ref EXCEPT ![t] = o]
  PROVE  /\ Cardinality(RefsTo(o)) \in Nat
         /\ Cardinality(RefsTo(o))' = Cardinality(RefsTo(o)) + 1
         /\ \A x \in Objs : x # o => RefsTo(x)' = RefsTo(x)
  <1>1. IsFiniteSet(RefsTo(o)) /\ o # Null
    BY FS_Subset DEF TableAssumption, RefsTo
  <1>2. RefsTo(o)' = RefsTo(o) \cup {t} /\ t \notin RefsTo(o)
    BY <1>1 DEF RefsTo
  <1>3. Cardinality(RefsTo(o)) \in Nat /\ Cardinality(RefsTo(o) \cup {t}) = Cardinality(RefsTo(o)) + 1
    BY <1>1, <1>2, FS_AddElement, FS_CardinalityType
  <1>4. \A x \in Objs : x # o => RefsTo(x)' = RefsTo(x)
    BY DEF RefsTo, TableAssumption
  <1> QED
    BY <1>2, <1>3, <1>4

\* A thread that gives up its reference to o takes one from the references to o.
LEMMA DropsRef ==
  ASSUME TableAssumption, NEW o \in Objs, NEW t \in Threads, ref \in [Threads -> Objs \cup {Null}],
         ref[t] = o, ref' = [ref EXCEPT ![t] = Null]
  PROVE  /\ Cardinality(RefsTo(o)) \in Nat
         /\ Cardinality(RefsTo(o))' = Cardinality(RefsTo(o)) - 1
         /\ \A x \in Objs : x # o => RefsTo(x)' = RefsTo(x)
  <1>1. IsFiniteSet(RefsTo(o)) /\ o # Null
    BY FS_Subset DEF TableAssumption, RefsTo
  <1>2. RefsTo(o)' = RefsTo(o) \ {t} /\ t \in RefsTo(o)
    BY <1>1 DEF RefsTo
  <1>3. Cardinality(RefsTo(o)) \in Nat /\ Cardinality(RefsTo(o) \ {t}) = Cardinality(RefsTo(o)) - 1
    BY <1>1, <1>2, FS_RemoveElement, FS_CardinalityType
  <1>4. \A x \in Objs : x # o => RefsTo(x)' = RefsTo(x)
    BY DEF RefsTo, TableAssumption
  <1> QED
    BY <1>2, <1>3, <1>4

-----------------------------------------------------------------------------
(* The invariant *)

LEMMA InitIInv == TableAssumption /\ Init => IInv
  <1> SUFFICES ASSUME TableAssumption, Init PROVE IInv
    OBVIOUS
  <1>1. TypeOK
    <2>1. (CHOOSE id \in Ids : TRUE) \in Ids
      BY DEF TableAssumption
    <2>2. fh \in [0..(NHASH - 1) -> Seq(Objs)]
      BY EmptySeq DEF Init
    <2> QED
      BY <2>1, <2>2 DEF Init, TypeOK
  <1>2. CountInv
    <2> SUFFICES ASSUME NEW o \in Objs PROVE f_count[o] = stored[o] + Cardinality(RefsTo(o))
      BY DEF CountInv
    <2>1. RefsTo(o) = {}
      BY DEF Init, RefsTo, TableAssumption
    <2>2. Cardinality(RefsTo(o)) = 0
      BY <2>1, FS_EmptySet
    <2> QED
      BY <2>2 DEF Init
  <1>3. ChainInv
    <2>1. \A i \in 0..(NHASH - 1) : fh[i] = <<>>
      BY DEF Init
    <2>2. \A o \in Objs : ~(f_count[o] > 0)
      BY DEF Init
    <2>3. Distinct(<<>>) /\ \A o : ~Contains(<<>>, o)
      BY EmptySeq DEF Distinct, Contains
    <2> QED
      BY <2>1, <2>2, <2>3 DEF ChainInv
  <1>4. HeapInv
    BY DEF Init, HeapInv
  <1> QED
    BY <1>1, <1>2, <1>3, <1>4 DEF IInv

\* A reference is to an object that is counted, chained and allocated.
LEMMA RefIsCounted ==
  ASSUME TableAssumption, IInv, NEW t \in Threads, ref[t] # Null
  PROVE  /\ ref[t] \in Objs
         /\ f_count[ref[t]] > 0
         /\ f_count[ref[t]] - 1 \in Nat
         /\ ref[t] \in heap
         /\ Contains(fh[HASH(f_id[ref[t]])], ref[t])
         /\ \A u \in Threads : freeing[u] # ref[t]
  <1> USE DEF IInv, TypeOK
  <1> DEFINE o == ref[t]
  <1>1. o \in Objs
    OBVIOUS
  <1>2. f_count[o] > 0 /\ f_count[o] - 1 \in Nat
    <2>1. IsFiniteSet(RefsTo(o)) /\ RefsTo(o) # {}
      BY FS_Subset DEF TableAssumption, RefsTo
    <2>2. Cardinality(RefsTo(o)) \in Nat /\ Cardinality(RefsTo(o)) # 0
      BY <2>1, FS_CardinalityType, FS_EmptySet
    <2>3. f_count[o] = stored[o] + Cardinality(RefsTo(o)) /\ stored[o] \in Nat
      BY <1>1 DEF CountInv
    <2> QED
      BY <2>2, <2>3
  <1>3. o \in heap /\ \A u \in Threads : freeing[u] # o
    BY <1>1, <1>2 DEF HeapInv
  <1>4. Contains(fh[HASH(f_id[o])], o)
    BY <1>1, <1>2, HashInRange DEF ChainInv
  <1> QED
    BY <1>1, <1>2, <1>3, <1>4

\* A step that changes no chain and neither allocates nor frees.
LEMMA QuietStep ==
  ASSUME IInv, UNCHANGED <<fh, f_id, heap, freeing>>,
         \A o \in Objs : f_count'[o] > 0 <=> f_count[o] > 0,
         f_count' \in [Objs -> Nat]
  PROVE  ChainInv' /\ HeapInv'
  <1>1. ChainInv'
    BY DEF IInv, ChainInv
  <1>2. HeapInv'
    BY DEF IInv, TypeOK, HeapInv
  <1> QED
    BY <1>1, <1>2

LEMMA AllocStep ==
  ASSUME TableAssumption, IInv, NEW t \in Threads, NEW id \in Ids, foo_alloc(t, id)
  PROVE  IInv'
  <1> USE DEF IInv, TypeOK
  <1> DEFINE h == HASH(id)
  <1>1. PICK o \in Objs \ heap : /\ heap' = heap \cup {o}
                                 /\ f_count' = [f_count EXCEPT ![o] = 1]
                                 /\ f_id' = [f_id EXCEPT ![o] = id]
                                 /\ fh' = [fh EXCEPT ![h] = <<o>> \o @]
                                 /\ ref' = [ref EXCEPT ![t] = o]
    BY DEF foo_alloc
  <1>2. ref[t] = Null /\ UNCHANGED <<stored, freeing, hashlock>> /\ o # Null /\ o # ref[t]
    BY DEF foo_alloc, TableAssumption
  <1>3. h \in 0..(NHASH - 1)
    BY HashInRange
  <1> HIDE DEF h
  <1>4. f_count[o] = 0
    BY DEF HeapInv
  <1>5. ~Contains(fh[h], o) /\ \A i \in 0..(NHASH - 1) : ~Contains(fh[i], o)
    BY <1>3, <1>4 DEF ChainInv
  <1>6. /\ <<o>> \o fh[h] \in Seq(Objs)
        /\ \A x : Contains(<<o>> \o fh[h], x) <=> x = o \/ Contains(fh[h], x)
        /\ Distinct(<<o>> \o fh[h])
    <2>1. fh[h] \in Seq(Objs) /\ Distinct(fh[h])
      BY <1>3 DEF ChainInv
    <2> QED
      BY <1>5, <2>1, ConsChain
  <1>7. TypeOK'
    BY <1>1, <1>2, <1>3, <1>6
  <1>8. CountInv'
    <2> SUFFICES ASSUME NEW x \in Objs PROVE (f_count[x] = stored[x] + Cardinality(RefsTo(x)))'
      BY DEF CountInv
    <2>1. CASE x = o
      <3>1. Cardinality(RefsTo(o))' = Cardinality(RefsTo(o)) + 1 /\ Cardinality(RefsTo(o)) \in Nat
        BY <1>1, <1>2, TakesRef
      <3>2. 0 = stored[o] + Cardinality(RefsTo(o)) /\ stored[o] \in Nat
        BY <1>4 DEF CountInv
      <3> QED
        BY <1>1, <1>2, <2>1, <3>1, <3>2
    <2>2. CASE x # o
      <3>1. RefsTo(x)' = RefsTo(x)
        BY <1>1, <1>2, <2>2, TakesRef
      <3> QED
        BY <1>1, <1>2, <2>2, <3>1 DEF CountInv
    <2> QED
      BY <2>1, <2>2
  <1>9. ChainInv'
    <2>1. ASSUME NEW i \in 0..(NHASH - 1) PROVE Distinct(fh'[i])
      BY <1>1, <1>3, <1>6 DEF ChainInv
    <2>2. ASSUME NEW i \in 0..(NHASH - 1), NEW x \in Objs
          PROVE  Contains(fh'[i], x) <=> f_count'[x] > 0 /\ HASH(f_id'[x]) = i
      <3>1. CASE x = o
        <4>1. f_count'[o] = 1 /\ HASH(f_id'[o]) = h
          BY <1>1 DEF h
        <4>2. Contains(fh'[i], o) <=> i = h
          BY <1>1, <1>3, <1>5, <1>6
        <4> QED
          BY <3>1, <4>1, <4>2
      <3>2. CASE x # o
        <4>1. f_count'[x] = f_count[x] /\ f_id'[x] = f_id[x]
          BY <1>1, <3>2
        <4>2. Contains(fh'[i], x) <=> Contains(fh[i], x)
          BY <1>1, <1>3, <1>6, <3>2
        <4> QED
          BY <4>1, <4>2 DEF ChainInv
      <3> QED
        BY <3>1, <3>2
    <2> QED
      BY <2>1, <2>2 DEF ChainInv
  <1>10. HeapInv'
    BY <1>1, <1>2 DEF HeapInv
  <1> QED
    BY <1>7, <1>8, <1>9, <1>10

LEMMA HoldStep ==
  ASSUME TableAssumption, IInv, NEW t \in Threads, foo_hold(t)
  PROVE  IInv'
  <1> USE DEF IInv, TypeOK
  <1> DEFINE o == ref[t]
  <1>1. /\ f_count' = [f_count EXCEPT ![o] = @ + 1]
        /\ stored' = [stored EXCEPT ![o] = @ + 1]
        /\ UNCHANGED <<ref, freeing, hashlock, fh, f_id, heap>>
        /\ o # Null
    BY DEF foo_hold
  <1>2. o \in Objs /\ f_count[o] > 0
    BY <1>1, RefIsCounted
  <1> HIDE DEF o
  <1>3. TypeOK'
    BY <1>1, <1>2
  <1>4. \A x \in Objs : f_count'[x] > 0 <=> f_count[x] > 0
    BY <1>1, <1>2
  <1>5. CountInv'
    <2> SUFFICES ASSUME NEW x \in Objs PROVE (f_count[x] = stored[x] + Cardinality(RefsTo(x)))'
      BY DEF CountInv
    <2>1. RefsTo(x)' = RefsTo(x)
      BY <1>1 DEF RefsTo
    <2>2. Cardinality(RefsTo(x)) \in Nat
      BY FS_Subset, FS_CardinalityType DEF TableAssumption, RefsTo
    <2>3. f_count[x] = stored[x] + Cardinality(RefsTo(x))
      BY DEF CountInv
    <2> QED
      BY <1>1, <2>1, <2>2, <2>3
  <1> QED
    BY <1>1, <1>3, <1>4, <1>5, QuietStep

LEMMA AdoptStep ==
  ASSUME TableAssumption, IInv, NEW t \in Threads, Adopt(t)
  PROVE  IInv'
  <1> USE DEF IInv, TypeOK
  <1>1. PICK o \in Objs : /\ stored[o] > 0
                         /\ stored' = [stored EXCEPT ![o] = @ - 1]
                         /\ ref' = [ref EXCEPT ![t] = o]
    BY DEF Adopt
  <1>2. UNCHANGED <<freeing, hashlock, fh, f_count, f_id, heap>> /\ ref[t] = Null
    BY DEF Adopt
  <1>3. TypeOK'
    BY <1>1, <1>2
  <1>4. CountInv'
    <2> SUFFICES ASSUME NEW x \in Objs PROVE (f_count[x] = stored[x] + Cardinality(RefsTo(x)))'
      BY DEF CountInv
    <2>1. f_count[x] = stored[x] + Cardinality(RefsTo(x))
      BY DEF CountInv
    <2>2. CASE x = o
      <3>1. Cardinality(RefsTo(o))' = Cardinality(RefsTo(o)) + 1 /\ Cardinality(RefsTo(o)) \in Nat
        BY <1>1, <1>2, TakesRef
      <3> QED
        BY <1>1, <1>2, <2>1, <2>2, <3>1
    <2>3. CASE x # o
      <3>1. RefsTo(x)' = RefsTo(x)
        BY <1>1, <1>2, <2>3, TakesRef
      <3> QED
        BY <1>1, <1>2, <2>1, <2>3, <3>1
    <2> QED
      BY <2>2, <2>3
  <1> QED
    BY <1>2, <1>3, <1>4, QuietStep

LEMMA ReleaseStep ==
  ASSUME TableAssumption, IInv, NEW t \in Threads, foo_release(t)
  PROVE  IInv'
  <1> USE DEF IInv, TypeOK
  <1>0. PICK o \in Objs : o = ref[t]
    BY RefIsCounted DEF foo_release
  <1> DEFINE h == HASH(f_id[o])
  <1>1. /\ f_count' = [f_count EXCEPT ![o] = @ - 1]
        /\ ref' = [ref EXCEPT ![t] = Null]
        /\ UNCHANGED <<stored, hashlock, f_id, heap>>
        /\ o # Null /\ freeing[t] = Null
    BY <1>0 DEF foo_release, Free
  <1>2. IF f_count'[o] = 0
          THEN fh' = [fh EXCEPT ![h] = RemoveFirst(@, o)] /\ freeing' = [freeing EXCEPT ![t] = o]
          ELSE UNCHANGED <<fh, freeing>>
    BY <1>0 DEF foo_release
  <1>3. /\ f_count[o] > 0 /\ f_count[o] - 1 \in Nat
        /\ o \in heap /\ Contains(fh[h], o) /\ \A u \in Threads : freeing[u] # o
    BY <1>0, <1>1, RefIsCounted
  <1>4. h \in 0..(NHASH - 1)
    BY <1>3, HashInRange
  <1> HIDE DEF h
  <1>5. /\ RemoveFirst(fh[h], o) \in Seq(Objs)
        /\ \A x : Contains(RemoveFirst(fh[h], o), x) <=> Contains(fh[h], x) /\ x # o
        /\ Distinct(RemoveFirst(fh[h], o))
    <2>1. fh[h] \in Seq(Objs) /\ Distinct(fh[h])
      BY <1>4 DEF ChainInv
    <2> QED
      BY <1>3, <2>1, UnlinkChain
  <1>6. TypeOK'
    <2>1. fh' \in [0..(NHASH - 1) -> Seq(Objs)] /\ freeing' \in [Threads -> Objs \cup {Null}]
      BY <1>2, <1>3, <1>4, <1>5
    <2> QED
      BY <1>1, <1>3, <2>1
  <1>7. CountInv'
    <2> SUFFICES ASSUME NEW x \in Objs PROVE (f_count[x] = stored[x] + Cardinality(RefsTo(x)))'
      BY DEF CountInv
    <2>1. f_count[x] = stored[x] + Cardinality(RefsTo(x))
      BY DEF CountInv
    <2>2. CASE x = o
      <3>1. Cardinality(RefsTo(o))' = Cardinality(RefsTo(o)) - 1 /\ Cardinality(RefsTo(o)) \in Nat
        BY <1>0, <1>1, DropsRef
      <3> QED
        BY <1>1, <1>3, <2>1, <2>2, <3>1
    <2>3. CASE x # o
      <3>1. RefsTo(x)' = RefsTo(x)
        BY <1>0, <1>1, <2>3, DropsRef
      <3> QED
        BY <1>1, <2>1, <2>3, <3>1
    <2> QED
      BY <2>2, <2>3
  <1>8. \A x \in Objs : x # o => f_count'[x] = f_count[x]
    BY <1>1
  <1>9. CASE f_count'[o] # 0
    <2>1. f_count'[o] > 0
      BY <1>6, <1>9
    <2>2. \A x \in Objs : f_count'[x] > 0 <=> f_count[x] > 0
      BY <1>3, <1>8, <2>1
    <2> QED
      BY <1>1, <1>2, <1>6, <1>7, <1>9, <2>2, QuietStep
  <1>10. CASE f_count'[o] = 0
    <2>1. fh' = [fh EXCEPT ![h] = RemoveFirst(@, o)] /\ freeing' = [freeing EXCEPT ![t] = o]
      BY <1>2, <1>10
    <2>2. ChainInv'
      <3>1. ASSUME NEW i \in 0..(NHASH - 1) PROVE Distinct(fh'[i])
        BY <1>4, <1>5, <2>1 DEF ChainInv
      <3>2. ASSUME NEW i \in 0..(NHASH - 1), NEW x \in Objs
            PROVE  Contains(fh'[i], x) <=> f_count'[x] > 0 /\ HASH(f_id'[x]) = i
        <4>1. Contains(fh[i], x) <=> f_count[x] > 0 /\ HASH(f_id[x]) = i
          BY DEF ChainInv
        <4>2. CASE x = o
          <5>1. ~Contains(fh'[i], o)
            <6>1. CASE i = h
              BY <1>4, <1>5, <2>1, <6>1
            <6>2. CASE i # h
              BY <1>1, <2>1, <4>1, <4>2, <6>2 DEF h
            <6> QED
              BY <6>1, <6>2
          <5> QED
            BY <1>10, <4>2, <5>1
        <4>3. CASE x # o
          <5>1. Contains(fh'[i], x) <=> Contains(fh[i], x)
            BY <1>4, <1>5, <2>1, <4>3
          <5> QED
            BY <1>1, <1>8, <4>1, <4>3, <5>1
        <4> QED
          BY <4>2, <4>3
      <3> QED
        BY <3>1, <3>2 DEF ChainInv
    <2>3. HeapInv'
      BY <1>1, <1>3, <1>8, <1>10, <2>1 DEF HeapInv
    <2> QED
      BY <1>6, <1>7, <2>2, <2>3
  <1> QED
    BY <1>9, <1>10

LEMMA FreeStep ==
  ASSUME TableAssumption, IInv, NEW t \in Threads, foo_free(t)
  PROVE  IInv'
  <1> USE DEF IInv, TypeOK
  <1>1. /\ heap' = heap \ {freeing[t]}
        /\ freeing' = [freeing EXCEPT ![t] = Null]
        /\ freeing[t] # Null
        /\ UNCHANGED <<ref, stored, hashlock, fh, f_count, f_id>>
    BY DEF foo_free
  <1>2. TypeOK'
    BY <1>1
  <1>3. CountInv' /\ ChainInv'
    BY <1>1 DEF CountInv, RefsTo, ChainInv
  <1>4. HeapInv'
    BY <1>1 DEF HeapInv
  <1> QED
    BY <1>2, <1>3, <1>4

LEMMA StepIInv == ASSUME TableAssumption, IInv, [Next]_vars PROVE IInv'
  <1>1. ASSUME NEW t \in Threads, NEW id \in Ids, foo_find_Hit(t, id) PROVE IInv'
    <2>1. UNCHANGED <<ref, stored, freeing, fh, f_count, f_id, heap>> /\ hashlock' = t
      BY <1>1 DEF foo_find_Hit
    <2>2. TypeOK' /\ CountInv'
      BY <2>1 DEF IInv, TypeOK, CountInv, RefsTo
    <2>3. ChainInv' /\ HeapInv'
      BY <2>1 DEF IInv, ChainInv, HeapInv
    <2> QED
      BY <2>2, <2>3 DEF IInv
  <1>2. CASE UNCHANGED vars
    <2>1. UNCHANGED <<ref, stored, freeing, hashlock, fh, f_count, f_id, heap>>
      BY <1>2 DEF vars
    <2>2. TypeOK' /\ CountInv'
      BY <2>1 DEF IInv, TypeOK, CountInv, RefsTo
    <2>3. ChainInv' /\ HeapInv'
      BY <2>1 DEF IInv, ChainInv, HeapInv
    <2> QED
      BY <2>2, <2>3 DEF IInv
  <1> QED
    BY <1>1, <1>2, AllocStep, HoldStep, AdoptStep, ReleaseStep, FreeStep DEF Next, foo_find_Miss

-----------------------------------------------------------------------------
(* The theorems *)

LEMMA IInvSound == TableAssumption /\ IInv => ChainsSound /\ CountExact
  <1> SUFFICES ASSUME TableAssumption, IInv PROVE ChainsSound /\ CountExact
    OBVIOUS
  <1> USE DEF IInv, TypeOK
  <1>1. ASSUME NEW i \in DOMAIN fh, NEW k \in DOMAIN fh[i]
        PROVE  /\ fh[i][k] \in heap
               /\ HASH(f_id[fh[i][k]]) = i
               /\ \A m \in DOMAIN fh[i] : fh[i][m] = fh[i][k] => m = k
               /\ \A t \in Threads : freeing[t] # fh[i][k]
    <2>1. i \in 0..(NHASH - 1) /\ fh[i] \in Seq(Objs)
      BY <1>1
    <2>2. DOMAIN fh[i] = 1..Len(fh[i]) /\ fh[i][k] \in Objs
      BY <1>1, <2>1
    <2>3. Contains(fh[i], fh[i][k])
      BY <1>1, <2>2 DEF Contains
    <2>4. f_count[fh[i][k]] > 0 /\ HASH(f_id[fh[i][k]]) = i
      BY <2>1, <2>2, <2>3 DEF ChainInv
    <2>5. fh[i][k] \in heap /\ fh[i][k] # Null /\ f_count[fh[i][k]] # 0
      BY <2>2, <2>4 DEF HeapInv, TableAssumption
    <2>6. \A t \in Threads : freeing[t] # fh[i][k]
      BY <2>5 DEF HeapInv
    <2>7. \A m \in DOMAIN fh[i] : fh[i][m] = fh[i][k] => m = k
      BY <1>1, <2>1, <2>2 DEF ChainInv, Distinct
    <2> QED
      BY <2>4, <2>5, <2>6, <2>7
  <1>2. ASSUME NEW t \in Threads, NEW u \in Threads
        PROVE  /\ ref[t] # Null => ref[t] \in heap
               /\ freeing[t] # Null /\ freeing[t] = freeing[u] => t = u
               /\ freeing[t] # Null => freeing[t] \in heap /\ ref[u] # freeing[t]
    BY <1>2, RefIsCounted DEF HeapInv
  <1>3. ASSUME NEW o \in Objs, o \in heap
        PROVE  f_count[o] = stored[o] + Cardinality({t \in Threads : ref[t] = o})
    BY <1>3 DEF CountInv, RefsTo
  <1>4. ASSUME NEW o \in Objs, f_count[o] > 0
        PROVE  Contains(fh[HASH(f_id[o])], o)
    BY <1>4, HashInRange DEF ChainInv
  <1> QED
    BY <1>1, <1>2, <1>3, <1>4 DEF ChainsSound, CountExact

THEOREM Invariance == TableAssumption => (Spec => []IInv)
  <1> SUFFICES ASSUME TableAssumption PROVE Spec => []IInv
    OBVIOUS
  <1>1. Init => IInv
    BY InitIInv
  <1>2. IInv /\ [Next]_vars => IInv'
    BY StepIInv
  <1> QED
    BY <1>1, <1>2, PTL DEF Spec

\* Types: no count falls below zero, and the table holds blocks only.
THEOREM TypeCorrect == TableAssumption => (Spec => []TypeOK)
  BY Invariance, PTL DEF IInv

\* What a client or a chain refers to is allocated, each object is in the chain of its
\* id, once, and nobody refers to what a thread is about to free.
THEOREM ChainsAreSound == TableAssumption => (Spec => []ChainsSound)
  <1> SUFFICES ASSUME TableAssumption PROVE Spec => []ChainsSound
    OBVIOUS
  <1>1. IInv => ChainsSound
    BY IInvSound
  <1> QED
    BY <1>1, Invariance, PTL

\* f_count is the number of references to an object, which is chained as long as it has one.
THEOREM CountsAreExact == TableAssumption => (Spec => []CountExact)
  <1> SUFFICES ASSUME TableAssumption PROVE Spec => []CountExact
    OBVIOUS
  <1>1. IInv => CountExact
    BY IInvSound
  <1> QED
    BY <1>1, Invariance, PTL

=============================================================================
