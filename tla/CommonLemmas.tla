---------------------------- MODULE CommonLemmas ----------------------------
(***************************************************************************)
(* Facts the proofs about the components share: counting the threads that  *)
(* are at given labels, what an allocation, a free and a search do to a    *)
(* pool (modules Pools, KeyedBlocks), what holds along an interval, the    *)
(* places of a ring, and pieces in a doubly linked list.                   *)
(***************************************************************************)
EXTENDS KeyedBlocks, FiniteSetTheorems, TLAPS

(* Counting.  The accounting of semaphores and permits needs to know by how *)
(* much a step of one thread changes such a count.                          *)

Count(S, f, L) == Cardinality({u \in S : f[u] \in L})
Inside(l, L) == IF l \in L THEN 1 ELSE 0

\* A count is a number, and positive when somebody is there.
LEMMA CountPositive ==
  ASSUME NEW S, IsFiniteSet(S), NEW f, NEW L
  PROVE  /\ Count(S, f, L) \in Nat
         /\ \A t \in S : f[t] \in L => Count(S, f, L) > 0
<1> DEFINE A == {u \in S : f[u] \in L}
<1>1. IsFiniteSet(A) /\ Cardinality(A) \in Nat
  BY FS_Subset, FS_CardinalityType, A \subseteq S
<1>2. ASSUME NEW t \in S, f[t] \in L PROVE Cardinality(A) > 0
  <2>1. A # {}
    BY <1>2
  <2> HIDE DEF A
  <2>2. Cardinality(A) # 0
    BY <1>1, <2>1, FS_EmptySet
  <2> QED BY <1>1, <2>2
<1> QED BY <1>1, <1>2 DEF Count

\* When one thread moves to label l, the number of threads at the labels L
\* changes by what it enters and what it leaves.
LEMMA CountMove ==
  ASSUME NEW S, IsFiniteSet(S), NEW t \in S, NEW f, DOMAIN f = S,
         f = [u \in S |-> f[u]], NEW l, NEW L
  PROVE  Count(S, [f EXCEPT ![t] = l], L) = Count(S, f, L) + Inside(l, L) - Inside(f[t], L)
<1> DEFINE g == [f EXCEPT ![t] = l]
           A == {u \in S : f[u] \in L}
           B == {u \in S : g[u] \in L}
           R == {u \in S \ {t} : f[u] \in L}
<1>1. IsFiniteSet(R) /\ Cardinality(R) \in Nat
  BY FS_Subset, FS_CardinalityType, R \subseteq S
<1>2. t \notin R /\ Cardinality(R \cup {t}) = Cardinality(R) + 1
  BY <1>1, FS_AddElement
<1>3. A = IF f[t] \in L THEN R \cup {t} ELSE R
  OBVIOUS
<1>4. B = IF l \in L THEN R \cup {t} ELSE R
  OBVIOUS
<1> HIDE DEF A, B, R
<1>5. Cardinality(A) = Cardinality(R) + Inside(f[t], L)
  BY <1>1, <1>2, <1>3 DEF Inside
<1>6. Cardinality(B) = Cardinality(R) + Inside(l, L)
  BY <1>1, <1>2, <1>4 DEF Inside
<1>7. Inside(f[t], L) \in Nat /\ Inside(l, L) \in Nat
  BY DEF Inside
<1>8. Cardinality(B) = Cardinality(A) + Inside(l, L) - Inside(f[t], L)
  BY <1>1, <1>5, <1>6, <1>7
<1>9. Count(S, f, L) = Cardinality(A) /\ Count(S, [f EXCEPT ![t] = l], L) = Cardinality(B)
  BY DEF Count, A, B
<1> QED BY <1>8, <1>9

\* A step that keeps the thread inside or outside L keeps the count.
LEMMA CountKept ==
  ASSUME NEW S, IsFiniteSet(S), NEW t \in S, NEW f, DOMAIN f = S,
         f = [u \in S |-> f[u]], NEW l, NEW L, f[t] \in L <=> l \in L
  PROVE  Count(S, [f EXCEPT ![t] = l], L) = Count(S, f, L)
<1>1. Inside(l, L) = Inside(f[t], L) /\ Inside(l, L) \in Nat
  BY DEF Inside
<1>2. Count(S, f, L) \in Nat
  BY CountPositive
<1> HIDE DEF Count, Inside
<1> QED BY <1>1, <1>2, CountMove

----------------------------------------------------------------------------
(* Pools. *)

\* A pool of n blocks: no block is in two places.
PoolOK(p, n) == /\ p \in [num_used : 0 .. n, block_ptr : [0 .. n - 1 -> 0 .. n - 1]]
                /\ \A i, j \in 0 .. n - 1 : p.block_ptr[i] = p.block_ptr[j] => i = j

\* A pool of n blocks, taken from R: no block is in two places.
PoolOver(p, n, R) == /\ p \in [num_used : 0 .. n, block_ptr : [0 .. n - 1 -> R]]
                     /\ \A i, j \in 0 .. n - 1 : p.block_ptr[i] = p.block_ptr[j] => i = j

\* What the operators of Pools say of a pool given by its two fields.
LEMMA OverShape ==
  ASSUME NEW n \in Nat, NEW R, NEW u \in Int, NEW a
  PROVE  PoolOver([num_used |-> u, block_ptr |-> a], n, R) <=>
           /\ u \in 0 .. n /\ a \in [0 .. n - 1 -> R]
           /\ \A i, j \in 0 .. n - 1 : a[i] = a[j] => i = j
  BY DEF PoolOver

LEMMA ShapeInUse ==
  ASSUME NEW u \in Int, NEW a
  PROVE  InUse([num_used |-> u, block_ptr |-> a]) = {a[i] : i \in 0 .. u - 1}
  BY DEF InUse

\* Every sound pool is given so.
LEMMA OverFields ==
  ASSUME NEW n \in Nat, NEW R, NEW p, PoolOver(p, n, R)
  PROVE  \E u \in 0 .. n, a \in [0 .. n - 1 -> R] :
           /\ p = [num_used |-> u, block_ptr |-> a]
           /\ \A i, j \in 0 .. n - 1 : a[i] = a[j] => i = j
  BY DEF PoolOver

\* The failing branch of an allocation (em_mempool.c:154) is that of a full pool.
LEMMA OverFull ==
  ASSUME NEW n \in Nat, NEW R, NEW p, PoolOver(p, n, R)
  PROVE  PoolFull(p) <=> p.num_used = n
<1>1. DOMAIN p.block_ptr = 0 .. n - 1
  BY DEF PoolOver
<1>2. Cardinality(0 .. n - 1) = n
  BY FS_Interval
<1> QED BY <1>1, <1>2 DEF PoolFull

\* The blocks in use are blocks of the pool, as many as num_used says.
LEMMA OverCount ==
  ASSUME NEW n \in Nat, NEW R, NEW p, PoolOver(p, n, R)
  PROVE  /\ InUse(p) \subseteq R
         /\ IsFiniteSet(InUse(p))
         /\ Cardinality(InUse(p)) = p.num_used
<1>0. PICK u \in 0 .. n, a \in [0 .. n - 1 -> R] :
        /\ p = [num_used |-> u, block_ptr |-> a]
        /\ \A i, j \in 0 .. n - 1 : a[i] = a[j] => i = j
  BY OverFields
<1> DEFINE S == 0 .. u - 1
           f == [i \in S |-> a[i]]
           T == {a[i] : i \in S}
<1>1. u \in Int /\ S \subseteq 0 .. n - 1
  OBVIOUS
<1>2. InUse(p) = T
  BY <1>0, <1>1, ShapeInUse, Zenon
<1>3. f \in Bijection(S, T)
  BY <1>0, <1>1 DEF Bijection, Injection, Surjection, IsInjective
<1>4. IsFiniteSet(S) /\ Cardinality(S) = u
  <2>1. u \in Nat /\ u - 1 \in Int /\ 0 \in Int
    OBVIOUS
  <2>2. IsFiniteSet(0 .. u - 1) /\ Cardinality(0 .. u - 1) = IF 0 > u - 1 THEN 0 ELSE u - 1 - 0 + 1
    BY ONLY <2>1, FS_Interval
  <2> QED BY <2>1, <2>2
<1>5. ExistsBijection(S, T)
  BY <1>3 DEF ExistsBijection
<1>6. T \subseteq R
  BY <1>0, <1>1
<1> HIDE DEF S, T
<1> QED BY <1>0, <1>2, <1>4, <1>5, <1>6, FS_Bijection

\* An allocation takes a block that is not in use and no other.
LEMMA OverAlloc ==
  ASSUME NEW n \in Nat, NEW R, NEW p, PoolOver(p, n, R), p.num_used # n
  PROVE  /\ PoolOver(PoolAlloc(p), n, R)
         /\ PoolAlloc(p).num_used = p.num_used + 1
         /\ PoolAlloc(p).block_ptr = p.block_ptr
         /\ PoolNext(p) \in R /\ PoolNext(p) \notin InUse(p)
         /\ InUse(PoolAlloc(p)) = InUse(p) \cup {PoolNext(p)}
<1>0. PICK u \in 0 .. n, a \in [0 .. n - 1 -> R] :
        /\ p = [num_used |-> u, block_ptr |-> a]
        /\ \A i, j \in 0 .. n - 1 : a[i] = a[j] => i = j
  BY OverFields
<1>1. /\ u \in Int /\ u + 1 \in Int /\ u \in 0 .. n - 1 /\ u + 1 \in 0 .. n
      /\ 0 .. u + 1 - 1 = (0 .. u - 1) \cup {u}
  BY <1>0
<1>2. /\ PoolAlloc(p) = [num_used |-> u + 1, block_ptr |-> a]
      /\ PoolNext(p) = a[u] /\ InUse(p) = {a[i] : i \in 0 .. u - 1}
  BY <1>0, <1>1, ShapeInUse DEF PoolAlloc, PoolNext
<1>3. /\ PoolOver(PoolAlloc(p), n, R)
      /\ InUse(PoolAlloc(p)) = {a[i] : i \in 0 .. u + 1 - 1}
  <2>1. PoolOver([num_used |-> u + 1, block_ptr |-> a], n, R)
    BY <1>0, <1>1, OverShape
  <2>2. InUse([num_used |-> u + 1, block_ptr |-> a]) = {a[i] : i \in 0 .. u + 1 - 1}
    BY <1>1 DEF InUse
  <2> QED BY <1>2, <2>1, <2>2, Zenon
<1>4. a[u] \in R /\ a[u] \notin {a[i] : i \in 0 .. u - 1}
  BY <1>0, <1>1
<1>5. {a[i] : i \in 0 .. u + 1 - 1} = {a[i] : i \in 0 .. u - 1} \cup {a[u]}
  BY <1>1
<1>6. /\ p.num_used = u /\ p.block_ptr = a
      /\ PoolAlloc(p).num_used = u + 1 /\ PoolAlloc(p).block_ptr = a
  BY <1>0, <1>2
<1> QED BY <1>2, <1>3, <1>4, <1>5, <1>6

\* A free puts back the block it is given and no other, wherever that lies; the free of
\* a block that is not in use does nothing.
LEMMA OverFree ==
  ASSUME NEW n \in Nat, NEW R, NEW p, PoolOver(p, n, R), NEW r
  PROVE  /\ PoolOver(PoolFree(p, r), n, R)
         /\ InUse(PoolFree(p, r)) = InUse(p) \ {r}
         /\ r \in InUse(p) => /\ p.num_used > 0
                             /\ PoolFree(p, r).num_used = p.num_used - 1
<1>0. PICK u \in 0 .. n, a \in [0 .. n - 1 -> R] :
        /\ p = [num_used |-> u, block_ptr |-> a]
        /\ \A i, j \in 0 .. n - 1 : a[i] = a[j] => i = j
  BY OverFields
<1>1. CASE r \notin InUse(p)
  BY <1>1 DEF PoolFree
<1>2. CASE r \in InUse(p)
  <2> DEFINE last == u - 1
             hole == CHOOSE i \in 0 .. last : a[i] = r
  <2>1. hole \in 0 .. last /\ a[hole] = r
    <3>1. \E i \in 0 .. last : a[i] = r
      <4>1. InUse([num_used |-> u, block_ptr |-> a]) = {a[i] : i \in 0 .. u - 1}
        BY ShapeInUse, u \in Int
      <4>2. r \in {a[i] : i \in 0 .. last}
        BY <1>0, <1>2, <4>1, Zenon
      <4> QED BY <4>2
    <3> QED BY <3>1
  <2>2. PoolFree(p, r) = [num_used |-> last, block_ptr |-> [a EXCEPT ![hole] = a[last], ![last] = r]]
    BY <1>0, <1>2 DEF PoolFree
  <2> HIDE DEF hole
  <2>3. /\ u > 0 /\ last \in 0 .. n - 1 /\ hole \in 0 .. n - 1 /\ hole <= last
        /\ r \in R
    BY <1>0, <2>1
  <2> DEFINE c == [a EXCEPT ![hole] = a[last], ![last] = r]
  <2>4. /\ c \in [0 .. n - 1 -> R]
        /\ \A i \in 0 .. n - 1 : c[i] = IF i = last THEN r
                                 ELSE IF i = hole THEN a[last] ELSE a[i]
    BY <1>0, <2>3
  <2>5. PoolFree(p, r) = [num_used |-> last, block_ptr |-> c]
    BY <2>2
  <2> HIDE DEF c
  <2>6. \A i, j \in 0 .. n - 1 : c[i] = c[j] => i = j
    BY <1>0, <2>1, <2>3, <2>4
  <2>7. PoolOver(PoolFree(p, r), n, R)
    <3>1. last \in Int /\ last \in 0 .. n
      BY <2>3
    <3>2. PoolOver([num_used |-> last, block_ptr |-> c], n, R)
      BY <2>4, <2>6, <3>1, OverShape
    <3> QED BY <2>5, <3>2, Zenon
  <2>8. {c[i] : i \in 0 .. last - 1} = {a[i] : i \in 0 .. last} \ {r}
    <3>1. ASSUME NEW i \in 0 .. last - 1 PROVE c[i] # r /\ \E j \in 0 .. last : c[i] = a[j]
      <4>1. i \in 0 .. n - 1 /\ i # last /\ i \in 0 .. last /\ last \in 0 .. last
        BY <2>3
      <4>2. c[i] = IF i = hole THEN a[last] ELSE a[i]
        BY <2>4, <4>1
      <4> QED BY <1>0, <2>1, <2>3, <4>1, <4>2
    <3>2. ASSUME NEW i \in 0 .. last, a[i] # r PROVE \E j \in 0 .. last - 1 : c[j] = a[i]
      <4>1. CASE i = last
        <5>1. hole # last /\ hole \in 0 .. last - 1
          BY <2>1, <2>3, <3>2, <4>1
        <5> QED BY <2>3, <2>4, <4>1, <5>1
      <4>2. CASE i # last
        <5>1. i \in 0 .. last - 1 /\ i # hole /\ i \in 0 .. n - 1
          BY <2>1, <2>3, <3>2, <4>2
        <5> QED BY <2>4, <4>2, <5>1
      <4> QED BY <4>1, <4>2
    <3>3. ASSUME NEW y \in {c[i] : i \in 0 .. last - 1} PROVE y \in {a[i] : i \in 0 .. last} \ {r}
      BY <3>1
    <3>4. ASSUME NEW y \in {a[i] : i \in 0 .. last} \ {r} PROVE y \in {c[i] : i \in 0 .. last - 1}
      <4>1. PICK i \in 0 .. last : y = a[i]
        BY <3>4
      <4>2. \E j \in 0 .. last - 1 : c[j] = y
        BY <3>2, <3>4, <4>1
      <4> QED BY <4>2
    <3> QED BY <3>3, <3>4
  <2>9. InUse(PoolFree(p, r)) = {c[i] : i \in 0 .. last - 1} /\ InUse(p) = {a[i] : i \in 0 .. last}
    <3>1. u \in Int /\ last \in Int
      OBVIOUS
    <3>2. InUse([num_used |-> last, block_ptr |-> c]) = {c[i] : i \in 0 .. last - 1}
      BY <3>1, ShapeInUse
    <3>3. InUse([num_used |-> u, block_ptr |-> a]) = {a[i] : i \in 0 .. u - 1}
      BY <3>1, ShapeInUse
    <3> QED BY <1>0, <2>5, <3>2, <3>3, Zenon
  <2>10. p.num_used = u /\ PoolFree(p, r).num_used = last
    BY <1>0, <2>5
  <2> QED BY <2>3, <2>7, <2>8, <2>9, <2>10
<1> QED BY <1>1, <1>2

(* The same of a pool whose blocks are numbered from zero. *)

LEMMA OverIs == \A p, n : PoolOK(p, n) <=> PoolOver(p, n, 0 .. n - 1)
  BY DEF PoolOK, PoolOver

LEMMA PoolFullWhen ==
  ASSUME NEW n \in Nat, NEW p, PoolOK(p, n)
  PROVE  PoolFull(p) <=> p.num_used = n
  BY OverIs, OverFull

LEMMA InUseCount ==
  ASSUME NEW n \in Nat, NEW p, PoolOK(p, n)
  PROVE  /\ InUse(p) \subseteq 0 .. n - 1
         /\ IsFiniteSet(InUse(p))
         /\ Cardinality(InUse(p)) = p.num_used
  BY OverIs, OverCount

LEMMA PoolAllocTakes ==
  ASSUME NEW n \in Nat, NEW p, PoolOK(p, n), p.num_used # n
  PROVE  /\ PoolOK(PoolAlloc(p), n)
         /\ PoolAlloc(p).num_used = p.num_used + 1
         /\ PoolAlloc(p).block_ptr = p.block_ptr
         /\ PoolNext(p) \in 0 .. n - 1 /\ PoolNext(p) \notin InUse(p)
         /\ InUse(PoolAlloc(p)) = InUse(p) \cup {PoolNext(p)}
<1>1. PICK R : R = 0 .. n - 1
  OBVIOUS
<1>2. PoolOver(p, n, R) /\ (PoolOver(PoolAlloc(p), n, R) => PoolOK(PoolAlloc(p), n))
  BY <1>1, OverIs
<1>3. /\ PoolOver(PoolAlloc(p), n, R)
      /\ PoolAlloc(p).num_used = p.num_used + 1
      /\ PoolAlloc(p).block_ptr = p.block_ptr
      /\ PoolNext(p) \in R /\ PoolNext(p) \notin InUse(p)
      /\ InUse(PoolAlloc(p)) = InUse(p) \cup {PoolNext(p)}
  BY <1>2, OverAlloc
<1> QED BY <1>1, <1>2, <1>3

LEMMA PoolFreeReturns ==
  ASSUME NEW n \in Nat, NEW p, PoolOK(p, n), NEW r
  PROVE  /\ PoolOK(PoolFree(p, r), n)
         /\ InUse(PoolFree(p, r)) = InUse(p) \ {r}
         /\ r \in InUse(p) => /\ p.num_used > 0
                             /\ PoolFree(p, r).num_used = p.num_used - 1
  BY OverIs, OverFree

\* A pool that nobody has taken a block of.
LEMMA PoolEmpty ==
  ASSUME NEW n \in Nat
  PROVE  /\ PoolOK([num_used |-> 0, block_ptr |-> [i \in 0 .. n - 1 |-> i]], n)
         /\ InUse([num_used |-> 0, block_ptr |-> [i \in 0 .. n - 1 |-> i]]) = {}
<1> DEFINE id == [i \in 0 .. n - 1 |-> i]
<1>1. id \in [0 .. n - 1 -> 0 .. n - 1] /\ \A i, j \in 0 .. n - 1 : id[i] = id[j] => i = j
  OBVIOUS
<1> HIDE DEF id
<1>2. PoolOK([num_used |-> 0, block_ptr |-> id], n)
  BY <1>1 DEF PoolOK
<1>3. InUse([num_used |-> 0, block_ptr |-> id]) = {id[i] : i \in 0 .. 0 - 1}
  BY ShapeInUse
<1>4. {id[i] : i \in 0 .. 0 - 1} = {}
  OBVIOUS
<1> QED BY <1>2, <1>3, <1>4, Zenon DEF id

----------------------------------------------------------------------------
(* Searches. *)

\* A set of natural numbers that is not empty has a least element.
LEMMA MinIsLeast ==
  ASSUME NEW S \in SUBSET Nat, S # {}
  PROVE  Min(S) \in S /\ \A x \in S : Min(S) <= x
<1>1. \E m \in S : \A x \in S : ~ (<<x, m>> \in OpToRel(<, Nat))
  BY NatLessThanWellFounded, WFMin
<1>2. PICK m \in S : \A x \in S : ~ (<<x, m>> \in OpToRel(<, Nat))
  BY <1>1
<1>3. ASSUME NEW x \in S PROVE m <= x
  <2>1. x \in Nat /\ m \in Nat /\ ~ (x < m)
    BY <1>2 DEF OpToRel
  <2> QED BY <2>1
<1> QED BY <1>2, <1>3 DEF Min

\* What holds at 0 and passes from each number below n to the next holds up to n: a least
\* number at which it failed would have one before it.
LEMMA IntervalInduction ==
  ASSUME NEW n \in Nat, NEW S, 0 \in S, \A i \in 0 .. n - 1 : i \in S => i + 1 \in S
  PROVE  \A i \in 0 .. n : i \in S
<1> DEFINE B == {i \in 0 .. n : i \notin S}
<1>1. CASE B = {}
  BY <1>1
<1>2. CASE B # {}
  <2>1. B \in SUBSET Nat
    OBVIOUS
  <2>2. PICK m \in B : \A x \in B : m <= x
    BY <1>2, <2>1, MinIsLeast
  <2>3. m - 1 \in 0 .. n - 1 /\ m - 1 \notin B
    BY <2>2
  <2>4. m - 1 \in S /\ (m - 1) + 1 = m
    BY <2>3
  <2> QED BY <2>2, <2>3, <2>4
<1> QED BY <1>1, <1>2

\* A search answers a wanted block that is in use, and finds nothing only when there is
\* none (em_gdatamng.c:107-131).
LEMMA FirstBlockFinds ==
  ASSUME NEW n \in Nat, NEW d, PoolOK(d.mp, n), NEW wanted
  PROVE  /\ FirstBlock(d, wanted) = NoBlock <=> InUse(d.mp) \cap wanted = {}
         /\ FirstBlock(d, wanted) # NoBlock => FirstBlock(d, wanted) \in InUse(d.mp) \cap wanted
<1>0. PICK u \in 0 .. n, a \in [0 .. n - 1 -> 0 .. n - 1] :
        d.mp.num_used = u /\ d.mp.block_ptr = a
  BY DEF PoolOK
<1> DEFINE places == {i \in 0 .. u - 1 : a[i] \in wanted}
<1>1. /\ FirstBlock(d, wanted) = IF places = {} THEN NoBlock ELSE a[Min(places)]
      /\ InUse(d.mp) = {a[i] : i \in 0 .. u - 1}
  BY <1>0 DEF FirstBlock, InUse
<1>2. CASE places = {}
  BY <1>1, <1>2
<1>3. CASE places # {}
  <2>1. Min(places) \in places
    BY <1>3, MinIsLeast, places \in SUBSET Nat
  <2>2. a[Min(places)] \in Nat
    BY <1>0, <2>1
  <2>3. FirstBlock(d, wanted) = a[Min(places)] /\ FirstBlock(d, wanted) # NoBlock
    <3> HIDE DEF places
    <3>1. FirstBlock(d, wanted) = a[Min(places)]
      BY <1>1, <1>3, Zenon
    <3> QED BY <2>2, <3>1 DEF NoBlock
  <2>4. a[Min(places)] \in InUse(d.mp) /\ a[Min(places)] \in wanted
    BY <1>1, <2>1
  <2> QED BY <2>3, <2>4
<1> QED BY <1>2, <1>3

----------------------------------------------------------------------------
(* Rings. *)

\* A place behind the last slot of a ring of n is brought back by one subtraction.
Around(i, n) == IF i >= n THEN i - n ELSE i

LEMMA AroundIs ==
  ASSUME NEW n \in Nat \ {0}, NEW i \in Nat, i <= 2 * n - 1
  PROVE  i % n = Around(i, n) /\ Around(i, n) \in 0 .. n - 1
<1>1. PICK j \in 0 .. 2 * n - 1 : j = i
  OBVIOUS
<1>2. j % n = IF j >= n THEN j - n ELSE j
  OBVIOUS
<1> QED BY <1>1, <1>2 DEF Around

\* Quotient and remainder are unique.
LEMMA ModuloIs ==
  ASSUME NEW n \in Nat \ {0}, NEW k \in Int, NEW r \in 0 .. n - 1
  PROVE  (n * k + r) % n = r
<1>1. PICK a \in Int : a = n * k + r
  OBVIOUS
<1>2. PICK q, m : q = a \div n /\ m = a % n
  OBVIOUS
<1>3. a = n * q + m /\ m \in 0 .. n - 1 /\ q \in Int
  BY <1>2
<1>4. n * (k - q) = m - r
  BY <1>1, <1>3
<1>5. k = q
  <2>1. PICK d \in Int : d = k - q
    BY <1>3
  <2>2. n * d < n /\ n * d > -n
    BY <1>3, <1>4, <2>1
  <2>3. CASE d >= 1
    <3>1. n * d >= n
      BY <2>3
    <3> QED BY <2>2, <3>1
  <2>4. CASE d <= -1
    <3>1. n * d <= -n
      BY <2>4
    <3> QED BY <2>2, <3>1
  <2>5. d = 0
    BY <2>1, <2>3, <2>4
  <2> QED BY <1>3, <2>1, <2>5
<1> QED BY <1>1, <1>2, <1>3, <1>5

\* A negative place that has wrapped below 0 comes out right when the size of a word is
\* a multiple of the number of slots.
LEMMA WrappedBelow ==
  ASSUME NEW n \in Nat \ {0}, NEW w \in Nat, w % n = 0, NEW i \in -n .. -1
  PROVE  (w + i) % n = n + i
<1>1. PICK k \in Int : k = w \div n
  OBVIOUS
<1>2. w = n * k
  BY <1>1
<1>3. PICK j \in Int : j = k - 1
  BY <1>1
<1>4. n * j = n * k - n
  BY <1>1, <1>3
<1>5. w + i = n * j + (n + i) /\ n + i \in 0 .. n - 1
  BY <1>2, <1>4
<1>6. (n * j + (n + i)) % n = n + i
  BY <1>5, ModuloIs
<1> QED BY <1>5, <1>6

----------------------------------------------------------------------------
(* Lists. *)

\* The pieces P of the units 0 .. N - 1, r from lo[r] to hi[r] - 1, are linked forwards (nx)
\* and backwards (bk) between a head A and a tail Z in the order they lie in, without hole.
Chain(P, N, A, Z, lo, hi, nx, bk) ==
  /\ N \in Nat /\ A \notin P /\ Z \notin P
  /\ \A r \in P : lo[r] \in Int /\ hi[r] \in Int /\ 0 <= lo[r] /\ lo[r] < hi[r] /\ hi[r] <= N
  /\ \A r \in P : nx[r] # Z => nx[r] \in P /\ lo[nx[r]] = hi[r]
  /\ \A r \in P : nx[r] = Z => hi[r] = N
  /\ \A r \in P : bk[r] # A => bk[r] \in P /\ hi[bk[r]] = lo[r]
  /\ \A r \in P : bk[r] = A => lo[r] = 0
  /\ \A r, s \in P : r = s \/ hi[r] <= lo[s] \/ hi[s] <= lo[r]

\* Pieces are where their neighbours say, and nowhere else.
LEMMA ChainLinks ==
  ASSUME NEW P, NEW N, NEW A, NEW Z, NEW lo, NEW hi, NEW nx, NEW bk,
         Chain(P, N, A, Z, lo, hi, nx, bk)
  PROVE  /\ \A r \in P : bk[r] # r /\ nx[r] # r
         /\ \A r \in P : bk[r] \in P \cup {A} /\ nx[r] \in P \cup {Z}
         /\ \A r, s \in P : nx[r] = s <=> bk[s] = r
         /\ \A r, s \in P : (nx[r] = nx[s] => r = s) /\ (bk[r] = bk[s] => r = s)
         /\ \A r, s \in P : (lo[r] = lo[s] => r = s) /\ (hi[r] = hi[s] => r = s)
<1>1. N \in Int /\ A \notin P /\ Z \notin P
  BY DEF Chain
<1>2. \A r \in P : /\ lo[r] \in Int /\ hi[r] \in Int /\ lo[r] < hi[r] /\ lo[r] >= 0 /\ hi[r] <= N
                   /\ IF nx[r] = Z THEN hi[r] = N ELSE nx[r] \in P /\ lo[nx[r]] = hi[r]
                   /\ IF bk[r] = A THEN lo[r] = 0 ELSE bk[r] \in P /\ hi[bk[r]] = lo[r]
  BY DEF Chain
<1>3. \A r, s \in P : r = s \/ hi[r] <= lo[s] \/ hi[s] <= lo[r]
  BY DEF Chain
<1>5. \A r, s \in P : (lo[r] = lo[s] => r = s) /\ (hi[r] = hi[s] => r = s)
  BY <1>2, <1>3
<1>7. \A r \in P : bk[r] # r /\ nx[r] # r
  BY <1>1, <1>2
<1>8. \A r, s \in P : nx[r] = s <=> bk[s] = r
  <2>1. ASSUME NEW r \in P, NEW s \in P, nx[r] = s PROVE bk[s] = r
    <3>1. lo[s] = hi[r] /\ lo[s] # 0
      BY <1>1, <1>2, <2>1
    <3> QED BY <1>2, <1>5, <3>1
  <2>2. ASSUME NEW r \in P, NEW s \in P, bk[s] = r PROVE nx[r] = s
    <3>1. lo[s] = hi[r] /\ hi[r] # N
      BY <1>1, <1>2, <2>2
    <3> QED BY <1>2, <1>5, <3>1
  <2> QED BY <2>1, <2>2
<1>9. \A r, s \in P : (nx[r] = nx[s] => r = s) /\ (bk[r] = bk[s] => r = s)
  BY <1>2, <1>5
<1>10. \A r \in P : bk[r] \in P \cup {A} /\ nx[r] \in P \cup {Z}
  BY <1>2
<1> QED BY <1>5, <1>7, <1>8, <1>9, <1>10

\* The piece c is cut off the front of the piece f.
LEMMA ChainSplit ==
  ASSUME NEW P, NEW N, NEW A, NEW Z, NEW lo, NEW hi, NEW nx, NEW bk,
         Chain(P, N, A, Z, lo, hi, nx, bk),
         NEW f \in P, NEW c, c \notin P, c # A, c # Z, NEW m \in Int, lo[f] < m, m < hi[f],
         NEW lo2, NEW hi2, NEW nx2, NEW bk2,
         \A r \in P \cup {c} : lo2[r] = IF r = c THEN lo[f] ELSE IF r = f THEN m ELSE lo[r],
         \A r \in P \cup {c} : hi2[r] = IF r = c THEN m ELSE hi[r],
         \A r \in P \cup {c} : nx2[r] = IF r = c THEN f ELSE IF r = bk[f] THEN c ELSE nx[r],
         \A r \in P \cup {c} : bk2[r] = IF r = c THEN bk[f] ELSE IF r = f THEN c ELSE bk[r]
  PROVE  Chain(P \cup {c}, N, A, Z, lo2, hi2, nx2, bk2)
<1> DEFINE Q == P \cup {c}
           b == bk[f]
<1>1. /\ \A r \in P : bk[r] # r /\ nx[r] # r
      /\ \A r \in P : bk[r] \in P \cup {A} /\ nx[r] \in P \cup {Z}
      /\ \A r, s \in P : nx[r] = s <=> bk[s] = r
      /\ \A r, s \in P : (nx[r] = nx[s] => r = s) /\ (bk[r] = bk[s] => r = s)
  BY ChainLinks
<1>2. /\ N \in Nat /\ A \notin P /\ Z \notin P
      /\ \A r \in P : lo[r] \in Int /\ hi[r] \in Int /\ 0 <= lo[r] /\ lo[r] < hi[r] /\ hi[r] <= N
      /\ \A r \in P : nx[r] # Z => nx[r] \in P /\ lo[nx[r]] = hi[r]
      /\ \A r \in P : nx[r] = Z => hi[r] = N
      /\ \A r \in P : bk[r] # A => bk[r] \in P /\ hi[bk[r]] = lo[r]
      /\ \A r \in P : bk[r] = A => lo[r] = 0
      /\ \A r, s \in P : r = s \/ hi[r] <= lo[s] \/ hi[s] <= lo[r]
  BY DEF Chain
<1>3. b \in P \cup {A} /\ b # c /\ b # f
  BY <1>1
<1> HIDE DEF Q, b
<1>0. (\A r : r \in Q <=> r \in P \/ r = c) /\ bk[f] = b
  BY DEF Q, b
<1>5. \A r \in Q : lo2[r] \in Int /\ hi2[r] \in Int /\ 0 <= lo2[r] /\ lo2[r] < hi2[r] /\ hi2[r] <= N
  BY <1>0, <1>2
<1>6. \A r \in Q : nx2[r] # Z => nx2[r] \in Q /\ lo2[nx2[r]] = hi2[r]
  BY <1>0, <1>1, <1>2, <1>3
<1>7. \A r \in Q : nx2[r] = Z => hi2[r] = N
  BY <1>0, <1>1, <1>2, <1>3
<1>8. \A r \in Q : bk2[r] # A => bk2[r] \in Q /\ hi2[bk2[r]] = lo2[r]
  BY <1>0, <1>1, <1>2, <1>3
<1>9. \A r \in Q : bk2[r] = A => lo2[r] = 0
  BY <1>0, <1>1, <1>2, <1>3
<1>10. \A r, s \in Q : r = s \/ hi2[r] <= lo2[s] \/ hi2[s] <= lo2[r]
  BY <1>0, <1>2
<1>11. N \in Nat /\ A \notin Q /\ Z \notin Q
  BY <1>0, <1>2
<1> QED BY <1>5, <1>6, <1>7, <1>8, <1>9, <1>10, <1>11 DEF Chain, Q

\* The piece c takes the place of the piece d; what the tail says of its neighbour does
\* not matter.
LEMMA ChainReplace ==
  ASSUME NEW P, NEW N, NEW A, NEW Z, NEW lo, NEW hi, NEW nx, NEW bk,
         Chain(P, N, A, Z, lo, hi, nx, bk),
         NEW d \in P, NEW c, c \notin P, c # A, c # Z,
         NEW lo2, NEW hi2, NEW nx2, NEW bk2,
         \A r \in (P \ {d}) \cup {c} : lo2[r] = IF r = c THEN lo[d] ELSE lo[r],
         \A r \in (P \ {d}) \cup {c} : hi2[r] = IF r = c THEN hi[d] ELSE hi[r],
         \A r \in (P \ {d}) \cup {c} : nx2[r] = IF r = c THEN nx[d] ELSE IF r = bk[d] THEN c ELSE nx[r],
         \A r \in (P \ {d}) \cup {c} : bk2[r] = IF r = c THEN bk[d] ELSE IF r = nx[d] THEN c ELSE bk[r]
  PROVE  Chain((P \ {d}) \cup {c}, N, A, Z, lo2, hi2, nx2, bk2)
<1> DEFINE Q == (P \ {d}) \cup {c}
           b == bk[d]
           n == nx[d]
<1>1. /\ \A r \in P : bk[r] # r /\ nx[r] # r
      /\ \A r \in P : bk[r] \in P \cup {A} /\ nx[r] \in P \cup {Z}
      /\ \A r, s \in P : nx[r] = s <=> bk[s] = r
      /\ \A r, s \in P : (nx[r] = nx[s] => r = s) /\ (bk[r] = bk[s] => r = s)
  BY ChainLinks
<1>2. /\ N \in Nat /\ A \notin P /\ Z \notin P
      /\ \A r \in P : lo[r] \in Int /\ hi[r] \in Int /\ 0 <= lo[r] /\ lo[r] < hi[r] /\ hi[r] <= N
      /\ \A r \in P : nx[r] # Z => nx[r] \in P /\ lo[nx[r]] = hi[r]
      /\ \A r \in P : nx[r] = Z => hi[r] = N
      /\ \A r \in P : bk[r] # A => bk[r] \in P /\ hi[bk[r]] = lo[r]
      /\ \A r \in P : bk[r] = A => lo[r] = 0
      /\ \A r, s \in P : r = s \/ hi[r] <= lo[s] \/ hi[s] <= lo[r]
  BY DEF Chain
<1>3. /\ b \in P \cup {A} /\ b # c /\ b # d /\ n \in P \cup {Z} /\ n # c /\ n # d
      /\ b \in P => nx[b] = d /\ hi[b] = lo[d]
      /\ n \in P => bk[n] = d /\ lo[n] = hi[d]
  BY <1>1, <1>2
<1> HIDE DEF Q, b, n
<1>0. (\A r : r \in Q <=> (r \in P /\ r # d) \/ r = c) /\ bk[d] = b /\ nx[d] = n
  BY DEF Q, b, n
<1>5. \A r \in Q : lo2[r] \in Int /\ hi2[r] \in Int /\ 0 <= lo2[r] /\ lo2[r] < hi2[r] /\ hi2[r] <= N
  BY <1>0, <1>2
<1>6. \A r \in Q : nx2[r] # Z => nx2[r] \in Q /\ lo2[nx2[r]] = hi2[r]
  <2>1. ASSUME NEW r \in Q, nx2[r] # Z PROVE nx2[r] \in Q /\ lo2[nx2[r]] = hi2[r]
    <3>1. CASE r = c
      BY <1>0, <1>1, <1>2, <1>3, <2>1, <3>1
    <3>2. CASE r # c /\ r = b
      BY <1>0, <1>1, <1>2, <1>3, <2>1, <3>2
    <3>3. CASE r # c /\ r # b
      <4>1. r \in P /\ r # d /\ nx2[r] = nx[r] /\ nx[r] # d /\ nx[r] \in P
        BY <1>0, <1>1, <1>2, <1>3, <2>1, <3>3
      <4> QED BY <1>0, <1>2, <4>1
    <3> QED BY <3>1, <3>2, <3>3
  <2> QED BY <2>1
<1>7. \A r \in Q : nx2[r] = Z => hi2[r] = N
  BY <1>0, <1>1, <1>2, <1>3
<1>8. \A r \in Q : bk2[r] # A => bk2[r] \in Q /\ hi2[bk2[r]] = lo2[r]
  <2>1. ASSUME NEW r \in Q, bk2[r] # A PROVE bk2[r] \in Q /\ hi2[bk2[r]] = lo2[r]
    <3>1. CASE r = c
      BY <1>0, <1>1, <1>2, <1>3, <2>1, <3>1
    <3>2. CASE r # c /\ r = n
      BY <1>0, <1>1, <1>2, <1>3, <2>1, <3>2
    <3>3. CASE r # c /\ r # n
      <4>1. r \in P /\ r # d /\ bk2[r] = bk[r] /\ bk[r] # d /\ bk[r] \in P
        BY <1>0, <1>1, <1>2, <1>3, <2>1, <3>3
      <4> QED BY <1>0, <1>2, <4>1
    <3> QED BY <3>1, <3>2, <3>3
  <2> QED BY <2>1
<1>9. \A r \in Q : bk2[r] = A => lo2[r] = 0
  BY <1>0, <1>1, <1>2, <1>3
<1>10. \A r, s \in Q : r = s \/ hi2[r] <= lo2[s] \/ hi2[s] <= lo2[r]
  BY <1>0, <1>2
<1>11. N \in Nat /\ A \notin Q /\ Z \notin Q
  BY <1>0, <1>2
<1> QED BY <1>5, <1>6, <1>7, <1>8, <1>9, <1>10, <1>11 DEF Chain, Q

\* The piece d is joined to the one behind it.
LEMMA ChainJoinNext ==
  ASSUME NEW P, NEW N, NEW A, NEW Z, NEW lo, NEW hi, NEW nx, NEW bk,
         Chain(P, N, A, Z, lo, hi, nx, bk),
         NEW d \in P, NEW n \in P, nx[d] = n,
         NEW lo2, NEW hi2, NEW nx2, NEW bk2,
         \A r \in P \ {d} : lo2[r] = IF r = n THEN lo[d] ELSE lo[r],
         \A r \in P \ {d} : hi2[r] = hi[r],
         \A r \in P \ {d} : nx2[r] = IF r = bk[d] THEN n ELSE nx[r],
         \A r \in P \ {d} : bk2[r] = IF r = n THEN bk[d] ELSE bk[r]
  PROVE  Chain(P \ {d}, N, A, Z, lo2, hi2, nx2, bk2)
<1> DEFINE Q == P \ {d}
           b == bk[d]
<1>1. /\ \A r \in P : bk[r] # r /\ nx[r] # r
      /\ \A r \in P : bk[r] \in P \cup {A} /\ nx[r] \in P \cup {Z}
      /\ \A r, s \in P : nx[r] = s <=> bk[s] = r
      /\ \A r, s \in P : (nx[r] = nx[s] => r = s) /\ (bk[r] = bk[s] => r = s)
  BY ChainLinks
<1>2. /\ N \in Nat /\ A \notin P /\ Z \notin P
      /\ \A r \in P : lo[r] \in Int /\ hi[r] \in Int /\ 0 <= lo[r] /\ lo[r] < hi[r] /\ hi[r] <= N
      /\ \A r \in P : nx[r] # Z => nx[r] \in P /\ lo[nx[r]] = hi[r]
      /\ \A r \in P : nx[r] = Z => hi[r] = N
      /\ \A r \in P : bk[r] # A => bk[r] \in P /\ hi[bk[r]] = lo[r]
      /\ \A r \in P : bk[r] = A => lo[r] = 0
      /\ \A r, s \in P : r = s \/ hi[r] <= lo[s] \/ hi[s] <= lo[r]
  BY DEF Chain
<1>3. /\ b \in P \cup {A} /\ b # d /\ b # n /\ n # d /\ bk[n] = d /\ lo[n] = hi[d]
      /\ b \in P => nx[b] = d /\ hi[b] = lo[d]
  BY <1>1, <1>2
<1> HIDE DEF Q, b
<1>0. (\A r : r \in Q <=> r \in P /\ r # d) /\ bk[d] = b
  BY DEF Q, b
<1>5. \A r \in Q : lo2[r] \in Int /\ hi2[r] \in Int /\ 0 <= lo2[r] /\ lo2[r] < hi2[r] /\ hi2[r] <= N
  BY <1>0, <1>2, <1>3
<1>6. \A r \in Q : nx2[r] # Z => nx2[r] \in Q /\ lo2[nx2[r]] = hi2[r]
  <2>1. ASSUME NEW r \in Q, nx2[r] # Z PROVE nx2[r] \in Q /\ lo2[nx2[r]] = hi2[r]
    <3>1. CASE r = b
      BY <1>0, <1>1, <1>2, <1>3, <2>1, <3>1
    <3>2. CASE r # b
      <4>1. r \in P /\ r # d /\ nx2[r] = nx[r] /\ nx[r] # d /\ nx[r] \in P /\ nx[r] # n
        BY <1>0, <1>1, <1>2, <1>3, <2>1, <3>2
      <4> QED BY <1>0, <1>2, <4>1
    <3> QED BY <3>1, <3>2
  <2> QED BY <2>1
<1>7. \A r \in Q : nx2[r] = Z => hi2[r] = N
  BY <1>0, <1>1, <1>2, <1>3
<1>8. \A r \in Q : bk2[r] # A => bk2[r] \in Q /\ hi2[bk2[r]] = lo2[r]
  <2>1. ASSUME NEW r \in Q, bk2[r] # A PROVE bk2[r] \in Q /\ hi2[bk2[r]] = lo2[r]
    <3>1. CASE r = n
      BY <1>0, <1>1, <1>2, <1>3, <2>1, <3>1
    <3>2. CASE r # n
      <4>1. r \in P /\ r # d /\ bk2[r] = bk[r] /\ bk[r] # d /\ bk[r] \in P
        BY <1>0, <1>1, <1>2, <1>3, <2>1, <3>2
      <4> QED BY <1>0, <1>2, <4>1, <3>2
    <3> QED BY <3>1, <3>2
  <2> QED BY <2>1
<1>9. \A r \in Q : bk2[r] = A => lo2[r] = 0
  BY <1>0, <1>1, <1>2, <1>3
<1>10. \A r, s \in Q : r = s \/ hi2[r] <= lo2[s] \/ hi2[s] <= lo2[r]
  <2>1. \A s \in Q : s = n \/ hi[n] <= lo[s] \/ hi[s] <= lo[d]
    BY <1>0, <1>2, <1>3
  <2> QED BY <1>0, <1>2, <1>3, <2>1
<1>11. N \in Nat /\ A \notin Q /\ Z \notin Q
  BY <1>0, <1>2
<1> QED BY <1>5, <1>6, <1>7, <1>8, <1>9, <1>10, <1>11 DEF Chain, Q

\* The piece d is joined to the one in front of it; again the tail does not matter.
LEMMA ChainJoinBack ==
  ASSUME NEW P, NEW N, NEW A, NEW Z, NEW lo, NEW hi, NEW nx, NEW bk,
         Chain(P, N, A, Z, lo, hi, nx, bk),
         NEW d \in P, NEW b \in P, bk[d] = b,
         NEW lo2, NEW hi2, NEW nx2, NEW bk2,
         \A r \in P \ {d} : lo2[r] = lo[r],
         \A r \in P \ {d} : hi2[r] = IF r = b THEN hi[d] ELSE hi[r],
         \A r \in P \ {d} : nx2[r] = IF r = b THEN nx[d] ELSE nx[r],
         \A r \in P \ {d} : bk2[r] = IF r = nx[d] THEN b ELSE bk[r]
  PROVE  Chain(P \ {d}, N, A, Z, lo2, hi2, nx2, bk2)
<1> DEFINE Q == P \ {d}
           n == nx[d]
<1>1. /\ \A r \in P : bk[r] # r /\ nx[r] # r
      /\ \A r \in P : bk[r] \in P \cup {A} /\ nx[r] \in P \cup {Z}
      /\ \A r, s \in P : nx[r] = s <=> bk[s] = r
      /\ \A r, s \in P : (nx[r] = nx[s] => r = s) /\ (bk[r] = bk[s] => r = s)
  BY ChainLinks
<1>2. /\ N \in Nat /\ A \notin P /\ Z \notin P
      /\ \A r \in P : lo[r] \in Int /\ hi[r] \in Int /\ 0 <= lo[r] /\ lo[r] < hi[r] /\ hi[r] <= N
      /\ \A r \in P : nx[r] # Z => nx[r] \in P /\ lo[nx[r]] = hi[r]
      /\ \A r \in P : nx[r] = Z => hi[r] = N
      /\ \A r \in P : bk[r] # A => bk[r] \in P /\ hi[bk[r]] = lo[r]
      /\ \A r \in P : bk[r] = A => lo[r] = 0
      /\ \A r, s \in P : r = s \/ hi[r] <= lo[s] \/ hi[s] <= lo[r]
  BY DEF Chain
<1>3. /\ n \in P \cup {Z} /\ n # d /\ b # n /\ b # d /\ nx[b] = d /\ hi[b] = lo[d]
      /\ n \in P => bk[n] = d /\ lo[n] = hi[d]
  BY <1>1, <1>2
<1> HIDE DEF Q, n
<1>0. (\A r : r \in Q <=> r \in P /\ r # d) /\ nx[d] = n
  BY DEF Q, n
<1>5. \A r \in Q : lo2[r] \in Int /\ hi2[r] \in Int /\ 0 <= lo2[r] /\ lo2[r] < hi2[r] /\ hi2[r] <= N
  BY <1>0, <1>2, <1>3
<1>6. \A r \in Q : nx2[r] # Z => nx2[r] \in Q /\ lo2[nx2[r]] = hi2[r]
  <2>1. ASSUME NEW r \in Q, nx2[r] # Z PROVE nx2[r] \in Q /\ lo2[nx2[r]] = hi2[r]
    <3>1. CASE r = b
      BY <1>0, <1>1, <1>2, <1>3, <2>1, <3>1
    <3>2. CASE r # b
      <4>1. r \in P /\ r # d /\ nx2[r] = nx[r] /\ nx[r] # d /\ nx[r] \in P
        BY <1>0, <1>1, <1>2, <1>3, <2>1, <3>2
      <4> QED BY <1>0, <1>2, <4>1, <3>2
    <3> QED BY <3>1, <3>2
  <2> QED BY <2>1
<1>7. \A r \in Q : nx2[r] = Z => hi2[r] = N
  BY <1>0, <1>1, <1>2, <1>3
<1>8. \A r \in Q : bk2[r] # A => bk2[r] \in Q /\ hi2[bk2[r]] = lo2[r]
  <2>1. ASSUME NEW r \in Q, bk2[r] # A PROVE bk2[r] \in Q /\ hi2[bk2[r]] = lo2[r]
    <3>1. CASE r = n
      BY <1>0, <1>1, <1>2, <1>3, <2>1, <3>1
    <3>2. CASE r # n
      <4>1. r \in P /\ r # d /\ bk2[r] = bk[r] /\ bk[r] # d /\ bk[r] \in P /\ bk[r] # b
        BY <1>0, <1>1, <1>2, <1>3, <2>1, <3>2
      <4> QED BY <1>0, <1>2, <4>1, <3>2
    <3> QED BY <3>1, <3>2
  <2> QED BY <2>1
<1>9. \A r \in Q : bk2[r] = A => lo2[r] = 0
  BY <1>0, <1>1, <1>2, <1>3
<1>10. \A r, s \in Q : r = s \/ hi2[r] <= lo2[s] \/ hi2[s] <= lo2[r]
  <2>1. \A s \in Q : s = b \/ hi[s] <= lo[b] \/ hi[d] <= lo[s]
    BY <1>0, <1>2, <1>3
  <2> QED BY <1>0, <1>2, <1>3, <2>1
<1>11. N \in Nat /\ A \notin Q /\ Z \notin Q
  BY <1>0, <1>2
<1> QED BY <1>5, <1>6, <1>7, <1>8, <1>9, <1>10, <1>11 DEF Chain, Q
=============================================================================
