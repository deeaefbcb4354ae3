---------------------------- MODULE DataMngProofs ----------------------------
(***************************************************************************)
(* What holds of DataMng for every number of threads, blocks, keys and     *)
(* values: the tables stay sound, pointers stay good, and the data manager *)
(* implements a map with a bounded number of keys.                         *)
(***************************************************************************)
EXTENDS DataMng, CommonLemmas

Labels == {"idle", "add_fill", "remove_move", "elem_key", "elem_val", "elem_done"}

\* Between the two steps of an addition or of a removal.
Busy == {"add_fill", "remove_move"}

\* The pool while no free is between lowering num_used and filling the hole; in between,
\* the pool as it was before the free.
Whole == IF Removing = {} THEN dm.mp ELSE [dm.mp EXCEPT !.num_used = @ + 1]

\* The blocks that hold data, or are about to, or still do.
Used == InUse(Whole)

Tables == [mp : [num_used : 0 .. num_max, block_ptr : [Blocks -> Blocks]],
           key : [Blocks -> Keys], count : [Blocks -> 0 .. MaxCount],
           data : [Blocks -> Values]]

TypeInv ==
  /\ dm \in Tables
  /\ PoolOK(Whole, num_max)
  /\ mode \in {"error", "update", "countup"}
  /\ mutex \in Threads \cup {NoThread}
  /\ pc \in [Threads -> Labels]
  /\ arg \in [Threads -> {NoArg} \cup (Keys \X Values) \cup {<<k>> : k \in Keys}
                           \cup {<<i>> : i \in Blocks}]
  /\ block \in [Threads -> Blocks \cup {NoBlock}]
  /\ ptr \in [Threads -> [block : Blocks, key : Keys] \cup {NoPtr}]
  /\ stale \in [Threads -> BOOLEAN]
  /\ pair \in [Threads -> [key : Blocks \cup {NoBlock}, val : Blocks \cup {NoBlock}]]
  /\ calm \in [Threads -> BOOLEAN]

\* Whoever is between two steps of a change holds the mutex, and only it; it works on a
\* block in use, an addition with the key and datum it was called with.
Working ==
  /\ \A t \in Threads : pc[t] \in Busy <=> mutex = t
  /\ \A t \in Threads : pc[t] \in Busy => block[t] \in Used
  /\ \A t \in Threads : pc[t] = "add_fill" =>
       /\ arg[t] \in Keys \X Values
       /\ \A b \in Used \ {block[t]} : dm.key[b] # arg[t][1]
  /\ \A t \in Threads : pc[t] = "elem_key" \/ pc[t] = "elem_val" => arg[t] \in {<<i>> : i \in Blocks}

\* What a caller has read by index is still so as long as nothing was removed.
Reading ==
  /\ \A t \in Threads : calm[t] => Removing = {}
  /\ \A t \in Threads : pc[t] = "elem_val" /\ calm[t] =>
       pair[t].key = dm.mp.block_ptr[arg[t][1]]

\* The blocks are the numbers below num_max.
LEMMA Sizes == num_max \in Nat /\ num_max > 0 /\ MaxCount \in Nat /\ MaxCount > 0
               /\ NoThread \notin Threads /\ NoBlock \notin Blocks
  BY DataAssumption DEF NoBlock, Blocks

\* Nobody is removing while the mutex is free.
LEMMA Quiet == TypeInv /\ Working /\ mutex = NoThread => Removing = {} /\ Whole = dm.mp
<1> SUFFICES ASSUME TypeInv, Working, mutex = NoThread PROVE Removing = {} /\ Whole = dm.mp
  OBVIOUS
<1>1. Removing = {}
  BY Sizes DEF Working, Removing, Busy
<1> QED BY <1>1 DEF Whole

\* The blocks whose data are there are those in use but for the one being worked on.
Settled == Present = IF mutex = NoThread THEN Used ELSE Used \ {block[mutex]}

LEMMA PresentIs == TypeInv /\ Working => Settled
<1> SUFFICES ASSUME TypeInv, Working
             PROVE  Present = IF mutex = NoThread THEN Used ELSE Used \ {block[mutex]}
  BY DEF Settled
<1>0. mutex \in Threads \cup {NoThread}
  BY DEF TypeInv, Tables
<1>1. CASE mutex = NoThread
  <2>1. Removing = {} /\ Whole = dm.mp /\ Filling = {}
    BY <1>1, Quiet, Sizes DEF Working, Filling, Busy
  <2> QED BY <1>1, <2>1 DEF Present, Used
<1>2. CASE mutex # NoThread
  <2>1. mutex \in Threads /\ pc[mutex] \in Busy
    BY <1>0, <1>2 DEF Working
  <2>2. \A t \in Threads : t # mutex => pc[t] \notin Busy
    BY <2>1 DEF Working
  <2>3. CASE pc[mutex] = "add_fill"
    <3>1. Removing = {} /\ {u \in Threads : pc[u] = "add_fill"} = {mutex}
      BY <2>1, <2>2, <2>3 DEF Removing, Busy
    <3>2. Filling = {block[mutex]} /\ Whole = dm.mp
      BY <3>1 DEF Filling, Whole
    <3> QED BY <1>2, <3>1, <3>2 DEF Present, Used
  <2>4. CASE pc[mutex] = "remove_move"
    <3>1. Removing = {mutex}
      BY <2>1, <2>2, <2>4 DEF Removing, Busy
    <3>2. {block[t] : t \in Removing} = {block[mutex]}
      BY <3>1
    <3>3. Used = {dm.mp.block_ptr[i] : i \in 0 .. dm.mp.num_used}
      <4>1. PICK u \in 0 .. num_max, a \in [Blocks -> Blocks] :
              dm.mp = [num_used |-> u, block_ptr |-> a]
        BY DEF TypeInv, Tables
      <4>2. Whole = [num_used |-> u + 1, block_ptr |-> a]
        BY <3>1, <4>1 DEF Whole
      <4>3. InUse([num_used |-> u + 1, block_ptr |-> a]) = {a[i] : i \in 0 .. u}
        <5>1. u + 1 - 1 = u
          OBVIOUS
        <5> QED BY <5>1 DEF InUse
      <4>4. dm.mp.num_used = u /\ dm.mp.block_ptr = a
        BY <4>1
      <4> QED BY <4>2, <4>3, <4>4, Zenon DEF Used
    <3> QED BY <1>2, <3>1, <3>2, <3>3 DEF Present
  <2> QED BY <2>1, <2>3, <2>4 DEF Busy
<1> QED BY <1>1, <1>2

----------------------------------------------------------------------------
(* What the steps that change the blocks do to them. *)

\* A search by key under the mutex finds the block in use that has the key.
LEMMA BlockOfFinds ==
  ASSUME TypeInv, Working, mutex = NoThread, NEW k
  PROVE  /\ BlockOf(dm, k) = NoBlock <=> \A b \in Used : dm.key[b] # k
         /\ BlockOf(dm, k) # NoBlock => BlockOf(dm, k) \in Used /\ dm.key[BlockOf(dm, k)] = k
<1> DEFINE wanted == {b \in DOMAIN dm.key : dm.key[b] = k}
<1>1. Whole = dm.mp /\ PoolOK(dm.mp, num_max)
  BY Quiet DEF TypeInv, Tables
<1>2. Used = InUse(dm.mp) /\ Used \subseteq Blocks
  BY <1>1, Sizes, InUseCount DEF Used, Blocks
<1>3. DOMAIN dm.key = Blocks
  BY DEF TypeInv, Tables
<1>4. BlockOf(dm, k) = FirstBlock(dm, wanted)
  BY DEF BlockOf
<1>5. Used \cap wanted = {b \in Used : dm.key[b] = k}
  BY <1>2, <1>3
<1> HIDE DEF wanted
<1>6. /\ BlockOf(dm, k) = NoBlock <=> Used \cap wanted = {}
      /\ BlockOf(dm, k) # NoBlock => BlockOf(dm, k) \in Used \cap wanted
  BY <1>1, <1>2, <1>4, Sizes, FirstBlockFinds
<1> QED BY <1>5, <1>6

\* An addition of a new key takes a block that is not in use (em_gdatamng.c:165-171).
LEMMA AddAllocDoes ==
  ASSUME TypeInv, Working, NEW t \in Threads, NEW k \in Keys, NEW v \in Values,
         AddAlloc(t, k, v)
  PROVE  /\ mutex = NoThread /\ mutex' = t /\ pc[t] = "idle"
         /\ block'[t] \in Blocks /\ block'[t] \notin Used /\ Used' = Used \cup {block'[t]}
         /\ \A b \in Used : dm.key[b] # k
         /\ PoolOK(Whole', num_max)
         /\ Removing = {} /\ Removing' = {}
         /\ dm'.mp.block_ptr = dm.mp.block_ptr
         /\ UNCHANGED <<dm.key, dm.count, dm.data, mode, ptr, stale, pair, calm>>
         /\ dm' \in Tables
<1>1. /\ mutex = NoThread /\ mutex' = t /\ pc[t] = "idle"
      /\ pc' = [pc EXCEPT ![t] = "add_fill"] /\ block' = [block EXCEPT ![t] = PoolNext(dm.mp)]
      /\ BlockOf(dm, k) = NoBlock /\ ~PoolFull(dm.mp)
      /\ dm' = [dm EXCEPT !.mp = PoolAlloc(dm.mp)]
      /\ UNCHANGED <<mode, ptr, stale, pair, calm>>
  BY DEF AddAlloc, Enter, Goto
<1>2. Removing = {} /\ Whole = dm.mp /\ PoolOK(dm.mp, num_max) /\ Used = InUse(dm.mp)
  BY <1>1, Quiet DEF TypeInv, Tables, Used
<1>3. \A b \in Used : dm.key[b] # k
  BY <1>1, BlockOfFinds
<1>4. dm.mp.num_used # num_max
  BY <1>1, <1>2, Sizes, PoolFullWhen
<1>5. /\ PoolOK(PoolAlloc(dm.mp), num_max) /\ PoolAlloc(dm.mp).block_ptr = dm.mp.block_ptr
      /\ PoolNext(dm.mp) \in Blocks /\ PoolNext(dm.mp) \notin InUse(dm.mp)
      /\ InUse(PoolAlloc(dm.mp)) = InUse(dm.mp) \cup {PoolNext(dm.mp)}
  BY <1>2, <1>4, Sizes, PoolAllocTakes DEF Blocks
<1>6. /\ dm'.mp = PoolAlloc(dm.mp) /\ UNCHANGED <<dm.key, dm.count, dm.data>>
      /\ dm' = [mp |-> PoolAlloc(dm.mp), key |-> dm.key, count |-> dm.count, data |-> dm.data]
  BY <1>1 DEF TypeInv, Tables
<1>7. block'[t] = PoolNext(dm.mp)
  BY <1>1 DEF TypeInv, Tables
<1>8. Removing' = {}
  BY <1>1, <1>2 DEF Removing, TypeInv, Tables
<1>9. Whole' = PoolAlloc(dm.mp) /\ Used' = InUse(PoolAlloc(dm.mp))
  BY <1>6, <1>8 DEF Whole, Used
<1>10. PoolAlloc(dm.mp) \in [num_used : 0 .. num_max, block_ptr : [Blocks -> Blocks]]
  BY <1>5 DEF PoolOK, Blocks
<1>11. dm' \in Tables
  BY <1>6, <1>10 DEF TypeInv, Tables
<1> QED BY <1>1, <1>2, <1>3, <1>5, <1>6, <1>7, <1>8, <1>9, <1>11

\* The last removal of a key lowers num_used; the block still counts as used until the
\* hole is filled (em_gdatamng.c:270-275, em_mempool.c:215).
LEMMA RemoveLastDoes ==
  ASSUME TypeInv, Working, \A a \in Present : dm.count[a] >= 1,
         NEW t \in Threads, NEW k \in Keys, RemoveLast(t, k)
  PROVE  /\ mutex = NoThread /\ mutex' = t /\ pc[t] = "idle"
         /\ block'[t] \in Used /\ dm.key[block'[t]] = k /\ dm.count[block'[t]] = 1
         /\ Used' = Used
         /\ PoolOK(Whole', num_max)
         /\ dm'.mp.block_ptr = dm.mp.block_ptr
         /\ UNCHANGED <<dm.key, dm.data, mode, ptr, pair>>
         /\ dm'.count = [dm.count EXCEPT ![block'[t]] = 0]
         /\ stale' = [u \in Threads |-> stale[u] \/ ptr[u].key = k]
         /\ calm' = [u \in Threads |-> FALSE]
         /\ dm' \in Tables
<1> DEFINE b == BlockOf(dm, k)
<1>1. /\ mutex = NoThread /\ mutex' = t /\ pc[t] = "idle"
      /\ pc' = [pc EXCEPT ![t] = "remove_move"] /\ block' = [block EXCEPT ![t] = b]
      /\ b # NoBlock /\ dm.count[b] <= 1
      /\ dm' = [dm EXCEPT !.count[b] = dm.count[b] - 1, !.mp.num_used = dm.mp.num_used - 1]
      /\ UNCHANGED <<mode, ptr, pair>>
      /\ stale' = [u \in Threads |-> stale[u] \/ ptr[u].key = k]
      /\ calm' = [u \in Threads |-> FALSE]
  BY DEF RemoveLast, Enter, Goto
<1>2. Removing = {} /\ Whole = dm.mp /\ PoolOK(dm.mp, num_max) /\ Used = InUse(dm.mp)
  BY <1>1, Quiet DEF TypeInv, Tables, Used
<1>3. b \in Used /\ dm.key[b] = k
  BY <1>1, BlockOfFinds
<1>4. Used \subseteq Blocks /\ Present = Used
  BY <1>1, <1>2, Sizes, InUseCount, PresentIs DEF Blocks, Settled
<1> HIDE DEF b
<1>5. b \in Blocks /\ dm.count[b] = 1
  <2>1. b \in Blocks /\ dm.count[b] \in Nat /\ dm.count[b] >= 1
    BY <1>3, <1>4, Sizes DEF TypeInv, Tables
  <2> QED BY <1>1, <2>1
<1>6. PICK u \in 1 .. num_max, a \in [Blocks -> Blocks] :
        dm.mp = [num_used |-> u, block_ptr |-> a]
  <2>1. PICK u \in 0 .. num_max, a \in [Blocks -> Blocks] :
          dm.mp = [num_used |-> u, block_ptr |-> a]
    BY DEF TypeInv, Tables
  <2>2. InUse([num_used |-> u, block_ptr |-> a]) = {a[i] : i \in 0 .. u - 1}
    BY ShapeInUse, u \in Int
  <2>3. {a[i] : i \in 0 .. u - 1} # {}
    BY <1>2, <1>3, <2>1, <2>2, Zenon
  <2>4. u # 0
    BY <2>3
  <2> QED BY <2>1, <2>4
<1>7. dm' = [mp |-> [num_used |-> u - 1, block_ptr |-> a], key |-> dm.key,
             count |-> [dm.count EXCEPT ![b] = 0], data |-> dm.data]
  <2>1. dm' = [mp |-> [dm.mp EXCEPT !.num_used = dm.mp.num_used - 1], key |-> dm.key,
               count |-> [dm.count EXCEPT ![b] = dm.count[b] - 1], data |-> dm.data]
    BY <1>1 DEF TypeInv, Tables
  <2>2. dm.count[b] - 1 = 0
    BY <1>5
  <2>3. [dm.mp EXCEPT !.num_used = dm.mp.num_used - 1] = [num_used |-> u - 1, block_ptr |-> a]
    BY <1>6
  <2> QED BY <2>1, <2>2, <2>3, Zenon
<1>8. block'[t] = b
  BY <1>1 DEF TypeInv, Tables
<1>9. Removing' # {}
  BY <1>1 DEF Removing, TypeInv, Tables
<1>10. Whole' = dm.mp /\ Used' = Used
  <2>1. dm'.mp = [num_used |-> u - 1, block_ptr |-> a] /\ u - 1 + 1 = u
    BY <1>7
  <2>2. Whole' = dm.mp
    BY <1>6, <1>9, <2>1 DEF Whole
  <2> QED BY <1>2, <2>2 DEF Used
<1>11. /\ u - 1 \in 0 .. num_max /\ 0 \in 0 .. MaxCount
       /\ dm.key \in [Blocks -> Keys] /\ dm.count \in [Blocks -> 0 .. MaxCount]
       /\ dm.data \in [Blocks -> Values]
  BY Sizes DEF TypeInv, Tables
<1>12. dm' \in Tables
  BY <1>7, <1>11 DEF Tables
<1>13. /\ dm'.mp.block_ptr = dm.mp.block_ptr /\ UNCHANGED <<dm.key, dm.data>>
       /\ dm'.count = [dm.count EXCEPT ![b] = 0]
  BY <1>6, <1>7
<1> QED BY <1>1, <1>2, <1>3, <1>5, <1>8, <1>10, <1>12, <1>13

\* Filling the hole takes the block out of those in use; the data stay (215-225).
LEMMA RemoveMoveDoes ==
  ASSUME TypeInv, Working, NEW t \in Threads, RemoveMove(t)
  PROVE  /\ mutex = t /\ mutex' = NoThread /\ pc[t] = "remove_move" /\ Removing # {}
         /\ Used' = Used \ {block[t]}
         /\ Removing' = {} /\ PoolOK(Whole', num_max)
         /\ UNCHANGED <<dm.key, dm.count, dm.data, mode, ptr, stale, pair, calm>>
         /\ dm' \in Tables
<1>1. /\ pc[t] = "remove_move" /\ mutex' = NoThread
      /\ pc' = [pc EXCEPT ![t] = "idle"]
      /\ dm' = [dm EXCEPT !.mp = PoolFree([dm.mp EXCEPT !.num_used = dm.mp.num_used + 1], block[t])]
      /\ UNCHANGED <<mode, ptr, stale, pair, calm>>
  BY DEF RemoveMove, Leave, Goto
<1>2. mutex = t /\ block[t] \in Used /\ Removing # {}
  BY <1>1 DEF Working, Busy, Removing
<1>3. Whole = [dm.mp EXCEPT !.num_used = dm.mp.num_used + 1] /\ PoolOK(Whole, num_max)
  BY <1>2 DEF Whole, TypeInv, Tables
<1>4. /\ PoolOK(PoolFree(Whole, block[t]), num_max)
      /\ InUse(PoolFree(Whole, block[t])) = InUse(Whole) \ {block[t]}
  BY <1>3, Sizes, PoolFreeReturns
<1>5. dm' = [mp |-> PoolFree(Whole, block[t]), key |-> dm.key, count |-> dm.count, data |-> dm.data]
  <2>1. dm' = [dm EXCEPT !.mp = PoolFree(Whole, block[t])]
    BY <1>1, <1>3, Zenon
  <2> QED BY <2>1 DEF TypeInv, Tables
<1>6. Removing' = {}
  BY <1>1, <1>2, Sizes DEF Working, Removing, Busy, TypeInv, Tables
<1>7. Whole' = PoolFree(Whole, block[t])
  BY <1>5, <1>6 DEF Whole
<1>8. PoolFree(Whole, block[t]) \in [num_used : 0 .. num_max, block_ptr : [Blocks -> Blocks]]
  BY <1>4 DEF PoolOK, Blocks
<1>9. dm' \in Tables
  BY <1>5, <1>8 DEF TypeInv, Tables
<1>10. UNCHANGED <<dm.key, dm.count, dm.data>>
  BY <1>5
<1>11. Used' = Used \ {block[t]}
  BY <1>4, <1>7, Zenon DEF Used
<1>12. PoolOK(Whole', num_max)
  BY <1>4, <1>7, Zenon
<1> QED BY <1>1, <1>2, <1>6, <1>9, <1>10, <1>11, <1>12
\* Then the block is filled (em_gdatamng.c:172-182).
LEMMA AddFillDoes ==
  ASSUME TypeInv, Working, NEW t \in Threads, AddFill(t)
  PROVE  /\ mutex = t /\ mutex' = NoThread /\ pc[t] = "add_fill"
         /\ block[t] \in Used /\ arg[t] \in Keys \X Values
         /\ Removing = {} /\ Removing' = {} /\ Used' = Used /\ PoolOK(Whole', num_max)
         /\ dm'.mp = dm.mp
         /\ dm'.key = [dm.key EXCEPT ![block[t]] = arg[t][1]]
         /\ dm'.count = [dm.count EXCEPT ![block[t]] = 1]
         /\ dm'.data = [dm.data EXCEPT ![block[t]] = arg[t][2]]
         /\ UNCHANGED <<mode, ptr, stale, pair, calm>>
         /\ dm' \in Tables
<1>1. /\ pc[t] = "add_fill" /\ mutex' = NoThread /\ pc' = [pc EXCEPT ![t] = "idle"]
      /\ dm' = Filled(dm, block[t], arg[t][1], arg[t][2])
      /\ UNCHANGED <<mode, ptr, stale, pair, calm>>
  BY DEF AddFill, Leave, Goto
<1>2. mutex = t /\ block[t] \in Used /\ arg[t] \in Keys \X Values
  BY <1>1 DEF Working, Busy
<1>3. Removing = {} /\ Removing' = {}
  BY <1>1, <1>2, Sizes DEF Working, Removing, Busy, TypeInv
<1>4. dm' = [mp |-> dm.mp, key |-> [dm.key EXCEPT ![block[t]] = arg[t][1]],
             count |-> [dm.count EXCEPT ![block[t]] = 1],
             data |-> [dm.data EXCEPT ![block[t]] = arg[t][2]]]
  BY <1>1 DEF Filled, TypeInv, Tables
<1>5. Whole' = Whole /\ Used' = Used
  BY <1>3, <1>4 DEF Whole, Used
<1>6. arg[t][1] \in Keys /\ arg[t][2] \in Values /\ 1 \in 0 .. MaxCount
  BY <1>2, Sizes
<1>7. dm' \in Tables
  BY <1>4, <1>6 DEF TypeInv, Tables
<1>8. PoolOK(Whole', num_max)
  BY <1>5 DEF TypeInv
<1>9. /\ dm'.mp = dm.mp
      /\ dm'.key = [dm.key EXCEPT ![block[t]] = arg[t][1]]
      /\ dm'.count = [dm.count EXCEPT ![block[t]] = 1]
      /\ dm'.data = [dm.data EXCEPT ![block[t]] = arg[t][2]]
  BY <1>4
<1> QED BY <1>1, <1>2, <1>3, <1>5, <1>7, <1>8, <1>9

\* What an addition or a removal of a key that stays does to its block (152-161, 262-268).
Touches(b) ==
  \/ /\ mode = "update" /\ dm'.count = dm.count
     /\ \E v \in Values : dm'.data = [dm.data EXCEPT ![b] = v]
  \/ /\ mode = "countup" /\ dm'.data = dm.data
     /\ dm'.count = [dm.count EXCEPT ![b] = dm.count[b] + 1]
  \/ /\ dm.count[b] > 1 /\ dm'.data = dm.data
     /\ dm'.count = [dm.count EXCEPT ![b] = dm.count[b] - 1]

LEMMA TouchDoes ==
  ASSUME TypeInv, Working, NEW t \in Threads, NEW k \in Keys,
         RemoveCount(t, k) \/ \E v \in Values : AddAgain(t, k, v)
  PROVE  /\ mutex = NoThread /\ UNCHANGED <<mode, mutex, pc, arg, block, ptr, stale, pair, calm>>
         /\ BlockOf(dm, k) \in Used /\ dm.key[BlockOf(dm, k)] = k /\ Touches(BlockOf(dm, k))
         /\ dm'.mp = dm.mp /\ dm'.key = dm.key
         /\ Removing' = Removing /\ Used' = Used /\ PoolOK(Whole', num_max)
         /\ dm' \in Tables
<1> DEFINE b == BlockOf(dm, k)
<1>1. /\ mutex = NoThread /\ UNCHANGED <<mode, mutex, pc, arg, block, ptr, stale, pair, calm>>
      /\ b # NoBlock
      /\ \/ mode = "update" /\ \E v \in Values : dm' = [dm EXCEPT !.data[b] = v]
         \/ /\ mode = "countup" /\ dm.count[b] < MaxCount
            /\ dm' = [dm EXCEPT !.count[b] = dm.count[b] + 1]
         \/ dm.count[b] > 1 /\ dm' = [dm EXCEPT !.count[b] = dm.count[b] - 1]
  BY DEF AddAgain, RemoveCount, Within
<1>2. b \in Used /\ dm.key[b] = k
  BY <1>1, BlockOfFinds
<1>3. Whole = dm.mp /\ Used \subseteq Blocks
  BY <1>1, Quiet, Sizes, InUseCount DEF TypeInv, Used, Blocks
<1> HIDE DEF b
<1>4. b \in Blocks /\ dm.count[b] \in 0 .. MaxCount
  BY <1>2, <1>3 DEF TypeInv, Tables
<1>5. dm' \in Tables /\ dm'.mp = dm.mp /\ dm'.key = dm.key /\ Touches(b)
  <2>1. ASSUME mode = "update", NEW v \in Values, dm' = [dm EXCEPT !.data[b] = v]
        PROVE dm' \in Tables /\ dm'.mp = dm.mp /\ dm'.key = dm.key /\ Touches(b)
    <3>1. dm' = [mp |-> dm.mp, key |-> dm.key, count |-> dm.count, data |-> [dm.data EXCEPT ![b] = v]]
      BY <2>1 DEF TypeInv, Tables
    <3>2. dm' \in Tables
      BY <3>1 DEF TypeInv, Tables
    <3>3. /\ dm'.mp = dm.mp /\ dm'.key = dm.key /\ dm'.count = dm.count
          /\ dm'.data = [dm.data EXCEPT ![b] = v]
      BY <3>1
    <3> QED BY <2>1, <3>2, <3>3 DEF Touches
  <2>2. CASE /\ mode = "countup" /\ dm.count[b] < MaxCount
             /\ dm' = [dm EXCEPT !.count[b] = dm.count[b] + 1]
    <3>1. dm' = [mp |-> dm.mp, key |-> dm.key,
                 count |-> [dm.count EXCEPT ![b] = dm.count[b] + 1], data |-> dm.data]
      BY <2>2 DEF TypeInv, Tables
    <3>2. dm.count[b] + 1 \in 0 .. MaxCount
      <4>1. PICK c \in 0 .. MaxCount : dm.count[b] = c
        BY <1>4
      <4> QED BY <2>2, <4>1, Sizes
    <3>3. dm' \in Tables
      BY <3>1, <3>2 DEF TypeInv, Tables
    <3>4. /\ dm'.mp = dm.mp /\ dm'.key = dm.key /\ dm'.data = dm.data
          /\ dm'.count = [dm.count EXCEPT ![b] = dm.count[b] + 1]
      BY <3>1
    <3> QED BY <2>2, <3>3, <3>4 DEF Touches
  <2>3. CASE dm.count[b] > 1 /\ dm' = [dm EXCEPT !.count[b] = dm.count[b] - 1]
    <3>1. dm' = [mp |-> dm.mp, key |-> dm.key,
                 count |-> [dm.count EXCEPT ![b] = dm.count[b] - 1], data |-> dm.data]
      BY <2>3 DEF TypeInv, Tables
    <3>2. dm.count[b] - 1 \in 0 .. MaxCount
      <4>1. PICK c \in 0 .. MaxCount : dm.count[b] = c
        BY <1>4
      <4> QED BY <2>3, <4>1, Sizes
    <3>3. dm' \in Tables
      BY <3>1, <3>2 DEF TypeInv, Tables
    <3>4. /\ dm'.mp = dm.mp /\ dm'.key = dm.key /\ dm'.data = dm.data
          /\ dm'.count = [dm.count EXCEPT ![b] = dm.count[b] - 1]
      BY <3>1
    <3> QED BY <2>3, <3>3, <3>4 DEF Touches
  <2> QED BY <1>1, <2>1, <2>2, <2>3
<1>6. Removing' = Removing
  BY <1>1 DEF Removing
<1>7. Whole' = Whole /\ Used' = Used
  BY <1>5, <1>6 DEF Whole, Used
<1> QED BY <1>1, <1>2, <1>5, <1>6, <1>7 DEF b, TypeInv

\* A step that leaves the blocks alone.
Aside(t) == /\ UNCHANGED <<dm, mode, mutex, block>>
            /\ pc[t] \notin Busy /\ pc'[t] \notin Busy
            /\ \A u \in Threads \ {t} : /\ pc'[u] = pc[u] /\ arg'[u] = arg[u]
                                        /\ ptr'[u] = ptr[u] /\ stale'[u] = stale[u]

LEMMA OthersDo ==
  ASSUME TypeInv, NEW t \in Threads,
         \/ (\E k \in Keys : GetPtr(t, k)) \/ DropPtr(t)
         \/ (\E i \in Blocks : ElemTest(t, i)) \/ ElemKey(t) \/ ElemVal(t) \/ ElemReturn(t)
  PROVE  Aside(t) /\ Removing' = Removing /\ Whole' = Whole /\ Used' = Used
<1>1. Aside(t)
  <2>0. /\ pc \in [Threads -> Labels] /\ DOMAIN arg = Threads /\ DOMAIN ptr = Threads
        /\ DOMAIN stale = Threads
    BY DEF TypeInv
  <2>1. ASSUME (\E k \in Keys : GetPtr(t, k)) \/ DropPtr(t) PROVE Aside(t)
    BY <2>0, <2>1 DEF GetPtr, DropPtr, Within, Busy, Aside
  <2>2. ASSUME (\E i \in Blocks : ElemTest(t, i)) \/ ElemReturn(t) PROVE Aside(t)
    BY <2>0, <2>2 DEF ElemTest, ElemReturn, Goto, Busy, Aside
  <2>3. ASSUME ElemKey(t) \/ ElemVal(t) PROVE Aside(t)
    BY <2>0, <2>3 DEF ElemKey, ElemVal, Goto, Busy, Aside
  <2> QED BY <2>1, <2>2, <2>3
<1>2. Removing' = Removing
  BY <1>1 DEF Removing, Busy, Aside
<1>3. Whole' = Whole /\ Used' = Used
  BY <1>1, <1>2 DEF Whole, Used, Aside
<1> QED BY <1>1, <1>2, <1>3
\* A step of thread t that neither adds, fills, counts nor removes.
Reads(t) == \/ (\E k \in Keys : GetPtr(t, k)) \/ DropPtr(t)
            \/ (\E i \in Blocks : ElemTest(t, i)) \/ ElemKey(t) \/ ElemVal(t) \/ ElemReturn(t)

\* What a thread can do, by what it does to the blocks.
LEMMA Kinds ==
  ASSUME [Next]_vars
  PROVE  \/ \E t \in Threads :
              \/ \E k \in Keys, v \in Values : AddAlloc(t, k, v) \/ AddAgain(t, k, v)
              \/ \E k \in Keys : RemoveCount(t, k) \/ RemoveLast(t, k)
              \/ AddFill(t) \/ RemoveMove(t) \/ Reads(t)
         \/ UNCHANGED vars
  BY DEF Next, Reads

----------------------------------------------------------------------------
(* The invariant, part by part. *)

\* em_gdatamng_create sets every field within its type.
LEMMA TypeInit == Init => TypeInv
<1> SUFFICES ASSUME Init PROVE TypeInv
  OBVIOUS
<1>1. Removing = {}
  BY DEF Init, Removing
<1>2. PICK k \in Keys, v \in Values : dm = EmptyData(num_max, k, v)
  BY DEF Init
<1>3. /\ dm.mp = [num_used |-> 0, block_ptr |-> [i \in Blocks |-> i]]
      /\ dm = [mp |-> dm.mp, key |-> [b \in Blocks |-> k], count |-> [b \in Blocks |-> 0],
               data |-> [b \in Blocks |-> v]]
  BY <1>2 DEF EmptyData, Blocks
<1>4. 0 \in 0 .. num_max /\ 0 \in 0 .. MaxCount
  BY Sizes
<1>5. [num_used |-> 0, block_ptr |-> [i \in Blocks |-> i]]
        \in [num_used : 0 .. num_max, block_ptr : [Blocks -> Blocks]]
  BY <1>4
<1>6. dm \in Tables
  BY <1>3, <1>4, <1>5 DEF Tables
<1>7. PoolOK([num_used |-> 0, block_ptr |-> [i \in Blocks |-> i]], num_max)
  BY <1>4, Sizes DEF PoolOK, Blocks
<1>8. PoolOK(Whole, num_max)
  BY <1>1, <1>3, <1>7, Zenon DEF Whole
<1> QED BY <1>6, <1>8 DEF Init, TypeInv, Labels, NoPair

\* Every step stores values of the right type; a free of a block whose count has come
\* to nothing takes no count below zero.
LEMMA TypeStep ==
  ASSUME TypeInv, Working, \A b \in Present : dm.count[b] >= 1, [Next]_vars
  PROVE  TypeInv'
<1>0. /\ mode \in {"error", "update", "countup"} /\ mutex \in Threads \cup {NoThread}
      /\ pc \in [Threads -> Labels]
      /\ arg \in [Threads -> {NoArg} \cup (Keys \X Values) \cup {<<k>> : k \in Keys}
                               \cup {<<i>> : i \in Blocks}]
      /\ block \in [Threads -> Blocks \cup {NoBlock}]
      /\ ptr \in [Threads -> [block : Blocks, key : Keys] \cup {NoPtr}]
      /\ stale \in [Threads -> BOOLEAN]
      /\ pair \in [Threads -> [key : Blocks \cup {NoBlock}, val : Blocks \cup {NoBlock}]]
      /\ calm \in [Threads -> BOOLEAN]
      /\ Used \subseteq Blocks
  BY Sizes, InUseCount DEF TypeInv, Used, Blocks
<1>1. ASSUME NEW t \in Threads, NEW k \in Keys, NEW v \in Values, AddAlloc(t, k, v)
      PROVE TypeInv'
  <2>1. /\ dm' \in Tables /\ PoolOK(Whole', num_max) /\ block'[t] \in Blocks /\ mutex' = t
        /\ UNCHANGED <<mode, ptr, stale, pair, calm>>
    BY <1>1, AddAllocDoes DEF Tables
  <2>2. /\ pc' = [pc EXCEPT ![t] = "add_fill"] /\ arg' = [arg EXCEPT ![t] = <<k, v>>]
        /\ block' = [block EXCEPT ![t] = PoolNext(dm.mp)]
    BY <1>1 DEF AddAlloc, Enter, Goto
  <2>3. pc' \in [Threads -> Labels]
    BY <1>0, <2>2 DEF Labels
  <2>4. block' \in [Threads -> Blocks \cup {NoBlock}]
    BY <1>0, <2>1, <2>2
  <2>5. arg' \in [Threads -> {NoArg} \cup (Keys \X Values) \cup {<<j>> : j \in Keys}
                               \cup {<<i>> : i \in Blocks}]
    BY <1>0, <2>2
  <2> QED BY <1>0, <2>1, <2>3, <2>4, <2>5 DEF TypeInv
<1>2. ASSUME NEW t \in Threads, NEW k \in Keys, RemoveLast(t, k) PROVE TypeInv'
  <2>1. /\ dm' \in Tables /\ PoolOK(Whole', num_max) /\ block'[t] \in Used /\ mutex' = t
        /\ UNCHANGED <<mode, ptr, pair>>
        /\ stale' = [u \in Threads |-> stale[u] \/ ptr[u].key = k]
        /\ calm' = [u \in Threads |-> FALSE]
    BY <1>2, RemoveLastDoes
  <2>2. /\ pc' = [pc EXCEPT ![t] = "remove_move"] /\ arg' = [arg EXCEPT ![t] = <<k>>]
        /\ block' = [block EXCEPT ![t] = BlockOf(dm, k)]
    BY <1>2 DEF RemoveLast, Enter, Goto
  <2>3. pc' \in [Threads -> Labels]
    BY <1>0, <2>2 DEF Labels
  <2>4. block' \in [Threads -> Blocks \cup {NoBlock}]
    BY <1>0, <2>1, <2>2
  <2>5. arg' \in [Threads -> {NoArg} \cup (Keys \X Values) \cup {<<j>> : j \in Keys}
                               \cup {<<i>> : i \in Blocks}]
    BY <1>0, <2>2
  <2>6. stale' \in [Threads -> BOOLEAN] /\ calm' \in [Threads -> BOOLEAN]
    BY <2>1, Zenon
  <2> QED BY <1>0, <2>1, <2>3, <2>4, <2>5, <2>6 DEF TypeInv
<1>3. ASSUME NEW t \in Threads, AddFill(t) \/ RemoveMove(t) PROVE TypeInv'
  <2>1. /\ dm' \in Tables /\ PoolOK(Whole', num_max) /\ mutex' = NoThread
        /\ UNCHANGED <<mode, ptr, stale, pair, calm>>
    BY <1>3, AddFillDoes, RemoveMoveDoes
  <2>2. /\ pc' = [pc EXCEPT ![t] = "idle"] /\ arg' = [arg EXCEPT ![t] = NoArg]
        /\ block' = [block EXCEPT ![t] = NoBlock]
    BY <1>3 DEF AddFill, RemoveMove, Leave, Goto
  <2>3. pc' \in [Threads -> Labels] /\ block' \in [Threads -> Blocks \cup {NoBlock}]
    BY <1>0, <2>2 DEF Labels
  <2>4. arg' \in [Threads -> {NoArg} \cup (Keys \X Values) \cup {<<j>> : j \in Keys}
                               \cup {<<i>> : i \in Blocks}]
    BY <1>0, <2>2
  <2> QED BY <1>0, <2>1, <2>3, <2>4 DEF TypeInv
<1>4. ASSUME NEW t \in Threads, NEW k \in Keys,
             RemoveCount(t, k) \/ \E v \in Values : AddAgain(t, k, v)
      PROVE TypeInv'
  <2>1. /\ dm' \in Tables /\ PoolOK(Whole', num_max)
        /\ UNCHANGED <<mode, mutex, pc, arg, block, ptr, stale, pair, calm>>
    BY <1>4, TouchDoes
  <2> QED BY <1>0, <2>1 DEF TypeInv
<1>5. ASSUME NEW t \in Threads, Reads(t) PROVE TypeInv'
  <2>0. dm' \in Tables /\ PoolOK(Whole', num_max) /\ UNCHANGED <<mode, mutex, block>>
    BY <1>5, OthersDo DEF Reads, Aside, TypeInv
  <2>1. ASSUME NEW k \in Keys, GetPtr(t, k) PROVE TypeInv'
    <3>1. mutex = NoThread /\ BlockOf(dm, k) # NoBlock
      BY <2>1 DEF GetPtr, Within
    <3>2. BlockOf(dm, k) \in Blocks
      BY <1>0, <3>1, BlockOfFinds
    <3> QED BY <1>0, <2>0, <2>1, <3>2 DEF GetPtr, TypeInv
  <2>2. ASSUME DropPtr(t) PROVE TypeInv'
    BY <1>0, <2>0, <2>2 DEF DropPtr, TypeInv
  <2>3. ASSUME NEW i \in Blocks, ElemTest(t, i) PROVE TypeInv'
    <3>1. (Removing = {}) \in BOOLEAN
      OBVIOUS
    <3>2. calm' \in [Threads -> BOOLEAN]
      BY <1>0, <2>3, <3>1, Zenon DEF ElemTest
    <3>3. arg' \in [Threads -> {NoArg} \cup (Keys \X Values) \cup {<<j>> : j \in Keys}
                                 \cup {<<h>> : h \in Blocks}]
      BY <1>0, <2>3 DEF ElemTest
    <3>4. pc' \in [Threads -> Labels] /\ UNCHANGED <<ptr, stale, pair>>
      BY <1>0, <2>3 DEF ElemTest, Goto, Labels
    <3> QED BY <1>0, <2>0, <3>2, <3>3, <3>4 DEF TypeInv
  <2>4. ASSUME ElemKey(t) \/ ElemVal(t) PROVE TypeInv'
    <3>1. PICK i \in Blocks : arg[t] = <<i>>
      BY <2>4 DEF ElemKey, ElemVal, Working
    <3>2. dm.mp.block_ptr \in [Blocks -> Blocks]
      BY DEF TypeInv, Tables
    <3>3. dm.mp.block_ptr[arg[t][1]] \in Blocks
      BY <3>1, <3>2
    <3>4. PICK b \in Blocks : b = dm.mp.block_ptr[arg[t][1]]
      BY <3>3
    <3>5. \/ pair' = [pair EXCEPT ![t].key = b]
          \/ pair' = [pair EXCEPT ![t].val = b]
      BY <2>4, <3>4 DEF ElemKey, ElemVal
    <3>6. pair \in [Threads -> [key : Blocks \cup {NoBlock}, val : Blocks \cup {NoBlock}]]
      BY DEF TypeInv
    <3>7. pair' \in [Threads -> [key : Blocks \cup {NoBlock}, val : Blocks \cup {NoBlock}]]
      BY ONLY t \in Threads, b \in Blocks, <3>5, <3>6
    <3>8. pc' \in [Threads -> Labels] /\ UNCHANGED <<arg, ptr, stale, calm>>
      BY <1>0, <2>4 DEF ElemKey, ElemVal, Goto, Labels
    <3> QED BY <1>0, <2>0, <3>7, <3>8 DEF TypeInv
  <2>5. ASSUME ElemReturn(t) PROVE TypeInv'
    BY <1>0, <2>0, <2>5 DEF ElemReturn, Goto, Labels, NoPair, TypeInv
  <2> QED BY <1>5, <2>1, <2>2, <2>3, <2>4, <2>5 DEF Reads
<1>6. CASE UNCHANGED vars
  BY <1>6 DEF vars, TypeInv, Whole, Removing
<1> QED BY <1>1, <1>2, <1>3, <1>4, <1>5, <1>6, Kinds
\* Nobody works on a block at first.
LEMMA WorkInit == Init => Working
  BY Sizes DEF Init, Working, Busy

\* A change is begun only while the mutex is free and ended by who began it: nobody
\* changes the block, or takes the key, of an addition in between.
LEMMA WorkStep ==
  ASSUME TypeInv, Working, \A b \in Present : dm.count[b] >= 1, [Next]_vars
  PROVE  Working'
<1>0. /\ pc \in [Threads -> Labels] /\ DOMAIN arg = Threads /\ DOMAIN block = Threads
      /\ NoThread \notin Threads /\ Used \subseteq Blocks
      /\ dm.key \in [Blocks -> Keys]
  BY Sizes, InUseCount DEF TypeInv, Tables, Used, Blocks
<1>1. ASSUME NEW t \in Threads, NEW k \in Keys, NEW v \in Values, AddAlloc(t, k, v)
      PROVE Working'
  <2>1. /\ mutex = NoThread /\ mutex' = t /\ pc[t] = "idle"
        /\ block'[t] \notin Used /\ Used' = Used \cup {block'[t]}
        /\ \A b \in Used : dm.key[b] # k
        /\ dm'.key = dm.key
    BY <1>1, AddAllocDoes
  <2>2. /\ pc' = [pc EXCEPT ![t] = "add_fill"] /\ arg' = [arg EXCEPT ![t] = <<k, v>>]
        /\ block' = [block EXCEPT ![t] = PoolNext(dm.mp)]
    BY <1>1 DEF AddAlloc, Enter, Goto
  <2>3. /\ \A u \in Threads \ {t} : pc'[u] = pc[u] /\ arg'[u] = arg[u] /\ pc[u] \notin Busy
        /\ pc'[t] = "add_fill" /\ arg'[t] = <<k, v>>
    BY <1>0, <2>1, <2>2 DEF Working
  <2>4. \A u \in Threads : pc'[u] \in Busy => u = t
    BY <2>3
  <2>5. /\ arg'[t] \in Keys \X Values /\ arg'[t][1] = k
        /\ \A b \in Used' \ {block'[t]} : dm'.key[b] # k
    BY <2>1, <2>3
  <2> QED BY <1>0, <2>1, <2>3, <2>4, <2>5 DEF Working, Busy
<1>2. ASSUME NEW t \in Threads, NEW k \in Keys, RemoveLast(t, k) PROVE Working'
  <2>1. /\ mutex = NoThread /\ mutex' = t /\ pc[t] = "idle" /\ block'[t] \in Used /\ Used' = Used
    BY <1>2, RemoveLastDoes
  <2>2. /\ pc' = [pc EXCEPT ![t] = "remove_move"] /\ arg' = [arg EXCEPT ![t] = <<k>>]
    BY <1>2 DEF RemoveLast, Enter, Goto
  <2>3. /\ \A u \in Threads \ {t} : pc'[u] = pc[u] /\ arg'[u] = arg[u] /\ pc[u] \notin Busy
        /\ pc'[t] = "remove_move"
    BY <1>0, <2>1, <2>2 DEF Working
  <2> QED BY <1>0, <2>1, <2>3 DEF Working, Busy
<1>3. ASSUME NEW t \in Threads, AddFill(t) \/ RemoveMove(t) PROVE Working'
  <2>1. mutex = t /\ mutex' = NoThread
    BY <1>3, AddFillDoes, RemoveMoveDoes
  <2>2. /\ pc' = [pc EXCEPT ![t] = "idle"] /\ arg' = [arg EXCEPT ![t] = NoArg]
    BY <1>3 DEF AddFill, RemoveMove, Leave, Goto
  <2>3. /\ \A u \in Threads \ {t} : pc'[u] = pc[u] /\ arg'[u] = arg[u] /\ pc[u] \notin Busy
        /\ pc'[t] = "idle"
    BY <1>0, <2>1, <2>2 DEF Working
  <2> QED BY <1>0, <2>1, <2>3 DEF Working, Busy
<1>4. ASSUME NEW t \in Threads, NEW k \in Keys,
             RemoveCount(t, k) \/ \E v \in Values : AddAgain(t, k, v)
      PROVE Working'
  <2>1. /\ Used' = Used /\ dm'.key = dm.key /\ UNCHANGED <<mutex, pc, arg, block>>
    BY <1>4, TouchDoes
  <2> QED BY <2>1 DEF Working
<1>5. ASSUME NEW t \in Threads, Reads(t) PROVE Working'
  <2>1. Aside(t) /\ Used' = Used
    BY <1>5, OthersDo DEF Reads
  <2>2. pc'[t] = "elem_key" \/ pc'[t] = "elem_val" => arg'[t] \in {<<i>> : i \in Blocks}
    BY <1>0, <1>5 DEF Reads, GetPtr, DropPtr, ElemTest, ElemKey, ElemVal, ElemReturn, Goto, Within, Working
  <2>3. \A u \in Threads : pc'[u] \in Busy <=> pc[u] \in Busy
    BY <2>1 DEF Aside
  <2> QED BY <2>1, <2>2, <2>3 DEF Working, Aside, Busy
<1>6. CASE UNCHANGED vars
  <2>1. Used' = Used
    BY <1>6 DEF vars, Used, Whole, Removing
  <2> QED BY <1>6, <2>1 DEF vars, Working
<1> QED BY <1>1, <1>2, <1>3, <1>4, <1>5, <1>6, Kinds

\* Nothing is stored at first.
LEMMA SoundInit == Init => OneBlockPerKey /\ PointerKept /\ Reading /\ PairBelongsTogether
<1> SUFFICES ASSUME Init PROVE OneBlockPerKey /\ PointerKept /\ Reading /\ PairBelongsTogether
  OBVIOUS
<1>1. Present = {}
  <2>1. PICK k \in Keys, v \in Values : dm = EmptyData(num_max, k, v)
    BY DEF Init
  <2>2. dm.mp = [num_used |-> 0, block_ptr |-> [i \in Blocks |-> i]]
    BY <2>1 DEF EmptyData, Blocks
  <2>3. InUse(dm.mp) = {} /\ Removing = {}
    BY <2>2 DEF InUse, Init, Removing
  <2> QED BY <2>3 DEF Present
<1> QED BY <1>1 DEF Init, OneBlockPerKey, PointerKept, Reading, PairBelongsTogether

\* A key is put into one block only, the block of a key that is removed is the one that
\* holds it, and pointers to other data stay good.
LEMMA SoundStep ==
  ASSUME TypeInv, TypeInv', Working, Working', OneBlockPerKey, PointerKept, [Next]_vars
  PROVE  OneBlockPerKey' /\ PointerKept'
<1>0. /\ Used \subseteq Blocks /\ Used' \subseteq Blocks
      /\ dm.key \in [Blocks -> Keys] /\ dm.count \in [Blocks -> 0 .. MaxCount]
      /\ ptr \in [Threads -> [block : Blocks, key : Keys] \cup {NoPtr}]
      /\ stale \in [Threads -> BOOLEAN]
  BY Sizes, InUseCount DEF TypeInv, Tables, Used, Blocks
<1>00. /\ Present = (IF mutex = NoThread THEN Used ELSE Used \ {block[mutex]})
       /\ Present' = (IF mutex' = NoThread THEN Used' ELSE Used' \ {block'[mutex']})
       /\ NoThread \notin Threads /\ \A b \in Present : dm.count[b] >= 1
  <2>1. Settled
    BY PresentIs
  <2>2. Settled'
    BY PresentIs, PTL
  <2> QED BY <2>1, <2>2, Sizes DEF Settled, OneBlockPerKey
\* What is stored, and under which key and count, is as before.
<1>1. ASSUME Present' = Present, UNCHANGED <<mode, dm.key, dm.count, ptr, stale>>
      PROVE OneBlockPerKey' /\ PointerKept'
  BY <1>1 DEF OneBlockPerKey, PointerKept
<1>2. ASSUME NEW t \in Threads, NEW k \in Keys, NEW v \in Values, AddAlloc(t, k, v)
      PROVE OneBlockPerKey' /\ PointerKept'
  <2>1. /\ mutex = NoThread /\ mutex' = t
        /\ block'[t] \notin Used /\ Used' = Used \cup {block'[t]}
        /\ UNCHANGED <<mode, dm.key, dm.count, ptr, stale>>
    BY <1>2, AddAllocDoes
  <2>2. Present' = Present
    BY <1>00, <2>1
  <2> QED BY <1>1, <2>1, <2>2
<1>3. ASSUME NEW t \in Threads, RemoveMove(t) PROVE OneBlockPerKey' /\ PointerKept'
  BY <1>00, <1>1, <1>3, RemoveMoveDoes
<1>4. ASSUME NEW t \in Threads, AddFill(t) PROVE OneBlockPerKey' /\ PointerKept'
  <2> DEFINE b == block[t]
             k == arg[t][1]
  <2>1. /\ mutex = t /\ mutex' = NoThread /\ pc[t] = "add_fill" /\ b \in Used /\ Used' = Used
        /\ dm'.key = [dm.key EXCEPT ![b] = k] /\ dm'.count = [dm.count EXCEPT ![b] = 1]
        /\ UNCHANGED <<mode, ptr, stale>>
    BY <1>4, AddFillDoes
  <2>2. Present = Used \ {b} /\ Present' = Used
    BY <1>00, <2>1
  <2>3. \A a \in Present : dm.key[a] # k
    BY <2>1, <2>2 DEF Working
  <2>4. /\ dm'.key[b] = k /\ dm'.count[b] = 1
        /\ \A a \in Present : a # b /\ dm'.key[a] = dm.key[a] /\ dm'.count[a] = dm.count[a]
    BY <1>0, <2>1, <2>2
  <2>5. Present' = Present \cup {b}
    BY <2>1, <2>2
  <2> HIDE DEF b, k
  <2>6. OneBlockPerKey'
    BY <2>1, <2>3, <2>4, <2>5 DEF OneBlockPerKey
  <2>7. PointerKept'
    BY <2>1, <2>4, <2>5 DEF PointerKept
  <2> QED BY <2>6, <2>7
<1>5. ASSUME NEW t \in Threads, NEW k \in Keys,
             RemoveCount(t, k) \/ \E v \in Values : AddAgain(t, k, v)
      PROVE OneBlockPerKey' /\ PointerKept'
  <2> DEFINE b == BlockOf(dm, k)
  <2>1. /\ UNCHANGED <<mode, mutex, block, ptr, stale>> /\ b \in Used /\ Touches(b)
        /\ dm'.key = dm.key /\ Used' = Used
    BY <1>5, TouchDoes
  <2> HIDE DEF b
  <2>2. Present' = Present
    BY <1>00, <2>1
  <2>3. PICK c \in 0 .. MaxCount : dm.count[b] = c
    BY <1>0, <2>1
  <2>4. ASSUME NEW a \in Present PROVE dm'.count[a] >= 1 /\ (mode # "countup" => dm'.count[a] = 1)
    <3>1. a \in Blocks /\ dm.count[a] >= 1 /\ (mode # "countup" => dm.count[a] = 1)
      BY <1>0, <1>00, <2>4 DEF OneBlockPerKey
    <3>2. CASE dm'.count = dm.count
      BY <3>1, <3>2
    <3>3. CASE a # b
      BY <1>0, <2>1, <3>1, <3>3 DEF Touches
    <3>4. CASE a = b /\ mode = "countup" /\ dm'.count = [dm.count EXCEPT ![b] = dm.count[b] + 1]
      BY <1>0, <2>3, <3>1, <3>4
    <3>5. CASE a = b /\ dm.count[b] > 1 /\ dm'.count = [dm.count EXCEPT ![b] = dm.count[b] - 1]
      BY <1>0, <2>3, <3>1, <3>5
    <3> QED BY <2>1, <3>2, <3>3, <3>4, <3>5 DEF Touches
  <2>5. OneBlockPerKey'
    BY <2>1, <2>2, <2>4 DEF OneBlockPerKey
  <2>6. PointerKept'
    BY <2>1, <2>2 DEF PointerKept
  <2> QED BY <2>5, <2>6
<1>6. ASSUME NEW t \in Threads, NEW k \in Keys, RemoveLast(t, k)
      PROVE OneBlockPerKey' /\ PointerKept'
  <2> DEFINE b == block'[t]
  <2>1. /\ mutex = NoThread /\ mutex' = t /\ b \in Used /\ dm.key[b] = k /\ Used' = Used
        /\ UNCHANGED <<mode, ptr, dm.key>>
        /\ dm'.count = [dm.count EXCEPT ![b] = 0]
        /\ stale' = [u \in Threads |-> stale[u] \/ ptr[u].key = k]
    BY <1>00, <1>6, RemoveLastDoes
  <2>2. Present = Used /\ Present' = Used \ {b}
    BY <1>00, <2>1
  <2>3. \A a \in Present' : a # b /\ a \in Present /\ dm'.count[a] = dm.count[a]
    BY <1>0, <2>1, <2>2
  <2>4. OneBlockPerKey'
    BY <2>1, <2>3 DEF OneBlockPerKey
  <2>5. PointerKept'
    <3> SUFFICES ASSUME NEW u \in Threads, ptr'[u] # NoPtr, ~stale'[u]
                 PROVE  ptr'[u].block \in Present' /\ dm'.key[ptr'[u].block] = ptr'[u].key
      BY DEF PointerKept
    <3>1. ptr'[u] = ptr[u] /\ ~stale[u] /\ ptr[u].key # k
      BY <2>1
    <3>2. ptr[u].block \in Present /\ dm.key[ptr[u].block] = ptr[u].key
      BY <3>1 DEF PointerKept
    <3> QED BY <2>1, <2>2, <3>1, <3>2
  <2> QED BY <2>4, <2>5
<1>7. ASSUME NEW t \in Threads, Reads(t) PROVE OneBlockPerKey' /\ PointerKept'
  <2>1. Aside(t) /\ Used' = Used
    BY <1>7, OthersDo DEF Reads
  <2>2. Present' = Present /\ UNCHANGED <<mode, dm>>
    BY <1>00, <2>1 DEF Aside
  <2>3. OneBlockPerKey'
    BY <2>2 DEF OneBlockPerKey
  <2>4. ASSUME NEW k \in Keys, GetPtr(t, k) PROVE PointerKept'
    <3>1. /\ mutex = NoThread /\ BlockOf(dm, k) # NoBlock
          /\ ptr' = [ptr EXCEPT ![t] = [block |-> BlockOf(dm, k), key |-> k]]
      BY <2>4 DEF GetPtr, Within
    <3>2. BlockOf(dm, k) \in Present /\ dm.key[BlockOf(dm, k)] = k
      BY <1>00, <3>1, BlockOfFinds
    <3>3. ptr'[t].block = BlockOf(dm, k) /\ ptr'[t].key = k
      BY <1>0, <3>1
    <3> QED BY <2>1, <2>2, <3>2, <3>3 DEF PointerKept, Aside
  <2>5. ASSUME DropPtr(t) PROVE PointerKept'
    <3>1. ptr'[t] = NoPtr
      BY <1>0, <2>5 DEF DropPtr
    <3> QED BY <2>1, <2>2, <3>1 DEF PointerKept, Aside
  <2>6. ASSUME UNCHANGED <<ptr, stale>> PROVE PointerKept'
    BY <2>2, <2>6 DEF PointerKept
  <2>7. (\E i \in Blocks : ElemTest(t, i)) \/ ElemKey(t) \/ ElemVal(t) \/ ElemReturn(t)
          => UNCHANGED <<ptr, stale>>
    BY DEF ElemTest, ElemKey, ElemVal, ElemReturn
  <2> QED BY <1>7, <2>3, <2>4, <2>5, <2>6, <2>7 DEF Reads
<1>8. CASE UNCHANGED vars
  <2>1. Used' = Used
    BY <1>8 DEF vars, Used, Whole, Removing
  <2> QED BY <1>00, <1>1, <1>8, <2>1 DEF vars
<1> QED BY <1>2, <1>3, <1>4, <1>5, <1>6, <1>7, <1>8, Kinds
\* Only a removal changes what block_ptr says of an element, and it leaves no caller
\* under the belief that nothing was removed.
LEMMA ReadStep ==
  ASSUME TypeInv, Working, \A b \in Present : dm.count[b] >= 1, Reading, PairBelongsTogether,
         [Next]_vars
  PROVE  Reading' /\ PairBelongsTogether'
<1>0. /\ pc \in [Threads -> Labels] /\ DOMAIN arg = Threads /\ calm \in [Threads -> BOOLEAN]
      /\ pair \in [Threads -> [key : Blocks \cup {NoBlock}, val : Blocks \cup {NoBlock}]]
  BY DEF TypeInv
\* A step that leaves the places of the elements and the answers of calls alone.
<1>1. ASSUME NEW t \in Threads, dm'.mp.block_ptr = dm.mp.block_ptr, UNCHANGED <<pair, calm>>,
             Removing' = {}, pc'[t] \notin {"elem_val", "elem_done"},
             \A u \in Threads \ {t} : pc'[u] = pc[u] /\ arg'[u] = arg[u]
      PROVE  Reading' /\ PairBelongsTogether'
  <2>1. \A u \in Threads : pc'[u] \in {"elem_val", "elem_done"} => pc'[u] = pc[u] /\ arg'[u] = arg[u]
    BY <1>1
  <2> QED BY <1>1, <2>1 DEF Reading, PairBelongsTogether
<1>2. ASSUME NEW t \in Threads, NEW k \in Keys, NEW v \in Values, AddAlloc(t, k, v)
      PROVE Reading' /\ PairBelongsTogether'
  <2>1. dm'.mp.block_ptr = dm.mp.block_ptr /\ UNCHANGED <<pair, calm>> /\ Removing' = {}
    BY <1>2, AddAllocDoes
  <2>2. pc' = [pc EXCEPT ![t] = "add_fill"] /\ arg' = [arg EXCEPT ![t] = <<k, v>>]
    BY <1>2 DEF AddAlloc, Enter, Goto
  <2> QED BY <1>0, <1>1, <2>1, <2>2
<1>3. ASSUME NEW t \in Threads, AddFill(t) PROVE Reading' /\ PairBelongsTogether'
  <2>1. dm'.mp = dm.mp /\ UNCHANGED <<pair, calm>> /\ Removing' = {}
    BY <1>3, AddFillDoes
  <2>2. pc' = [pc EXCEPT ![t] = "idle"] /\ arg' = [arg EXCEPT ![t] = NoArg]
    BY <1>3 DEF AddFill, Leave, Goto
  <2> QED BY <1>0, <1>1, <2>1, <2>2
<1>4. ASSUME NEW t \in Threads, NEW k \in Keys,
             RemoveCount(t, k) \/ \E v \in Values : AddAgain(t, k, v)
      PROVE Reading' /\ PairBelongsTogether'
  <2>1. dm'.mp = dm.mp /\ Removing' = Removing /\ UNCHANGED <<pc, arg, pair, calm>>
    BY <1>4, TouchDoes
  <2> QED BY <2>1 DEF Reading, PairBelongsTogether
<1>5. ASSUME NEW t \in Threads, NEW k \in Keys, RemoveLast(t, k)
      PROVE Reading' /\ PairBelongsTogether'
  <2>1. calm' = [u \in Threads |-> FALSE]
    BY <1>5, RemoveLastDoes
  <2> QED BY <2>1 DEF Reading, PairBelongsTogether
<1>6. ASSUME NEW t \in Threads, RemoveMove(t) PROVE Reading' /\ PairBelongsTogether'
  <2>1. Removing # {} /\ calm' = calm
    BY <1>6, RemoveMoveDoes
  <2>2. \A u \in Threads : ~calm'[u]
    BY <1>0, <2>1 DEF Reading
  <2> QED BY <2>2 DEF Reading, PairBelongsTogether
<1>7. ASSUME NEW t \in Threads, Reads(t) PROVE Reading' /\ PairBelongsTogether'
  <2>1. Aside(t) /\ Removing' = Removing
    BY <1>7, OthersDo DEF Reads
  <2>2. ASSUME (\E k \in Keys : GetPtr(t, k)) \/ DropPtr(t) PROVE Reading' /\ PairBelongsTogether'
    <3>1. UNCHANGED <<dm, pc, arg, pair, calm>>
      BY <2>2 DEF GetPtr, DropPtr
    <3> QED BY <2>1, <3>1 DEF Reading, PairBelongsTogether
  <2>3. ASSUME NEW i \in Blocks, ElemTest(t, i) PROVE Reading' /\ PairBelongsTogether'
    <3>1. /\ UNCHANGED <<dm, pair>> /\ pc' = [pc EXCEPT ![t] = "elem_key"]
          /\ calm' = [calm EXCEPT ![t] = (Removing = {})]
      BY <2>3 DEF ElemTest, Goto
    <3>2. /\ pc'[t] = "elem_key" /\ (calm'[t] <=> Removing = {})
          /\ \A u \in Threads \ {t} : calm'[u] = calm[u]
      BY <1>0, <3>1
    <3> QED BY <2>1, <3>1, <3>2 DEF Reading, PairBelongsTogether, Aside
  <2>4. ASSUME ElemKey(t) PROVE Reading' /\ PairBelongsTogether'
    <3>1. /\ UNCHANGED <<dm, arg, calm>> /\ pc' = [pc EXCEPT ![t] = "elem_val"]
          /\ pair' = [pair EXCEPT ![t].key = dm.mp.block_ptr[arg[t][1]]]
      BY <2>4 DEF ElemKey, Goto
    <3>2. /\ pc'[t] = "elem_val" /\ pair'[t].key = dm.mp.block_ptr[arg[t][1]]
          /\ \A u \in Threads \ {t} : pair'[u] = pair[u]
      BY <1>0, <3>1
    <3> QED BY <2>1, <3>1, <3>2 DEF Reading, PairBelongsTogether, Aside
  <2>5. ASSUME ElemVal(t) PROVE Reading' /\ PairBelongsTogether'
    <3>1. /\ UNCHANGED <<dm, arg, calm>> /\ pc' = [pc EXCEPT ![t] = "elem_done"]
          /\ pair' = [pair EXCEPT ![t].val = dm.mp.block_ptr[arg[t][1]]]
          /\ pc[t] = "elem_val"
      BY <2>5 DEF ElemVal, Goto
    <3>2. /\ pc'[t] = "elem_done" /\ pair'[t].val = dm.mp.block_ptr[arg[t][1]]
          /\ pair'[t].key = pair[t].key
          /\ \A u \in Threads \ {t} : pair'[u] = pair[u]
      BY <1>0, <3>1
    <3> QED BY <2>1, <3>1, <3>2 DEF Reading, PairBelongsTogether, Aside
  <2>6. ASSUME ElemReturn(t) PROVE Reading' /\ PairBelongsTogether'
    <3>1. /\ UNCHANGED dm /\ pc' = [pc EXCEPT ![t] = "idle"]
          /\ calm' = [calm EXCEPT ![t] = FALSE] /\ pair' = [pair EXCEPT ![t] = NoPair]
      BY <2>6 DEF ElemReturn, Goto
    <3>2. /\ pc'[t] = "idle" /\ ~calm'[t]
          /\ \A u \in Threads \ {t} : pair'[u] = pair[u] /\ calm'[u] = calm[u]
      BY <1>0, <3>1
    <3> QED BY <2>1, <3>1, <3>2 DEF Reading, PairBelongsTogether, Aside
  <2> QED BY <1>7, <2>2, <2>3, <2>4, <2>5, <2>6 DEF Reads
<1>8. CASE UNCHANGED vars
  BY <1>8 DEF vars, Reading, PairBelongsTogether, Removing
<1> QED BY <1>2, <1>3, <1>4, <1>5, <1>6, <1>7, <1>8, Kinds

----------------------------------------------------------------------------
(* The inductive invariant: types do not carry themselves through a removal, which    *)
(* needs counts above zero; those need each key in one block, which needs what an     *)
(* addition has found out before it took its block.                                   *)

DInv == TypeInv /\ Working /\ OneBlockPerKey /\ PointerKept /\ Reading /\ PairBelongsTogether

LEMMA DInvStep == DInv /\ [Next]_vars => DInv'
<1> SUFFICES ASSUME DInv, [Next]_vars PROVE DInv'
  OBVIOUS
<1>1. /\ TypeInv /\ Working /\ OneBlockPerKey /\ PointerKept /\ Reading /\ PairBelongsTogether
      /\ \A b \in Present : dm.count[b] >= 1
  BY DEF DInv, OneBlockPerKey
<1>2. TypeInv' /\ Working' /\ Reading' /\ PairBelongsTogether'
  BY <1>1, TypeStep, WorkStep, ReadStep
<1>3. OneBlockPerKey' /\ PointerKept'
  BY <1>1, <1>2, SoundStep
<1> QED BY <1>2, <1>3 DEF DInv

\* It holds in every reachable state.
THEOREM DataInvariant == Spec => []DInv
<1>1. Init => DInv
  BY TypeInit, WorkInit, SoundInit DEF DInv
<1> QED BY <1>1, DInvStep, PTL DEF Spec

\* A pointer that em_gdatamng_get_data_ptr handed out (line 210) stays good, whatever
\* other threads add and remove, until its own key is removed: whatever the number of
\* threads, blocks and keys, the pool moves its records and never the data.
THEOREM PointersStay == Spec => []PointerKept
<1>1. DInv => PointerKept
  BY DEF DInv
<1> QED BY <1>1, DataInvariant, PTL

\* em_gdatamng_get_keyval_by_idx reads block_ptr twice without the mutex (365-368); the
\* key and the datum belong together unless something was removed meanwhile.
THEOREM PairsBelong == Spec => []PairBelongsTogether
<1>1. DInv => PairBelongsTogether
  BY DEF DInv
<1> QED BY <1>1, DataInvariant, PTL
----------------------------------------------------------------------------
(* The map that callers see. *)

\* With each key in one block, the entries are what the blocks present hold.
EntriesShape ==
  /\ DOMAIN Entries = {dm.key[b] : b \in Present}
  /\ Entries = [k \in DOMAIN Entries |-> Entries[k]]
  /\ \A b \in Present : Entries[dm.key[b]] = [data |-> dm.data[b], count |-> dm.count[b]]

LEMMA EntriesAre == OneBlockPerKey => EntriesShape
<1> SUFFICES ASSUME OneBlockPerKey PROVE EntriesShape
  OBVIOUS
<1>1. DOMAIN Entries = {dm.key[b] : b \in Present} /\ Entries = [k \in DOMAIN Entries |-> Entries[k]]
  BY DEF Entries
<1>2. ASSUME NEW b \in Present
      PROVE Entries[dm.key[b]] = [data |-> dm.data[b], count |-> dm.count[b]]
  <2> DEFINE c == CHOOSE a \in Present : dm.key[a] = dm.key[b]
  <2>1. c \in Present /\ dm.key[c] = dm.key[b]
    OBVIOUS
  <2>2. c = b
    BY <2>1 DEF OneBlockPerKey
  <2>3. Entries[dm.key[b]] = [data |-> dm.data[c], count |-> dm.count[c]]
    BY DEF Entries
  <2> QED BY <2>2, <2>3
<1> QED BY <1>1, <1>2 DEF EntriesShape

\* The searches look through the blocks present, wherever they are.
LEMMA SearchesFind == TypeInv /\ Working /\ OneBlockPerKey => SearchesAgree
<1> SUFFICES ASSUME TypeInv, Working, OneBlockPerKey, mutex = NoThread
             PROVE  /\ \A k \in Keys : IF k \in DOMAIN Entries
                         THEN [data |-> GetData(k), count |-> GetDataCnt(k)] = Entries[k]
                         ELSE GetData(k) = NoArg /\ GetDataCnt(k) = -1
                    /\ \A v \in Values : IF \E k \in DOMAIN Entries : Entries[k].data = v
                         THEN /\ KeyByFunc(v) \in DOMAIN Entries /\ Entries[KeyByFunc(v)].data = v
                              /\ GetDataByFunc(v) = v
                         ELSE KeyByFunc(v) = NoArg
  BY DEF SearchesAgree
<1>1. Present = Used /\ Whole = dm.mp /\ PoolOK(dm.mp, num_max) /\ Used = InUse(dm.mp)
      /\ Used \subseteq Blocks
  BY Quiet, PresentIs, Sizes, InUseCount DEF Settled, TypeInv, Used, Blocks
<1>2. EntriesShape
  BY EntriesAre
<1>3. ASSUME NEW a \in Present PROVE Entries[dm.key[a]].data = dm.data[a]
  <2>1. Entries[dm.key[a]] = [data |-> dm.data[a], count |-> dm.count[a]]
    BY <1>2 DEF EntriesShape
  <2> QED BY <2>1
<1>4. DOMAIN Entries = {dm.key[b] : b \in Present}
  BY <1>2 DEF EntriesShape
<1>5. ASSUME NEW k \in Keys
      PROVE  IF k \in DOMAIN Entries
               THEN [data |-> GetData(k), count |-> GetDataCnt(k)] = Entries[k]
               ELSE GetData(k) = NoArg /\ GetDataCnt(k) = -1
  <2>1. /\ BlockOf(dm, k) = NoBlock <=> \A b \in Present : dm.key[b] # k
        /\ BlockOf(dm, k) # NoBlock => BlockOf(dm, k) \in Present /\ dm.key[BlockOf(dm, k)] = k
    BY <1>1, BlockOfFinds
  <2>2. CASE BlockOf(dm, k) = NoBlock
    BY <1>2, <2>1, <2>2 DEF EntriesShape, GetData, GetDataCnt
  <2>3. CASE BlockOf(dm, k) # NoBlock
    <3> DEFINE b == BlockOf(dm, k)
    <3>1. b \in Present /\ dm.key[b] = k /\ GetData(k) = dm.data[b] /\ GetDataCnt(k) = dm.count[b]
      BY <2>1, <2>3 DEF GetData, GetDataCnt
    <3> HIDE DEF b
    <3>2. k \in DOMAIN Entries /\ Entries[k] = [data |-> dm.data[b], count |-> dm.count[b]]
      BY <1>2, <3>1 DEF EntriesShape
    <3> QED BY <3>1, <3>2
  <2> QED BY <2>2, <2>3
<1>6. ASSUME NEW v \in Values
      PROVE  IF \E k \in DOMAIN Entries : Entries[k].data = v
               THEN /\ KeyByFunc(v) \in DOMAIN Entries /\ Entries[KeyByFunc(v)].data = v
                    /\ GetDataByFunc(v) = v
               ELSE KeyByFunc(v) = NoArg
  <2> DEFINE wanted == {b \in Blocks : dm.data[b] = v}
             b == DataIndexByFunc(v)
  <2>1. b = FirstBlock(dm, wanted)
    BY DEF DataIndexByFunc
  <2>2. Present \cap wanted = {a \in Present : dm.data[a] = v}
    BY <1>1
  <2> HIDE DEF wanted, b
  <2>3. /\ b = NoBlock <=> Present \cap wanted = {}
        /\ b # NoBlock => b \in Present \cap wanted
    BY <1>1, <2>1, Sizes, FirstBlockFinds
  <2>4. CASE b = NoBlock
    <3>1. \A a \in Present : dm.data[a] # v
      BY <2>2, <2>3, <2>4
    <3>2. ~ \E k \in DOMAIN Entries : Entries[k].data = v
      BY <1>3, <1>4, <3>1
    <3> QED BY <2>4, <3>2 DEF KeyByFunc, b
  <2>5. CASE b # NoBlock
    <3>1. b \in Present /\ dm.data[b] = v
      BY <2>2, <2>3, <2>5
    <3>2. KeyByFunc(v) = dm.key[b] /\ GetDataByFunc(v) = v
      BY <2>5, <3>1 DEF KeyByFunc, GetDataByFunc, b
    <3>3. dm.key[b] \in DOMAIN Entries /\ Entries[dm.key[b]].data = v
      BY <1>3, <1>4, <3>1
    <3> QED BY <3>2, <3>3
  <2> QED BY <2>4, <2>5
<1> QED BY <1>5, <1>6

\* The tables are sound in every reachable state: types, a key in one block only, counts
\* that are what additions and removals left, and searches by key or by datum that answer
\* what is stored (em_gdatamng.c:107-189, 231-351).
THEOREM TablesSound == Spec => []DataSound
<1>1. TypeInv => TypeOK
  <2> SUFFICES ASSUME TypeInv PROVE TypeOK
    OBVIOUS
  <2>1. dm.mp.num_used \in 0 .. num_max /\ dm.mp.block_ptr \in [Blocks -> Blocks]
        /\ dm.key \in [Blocks -> Keys] /\ dm.count \in [Blocks -> 0 .. MaxCount]
        /\ dm.data \in [Blocks -> Values]
    BY DEF TypeInv, Tables
  <2>2. Whole.block_ptr = dm.mp.block_ptr
    BY DEF TypeInv, Tables, Whole
  <2>3. IsInjective(dm.mp.block_ptr)
    BY <2>1, <2>2 DEF TypeInv, PoolOK, IsInjective, Blocks
  <2> QED BY <2>1, <2>3 DEF TypeInv, TypeOK, Labels
<1>2. DInv => DataSound
  BY <1>1, SearchesFind DEF DInv, DataSound
<1> QED BY <1>2, DataInvariant, PTL

\* At first the map is empty.
LEMMA MapInit == Init => Map!Init
<1> SUFFICES ASSUME Init PROVE Map!Init
  OBVIOUS
<1>1. Present = {}
  <2>1. PICK k \in Keys, v \in Values : dm = EmptyData(num_max, k, v)
    BY DEF Init
  <2>2. dm.mp = [num_used |-> 0, block_ptr |-> [i \in Blocks |-> i]]
    BY <2>1 DEF EmptyData, Blocks
  <2>3. InUse(dm.mp) = {} /\ Removing = {}
    BY <2>2 DEF InUse, Init, Removing
  <2> QED BY <2>3 DEF Present
<1>2. {dm.key[b] : b \in Present} = {}
  BY <1>1
<1>3. Entries = <<>>
  <2>1. DOMAIN Entries = {} /\ Entries = [k \in DOMAIN Entries |-> Entries[k]]
    BY <1>2 DEF Entries
  <2> HIDE DEF Entries
  <2> QED BY <2>1
<1> QED BY <1>3 DEF Init, Map!Init

\* What a step puts under a key is what the key's block holds after it.
LEMMA PutBlock ==
  ASSUME EntriesShape, EntriesShape', NEW b, NEW k, NEW e, dm'.key[b] = k,
         e = [data |-> dm'.data[b], count |-> dm'.count[b]],
         Present' = Present \cup {b}, b \in Present => dm.key[b] = k,
         \A a \in Present \ {b} : /\ dm.key[a] # k /\ dm'.key[a] = dm.key[a]
                                 /\ dm'.data[a] = dm.data[a] /\ dm'.count[a] = dm.count[a]
  PROVE  Entries' = [j \in DOMAIN Entries \cup {k} |-> IF j = k THEN e ELSE Entries[j]]
<1> DEFINE G == [j \in DOMAIN Entries \cup {k} |-> IF j = k THEN e ELSE Entries[j]]
<1>1. {dm'.key[a] : a \in Present'} = {dm.key[a] : a \in Present} \cup {k}
  <2>1. ASSUME NEW j \in {dm'.key[a] : a \in Present'} PROVE j \in {dm.key[a] : a \in Present} \cup {k}
    OBVIOUS
  <2>2. ASSUME NEW j \in {dm.key[a] : a \in Present} \cup {k} PROVE j \in {dm'.key[a] : a \in Present'}
    <3>1. CASE j = k
      BY <3>1
    <3>2. CASE j # k
      <4>1. PICK a \in Present : j = dm.key[a]
        BY <2>2, <3>2
      <4>2. a # b /\ dm'.key[a] = j
        BY <3>2, <4>1
      <4> QED BY <4>1, <4>2
    <3> QED BY <3>1, <3>2
  <2> QED BY <2>1, <2>2
<1>2. DOMAIN Entries' = DOMAIN G
  BY <1>1 DEF EntriesShape
<1>3. ASSUME NEW j \in DOMAIN G PROVE Entries'[j] = G[j]
  <2>1. CASE j = k
    <3>1. b \in Present' /\ Entries'[dm'.key[b]] = [data |-> dm'.data[b], count |-> dm'.count[b]]
      BY DEF EntriesShape
    <3> QED BY <2>1, <3>1
  <2>2. CASE j # k
    <3>1. PICK a \in Present : j = dm.key[a]
      BY <1>3, <2>2 DEF EntriesShape
    <3>2. a \in Present' /\ a # b /\ dm'.key[a] = j
      BY <2>2, <3>1
    <3>3. /\ Entries'[j] = [data |-> dm'.data[a], count |-> dm'.count[a]]
          /\ Entries[j] = [data |-> dm.data[a], count |-> dm.count[a]]
      BY <3>1, <3>2 DEF EntriesShape
    <3>4. dm'.data[a] = dm.data[a] /\ dm'.count[a] = dm.count[a]
      BY <3>1, <3>2
    <3> QED BY <2>2, <3>3, <3>4
  <2> QED BY <2>1, <2>2
<1>4. Entries' = [j \in DOMAIN Entries' |-> Entries'[j]]
  BY DEF EntriesShape
<1>5. G = [j \in DOMAIN G |-> G[j]]
  OBVIOUS
<1> HIDE DEF G
<1>6. Entries' = G
  BY <1>2, <1>3, <1>4, <1>5
<1> QED BY <1>6 DEF G

LEMMA MapReads == DInv => Settled /\ EntriesShape /\ Used \subseteq 0 .. num_max - 1
<1> SUFFICES ASSUME DInv PROVE Settled /\ EntriesShape /\ Used \subseteq 0 .. num_max - 1
  OBVIOUS
<1>1. Settled /\ EntriesShape
  BY PresentIs, EntriesAre DEF DInv
<1>2. Used \subseteq 0 .. num_max - 1
  BY Sizes, InUseCount DEF DInv, TypeInv, Used, Blocks
<1> QED BY <1>1, <1>2

\* An addition takes effect when its block is filled, a removal when it lowers num_used;
\* taking a block and filling the hole are not seen.
LEMMA MapStep == DInv /\ DInv' /\ [Next]_vars => [Map!Next]_(Map!vars)
<1> SUFFICES ASSUME DInv, DInv', [Next]_vars PROVE [Map!Next]_(Map!vars)
  OBVIOUS
<1>0. /\ TypeInv /\ Working /\ OneBlockPerKey /\ EntriesShape
      /\ \A b \in Present : dm.count[b] >= 1
  BY EntriesAre DEF DInv, OneBlockPerKey
<1>00. EntriesShape'
  BY MapReads, PTL
<1>1. /\ Present = (IF mutex = NoThread THEN Used ELSE Used \ {block[mutex]})
      /\ Present' = (IF mutex' = NoThread THEN Used' ELSE Used' \ {block'[mutex']})
      /\ NoThread \notin Threads /\ Used \subseteq Blocks /\ Used' \subseteq Blocks
  <2>1. Settled /\ Used \subseteq Blocks
    BY <1>0, PresentIs, Sizes, InUseCount DEF TypeInv, Used, Blocks
  <2>2. Settled' /\ Used' \subseteq Blocks
    <3>1. (Settled /\ EntriesShape /\ Used \subseteq 0 .. num_max - 1)'
      BY MapReads, PTL
    <3> QED BY <3>1 DEF Blocks
  <2> QED BY <2>1, <2>2, Sizes DEF Settled
<1>2. /\ dm.key \in [Blocks -> Keys] /\ dm.count \in [Blocks -> 0 .. MaxCount]
      /\ dm.data \in [Blocks -> Values] /\ Present \subseteq Blocks
  BY <1>0, <1>1 DEF TypeInv, Tables
<1>3. ASSUME Present' = Present, UNCHANGED <<mode, dm.key, dm.count, dm.data>>
      PROVE [Map!Next]_(Map!vars)
  BY <1>3 DEF Entries, Map!vars
<1>4. ASSUME NEW t \in Threads, NEW k \in Keys, NEW v \in Values, AddAlloc(t, k, v)
      PROVE [Map!Next]_(Map!vars)
  <2>1. /\ mutex = NoThread /\ mutex' = t
        /\ block'[t] \notin Used /\ Used' = Used \cup {block'[t]}
        /\ UNCHANGED <<mode, dm.key, dm.count, dm.data>>
    BY <1>0, <1>4, AddAllocDoes
  <2>2. Present' = Present
    BY <1>1, <2>1
  <2> QED BY <1>3, <2>1, <2>2
<1>5. ASSUME NEW t \in Threads, RemoveMove(t) PROVE [Map!Next]_(Map!vars)
  <2>1. /\ mutex = t /\ mutex' = NoThread /\ Used' = Used \ {block[t]}
        /\ UNCHANGED <<mode, dm.key, dm.count, dm.data>>
    BY <1>0, <1>5, RemoveMoveDoes
  <2>2. Present' = Present
    BY <1>1, <2>1
  <2> QED BY <1>3, <2>1, <2>2
<1>6. ASSUME NEW t \in Threads, Reads(t) PROVE [Map!Next]_(Map!vars)
  <2>1. Aside(t) /\ Used' = Used
    BY <1>0, <1>6, OthersDo DEF Reads
  <2>2. Present' = Present /\ UNCHANGED <<mode, dm.key, dm.count, dm.data>>
    BY <1>1, <2>1 DEF Aside
  <2> QED BY <1>3, <2>2
<1>7. ASSUME NEW t \in Threads, AddFill(t) PROVE [Map!Next]_(Map!vars)
  <2> DEFINE b == block[t]
             k == arg[t][1]
             v == arg[t][2]
  <2>1. /\ mutex = t /\ mutex' = NoThread /\ pc[t] = "add_fill" /\ b \in Used /\ Used' = Used
        /\ arg[t] \in Keys \X Values
        /\ dm'.key = [dm.key EXCEPT ![b] = k] /\ dm'.count = [dm.count EXCEPT ![b] = 1]
        /\ dm'.data = [dm.data EXCEPT ![b] = v]
        /\ UNCHANGED mode
    BY <1>0, <1>7, AddFillDoes
  <2>2. Present = Used \ {b} /\ Present' = Used
    BY <1>1, <2>1
  <2>3. \A a \in Present : dm.key[a] # k
    BY <1>0, <2>1, <2>2 DEF Working
  <2>4. k \in Keys /\ v \in Values
    BY <2>1
  <2> HIDE DEF b, k, v
  <2>5. /\ dm'.key[b] = k /\ dm'.count[b] = 1 /\ dm'.data[b] = v
        /\ \A a \in Present : /\ a # b /\ dm'.key[a] = dm.key[a]
                              /\ dm'.data[a] = dm.data[a] /\ dm'.count[a] = dm.count[a]
    BY <1>1, <1>2, <2>1, <2>2
  <2>6. Present' = Present \cup {b} /\ b \notin Present
    BY <2>1, <2>2
  <2>7. Map!Put(k, v, 1)
    <3>1. \A e : e = [data |-> dm'.data[b], count |-> dm'.count[b]] =>
            Entries' = [j \in DOMAIN Entries \cup {k} |-> IF j = k THEN e ELSE Entries[j]]
      <4>1. \A a \in Present \ {b} : /\ dm.key[a] # k /\ dm'.key[a] = dm.key[a]
                                     /\ dm'.data[a] = dm.data[a] /\ dm'.count[a] = dm.count[a]
        BY <2>3, <2>5
      <4>2. dm'.key[b] = k /\ EntriesShape /\ EntriesShape' /\ (b \in Present => dm.key[b] = k)
        BY <1>0, <1>00, <2>5, <2>6
      <4> SUFFICES ASSUME NEW e, e = [data |-> dm'.data[b], count |-> dm'.count[b]]
                   PROVE  Entries' = [j \in DOMAIN Entries \cup {k} |-> IF j = k THEN e ELSE Entries[j]]
        OBVIOUS
      <4> QED BY <2>6, <4>1, <4>2, PutBlock
    <3> QED BY <2>5, <3>1 DEF Map!Put
  <2>8. k \notin DOMAIN Entries
    BY <1>0, <2>3 DEF EntriesShape
  <2>9. Cardinality(DOMAIN Entries) < num_max
    <3>1. IsFiniteSet(Used) /\ Cardinality(Used) = Whole.num_used
      BY <1>0, Sizes, InUseCount DEF TypeInv, Used
    <3>2. IsFiniteSet(Present) /\ Cardinality(Present) = Whole.num_used - 1
      BY <2>1, <2>2, <3>1, FS_RemoveElement
    <3> DEFINE f == [a \in Present |-> dm.key[a]]
    <3>3. f \in Surjection(Present, DOMAIN Entries)
      BY <1>0 DEF EntriesShape, Surjection
    <3>4. Cardinality(DOMAIN Entries) <= Cardinality(Present) /\ IsFiniteSet(DOMAIN Entries)
      BY <3>2, <3>3, FS_Surjection
    <3>5. Whole.num_used \in 0 .. num_max
      BY <1>0 DEF TypeInv, PoolOK
    <3>6. Cardinality(DOMAIN Entries) \in Nat
      BY <3>4, FS_CardinalityType
    <3> QED BY <3>2, <3>4, <3>5, <3>6, Sizes
  <2>10. Map!Cardinality(DOMAIN Entries) = Cardinality(DOMAIN Entries)
    BY DEF Map!Cardinality, Cardinality
  <2>11. Map!Add(k, v)
    BY <2>7, <2>8, <2>9, <2>10 DEF Map!Add
  <2> QED BY <2>1, <2>4, <2>11 DEF Map!Next
<1>8. ASSUME NEW t \in Threads, NEW k \in Keys,
             RemoveCount(t, k) \/ \E v \in Values : AddAgain(t, k, v)
      PROVE [Map!Next]_(Map!vars)
  <2> DEFINE b == BlockOf(dm, k)
  <2>1. /\ mutex = NoThread /\ UNCHANGED <<mode, mutex, block>> /\ b \in Used /\ Touches(b)
        /\ dm.key[b] = k /\ dm'.key = dm.key /\ Used' = Used
    BY <1>0, <1>8, TouchDoes
  <2> HIDE DEF b
  <2>2. Present' = Present /\ b \in Present /\ b \in Blocks
    BY <1>1, <2>1
  <2>3. \A a \in Present \ {b} : dm.key[a] # k
    BY <1>0, <2>1, <2>2 DEF OneBlockPerKey
  <2>4. \A a \in Present \ {b} : /\ dm'.key[a] = dm.key[a]
                                 /\ dm'.data[a] = dm.data[a] /\ dm'.count[a] = dm.count[a]
    BY <1>2, <2>1 DEF Touches
  <2>5. \A e : e = [data |-> dm'.data[b], count |-> dm'.count[b]] =>
          Entries' = [j \in DOMAIN Entries \cup {k} |-> IF j = k THEN e ELSE Entries[j]]
    BY <1>0, <1>00, <2>1, <2>2, <2>3, <2>4, PutBlock
  <2>6. Map!Put(k, dm'.data[b], dm'.count[b])
    BY <2>5 DEF Map!Put
  <2>7. k \in DOMAIN Entries /\ Entries[k] = [data |-> dm.data[b], count |-> dm.count[b]]
    BY <1>0, <2>1, <2>2 DEF EntriesShape
  <2>8. Entries[k].data = dm.data[b] /\ Entries[k].count = dm.count[b]
    BY <2>7
  <2>9. ASSUME mode = "update", dm'.count = dm.count, NEW v \in Values, dm'.data = [dm.data EXCEPT ![b] = v]
        PROVE [Map!Next]_(Map!vars)
    <3>1. dm'.data[b] = v /\ dm'.count[b] = Entries[k].count
      BY <1>2, <2>2, <2>8, <2>9
    <3>2. Map!Put(k, v, Entries[k].count)
      BY <2>6, <3>1
    <3>3. Map!AddAgain(k, v)
      BY <2>7, <2>9, <3>2 DEF Map!AddAgain
    <3> QED BY <2>1, <3>3 DEF Map!Next
  <2>10. ASSUME mode = "countup", dm'.data = dm.data, dm'.count = [dm.count EXCEPT ![b] = dm.count[b] + 1]
         PROVE [Map!Next]_(Map!vars)
    <3>1. dm'.data[b] = Entries[k].data /\ dm'.count[b] = Entries[k].count + 1
      BY <1>2, <2>2, <2>8, <2>10
    <3>2. Map!Put(k, Entries[k].data, Entries[k].count + 1)
      BY <2>6, <3>1
    <3>3. dm.data[b] \in Values
      BY <1>2, <2>2
    <3>4. Map!AddAgain(k, dm.data[b])
      BY <2>7, <2>10, <3>2 DEF Map!AddAgain
    <3> QED BY <2>1, <3>3, <3>4 DEF Map!Next
  <2>11. ASSUME dm.count[b] > 1, dm'.data = dm.data, dm'.count = [dm.count EXCEPT ![b] = dm.count[b] - 1]
         PROVE [Map!Next]_(Map!vars)
    <3>1. dm'.data[b] = Entries[k].data /\ dm'.count[b] = Entries[k].count - 1
      BY <1>2, <2>2, <2>8, <2>11
    <3>2. Map!Put(k, Entries[k].data, Entries[k].count - 1)
      BY <2>6, <3>1
    <3>3. Entries[k].count # 1
      <4>1. dm.count[b] # 1
        BY <1>2, <2>2, <2>11
      <4> QED BY <2>8, <4>1
    <3>4. Map!Remove(k)
      BY <2>7, <3>2, <3>3 DEF Map!Remove
    <3> QED BY <2>1, <3>4 DEF Map!Next
  <2> QED BY <2>1, <2>9, <2>10, <2>11 DEF Touches
<1>9. ASSUME NEW t \in Threads, NEW k \in Keys, RemoveLast(t, k)
      PROVE [Map!Next]_(Map!vars)
  <2> DEFINE b == block'[t]
  <2>1. /\ mutex = NoThread /\ mutex' = t /\ b \in Used /\ dm.key[b] = k /\ dm.count[b] = 1
        /\ Used' = Used /\ UNCHANGED <<mode, dm.key, dm.data>>
        /\ dm'.count = [dm.count EXCEPT ![b] = 0]
    BY <1>0, <1>9, RemoveLastDoes
  <2>2. Present = Used /\ Present' = Used \ {b}
    BY <1>1, <2>1
  <2> HIDE DEF b
  <2>3. /\ \A a \in Present \ {b} : dm.key[a] # k
        /\ \A a \in Present \ {b} : dm'.count[a] = dm.count[a]
    BY <1>0, <1>2, <2>1, <2>2 DEF OneBlockPerKey
  <2>4. k \in DOMAIN Entries /\ Entries[k] = [data |-> dm.data[b], count |-> dm.count[b]]
    BY <1>0, <2>1, <2>2 DEF EntriesShape
  <2>5. Entries[k].count = 1
    BY <2>1, <2>4
  <2>6. DOMAIN Entries' = DOMAIN Entries \ {k}
    <3>1. DOMAIN Entries' = {dm.key[a] : a \in Present'} /\ DOMAIN Entries = {dm.key[a] : a \in Present}
      BY <1>0, <1>00, <2>1 DEF EntriesShape
    <3>2. {dm.key[a] : a \in Present \ {b}} = {dm.key[a] : a \in Present} \ {k}
      BY <2>1, <2>3
    <3> QED BY <2>2, <3>1, <3>2
  <2>7. ASSUME NEW j \in DOMAIN Entries' PROVE Entries'[j] = Entries[j]
    <3>1. PICK a \in Present' : j = dm'.key[a]
      BY <1>00, <2>7 DEF EntriesShape
    <3>2. a \in Present \ {b} /\ dm'.key[a] = dm.key[a] /\ dm'.count[a] = dm.count[a] /\ dm'.data = dm.data
      BY <2>1, <2>2, <2>3, <3>1
    <3>3. /\ Entries'[j] = [data |-> dm'.data[a], count |-> dm'.count[a]]
          /\ Entries[j] = [data |-> dm.data[a], count |-> dm.count[a]]
      BY <1>0, <1>00, <3>1, <3>2 DEF EntriesShape
    <3> QED BY <3>2, <3>3
  <2>8. Entries' = [j \in DOMAIN Entries' |-> Entries'[j]]
    BY <1>00 DEF EntriesShape
  <2>9. Entries' = Restrict(Entries, DOMAIN Entries \ {k})
    BY <2>6, <2>7, <2>8 DEF Restrict
  <2>10. Map!Remove(k)
    BY <2>4, <2>5, <2>9 DEF Map!Remove, Restrict, Map!Restrict
  <2> QED BY <2>1, <2>10 DEF Map!Next
<1>10. CASE UNCHANGED vars
  <2>1. Used' = Used
    BY <1>10 DEF vars, Used, Whole, Removing
  <2> QED BY <1>1, <1>3, <1>10, <2>1 DEF vars
<1> QED BY <1>4, <1>5, <1>6, <1>7, <1>8, <1>9, <1>10, Kinds

\* Whoever calls em_gdatamng's functions, and in whatever order their steps come, sees a
\* map of at most num_max keys in which every call takes effect at once (107-351).
THEOREM DataImplementsMap == Spec => ImplementsKeyedMap
  BY MapInit, MapStep, DataInvariant, PTL DEF Spec, ImplementsKeyedMap, Map!Spec
=============================================================================
