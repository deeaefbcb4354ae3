------------------------------ MODULE DataMng ------------------------------
(***************************************************************************)
(* em_gdatamng.c (and em_idatamng.c, which calls it with integer keys):    *)
(* keyed data over a pool.  Additions, removals and searches take the      *)
(* manager's mutex; em_gdatamng_get_keyval_by_idx does not, and the        *)
(* pointers that em_gdatamng_get_data_ptr hands out are used without it.   *)
(*                                                                         *)
(* A call that is refused, and a search that copies its answer, change     *)
(* nothing and are not actions; the searches are operators.                *)
(***************************************************************************)
EXTENDS KeyedBlocks, Functions

CONSTANTS Threads,   \* the threads that share the data
          Keys, Values,
          num_max,   \* the number of blocks
          NoThread,  \* the owner of a mutex nobody holds
          MaxCount   \* bound of the model: a key is not counted past it

ASSUME DataAssumption == /\ num_max \in Nat \ {0}
                         /\ MaxCount \in Nat \ {0}
                         /\ NoThread \notin Threads

Blocks == 0 .. num_max - 1

VARIABLES
  dm,        \* the blocks of em_datamng_t
  mode,      \* duplicate_mode
  mutex,     \* owner of dm->mutex
  pc,        \* what each thread is about to do
  arg,       \* its key and datum, or its element index
  block,     \* the block an addition or a removal works on
  ptr,       \* the block a caller keeps a pointer to, and the key it asked for
  stale,     \* history: that key has been removed since
  pair,      \* the blocks whose key and whose datum a caller got by index
  calm       \* history: nothing was being removed since that call began

vars == <<dm, mode, mutex, pc, arg, block, ptr, stale, pair, calm>>

NoArg == <<>>
NoPtr == [block |-> NoBlock, key |-> NoArg]
NoPair == [key |-> NoBlock, val |-> NoBlock]

Goto(t, l) == pc' = [pc EXCEPT ![t] = l]
Removing == {t \in Threads : pc[t] = "remove_move"}

Init == /\ \E k \in Keys, v \in Values : dm = EmptyData(num_max, k, v)
        /\ mode \in {"error", "update", "countup"}
        /\ mutex = NoThread
        /\ pc = [t \in Threads |-> "idle"]
        /\ arg = [t \in Threads |-> NoArg]
        /\ block = [t \in Threads |-> NoBlock]
        /\ ptr = [t \in Threads |-> NoPtr]
        /\ stale = [t \in Threads |-> FALSE]
        /\ pair = [t \in Threads |-> NoPair]
        /\ calm = [t \in Threads |-> FALSE]

\* A call that enters the mutex, and one that leaves it.
Enter(t, l) == pc[t] = "idle" /\ mutex = NoThread /\ mutex' = t /\ Goto(t, l)
Leave(t) == /\ mutex' = NoThread
            /\ Goto(t, "idle")
            /\ arg' = [arg EXCEPT ![t] = NoArg]
            /\ block' = [block EXCEPT ![t] = NoBlock]

\* A call that takes the mutex and gives it back with one change in between.
Within(t) == pc[t] = "idle" /\ mutex = NoThread

----------------------------------------------------------------------------
(* em_gdatamng_add_data *)

\* Mutant: a free block is taken without looking for the key first.
AddAlloc_NoSearch(t, k, v) ==
  /\ Enter(t, "add_fill")
  /\ ~PoolFull(dm.mp)
  /\ dm' = [dm EXCEPT !.mp = PoolAlloc(@)]
  /\ block' = [block EXCEPT ![t] = PoolNext(dm.mp)]
  /\ arg' = [arg EXCEPT ![t] = <<k, v>>]
  /\ UNCHANGED <<mode, ptr, stale, pair, calm>>

\* A key that is not there yet gets a block; the pool counts it as used before
\* it is filled.
AddAlloc(t, k, v) ==
  /\ Enter(t, "add_fill")
  /\ BlockOf(dm, k) = NoBlock
  /\ ~PoolFull(dm.mp)
  /\ dm' = [dm EXCEPT !.mp = PoolAlloc(@)]
  /\ block' = [block EXCEPT ![t] = PoolNext(dm.mp)]
  /\ arg' = [arg EXCEPT ![t] = <<k, v>>]
  /\ UNCHANGED <<mode, ptr, stale, pair, calm>>

AddFill(t) ==
  /\ pc[t] = "add_fill"
  /\ dm' = Filled(dm, block[t], arg[t][1], arg[t][2])
  /\ Leave(t)
  /\ UNCHANGED <<mode, ptr, stale, pair, calm>>

\* Mutant: where additions are counted the datum is replaced, too.
AddAgain_Replaces(t, k, v) ==
  /\ Within(t)
  /\ LET b == BlockOf(dm, k) IN
     /\ b # NoBlock
     /\ mode # "error"
     /\ mode = "countup" => dm.count[b] < MaxCount
     /\ dm' = [dm EXCEPT !.data[b] = v, !.count[b] = IF mode = "countup" THEN @ + 1 ELSE @]
  /\ UNCHANGED <<mode, mutex, pc, arg, block, ptr, stale, pair, calm>>

\* A key that is there: the datum is replaced or the count goes up.
AddAgain(t, k, v) ==
  /\ Within(t)
  /\ LET b == BlockOf(dm, k) IN
     /\ b # NoBlock
     /\ \/ mode = "update" /\ dm' = [dm EXCEPT !.data[b] = v]
        \/ /\ mode = "countup" /\ dm.count[b] < MaxCount
           /\ dm' = [dm EXCEPT !.count[b] = @ + 1]
  /\ UNCHANGED <<mode, mutex, pc, arg, block, ptr, stale, pair, calm>>

----------------------------------------------------------------------------
(* em_gdatamng_remove_data *)

\* One of several additions is taken back.
RemoveCount(t, k) ==
  /\ Within(t)
  /\ LET b == BlockOf(dm, k) IN
     /\ b # NoBlock /\ dm.count[b] > 1
     /\ dm' = [dm EXCEPT !.count[b] = @ - 1]
  /\ UNCHANGED <<mode, mutex, pc, arg, block, ptr, stale, pair, calm>>

\* The last one: the block goes back to the pool, which first lowers num_used.
\* Pointers to the datum dangle from here on, and elements change their places.
RemoveLast(t, k) ==
  /\ Enter(t, "remove_move")
  /\ LET b == BlockOf(dm, k) IN
     /\ b # NoBlock /\ dm.count[b] <= 1
     /\ dm' = [dm EXCEPT !.count[b] = @ - 1, !.mp.num_used = @ - 1]
     /\ block' = [block EXCEPT ![t] = b]
  /\ arg' = [arg EXCEPT ![t] = <<k>>]
  /\ stale' = [u \in Threads |-> stale[u] \/ ptr[u].key = k]
  /\ calm' = [u \in Threads |-> FALSE]
  /\ UNCHANGED <<mode, ptr, pair>>

\* Mutant: the hole is filled with the datum of the last block, too.
RemoveMove_Data(t) ==
  /\ pc[t] = "remove_move"
  /\ LET last == dm.mp.block_ptr[dm.mp.num_used] IN
     dm' = [dm EXCEPT !.mp = PoolFree([@ EXCEPT !.num_used = @ + 1], last),
                      !.key[block[t]] = dm.key[last], !.data[block[t]] = dm.data[last],
                      !.count[block[t]] = dm.count[last]]
  /\ Leave(t)
  /\ UNCHANGED <<mode, ptr, stale, pair, calm>>

\* Mutant: the freed block is not put where the last one was.
RemoveMove_Forgets(t) ==
  /\ pc[t] = "remove_move"
  /\ LET last == dm.mp.num_used
         hole == CHOOSE i \in 0 .. last : dm.mp.block_ptr[i] = block[t]
     IN dm' = [dm EXCEPT !.mp.block_ptr[hole] = dm.mp.block_ptr[last]]
  /\ Leave(t)
  /\ UNCHANGED <<mode, ptr, stale, pair, calm>>

\* Then the pool moves its last block into the hole; the data stay where they are.
RemoveMove(t) ==
  /\ pc[t] = "remove_move"
  /\ LET before == [dm.mp EXCEPT !.num_used = @ + 1]
     IN dm' = [dm EXCEPT !.mp = PoolFree(before, block[t])]
  /\ Leave(t)
  /\ UNCHANGED <<mode, ptr, stale, pair, calm>>

----------------------------------------------------------------------------
(* em_gdatamng_get_data_ptr: the pointer outlives the mutex. *)

GetPtr(t, k) ==
  /\ Within(t)
  /\ BlockOf(dm, k) # NoBlock
  /\ ptr' = [ptr EXCEPT ![t] = [block |-> BlockOf(dm, k), key |-> k]]
  /\ stale' = [stale EXCEPT ![t] = FALSE]
  /\ UNCHANGED <<dm, mode, mutex, pc, arg, block, pair, calm>>

\* The caller has done with it.
DropPtr(t) ==
  /\ pc[t] = "idle" /\ ptr[t] # NoPtr
  /\ ptr' = [ptr EXCEPT ![t] = NoPtr]
  /\ stale' = [stale EXCEPT ![t] = FALSE]
  /\ UNCHANGED <<dm, mode, mutex, pc, arg, block, pair, calm>>

----------------------------------------------------------------------------
(* The searches that copy their answer under the mutex. *)

GetData(k) == IF BlockOf(dm, k) = NoBlock THEN NoArg ELSE dm.data[BlockOf(dm, k)]

GetDataCnt(k) == IF BlockOf(dm, k) = NoBlock THEN -1 ELSE dm.count[BlockOf(dm, k)]

\* _em_gdatamng_get_data_index_by_func, the comparator being equality.
DataIndexByFunc(v) == FirstBlock(dm, {b \in Blocks : dm.data[b] = v})

\* em_gdatamng_get_data_by_func
GetDataByFunc(v) ==
  IF DataIndexByFunc(v) = NoBlock THEN NoArg ELSE dm.data[DataIndexByFunc(v)]

\* Mutant: the key is taken from the place the block has in block_ptr (as in line 290).
KeyByFunc_Place(v) ==
  IF DataIndexByFunc(v) = NoBlock THEN NoArg
  ELSE dm.key[CHOOSE i \in Blocks : dm.mp.block_ptr[i] = DataIndexByFunc(v)]

\* em_gdatamng_get_key_by_func
KeyByFunc(v) == IF DataIndexByFunc(v) = NoBlock THEN NoArg ELSE dm.key[DataIndexByFunc(v)]

----------------------------------------------------------------------------
(* em_gdatamng_get_keyval_by_idx: no mutex, and block_ptr is read twice. *)

ElemTest(t, elem_idx) ==
  /\ pc[t] = "idle"
  /\ elem_idx < dm.mp.num_used
  /\ arg' = [arg EXCEPT ![t] = <<elem_idx>>]
  /\ calm' = [calm EXCEPT ![t] = Removing = {}]
  /\ Goto(t, "elem_key")
  /\ UNCHANGED <<dm, mode, mutex, block, ptr, stale, pair>>

\* Mutant: the key is the one of the element, not of its block (as in line 290).
ElemKey_OfElement(t) ==
  /\ pc[t] = "elem_key"
  /\ pair' = [pair EXCEPT ![t].key = arg[t][1]]
  /\ Goto(t, "elem_val")
  /\ UNCHANGED <<dm, mode, mutex, arg, block, ptr, stale, calm>>

ElemKey(t) ==
  /\ pc[t] = "elem_key"
  /\ pair' = [pair EXCEPT ![t].key = dm.mp.block_ptr[arg[t][1]]]
  /\ Goto(t, "elem_val")
  /\ UNCHANGED <<dm, mode, mutex, arg, block, ptr, stale, calm>>

ElemVal(t) ==
  /\ pc[t] = "elem_val"
  /\ pair' = [pair EXCEPT ![t].val = dm.mp.block_ptr[arg[t][1]]]
  /\ Goto(t, "elem_done")
  /\ UNCHANGED <<dm, mode, mutex, arg, block, ptr, stale, calm>>

ElemReturn(t) ==
  /\ pc[t] = "elem_done"
  /\ Goto(t, "idle")
  /\ arg' = [arg EXCEPT ![t] = NoArg]
  /\ pair' = [pair EXCEPT ![t] = NoPair]
  /\ calm' = [calm EXCEPT ![t] = FALSE]
  /\ UNCHANGED <<dm, mode, mutex, block, ptr, stale>>

----------------------------------------------------------------------------
Next == \E t \in Threads :
          \/ \E k \in Keys, v \in Values : AddAlloc(t, k, v) \/ AddAgain(t, k, v)
          \/ \E k \in Keys : RemoveCount(t, k) \/ RemoveLast(t, k) \/ GetPtr(t, k)
          \/ \E i \in Blocks : ElemTest(t, i)
          \/ AddFill(t) \/ RemoveMove(t) \/ DropPtr(t)
          \/ ElemKey(t) \/ ElemVal(t) \/ ElemReturn(t)

Spec == Init /\ [][Next]_vars

----------------------------------------------------------------------------
(* Properties. *)

TypeOK == /\ dm.mp.num_used \in 0 .. num_max
          /\ dm.mp.block_ptr \in [Blocks -> Blocks] /\ IsInjective(dm.mp.block_ptr)
          /\ dm.key \in [Blocks -> Keys]
          /\ dm.count \in [Blocks -> 0 .. MaxCount]
          /\ dm.data \in [Blocks -> Values]
          /\ mode \in {"error", "update", "countup"}
          /\ mutex \in Threads \cup {NoThread}
          /\ pc \in [Threads -> {"idle", "add_fill", "remove_move", "elem_key", "elem_val", "elem_done"}]
          /\ block \in [Threads -> Blocks \cup {NoBlock}]
          /\ ptr \in [Threads -> [block : Blocks, key : Keys] \cup {NoPtr}]
          /\ pair \in [Threads -> [key : Blocks \cup {NoBlock}, val : Blocks \cup {NoBlock}]]

\* The blocks whose data are there: not the one being filled, nor the one being
\* taken out while the array still names it instead of the last one.
Filling == {block[t] : t \in {u \in Threads : pc[u] = "add_fill"}}
Present == IF Removing = {} THEN InUse(dm.mp) \ Filling
           ELSE {dm.mp.block_ptr[i] : i \in 0 .. dm.mp.num_used} \ {block[t] : t \in Removing}

\* A key is in one block only, its count is what additions and removals left, and
\* more than one only where additions are counted (em_gdatamng.c:143-184, 258-275).
OneBlockPerKey ==
  /\ \A a, b \in Present : dm.key[a] = dm.key[b] => a = b
  /\ \A b \in Present : dm.count[b] >= 1 /\ (mode # "countup" => dm.count[b] = 1)

\* A pointer to a datum (line 210) stays good, whatever else is added and removed,
\* until its own key is removed: the pool moves its records, never the data.
PointerKept ==
  \A t \in Threads : ptr[t] # NoPtr /\ ~stale[t] =>
    ptr[t].block \in Present /\ dm.key[ptr[t].block] = ptr[t].key

\* A key and a datum got by index (lines 365-368) belong together although no mutex
\* is held, as long as nothing is removed meanwhile: additions do not disturb it.
PairBelongsTogether ==
  \A t \in Threads : pc[t] = "elem_done" /\ calm[t] => pair[t].key = pair[t].val

\* The data as its callers see them.
Entries == [k \in {dm.key[b] : b \in Present} |->
              LET b == CHOOSE b \in Present : dm.key[b] = k
              IN [data |-> dm.data[b], count |-> dm.count[b]]]

\* A search by key or by datum that gets the mutex answers what is stored, wherever
\* additions and removals have left the blocks; a key found by its datum is one that
\* is stored with it (em_gdatamng.c:231-259, 300-351).
SearchesAgree == mutex = NoThread =>
  /\ \A k \in Keys : IF k \in DOMAIN Entries
       THEN [data |-> GetData(k), count |-> GetDataCnt(k)] = Entries[k]
       ELSE GetData(k) = NoArg /\ GetDataCnt(k) = -1
  /\ \A v \in Values : IF \E k \in DOMAIN Entries : Entries[k].data = v
       THEN /\ KeyByFunc(v) \in DOMAIN Entries /\ Entries[KeyByFunc(v)].data = v
            /\ GetDataByFunc(v) = v
       ELSE KeyByFunc(v) = NoArg

Map == INSTANCE KeyedMap WITH entries <- Entries, Capacity <- num_max
ImplementsKeyedMap == Map!Spec

\* The table at rest and under way: a key in one block, counts that are right, and
\* searches that answer what is stored (107-189, 231-351).
DataSound == TypeOK /\ OneBlockPerKey /\ SearchesAgree
=============================================================================
