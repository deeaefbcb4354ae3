--------------------------- MODULE TaskMngProofs ---------------------------
(***************************************************************************)
(* The registry of tasks (TaskMng) for any number of applications,         *)
(* threads, task ids and blocks: what is registered, what a task finds     *)
(* when it asks for its own id, and whose messages are in a queue.         *)
(***************************************************************************)
EXTENDS TaskMng, CommonLemmas

AppLabels == {"idle", "queue", "start", "register", "post", "join", "destroy", "remove", "enqueue"}
ThreadLabels == {"none", "start", "running", "ended", "find_queue", "dequeue", "enqueue"}

Infos == [thread : Tids \cup {NoTid}, msgs : Seq(TaskIds), live : BOOLEAN]

\* Block b is in use for task id k.
Has(b, k) == b \in InUse(tm.mp) /\ tm.key[b] = k

\* The registry: no id is in it twice.
RegistryOK ==
  /\ tm \in [mp : [num_used : 0 .. max_num_task, block_ptr : [Blocks -> Blocks]],
             key : [Blocks -> TaskIds], count : [Blocks -> {0, 1}], data : [Blocks -> Infos]]
  /\ PoolOK(tm.mp, max_num_task)
  /\ \A b \in Blocks : tm.count[b] = IF b \in InUse(tm.mp) THEN 1 ELSE 0
  /\ \A b, c \in InUse(tm.mp) : tm.key[b] = tm.key[c] => b = c

TaskTypes ==
  /\ sem \in Nat
  /\ pc \in [Actors -> AppLabels \cup ThreadLabels]
  /\ \A a \in Apps : pc[a] \in AppLabels
  /\ \A h \in Tids : pc[h] \in ThreadLabels
  /\ id \in [Actors -> TaskIds \cup {NoTask}]
  /\ ptr \in [Actors -> Blocks \cup {NoBlock}]
  /\ tid \in [Apps -> Tids \cup {NoTid}]
  /\ task \in [Tids -> TaskIds \cup {NoTask}]
  /\ created \subseteq TaskIds
  /\ stale \in [Actors -> BOOLEAN] /\ misled \in [Actors -> BOOLEAN] /\ raced \in BOOLEAN
  /\ \A x \in Actors : pc[x] \notin {"idle", "none", "start", "running", "ended"} => id[x] \in TaskIds
  /\ \A x \in Actors : pc[x] \in {"enqueue", "dequeue"} => ptr[x] \in Blocks

\* An id is worked on by one application: created by it, and not among the created ones,
\* or deleted by it, and still among them.
ClaimsOK ==
  /\ \A a \in Creating : id[a] \in TaskIds /\ id[a] \notin created
  /\ \A a \in Deleting : id[a] \in created
  /\ \A a, o \in Creating \cup Deleting : id[a] = id[o] => a = o

Starting(a) == pc[a] \in {"register", "post"}
Ending(k) == \E a \in Apps : id[a] = k /\ pc[a] \in {"destroy", "remove"}

\* A thread belongs to an application that is creating its task or to a created task that
\* has not been joined, and no task has two.
ThreadsOK ==
  /\ \A h \in Tids : pc[h] = "none" <=> task[h] = NoTask
  /\ \A h, g \in Tids : task[h] = task[g] /\ task[h] # NoTask => h = g
  /\ \A a \in Apps : Starting(a) \/ pc[a] = "join" => tid[a] \in Tids /\ task[tid[a]] = id[a]
  /\ \A h \in Tids : task[h] # NoTask =>
       \/ \E a \in Apps : Starting(a) /\ tid[a] = h
       \/ task[h] \in created /\ ~Ending(task[h])

\* A task has its block from AddQueue to Remove; the block names its thread from Register on,
\* and its queue is there until DestroyQueue.
BlocksOK ==
  /\ \A a \in Apps : pc[a] = "start" => \E b \in Blocks : Has(b, id[a])
  /\ \A a \in Apps : Starting(a) => Has(ptr[a], id[a])
  /\ \A a \in Apps : pc[a] = "post" => tm.data[ptr[a]].thread = tid[a]
  /\ \A k \in created : \E b \in Blocks : Has(b, k)
  /\ \A b \in InUse(tm.mp) : tm.key[b] \in created /\ ~Ending(tm.key[b]) =>
       tm.data[b].thread \in Tids /\ task[tm.data[b].thread] = tm.key[b]
  /\ \A b \in InUse(tm.mp) : tm.data[b].live \/ \E a \in Apps : pc[a] = "remove" /\ id[a] = tm.key[b]

\* Whoever has a pointer to a queue has one to the right task's, unless the histories say
\* how it came to another's.
PointersOK ==
  /\ \A h \in Tids : pc[h] = "find_queue" /\ ~misled[h] => id[h] = task[h]
  /\ \A h \in Tids : pc[h] = "dequeue" /\ ~misled[h] => Has(ptr[h], task[h])
  /\ \A x \in Actors : pc[x] = "enqueue" /\ ~stale[x] => Has(ptr[x], id[x]) /\ ~BeingDeleted(id[x])

MessagesOK ==
  ~raced => \A b \in InUse(tm.mp) : \A i \in DOMAIN tm.data[b].msgs :
              tm.data[b].msgs[i] = tm.key[b]

TaskInv == /\ RegistryOK /\ TaskTypes /\ ClaimsOK /\ ThreadsOK /\ BlocksOK
           /\ PointersOK /\ MessagesOK /\ StartsAccounted

----------------------------------------------------------------------------
(* The registry. *)

LEMMA TaskSizes == max_num_task \in Nat /\ Blocks = 0 .. max_num_task - 1 /\ NoBlock \notin Blocks
  BY TaskAssumption DEF Blocks, NoBlock

LEMMA PoolIs == RegistryOK => InUse(tm.mp) \subseteq Blocks /\ DOMAIN tm.key = Blocks
<1>1. RegistryOK => InUse(tm.mp) \subseteq Blocks
  BY TaskSizes, InUseCount DEF RegistryOK
<1> QED BY <1>1 DEF RegistryOK

\* A search by id finds the block that has it.
LEMMA BlockOfIs ==
  ASSUME RegistryOK, NEW k
  PROVE  /\ BlockOf(tm, k) # NoBlock => Has(BlockOf(tm, k), k) /\ BlockOf(tm, k) \in Blocks
         /\ \A b : Has(b, k) => BlockOf(tm, k) = b
<1> DEFINE W == {b \in DOMAIN tm.key : tm.key[b] = k}
<1>1. /\ FirstBlock(tm, W) = NoBlock <=> InUse(tm.mp) \cap W = {}
      /\ FirstBlock(tm, W) # NoBlock => FirstBlock(tm, W) \in InUse(tm.mp) \cap W
  BY TaskSizes, FirstBlockFinds DEF RegistryOK
<1>2. BlockOf(tm, k) = FirstBlock(tm, W)
  BY DEF BlockOf
<1>3. \A b \in W : tm.key[b] = k
  OBVIOUS
<1>4. \A b : Has(b, k) => b \in InUse(tm.mp) \cap W
  BY PoolIs DEF Has
<1> HIDE DEF W
<1>5. \A b, c \in InUse(tm.mp) : tm.key[b] = tm.key[c] => b = c
  BY DEF RegistryOK
<1> QED BY <1>1, <1>2, <1>3, <1>4, <1>5, PoolIs DEF Has

\* A search by thread finds a block that names it, if there is one.
LEMMA OwnBlockIs ==
  ASSUME RegistryOK, NEW h
  PROVE  /\ OwnBlock(h) # NoBlock => OwnBlock(h) \in InUse(tm.mp) /\ tm.data[OwnBlock(h)].thread = h
         /\ \A b \in InUse(tm.mp) : tm.data[b].thread = h => OwnBlock(h) # NoBlock
<1> DEFINE W == {b \in Blocks : tm.data[b].thread = h}
<1>1. /\ FirstBlock(tm, W) = NoBlock <=> InUse(tm.mp) \cap W = {}
      /\ FirstBlock(tm, W) # NoBlock => FirstBlock(tm, W) \in InUse(tm.mp) \cap W
  BY TaskSizes, FirstBlockFinds DEF RegistryOK
<1>2. OwnBlock(h) = FirstBlock(tm, W) /\ \A b \in W : tm.data[b].thread = h
  BY DEF OwnBlock
<1>3. \A b \in InUse(tm.mp) : tm.data[b].thread = h => b \in W
  BY PoolIs
<1> HIDE DEF W
<1> QED BY <1>1, <1>2, <1>3

\* Once its thread is announced, a task's block names that thread.
LEMMA AnnouncedNames ==
  ASSUME TaskInv, NEW b \in InUse(tm.mp), Announced(tm.key[b])
  PROVE  tm.data[b].thread \in Tids /\ task[tm.data[b].thread] = tm.key[b]
<1>1. RegistryOK /\ ThreadsOK /\ BlocksOK
  BY DEF TaskInv
<1>2. CASE tm.key[b] \in created /\ \A a \in Deleting : id[a] = tm.key[b] => pc[a] = "join"
  <2>1. ~Ending(tm.key[b])
    BY <1>2 DEF Ending, Deleting
  <2> QED BY <1>1, <1>2, <2>1 DEF BlocksOK
<1>3. CASE \E a \in Creating : id[a] = tm.key[b] /\ pc[a] = "post"
  <2>1. PICK a \in Apps : id[a] = tm.key[b] /\ pc[a] = "post"
    BY <1>3 DEF Creating
  <2>2. ptr[a] = b
    BY <1>1, <2>1 DEF RegistryOK, BlocksOK, Starting, Has
  <2> QED BY <1>1, <2>1, <2>2 DEF BlocksOK, ThreadsOK, Starting
<1> QED BY <1>2, <1>3 DEF Announced

\* An announced task has a block.
LEMMA AnnouncedHas ==
  ASSUME TaskInv, NEW k, Announced(k)
  PROVE  \E b \in InUse(tm.mp) : tm.key[b] = k
<1>1. CASE k \in created
  BY <1>1 DEF TaskInv, BlocksOK, Has
<1>2. CASE \E a \in Creating : id[a] = k /\ pc[a] = "post"
  BY <1>2 DEF TaskInv, BlocksOK, Starting, Creating, Has
<1> QED BY <1>1, <1>2 DEF Announced

\* What a running thread learns about itself
LEMMA OwnIdIs ==
  ASSUME TaskInv, NEW h \in Tids, pc[h] = "running"
  PROVE  /\ Announced(task[h]) => OwnBlock(h) # NoBlock
         /\ OwnBlock(h) # NoBlock /\ Announced(tm.key[OwnBlock(h)]) => tm.key[OwnBlock(h)] = task[h]
<1>1. RegistryOK /\ ThreadsOK /\ task[h] # NoTask
  BY DEF TaskInv, ThreadsOK
<1>2. ASSUME Announced(task[h]) PROVE OwnBlock(h) # NoBlock
  <2>1. PICK b \in InUse(tm.mp) : tm.key[b] = task[h]
    BY <1>2, AnnouncedHas
  <2>2. tm.data[b].thread \in Tids /\ task[tm.data[b].thread] = task[h]
    BY <1>2, <2>1, AnnouncedNames
  <2>3. tm.data[b].thread = h
    BY <1>1, <2>2 DEF ThreadsOK
  <2> QED BY <1>1, <2>3, OwnBlockIs
<1>3. ASSUME OwnBlock(h) # NoBlock, Announced(tm.key[OwnBlock(h)])
      PROVE  tm.key[OwnBlock(h)] = task[h]
  <2>1. OwnBlock(h) \in InUse(tm.mp) /\ tm.data[OwnBlock(h)].thread = h
    BY <1>1, <1>3, OwnBlockIs
  <2> QED BY <1>3, <2>1, AnnouncedNames
<1> QED BY <1>2, <1>3

\* Taskinfo d is written to block b.
Writes(b, d) == /\ tm'.mp = tm.mp /\ tm'.key = tm.key /\ tm'.count = tm.count
                /\ tm'.data = [tm.data EXCEPT ![b] = d]

LEMMA WrittenOK ==
  ASSUME RegistryOK, NEW b \in Blocks, NEW d \in Infos, tm' = [tm EXCEPT !.data[b] = d]
  PROVE  /\ RegistryOK' /\ Writes(b, d)
         /\ \A c, k : Has(c, k)' <=> Has(c, k)
         /\ tm'.data[b] = d /\ \A c \in Blocks \ {b} : tm'.data[c] = tm.data[c]
<1>1. Writes(b, d)
  BY DEF RegistryOK, Writes
<1>2. tm' \in [mp : [num_used : 0 .. max_num_task, block_ptr : [Blocks -> Blocks]],
               key : [Blocks -> TaskIds], count : [Blocks -> {0, 1}], data : [Blocks -> Infos]]
  BY DEF RegistryOK
<1>3. RegistryOK'
  BY <1>1, <1>2 DEF RegistryOK, Writes
<1> QED BY <1>1, <1>3 DEF RegistryOK, Writes, Has

\* The taskinfos that the actions write
LEMMA InfoIs ==
  ASSUME RegistryOK, NEW b \in Blocks
  PROVE  /\ tm.data[b] \in Infos
         /\ tm.data[b] = TaskInfo(tm.data[b].thread, tm.data[b].msgs, tm.data[b].live)
         /\ tm.data[b].thread \in Tids \cup {NoTid} /\ tm.data[b].msgs \in Seq(TaskIds)
         /\ tm.data[b].live \in BOOLEAN
  BY DEF RegistryOK, Infos, TaskInfo

LEMMA InfoChanged ==
  ASSUME NEW d \in Infos, NEW l
  PROVE  [d EXCEPT !.live = l] = TaskInfo(d.thread, d.msgs, l)
  BY DEF TaskInfo, Infos

LEMMA InfoMade ==
  ASSUME NEW h \in Tids \cup {NoTid}, NEW q \in Seq(TaskIds), NEW l \in BOOLEAN
  PROVE  /\ TaskInfo(h, q, l) \in Infos /\ TaskInfo(h, q, l).thread = h
         /\ TaskInfo(h, q, l).msgs = q /\ TaskInfo(h, q, l).live = l
  BY DEF TaskInfo, Infos

\* What an action writes, and where: the rest of the registry stays as it is.
Rewrites(b, h, q, l) ==
  /\ RegistryOK' /\ \A c, k : Has(c, k)' <=> Has(c, k)
  /\ InUse(tm'.mp) = InUse(tm.mp) /\ tm'.key = tm.key
  /\ tm'.data[b].thread = h /\ tm'.data[b].msgs = q /\ tm'.data[b].live = l
  /\ \A c \in Blocks \ {b} : tm'.data[c] = tm.data[c]

LEMMA RewritesIs ==
  ASSUME RegistryOK, NEW b \in Blocks, NEW h \in Tids \cup {NoTid}, NEW q \in Seq(TaskIds),
         NEW l \in BOOLEAN, tm' = [tm EXCEPT !.data[b] = TaskInfo(h, q, l)]
  PROVE  Rewrites(b, h, q, l)
<1>1. PICK d : d = TaskInfo(h, q, l)
  OBVIOUS
<1>2. d \in Infos /\ d.thread = h /\ d.msgs = q /\ d.live = l
  BY <1>1, InfoMade, Zenon
<1>3. /\ RegistryOK' /\ Writes(b, d)
      /\ \A c, k : Has(c, k)' <=> Has(c, k)
      /\ tm'.data[b] = d /\ \A c \in Blocks \ {b} : tm'.data[c] = tm.data[c]
  BY <1>1, <1>2, WrittenOK
<1> QED BY <1>2, <1>3 DEF Rewrites, Writes

LEMMA RenewWrites ==
  ASSUME TaskInv, NEW a \in Apps, RenewQueue(a)
  PROVE  \E b \in Blocks : Has(b, id[a]) /\ Rewrites(b, tm.data[b].thread, <<>>, TRUE)
<1>1. PICK b : b = BlockOf(tm, id[a])
  OBVIOUS
<1>2. Has(b, id[a]) /\ b \in Blocks
  BY <1>1, BlockOfIs DEF TaskInv, RenewQueue
<1>3. tm' = [tm EXCEPT !.data[b] = TaskInfo(tm.data[b].thread, <<>>, TRUE)]
  BY <1>1 DEF RenewQueue
<1>4. tm.data[b].thread \in Tids \cup {NoTid} /\ <<>> \in Seq(TaskIds)
  BY <1>2, InfoIs DEF TaskInv
<1>5. Rewrites(b, tm.data[b].thread, <<>>, TRUE)
  BY <1>2, <1>3, <1>4, RewritesIs DEF TaskInv
<1> QED BY <1>2, <1>5

LEMMA RegisterWrites ==
  ASSUME TaskInv, NEW a \in Apps, Register(a)
  PROVE  Rewrites(ptr[a], tid[a], tm.data[ptr[a]].msgs, tm.data[ptr[a]].live)
<1>1. PICK b : b = ptr[a]
  OBVIOUS
<1>2. Has(b, id[a]) /\ b \in Blocks /\ tid[a] \in Tids
  BY <1>1, PoolIs DEF TaskInv, BlocksOK, ThreadsOK, Starting, Register, Has
<1>3. tm' = [tm EXCEPT !.data[b] = [@ EXCEPT !.thread = tid[a]]]
  BY <1>1 DEF Register
<1>4. tm.data[b] \in Infos
  BY <1>2, InfoIs DEF TaskInv
<1>5. [tm.data[b] EXCEPT !.thread = tid[a]] = TaskInfo(tid[a], tm.data[b].msgs, tm.data[b].live)
  BY <1>4 DEF Infos, TaskInfo
<1>6. tm.data[b].msgs \in Seq(TaskIds) /\ tm.data[b].live \in BOOLEAN
  BY <1>4 DEF Infos
<1>7. tm' = [tm EXCEPT !.data[b] = TaskInfo(tid[a], tm.data[b].msgs, tm.data[b].live)]
  BY <1>3, <1>5
<1>8. Rewrites(b, tid[a], tm.data[b].msgs, tm.data[b].live)
  BY <1>2, <1>6, <1>7, RewritesIs DEF TaskInv
<1> QED BY <1>1, <1>8

LEMMA DestroyWrites ==
  ASSUME TaskInv, NEW a \in Apps, DestroyQueue(a)
  PROVE  \E b \in Blocks : Has(b, id[a]) /\ Rewrites(b, tm.data[b].thread, tm.data[b].msgs, FALSE)
<1>1. PICK b \in Blocks : Has(b, id[a])
  BY DEF TaskInv, ClaimsOK, BlocksOK, Deleting, DestroyQueue
<1>2. b = BlockOf(tm, id[a])
  BY <1>1, BlockOfIs DEF TaskInv
<1>3. tm' = [tm EXCEPT !.data[b] = [@ EXCEPT !.live = FALSE]]
  BY <1>2 DEF DestroyQueue
<1>4. tm.data[b] \in Infos
  BY <1>1, InfoIs DEF TaskInv
<1>5. [tm.data[b] EXCEPT !.live = FALSE] = TaskInfo(tm.data[b].thread, tm.data[b].msgs, FALSE)
  BY <1>4, InfoChanged, Zenon
<1>6. tm.data[b].msgs \in Seq(TaskIds) /\ tm.data[b].thread \in Tids \cup {NoTid}
  BY <1>4 DEF Infos
<1>7. tm' = [tm EXCEPT !.data[b] = TaskInfo(tm.data[b].thread, tm.data[b].msgs, FALSE)]
  BY <1>3, <1>5
<1>8. Rewrites(b, tm.data[b].thread, tm.data[b].msgs, FALSE)
  BY <1>1, <1>6, <1>7, RewritesIs DEF TaskInv
<1> QED BY <1>1, <1>8

\* A message at the end of the queue, or one less at its head
LEMMA SendWrites ==
  ASSUME TaskInv, NEW x \in Actors, Send(x)
  PROVE  \/ tm' = tm
         \/ /\ ptr[x] \in Blocks
            /\ Rewrites(ptr[x], tm.data[ptr[x]].thread, Append(tm.data[ptr[x]].msgs, id[x]),
                        tm.data[ptr[x]].live)
<1>1. PICK b : b = ptr[x]
  OBVIOUS
<1>2. b \in Blocks /\ id[x] \in TaskIds
  BY <1>1 DEF TaskInv, TaskTypes, Send
<1>3. PICK q : q = Append(tm.data[b].msgs, id[x])
  OBVIOUS
<1>4. tm' = tm \/ tm' = [tm EXCEPT !.data[b] = [@ EXCEPT !.msgs = q]]
  BY <1>1, <1>3 DEF Send
<1>5. tm.data[b] \in Infos
  BY <1>2, InfoIs DEF TaskInv
<1>6. [tm.data[b] EXCEPT !.msgs = q] = TaskInfo(tm.data[b].thread, q, tm.data[b].live)
  BY <1>5 DEF Infos, TaskInfo
<1>7. tm.data[b].msgs \in Seq(TaskIds) /\ tm.data[b].thread \in Tids \cup {NoTid} /\ tm.data[b].live \in BOOLEAN
  BY <1>5 DEF Infos
<1>8. q \in Seq(TaskIds)
  BY <1>2, <1>3, <1>7
<1>9. tm' = tm \/ tm' = [tm EXCEPT !.data[b] = TaskInfo(tm.data[b].thread, q, tm.data[b].live)]
  BY <1>4, <1>6
<1>10. tm' = tm \/ Rewrites(b, tm.data[b].thread, q, tm.data[b].live)
  BY <1>2, <1>7, <1>8, <1>9, RewritesIs DEF TaskInv
<1> QED BY <1>1, <1>2, <1>3, <1>10

LEMMA ReceiveWrites ==
  ASSUME TaskInv, NEW h \in Tids, Receive(h)
  PROVE  \/ tm' = tm
         \/ /\ ptr[h] \in Blocks /\ tm.data[ptr[h]].msgs # <<>>
            /\ Rewrites(ptr[h], tm.data[ptr[h]].thread, Tail(tm.data[ptr[h]].msgs),
                        tm.data[ptr[h]].live)
<1>1. PICK b : b = ptr[h]
  OBVIOUS
<1>2. b \in Blocks
  BY <1>1 DEF TaskInv, TaskTypes, Receive, Actors
<1>3. PICK q : q = Tail(tm.data[b].msgs)
  OBVIOUS
<1>4. tm' = tm \/ (tm.data[b].msgs # <<>> /\ tm' = [tm EXCEPT !.data[b] = [@ EXCEPT !.msgs = q]])
  BY <1>1, <1>3 DEF Receive
<1>5. tm.data[b] \in Infos
  BY <1>2, InfoIs DEF TaskInv
<1>6. [tm.data[b] EXCEPT !.msgs = q] = TaskInfo(tm.data[b].thread, q, tm.data[b].live)
  BY <1>5 DEF Infos, TaskInfo
<1>7. tm.data[b].msgs \in Seq(TaskIds) /\ tm.data[b].thread \in Tids \cup {NoTid} /\ tm.data[b].live \in BOOLEAN
  BY <1>5 DEF Infos
<1>8. tm.data[b].msgs # <<>> => q \in Seq(TaskIds)
  BY <1>3, <1>7
<1>9. tm' = tm \/ (tm.data[b].msgs # <<>> /\ tm' = [tm EXCEPT !.data[b] = TaskInfo(tm.data[b].thread, q, tm.data[b].live)])
  BY <1>4, <1>6
<1>10. tm' = tm \/ (tm.data[b].msgs # <<>> /\ Rewrites(b, tm.data[b].thread, q, tm.data[b].live))
  BY <1>2, <1>7, <1>8, <1>9, RewritesIs DEF TaskInv
<1> QED BY <1>1, <1>2, <1>3, <1>10

\* A new taskinfo takes a block nobody uses, and a removed one gives its block back.
Adds(b, k, h) ==
  /\ RegistryOK' /\ b \in Blocks \ InUse(tm.mp) /\ InUse(tm'.mp) = InUse(tm.mp) \cup {b}
  /\ \A c, i : Has(c, i)' <=> Has(c, i) \/ (c = b /\ i = k)
  /\ tm'.key[b] = k /\ \A c \in Blocks \ {b} : tm'.key[c] = tm.key[c]
  /\ tm'.data[b].thread = h /\ tm'.data[b].msgs = <<>> /\ tm'.data[b].live
  /\ \A c \in Blocks \ {b} : tm'.data[c] = tm.data[c]

Removes(b) ==
  /\ RegistryOK' /\ InUse(tm'.mp) = InUse(tm.mp) \ {b}
  /\ \A c, i : Has(c, i)' <=> Has(c, i) /\ c # b
  /\ tm'.key = tm.key /\ tm'.data = tm.data

LEMMA RegistryShape ==
  ASSUME NEW p \in [num_used : 0 .. max_num_task, block_ptr : [Blocks -> Blocks]],
         NEW k \in [Blocks -> TaskIds], NEW c \in [Blocks -> {0, 1}], NEW d \in [Blocks -> Infos]
  PROVE  [mp |-> p, key |-> k, count |-> c, data |-> d]
           \in [mp : [num_used : 0 .. max_num_task, block_ptr : [Blocks -> Blocks]],
               key : [Blocks -> TaskIds], count : [Blocks -> {0, 1}], data : [Blocks -> Infos]]
  OBVIOUS

LEMMA AddsIs ==
  ASSUME RegistryOK, NEW k \in TaskIds, BlockOf(tm, k) = NoBlock, ~PoolFull(tm.mp),
         NEW h \in Tids \cup {NoTid},
         tm' = Filled([tm EXCEPT !.mp = PoolAlloc(@)], PoolNext(tm.mp), k, TaskInfo(h, <<>>, TRUE))
  PROVE  \E b \in Blocks : Adds(b, k, h)
<1>1. PICK b : b = PoolNext(tm.mp)
  OBVIOUS
<1>2. PICK p : p = PoolAlloc(tm.mp)
  OBVIOUS
<1>3. PICK d : d = TaskInfo(h, <<>>, TRUE)
  OBVIOUS
<1>4. d \in Infos /\ d.thread = h /\ d.msgs = <<>> /\ d.live
  <2>1. <<>> \in Seq(TaskIds) /\ TRUE \in BOOLEAN
    OBVIOUS
  <2> QED BY <1>3, <2>1, InfoMade, Zenon
<1>5. tm.mp.num_used # max_num_task
  BY PoolFullWhen, TaskSizes DEF RegistryOK
<1>6. /\ PoolOK(p, max_num_task) /\ b \in 0 .. max_num_task - 1 /\ b \notin InUse(tm.mp)
      /\ InUse(p) = InUse(tm.mp) \cup {b}
  BY <1>1, <1>2, <1>5, PoolAllocTakes, TaskSizes DEF RegistryOK
<1>7. b \in Blocks
  BY <1>6 DEF Blocks
<1>8. /\ tm'.mp = p /\ tm'.key = [tm.key EXCEPT ![b] = k] /\ tm'.count = [tm.count EXCEPT ![b] = 1]
      /\ tm'.data = [tm.data EXCEPT ![b] = d]
  <2>1. tm' = Filled([tm EXCEPT !.mp = p], b, k, d)
    BY <1>1, <1>2, <1>3
  <2> QED BY <2>1 DEF Filled, RegistryOK
<1>9. tm' \in [mp : [num_used : 0 .. max_num_task, block_ptr : [Blocks -> Blocks]],
               key : [Blocks -> TaskIds], count : [Blocks -> {0, 1}], data : [Blocks -> Infos]]
  <2>1. p \in [num_used : 0 .. max_num_task, block_ptr : [Blocks -> Blocks]]
    BY <1>6 DEF PoolOK, Blocks
  <2>2. /\ [tm.key EXCEPT ![b] = k] \in [Blocks -> TaskIds]
        /\ [tm.count EXCEPT ![b] = 1] \in [Blocks -> {0, 1}]
        /\ [tm.data EXCEPT ![b] = d] \in [Blocks -> Infos]
    BY <1>4, <1>7 DEF RegistryOK
  <2>3. PICK ke, co, da : /\ ke = [tm.key EXCEPT ![b] = k] /\ co = [tm.count EXCEPT ![b] = 1]
                          /\ da = [tm.data EXCEPT ![b] = d]
    OBVIOUS
  <2>4. tm' = [mp |-> p, key |-> ke, count |-> co, data |-> da]
    BY <1>1, <1>2, <1>3, <2>3 DEF Filled, RegistryOK
  <2>5. [mp |-> p, key |-> ke, count |-> co, data |-> da]
          \in [mp : [num_used : 0 .. max_num_task, block_ptr : [Blocks -> Blocks]],
              key : [Blocks -> TaskIds], count : [Blocks -> {0, 1}], data : [Blocks -> Infos]]
    <3>1. /\ p \in [num_used : 0 .. max_num_task, block_ptr : [Blocks -> Blocks]]
          /\ ke \in [Blocks -> TaskIds] /\ co \in [Blocks -> {0, 1}] /\ da \in [Blocks -> Infos]
      BY <2>1, <2>2, <2>3
    <3> QED BY <3>1, RegistryShape, Zenon
  <2> QED BY <2>4, <2>5, Zenon
<1>10. \A c \in InUse(tm.mp) : tm.key[c] # k
  BY BlockOfIs, PoolIs, TaskSizes DEF Has
<1>11. /\ tm'.key[b] = k /\ \A c \in Blocks \ {b} : tm'.key[c] = tm.key[c]
       /\ tm'.count[b] = 1 /\ \A c \in Blocks \ {b} : tm'.count[c] = tm.count[c]
       /\ tm'.data[b] = d /\ \A c \in Blocks \ {b} : tm'.data[c] = tm.data[c]
  BY <1>7, <1>8 DEF RegistryOK
<1>12. InUse(tm'.mp) = InUse(tm.mp) \cup {b}
  BY <1>6, <1>8
<1>13. RegistryOK'
  <2>1. \A c \in Blocks : tm'.count[c] = IF c \in InUse(tm'.mp) THEN 1 ELSE 0
    BY <1>11, <1>12 DEF RegistryOK
  <2>2. \A c, e \in InUse(tm'.mp) : tm'.key[c] = tm'.key[e] => c = e
    <3>1. \A c \in InUse(tm.mp) : c \in Blocks \ {b} /\ tm'.key[c] = tm.key[c]
      BY <1>6, <1>11, PoolIs
    <3>2. \A c, e \in InUse(tm.mp) : tm.key[c] = tm.key[e] => c = e
      BY DEF RegistryOK
    <3>3. PICK ke : ke = tm'.key
      OBVIOUS
    <3>4. ke[b] = k /\ \A c \in InUse(tm.mp) : c # b /\ ke[c] = tm.key[c]
      BY <1>11, <3>1, <3>3
    <3>5. \A c, e \in InUse(tm.mp) \cup {b} : ke[c] = ke[e] => c = e
      BY <3>2, <3>4, <1>10, Zenon
    <3> QED BY <3>3, <3>5, <1>12, Zenon
  <2>3. PoolOK(tm'.mp, max_num_task)
    BY <1>6, <1>8
  <2> QED BY <1>9, <2>1, <2>2, <2>3 DEF RegistryOK
<1>14. \A c, i : Has(c, i)' <=> Has(c, i) \/ (c = b /\ i = k)
  BY <1>6, <1>11, <1>12, PoolIs DEF Has
<1>15. tm'.data[b].thread = h /\ tm'.data[b].msgs = <<>> /\ tm'.data[b].live
  BY <1>4, <1>11, Zenon
<1>16. b \in Blocks \ InUse(tm.mp)
  BY <1>6, <1>7
<1>17. Adds(b, k, h)
  BY <1>11, <1>12, <1>13, <1>14, <1>15, <1>16, Zenon DEF Adds
<1> QED BY <1>7, <1>17, Zenon

LEMMA RemovesIs ==
  ASSUME RegistryOK, NEW b \in InUse(tm.mp),
         tm' = [tm EXCEPT !.count[b] = 0, !.mp = PoolFree(@, b)]
  PROVE  Removes(b)
<1>1. PICK p : p = PoolFree(tm.mp, b)
  OBVIOUS
<1>2. PoolOK(p, max_num_task) /\ InUse(p) = InUse(tm.mp) \ {b}
  BY <1>1, PoolFreeReturns, TaskSizes DEF RegistryOK
<1>3. b \in Blocks
  BY PoolIs
<1>4. /\ tm'.mp = p /\ tm'.count = [tm.count EXCEPT ![b] = 0]
      /\ tm'.key = tm.key /\ tm'.data = tm.data
      /\ tm' = [mp |-> p, key |-> tm.key, count |-> [tm.count EXCEPT ![b] = 0], data |-> tm.data]
  BY <1>1 DEF RegistryOK
<1>5. tm' \in [mp : [num_used : 0 .. max_num_task, block_ptr : [Blocks -> Blocks]],
               key : [Blocks -> TaskIds], count : [Blocks -> {0, 1}], data : [Blocks -> Infos]]
  <2>1. p \in [num_used : 0 .. max_num_task, block_ptr : [Blocks -> Blocks]]
    BY <1>2 DEF PoolOK, Blocks
  <2>2. [tm.count EXCEPT ![b] = 0] \in [Blocks -> {0, 1}]
    BY <1>3 DEF RegistryOK
  <2> QED BY <1>4, <2>1, <2>2 DEF RegistryOK
<1>6. \A c \in Blocks : tm'.count[c] = IF c \in InUse(tm'.mp) THEN 1 ELSE 0
  BY <1>2, <1>3, <1>4 DEF RegistryOK
<1>7. RegistryOK'
  BY <1>2, <1>4, <1>5, <1>6 DEF RegistryOK
<1>8. InUse(tm'.mp) = InUse(tm.mp) \ {b}
  BY <1>2, <1>4
<1>9. \A c, i : Has(c, i)' <=> Has(c, i) /\ c # b
  BY <1>4, <1>8 DEF Has
<1> QED BY <1>4, <1>7, <1>8, <1>9 DEF Removes

LEMMA AddWrites ==
  ASSUME TaskInv, NEW a \in Apps, AddQueue(a)
  PROVE  \E h \in Tids \cup {NoTid} : \E b \in Blocks : Adds(b, id[a], h)
<1>1. id[a] \in TaskIds /\ BlockOf(tm, id[a]) = NoBlock /\ ~PoolFull(tm.mp)
  BY DEF TaskInv, ClaimsOK, Creating, AddQueue
<1>2. PICK h \in Tids \cup {NoTid} :
        tm' = Filled([tm EXCEPT !.mp = PoolAlloc(@)], PoolNext(tm.mp), id[a], TaskInfo(h, <<>>, TRUE))
  BY DEF AddQueue
<1> QED BY <1>1, <1>2, AddsIs DEF TaskInv

LEMMA RemoveWrites ==
  ASSUME TaskInv, NEW a \in Apps, Remove(a)
  PROVE  \E b \in Blocks : Has(b, id[a]) /\ Removes(b)
<1>1. PICK b \in Blocks : Has(b, id[a])
  BY DEF TaskInv, ClaimsOK, BlocksOK, Deleting, Remove
<1>2. b = BlockOf(tm, id[a])
  BY <1>1, BlockOfIs DEF TaskInv
<1>3. tm' = [tm EXCEPT !.count[b] = 0, !.mp = PoolFree(@, b)]
  BY <1>2 DEF Remove
<1> QED BY <1>1, <1>3, RemovesIs DEF TaskInv, Has

----------------------------------------------------------------------------
(* The steps. *)

\* The registry stays sound.
LEMMA RegistryNext == TaskInv /\ [Next]_vars => RegistryOK'
<1> SUFFICES ASSUME TaskInv, [Next]_vars PROVE RegistryOK'
  OBVIOUS
<1>0. tm' = tm => RegistryOK'
  BY DEF TaskInv, RegistryOK
<1>1. ASSUME NEW a \in Apps, RenewQueue(a) PROVE RegistryOK'
  BY <1>1, RenewWrites DEF Rewrites
<1>2. ASSUME NEW a \in Apps, AddQueue(a) PROVE RegistryOK'
  BY <1>2, AddWrites DEF Adds
<1>3. ASSUME NEW a \in Apps, Register(a) PROVE RegistryOK'
  BY <1>3, RegisterWrites DEF Rewrites
<1>4. ASSUME NEW a \in Apps, DestroyQueue(a) PROVE RegistryOK'
  BY <1>4, DestroyWrites DEF Rewrites
<1>5. ASSUME NEW a \in Apps, Remove(a) PROVE RegistryOK'
  BY <1>5, RemoveWrites DEF Removes
<1>6. ASSUME NEW x \in Actors, Send(x) PROVE RegistryOK'
  BY <1>0, <1>6, SendWrites DEF Rewrites
<1>7. ASSUME NEW h \in Tids, Receive(h) PROVE RegistryOK'
  BY <1>0, <1>7, ReceiveWrites DEF Rewrites
<1>8. ASSUME NEW a \in Apps, AddFails(a) \/ StartThread(a) \/ StartFails(a) \/ Post(a) \/ Join(a)
      PROVE  tm' = tm
  BY <1>8 DEF AddFails, StartThread, StartFails, Post, Join
<1>9. ASSUME NEW a \in Apps, NEW k \in TaskIds, CreateCall(a, k) \/ DeleteCall(a, k)
      PROVE  tm' = tm
  BY <1>9 DEF CreateCall, DeleteCall
<1>10. ASSUME NEW h \in Tids, Start(h) \/ FindSelf(h) \/ FindQueue(h) \/ End(h)
       PROVE  tm' = tm
  BY <1>10 DEF Start, FindSelf, FindQueue, End
<1>11. ASSUME NEW x \in Actors, NEW k \in TaskIds, FindAddressee(x, k)
       PROVE  tm' = tm
  BY <1>11 DEF FindAddressee
<1>12. UNCHANGED vars => tm' = tm
  BY DEF vars
<1> QED
  BY <1>0, <1>1, <1>2, <1>3, <1>4, <1>5, <1>6, <1>7, <1>8, <1>9, <1>10, <1>11, <1>12
     DEF Next, AppStep, TaskStep

\* The local variables keep their types.
LEMMA TypesNext == TaskInv /\ [Next]_vars => TaskTypes'
<1> SUFFICES ASSUME TaskInv, [Next]_vars PROVE TaskTypes'
  OBVIOUS
<1> USE TaskSizes DEF TaskTypes, Actors, AppLabels, ThreadLabels, Goto, Leave, Home, locals, history
<1>t. TaskTypes
  BY DEF TaskInv
<1>a. Apps \cap Tids = {} /\ NoTask \notin TaskIds
  BY TaskAssumption
<1>1. ASSUME NEW a \in Apps, RenewQueue(a) \/ AddQueue(a) \/ DestroyQueue(a) PROVE TaskTypes'
  BY <1>1, <1>t, <1>a DEF RenewQueue, AddQueue, DestroyQueue
<1>2. ASSUME NEW a \in Apps, AddFails(a) \/ StartFails(a) PROVE TaskTypes'
  BY <1>2, <1>t, <1>a, ZenonT(60) DEF AddFails, StartFails
<1>3. ASSUME NEW a \in Apps, Post(a) PROVE TaskTypes'
  BY <1>3, <1>t, <1>a DEF Post
<1>4. ASSUME NEW a \in Apps, Remove(a) PROVE TaskTypes'
  BY <1>4, <1>t, <1>a DEF Remove
<1>5. ASSUME NEW a \in Apps, Register(a) PROVE TaskTypes'
  BY <1>5, <1>t, <1>a DEF Register
<1>6. ASSUME NEW a \in Apps, StartThread(a) PROVE TaskTypes'
  <2>1. BlockOf(tm, id[a]) \in Blocks \cup {NoBlock}
    BY BlockOfIs DEF TaskInv
  <2>2. id[a] \in TaskIds
    BY <1>6 DEF StartThread, TaskInv, ClaimsOK, Creating
  <2>3. PICK h \in Tids : /\ pc' = [pc EXCEPT ![a] = "register", ![h] = "start"]
                          /\ tid' = [tid EXCEPT ![a] = h]
                          /\ task' = [task EXCEPT ![h] = id[a]]
    BY <1>6 DEF StartThread
  <2>4. /\ ptr' \in [Actors -> Blocks \cup {NoBlock}] /\ \A x \in Actors \ {a} : ptr'[x] = ptr[x]
        /\ UNCHANGED <<tm, sem, id, created, history>>
    BY <1>6, <1>t, <2>1 DEF StartThread
  <2> QED BY <1>t, <1>a, <2>2, <2>3, <2>4
<1>7. ASSUME NEW a \in Apps, Join(a) PROVE TaskTypes'
  <2>1. tid[a] \in Tids
    BY <1>7 DEF Join, TaskInv, ThreadsOK
  <2> QED BY <1>7, <1>t, <1>a, <2>1 DEF Join
<1>8. ASSUME NEW a \in Apps, NEW k \in TaskIds, CreateCall(a, k) PROVE TaskTypes'
  BY <1>8, <1>t, <1>a DEF CreateCall
<1>9. ASSUME NEW a \in Apps, NEW k \in TaskIds, DeleteCall(a, k) PROVE TaskTypes'
  <2>1. tm.data[BlockOf(tm, k)].thread \in Tids \cup {NoTid}
    BY <1>9, BlockOfIs, InfoIs DEF DeleteCall, TaskInv
  <2>2. [x \in Actors |-> stale[x] \/ id[x] = k] \in [Actors -> BOOLEAN]
    OBVIOUS
  <2> QED BY <1>9, <1>t, <1>a, <2>1, <2>2 DEF DeleteCall
<1>10. ASSUME NEW h \in Tids, Start(h) \/ End(h) PROVE TaskTypes'
  BY <1>10, <1>t, <1>a, SMTT(60) DEF Start, End
<1>11. ASSUME NEW h \in Tids, FindSelf(h) PROVE TaskTypes'
  <2>1. tm.key[OwnBlock(h)] \in TaskIds
    BY <1>11, OwnBlockIs, PoolIs DEF FindSelf, TaskInv, RegistryOK
  <2>2. misled' \in [Actors -> BOOLEAN]
    BY <1>11, <1>t DEF FindSelf
  <2>3. PICK k \in TaskIds : id' = [id EXCEPT ![h] = k]
    BY <1>11, <2>1 DEF FindSelf
  <2>4. pc' = [pc EXCEPT ![h] = "find_queue"] /\ UNCHANGED <<tm, sem, ptr, tid, task, created, stale, raced>>
    BY <1>11 DEF FindSelf
  <2> QED BY <1>t, <1>a, <2>2, <2>3, <2>4
<1>12. ASSUME NEW h \in Tids, FindQueue(h) PROVE TaskTypes'
  <2>1. BlockOf(tm, id[h]) # NoBlock => BlockOf(tm, id[h]) \in Blocks
    BY BlockOfIs DEF TaskInv
  <2>2. CASE Leave(h) /\ UNCHANGED <<tm, sem, tid, task, created, raced>>
    BY <2>2, <1>t, <1>a
  <2>3. ASSUME NEW b \in Blocks, ptr' = [ptr EXCEPT ![h] = b], pc' = [pc EXCEPT ![h] = "dequeue"],
               pc[h] = "find_queue", UNCHANGED <<tm, sem, id, tid, task, created, stale, misled, raced>>
        PROVE  TaskTypes'
    BY <2>3, <1>t, <1>a
  <2> HIDE DEF TaskTypes
  <2> QED BY <1>12, <2>1, <2>2, <2>3 DEF FindQueue
<1>13. ASSUME NEW h \in Tids, Receive(h) PROVE TaskTypes'
  BY <1>13, <1>t, <1>a DEF Receive
<1>14. ASSUME NEW x \in Actors, Send(x) PROVE TaskTypes'
  <2>1. (raced \/ stale[x]) \in BOOLEAN
    BY <1>t
  <2> QED BY <1>14, <1>t, <1>a, <2>1 DEF Send
<1>15. ASSUME NEW x \in Actors, NEW k \in TaskIds, FindAddressee(x, k) PROVE TaskTypes'
  <2>1. BlockOf(tm, k) \in Blocks
    BY <1>15, BlockOfIs DEF FindAddressee, TaskInv
  <2>2. stale' \in [Actors -> BOOLEAN]
    BY <1>15, <1>t DEF FindAddressee, BeingDeleted
  <2>3. PICK b \in Blocks : ptr' = [ptr EXCEPT ![x] = b]
    BY <1>15, <2>1 DEF FindAddressee
  <2>4. /\ id' = [id EXCEPT ![x] = k] /\ pc' = [pc EXCEPT ![x] = "enqueue"]
        /\ UNCHANGED <<tm, sem, tid, task, created, misled, raced>>
    BY <1>15 DEF FindAddressee
  <2> QED BY <1>t, <1>a, <2>2, <2>3, <2>4
<1>16. UNCHANGED vars => TaskTypes'
  BY <1>t DEF vars
<1> HIDE DEF TaskTypes
<1> QED
  BY <1>1, <1>2, <1>3, <1>4, <1>5, <1>6, <1>7, <1>8, <1>9, <1>10, <1>11, <1>12, <1>13, <1>14,
     <1>15, <1>16 DEF Next, AppStep, TaskStep

\* No id is worked on by two.
LEMMA ClaimsNext == TaskInv /\ [Next]_vars => ClaimsOK'
<1> SUFFICES ASSUME TaskInv, [Next]_vars PROVE ClaimsOK'
  OBVIOUS
<1> USE DEF ClaimsOK, Creating, Deleting, Actors, Goto, Leave, Home, locals
<1>t. /\ pc \in [Actors -> AppLabels \cup ThreadLabels] /\ id \in [Actors -> TaskIds \cup {NoTask}]
      /\ created \subseteq TaskIds
  BY DEF TaskInv, TaskTypes
<1>c. ClaimsOK
  BY DEF TaskInv
<1>a. Apps \cap Tids = {} /\ NoTask \notin TaskIds
  BY TaskAssumption
<1>1. ASSUME NEW a \in Apps, RenewQueue(a) \/ AddQueue(a) \/ Register(a) \/ DestroyQueue(a)
      PROVE  ClaimsOK'
  BY <1>1, <1>t, <1>c, <1>a, ZenonT(60) DEF RenewQueue, AddQueue, Register, DestroyQueue
<1>2. ASSUME NEW a \in Apps, AddFails(a) \/ StartFails(a) PROVE ClaimsOK'
  BY <1>2, <1>t, <1>c, <1>a DEF AddFails, StartFails
<1>3. ASSUME NEW a \in Apps, Post(a) PROVE ClaimsOK'
  BY <1>3, <1>t, <1>c, <1>a DEF Post
<1>4. ASSUME NEW a \in Apps, Remove(a) PROVE ClaimsOK'
  BY <1>4, <1>t, <1>c, <1>a DEF Remove
<1>5. ASSUME NEW a \in Apps, StartThread(a) PROVE ClaimsOK'
  BY <1>5, <1>t, <1>c, <1>a DEF StartThread
<1>6. ASSUME NEW a \in Apps, Join(a) PROVE ClaimsOK'
  <2>1. tid[a] \in Tids
    BY <1>6 DEF Join, TaskInv, ThreadsOK
  <2> QED BY <1>6, <1>t, <1>c, <1>a, <2>1 DEF Join
<1>7. ASSUME NEW a \in Apps, NEW k \in TaskIds, CreateCall(a, k) PROVE ClaimsOK'
  BY <1>7, <1>t, <1>c, <1>a DEF CreateCall, Claimed
<1>8. ASSUME NEW a \in Apps, NEW k \in TaskIds, DeleteCall(a, k) PROVE ClaimsOK'
  BY <1>8, <1>t, <1>c, <1>a DEF DeleteCall, Claimed
<1>9. ASSUME NEW h \in Tids, Start(h) \/ End(h) \/ FindSelf(h) PROVE ClaimsOK'
  BY <1>9, <1>t, <1>c, <1>a DEF Start, End, FindSelf
<1>10. ASSUME NEW h \in Tids, FindQueue(h) \/ Receive(h) PROVE ClaimsOK'
  BY <1>10, <1>t, <1>c, <1>a DEF FindQueue, Receive
<1>11. ASSUME NEW x \in Actors, Send(x) PROVE ClaimsOK'
  BY <1>11, <1>t, <1>c, <1>a DEF Send
<1>12. ASSUME NEW x \in Actors, NEW k \in TaskIds, FindAddressee(x, k) PROVE ClaimsOK'
  BY <1>12, <1>t, <1>c, <1>a DEF FindAddressee
<1>13. UNCHANGED vars => ClaimsOK'
  BY <1>c DEF vars
<1> HIDE DEF ClaimsOK
<1> QED
  BY <1>1, <1>2, <1>3, <1>4, <1>5, <1>6, <1>7, <1>8, <1>9, <1>10, <1>11, <1>12, <1>13
     DEF Next, AppStep, TaskStep

\* Every thread stays the thread of its task.
LEMMA ThreadsNext == TaskInv /\ [Next]_vars => ThreadsOK'
<1> SUFFICES ASSUME TaskInv, [Next]_vars PROVE ThreadsOK'
  OBVIOUS
<1> USE DEF ThreadsOK, Starting, Ending, Creating, Deleting, Actors, Goto, Leave, Home, locals
<1>t. /\ pc \in [Actors -> AppLabels \cup ThreadLabels] /\ id \in [Actors -> TaskIds \cup {NoTask}]
      /\ created \subseteq TaskIds /\ tid \in [Apps -> Tids \cup {NoTid}]
      /\ task \in [Tids -> TaskIds \cup {NoTask}]
  BY DEF TaskInv, TaskTypes
<1>c. ThreadsOK
  BY DEF TaskInv
<1>d. ClaimsOK
  BY DEF TaskInv
<1>a. Apps \cap Tids = {} /\ NoTask \notin TaskIds
  BY TaskAssumption
<1>1. ASSUME NEW a \in Apps, RenewQueue(a) \/ AddQueue(a) \/ Register(a) \/ DestroyQueue(a)
      PROVE  ThreadsOK'
  <2>1. /\ UNCHANGED <<id, tid, task, created>> /\ \A h \in Tids : pc'[h] = pc[h]
        /\ \A o \in Apps : o # a => pc'[o] = pc[o]
    BY <1>1, <1>t, <1>a DEF RenewQueue, AddQueue, Register, DestroyQueue
  <2>2. \/ pc[a] = "queue" /\ pc'[a] = "start"
        \/ pc[a] = "register" /\ pc'[a] = "post"
        \/ pc[a] = "destroy" /\ pc'[a] = "remove"
    BY <1>1, <1>t DEF RenewQueue, AddQueue, Register, DestroyQueue
  <2> QED BY <2>1, <2>2, <1>c
<1>2. ASSUME NEW a \in Apps, AddFails(a) \/ StartFails(a) PROVE ThreadsOK'
  BY <1>2, <1>t, <1>c, <1>a DEF AddFails, StartFails
<1>3. ASSUME NEW a \in Apps, Post(a) PROVE ThreadsOK'
  BY <1>3, <1>t, <1>c, <1>d, <1>a DEF Post, ClaimsOK
<1>4. ASSUME NEW a \in Apps, Remove(a) PROVE ThreadsOK'
  BY <1>4, <1>t, <1>c, <1>d, <1>a DEF Remove, ClaimsOK
<1>5. ASSUME NEW a \in Apps, StartThread(a) PROVE ThreadsOK'
  BY <1>5, <1>t, <1>c, <1>d, <1>a DEF StartThread, ClaimsOK
<1>6. ASSUME NEW a \in Apps, Join(a) PROVE ThreadsOK'
  BY <1>6, <1>t, <1>c, <1>d, <1>a DEF Join, ClaimsOK
<1>7. ASSUME NEW a \in Apps, NEW k \in TaskIds, CreateCall(a, k) PROVE ThreadsOK'
  BY <1>7, <1>t, <1>c, <1>a DEF CreateCall
<1>8. ASSUME NEW a \in Apps, NEW k \in TaskIds, DeleteCall(a, k) PROVE ThreadsOK'
  <2>1. tm.data[BlockOf(tm, k)].thread \in Tids /\ task[tm.data[BlockOf(tm, k)].thread] = k
    <3>1. Has(BlockOf(tm, k), k) /\ k \in created /\ ~Ending(k)
      BY <1>8, BlockOfIs DEF DeleteCall, TaskInv, Claimed
    <3> QED BY <3>1 DEF TaskInv, BlocksOK, Has
  <2>2. PICK h \in Tids : h = tm.data[BlockOf(tm, k)].thread
    BY <2>1
  <2>3. /\ tid' = [tid EXCEPT ![a] = h] /\ id' = [id EXCEPT ![a] = k] /\ pc[a] = "idle"
        /\ pc' = [pc EXCEPT ![a] = "join"] /\ UNCHANGED <<task, created>>
    BY <1>8, <2>2 DEF DeleteCall
  <2> QED BY <2>1, <2>2, <2>3, <1>t, <1>c, <1>a
<1>9. ASSUME NEW h \in Tids, Start(h) \/ End(h) \/ FindSelf(h) PROVE ThreadsOK'
  BY <1>9, <1>t, <1>c, <1>a DEF Start, End, FindSelf
<1>10. ASSUME NEW h \in Tids, FindQueue(h) \/ Receive(h) PROVE ThreadsOK'
  <2>1. /\ UNCHANGED <<tid, task, created>> /\ \A a \in Apps : pc'[a] = pc[a] /\ id'[a] = id[a]
        /\ \A g \in Tids : g # h => pc'[g] = pc[g]
    BY <1>10, <1>t, <1>a DEF FindQueue, Receive
  <2>2. pc[h] # "none" /\ pc'[h] # "none"
    BY <1>10, <1>t, <1>a DEF FindQueue, Receive
  <2> QED BY <2>1, <2>2, <1>c
<1>11. ASSUME NEW x \in Actors, Send(x) PROVE ThreadsOK'
  BY <1>11, <1>t, <1>c, <1>a DEF Send
<1>12. ASSUME NEW x \in Actors, NEW k \in TaskIds, FindAddressee(x, k) PROVE ThreadsOK'
  BY <1>12, <1>t, <1>c, <1>a DEF FindAddressee
<1>13. UNCHANGED vars => ThreadsOK'
  BY <1>c DEF vars
<1> HIDE DEF ThreadsOK
<1> QED
  BY <1>1, <1>2, <1>3, <1>4, <1>5, <1>6, <1>7, <1>8, <1>9, <1>10, <1>11, <1>12, <1>13
     DEF Next, AppStep, TaskStep

\* What the steps that leave the registry alone keep.
LEMMA SameRegistry ==
  ASSUME tm' = tm
  PROVE  /\ \A c, k : Has(c, k)' <=> Has(c, k)
         /\ InUse(tm'.mp) = InUse(tm.mp) /\ tm'.key = tm.key /\ tm'.data = tm.data
  BY DEF Has

\* Every task keeps its block, with its thread and its queue.
LEMMA BlocksNext == TaskInv /\ [Next]_vars => BlocksOK'
<1> SUFFICES ASSUME TaskInv, [Next]_vars PROVE BlocksOK'
  OBVIOUS
<1> USE DEF BlocksOK, Starting, Ending, Creating, Deleting, Actors, Goto, Leave, Home, locals
<1>t. /\ pc \in [Actors -> AppLabels \cup ThreadLabels] /\ id \in [Actors -> TaskIds \cup {NoTask}]
      /\ ptr \in [Actors -> Blocks \cup {NoBlock}]
      /\ created \subseteq TaskIds /\ tid \in [Apps -> Tids \cup {NoTid}]
      /\ task \in [Tids -> TaskIds \cup {NoTask}]
  BY DEF TaskInv, TaskTypes
<1>b. BlocksOK
  BY DEF TaskInv
<1>c. ThreadsOK
  BY DEF TaskInv
<1>d. ClaimsOK
  BY DEF TaskInv
<1>a. Apps \cap Tids = {} /\ NoTask \notin TaskIds
  BY TaskAssumption
<1>r. /\ InUse(tm.mp) \subseteq Blocks
      /\ \A b, c, k : Has(b, k) /\ Has(c, k) => b = c
      /\ \A b : b \in InUse(tm.mp) => Has(b, tm.key[b])
      /\ \A b, k : Has(b, k) => b \in InUse(tm.mp) /\ tm.key[b] = k
  BY PoolIs DEF TaskInv, RegistryOK, Has
<1>1. ASSUME NEW a \in Apps, RenewQueue(a) PROVE BlocksOK'
  <2>1. PICK b \in Blocks : Has(b, id[a]) /\ Rewrites(b, tm.data[b].thread, <<>>, TRUE)
    BY <1>1, RenewWrites
  <2>2. id[a] \notin created
    BY <1>1, <1>d DEF RenewQueue, ClaimsOK
  <2>3. /\ pc[a] = "queue" /\ pc' = [pc EXCEPT ![a] = "start"]
        /\ UNCHANGED <<id, ptr, tid, task, created>>
    BY <1>1 DEF RenewQueue
  <2> QED BY <2>1, <2>2, <2>3, <1>t, <1>b, <1>r DEF Rewrites
<1>2. ASSUME NEW a \in Apps, AddQueue(a) PROVE BlocksOK'
  <2>1. PICK h \in Tids \cup {NoTid} : \E b \in Blocks : Adds(b, id[a], h)
    BY <1>2, AddWrites
  <2>2. PICK b \in Blocks : Adds(b, id[a], h)
    BY <2>1
  <2>3. id[a] \notin created
    BY <1>2, <1>d DEF AddQueue, ClaimsOK
  <2>4. /\ pc[a] = "queue" /\ pc' = [pc EXCEPT ![a] = "start"]
        /\ UNCHANGED <<id, ptr, tid, task, created>>
    BY <1>2 DEF AddQueue
  <2> QED BY <2>2, <2>3, <2>4, <1>t, <1>b, <1>r DEF Adds
<1>3. ASSUME NEW a \in Apps, Register(a) PROVE BlocksOK'
  <2>1. Rewrites(ptr[a], tid[a], tm.data[ptr[a]].msgs, tm.data[ptr[a]].live)
    BY <1>3, RegisterWrites
  <2>2. id[a] \notin created /\ \A o \in Apps : Starting(o) /\ id[o] = id[a] => o = a
    BY <1>3, <1>d DEF Register, ClaimsOK
  <2>3. /\ pc[a] = "register" /\ pc' = [pc EXCEPT ![a] = "post"]
        /\ UNCHANGED <<id, ptr, tid, task, created>>
    BY <1>3 DEF Register
  <2> QED BY <2>1, <2>2, <2>3, <1>t, <1>b, <1>r DEF Rewrites
<1>4. ASSUME NEW a \in Apps, DestroyQueue(a) PROVE BlocksOK'
  <2>1. PICK b \in Blocks : Has(b, id[a]) /\ Rewrites(b, tm.data[b].thread, tm.data[b].msgs, FALSE)
    BY <1>4, DestroyWrites
  <2>2. /\ pc[a] = "destroy" /\ pc' = [pc EXCEPT ![a] = "remove"]
        /\ UNCHANGED <<id, ptr, tid, task, created>>
    BY <1>4 DEF DestroyQueue
  <2> QED BY <2>1, <2>2, <1>t, <1>b, <1>r DEF Rewrites
<1>5. ASSUME NEW a \in Apps, Remove(a) PROVE BlocksOK'
  <2>1. PICK b \in Blocks : Has(b, id[a]) /\ Removes(b)
    BY <1>5, RemoveWrites
  <2>2. \A o \in Apps : (pc[o] = "start" \/ Starting(o)) => id[o] # id[a]
    BY <1>5, <1>d DEF Remove, ClaimsOK
  <2>3. /\ pc[a] = "remove" /\ pc' = [pc EXCEPT ![a] = "idle"] /\ created' = created \ {id[a]}
        /\ \A o \in Apps : o # a => id'[o] = id[o] /\ ptr'[o] = ptr[o]
        /\ UNCHANGED <<tid, task>>
    BY <1>5, <1>t DEF Remove
  <2> QED BY <2>1, <2>2, <2>3, <1>t, <1>b, <1>r DEF Removes
<1>6. ASSUME NEW a \in Apps, StartThread(a) PROVE BlocksOK'
  <2>1. Has(BlockOf(tm, id[a]), id[a])
    BY <1>6, <1>b, BlockOfIs DEF StartThread, TaskInv
  <2>2. PICK h \in Tids : /\ pc[h] = "none" /\ pc' = [pc EXCEPT ![a] = "register", ![h] = "start"]
                          /\ tid' = [tid EXCEPT ![a] = h]
                          /\ task' = [task EXCEPT ![h] = id[a]]
    BY <1>6 DEF StartThread
  <2>3. /\ ptr'[a] = BlockOf(tm, id[a]) /\ \A o \in Apps : o # a => ptr'[o] = ptr[o]
        /\ UNCHANGED <<tm, id, created>>
    BY <1>6, <1>t DEF StartThread
  <2>4. task[h] = NoTask
    BY <2>2, <1>c DEF ThreadsOK
  <2>5. \A g \in Tids : task[g] \in TaskIds => task'[g] = task[g]
    BY <2>2, <2>4, <1>t, <1>a
  <2>6. /\ pc'[a] = "register" /\ \A o \in Apps : o # a => pc'[o] = pc[o] /\ tid'[o] = tid[o]
        /\ pc[a] = "start"
    BY <2>2, <1>6, <1>t, <1>a DEF StartThread
  <2>7. \A b \in InUse(tm.mp) : tm.key[b] \in TaskIds
    BY <1>r DEF TaskInv, RegistryOK
  <2> QED BY <2>1, <2>3, <2>5, <2>6, <2>7, SameRegistry, <1>b, <1>r
<1>7. ASSUME NEW a \in Apps, Post(a) PROVE BlocksOK'
  <2>1. Has(ptr[a], id[a]) /\ tm.data[ptr[a]].thread = tid[a] /\ tid[a] \in Tids /\ task[tid[a]] = id[a]
    BY <1>7, <1>b, <1>c DEF Post, ThreadsOK
  <2>2. /\ pc[a] = "post" /\ pc' = [pc EXCEPT ![a] = "idle"] /\ created' = created \cup {id[a]}
        /\ \A o \in Apps : o # a => id'[o] = id[o] /\ ptr'[o] = ptr[o] /\ tid'[o] = tid[o]
        /\ UNCHANGED <<tm, task>>
    BY <1>7, <1>t DEF Post
  <2> QED BY <2>1, <2>2, SameRegistry, PoolIs, <1>t, <1>b, <1>r DEF TaskInv
<1>8. ASSUME NEW a \in Apps, Join(a) PROVE BlocksOK'
  <2>1. tid[a] \in Tids /\ task[tid[a]] = id[a]
    BY <1>8, <1>c DEF Join, ThreadsOK
  <2>2. /\ pc[a] = "join" /\ pc' = [pc EXCEPT ![a] = "destroy", ![tid[a]] = "none"]
        /\ task' = [task EXCEPT ![tid[a]] = NoTask]
        /\ \A o \in Apps : o # a => tid'[o] = tid[o]
        /\ UNCHANGED <<tm, id, ptr, created>>
    BY <1>8, <1>t DEF Join
  <2> QED BY <2>1, <2>2, SameRegistry, <1>t, <1>a, <1>b, <1>r
<1>9. ASSUME NEW a \in Apps, NEW k \in TaskIds, CreateCall(a, k) \/ DeleteCall(a, k) PROVE BlocksOK'
  <2>1. /\ pc[a] = "idle" /\ pc'[a] \in {"queue", "join"}
        /\ \A o \in Apps : o # a => pc'[o] = pc[o] /\ id'[o] = id[o] /\ tid'[o] = tid[o]
        /\ UNCHANGED <<tm, ptr, task, created>>
    BY <1>9, <1>t DEF CreateCall, DeleteCall
  <2> QED BY <2>1, SameRegistry, <1>b
<1>10. ASSUME NEW a \in Apps, AddFails(a) \/ StartFails(a) PROVE BlocksOK'
  <2>1. /\ pc[a] \in {"queue", "start"} /\ pc'[a] = "idle"
        /\ \A o \in Apps : o # a => pc'[o] = pc[o] /\ id'[o] = id[o] /\ ptr'[o] = ptr[o]
        /\ UNCHANGED <<tm, tid, task, created>>
    BY <1>10, <1>t DEF AddFails, StartFails
  <2> QED BY <2>1, SameRegistry, <1>b
<1>11. ASSUME NEW h \in Tids, Start(h) \/ End(h) \/ FindSelf(h) \/ FindQueue(h) PROVE BlocksOK'
  <2>1. \A o \in Apps : pc'[o] = pc[o] /\ id'[o] = id[o] /\ ptr'[o] = ptr[o]
    BY <1>11, <1>t, <1>a DEF Start, End, FindSelf, FindQueue
  <2>2. UNCHANGED <<tm, tid, task, created>>
    BY <1>11 DEF Start, End, FindSelf, FindQueue
  <2> QED BY <2>1, <2>2, SameRegistry, <1>b
<1>12. ASSUME NEW h \in Tids, Receive(h) PROVE BlocksOK'
  <2>1. /\ \A o \in Apps : pc'[o] = pc[o] /\ id'[o] = id[o] /\ ptr'[o] = ptr[o]
        /\ UNCHANGED <<tid, task, created>>
    BY <1>12, <1>t, <1>a DEF Receive
  <2>2. CASE tm' = tm
    BY <2>1, <2>2, SameRegistry, <1>b
  <2>3. CASE tm' # tm
    BY <2>1, <2>3, <1>12, ReceiveWrites, <1>b, <1>r DEF Rewrites
  <2> QED BY <2>2, <2>3
<1>13. ASSUME NEW x \in Actors, Send(x) PROVE BlocksOK'
  <2>1. /\ \A o \in Apps : o # x => pc'[o] = pc[o] /\ id'[o] = id[o] /\ ptr'[o] = ptr[o]
        /\ x \in Apps => pc[x] = "enqueue" /\ pc'[x] = "idle"
        /\ UNCHANGED <<tid, task, created>>
    BY <1>13, <1>t, <1>a DEF Send
  <2>2. CASE tm' = tm
    BY <2>1, <2>2, SameRegistry, <1>b
  <2>3. CASE tm' # tm
    BY <2>1, <2>3, <1>13, SendWrites, <1>b, <1>r, SMTT(60) DEF Rewrites
  <2> QED BY <2>2, <2>3
<1>14. ASSUME NEW x \in Actors, NEW k \in TaskIds, FindAddressee(x, k) PROVE BlocksOK'
  <2>1. /\ \A o \in Apps : o # x => pc'[o] = pc[o] /\ id'[o] = id[o] /\ ptr'[o] = ptr[o]
        /\ x \in Apps => pc[x] = "idle" /\ pc'[x] = "enqueue"
        /\ UNCHANGED <<tm, tid, task, created>>
    BY <1>14, <1>t, <1>a DEF FindAddressee
  <2> QED BY <2>1, SameRegistry, <1>b
<1>15. UNCHANGED vars => BlocksOK'
  BY <1>b, SameRegistry DEF vars
<1> HIDE DEF BlocksOK
<1> QED
  BY <1>1, <1>2, <1>3, <1>4, <1>5, <1>6, <1>7, <1>8, <1>9, <1>10, <1>11, <1>12, <1>13, <1>14, <1>15
     DEF Next, AppStep, TaskStep

\* A pointer to a queue stays one to the right task's queue.
LEMMA PointersNext == TaskInv /\ [Next]_vars => PointersOK'
<1> SUFFICES ASSUME TaskInv, [Next]_vars PROVE PointersOK'
  OBVIOUS
<1> USE DEF PointersOK, BeingDeleted, Deleting, Actors, Goto, Leave, Home, locals, history
<1>t. /\ pc \in [Actors -> AppLabels \cup ThreadLabels] /\ id \in [Actors -> TaskIds \cup {NoTask}]
      /\ ptr \in [Actors -> Blocks \cup {NoBlock}]
      /\ task \in [Tids -> TaskIds \cup {NoTask}]
      /\ stale \in [Actors -> BOOLEAN] /\ misled \in [Actors -> BOOLEAN]
      /\ \A h \in Tids : pc[h] \in ThreadLabels
  BY DEF TaskInv, TaskTypes
<1>p. PointersOK
  BY DEF TaskInv
<1>c. ThreadsOK
  BY DEF TaskInv
<1>d. ClaimsOK
  BY DEF TaskInv
<1>a. Apps \cap Tids = {} /\ NoTask \notin TaskIds
  BY TaskAssumption
<1>1. ASSUME NEW a \in Apps, RenewQueue(a) \/ AddQueue(a) \/ Register(a) \/ DestroyQueue(a)
      PROVE  PointersOK'
  <2>1. \A c, k : Has(c, k) => Has(c, k)'
    BY <1>1, RenewWrites, AddWrites, RegisterWrites, DestroyWrites DEF Rewrites, Adds
  <2>2. /\ \A x \in Actors : x # a => pc'[x] = pc[x]
        /\ pc'[a] \in {"start", "post", "remove"} /\ (pc'[a] = "remove" => pc[a] = "destroy")
        /\ UNCHANGED <<id, ptr, task, stale, misled>>
    BY <1>1, <1>t DEF RenewQueue, AddQueue, Register, DestroyQueue
  <2> QED BY <2>1, <2>2, <1>p, <1>a
<1>2. ASSUME NEW a \in Apps, Remove(a) PROVE PointersOK'
  <2>1. PICK b \in Blocks : Has(b, id[a]) /\ Removes(b)
    BY <1>2, RemoveWrites
  <2>2. /\ pc[a] = "remove" /\ pc'[a] = "idle"
        /\ \A x \in Actors : x # a => /\ pc'[x] = pc[x] /\ id'[x] = id[x] /\ ptr'[x] = ptr[x]
                                     /\ stale'[x] = stale[x] /\ misled'[x] = misled[x]
        /\ UNCHANGED task
    BY <1>2, <1>t DEF Remove
  <2>3. \A h \in Tids : pc[h] = "dequeue" => task[h] # id[a]
    BY <2>2, <1>c, <1>d DEF ThreadsOK, ClaimsOK, Ending, Starting, Creating
  <2>4. \A x \in Actors : ~BeingDeleted(id[x]) => id[x] # id[a]
    BY <2>2
  <2>5. \A c, k : Has(c, k) /\ k # id[a] => Has(c, k)'
    BY <2>1 DEF Removes, Has
  <2> QED BY <2>2, <2>3, <2>4, <2>5, <1>p, <1>a
<1>3. ASSUME NEW a \in Apps, StartThread(a) PROVE PointersOK'
  <2>1. PICK h \in Tids : /\ pc[h] = "none" /\ pc' = [pc EXCEPT ![a] = "register", ![h] = "start"]
                          /\ task' = [task EXCEPT ![h] = id[a]]
    BY <1>3 DEF StartThread
  <2>2. /\ pc'[a] = "register" /\ pc'[h] = "start"
        /\ \A x \in Actors : x # a /\ x # h => pc'[x] = pc[x] /\ ptr'[x] = ptr[x]
        /\ \A g \in Tids : g # h => task'[g] = task[g]
        /\ UNCHANGED <<tm, id, stale, misled>> /\ pc[a] = "start"
    BY <2>1, <1>3, <1>t, <1>a DEF StartThread
  <2> QED BY <2>2, SameRegistry, <1>p, <1>a
<1>4. ASSUME NEW a \in Apps, Join(a) PROVE PointersOK'
  <2>1. tid[a] \in Tids /\ pc[tid[a]] = "ended"
    BY <1>4, <1>c DEF Join, ThreadsOK
  <2>2. /\ pc'[a] = "destroy" /\ pc'[tid[a]] = "none" /\ pc[a] = "join"
        /\ \A x \in Actors : x # a /\ x # tid[a] => pc'[x] = pc[x]
        /\ \A g \in Tids : g # tid[a] => task'[g] = task[g]
        /\ UNCHANGED <<tm, id, ptr, stale, misled>>
    BY <2>1, <1>4, <1>t, <1>a DEF Join
  <2> QED BY <2>1, <2>2, SameRegistry, <1>p, <1>a
<1>5. ASSUME NEW a \in Apps, AddFails(a) \/ StartFails(a) \/ Post(a) PROVE PointersOK'
  <2>1. /\ pc[a] \in {"queue", "start", "post"} /\ pc'[a] = "idle"
        /\ \A x \in Actors : x # a => /\ pc'[x] = pc[x] /\ id'[x] = id[x] /\ ptr'[x] = ptr[x]
                                     /\ stale'[x] = stale[x] /\ misled'[x] = misled[x]
        /\ UNCHANGED <<tm, task>>
    BY <1>5, <1>t DEF AddFails, StartFails, Post
  <2> QED BY <2>1, SameRegistry, <1>p, <1>a
<1>6. ASSUME NEW a \in Apps, NEW k \in TaskIds, CreateCall(a, k) PROVE PointersOK'
  <2>1. /\ pc[a] = "idle" /\ pc'[a] = "queue"
        /\ \A x \in Actors : x # a => pc'[x] = pc[x] /\ id'[x] = id[x]
        /\ UNCHANGED <<tm, ptr, task, stale, misled>>
    BY <1>6, <1>t DEF CreateCall
  <2> QED BY <2>1, SameRegistry, <1>p, <1>a
<1>7. ASSUME NEW a \in Apps, NEW k \in TaskIds, DeleteCall(a, k) PROVE PointersOK'
  <2>1. /\ pc[a] = "idle" /\ pc'[a] = "join" /\ id'[a] = k
        /\ \A x \in Actors : x # a => pc'[x] = pc[x] /\ id'[x] = id[x]
        /\ \A x \in Actors : ~stale'[x] => ~stale[x] /\ id[x] # k
        /\ UNCHANGED <<tm, ptr, task, misled>>
    BY <1>7, <1>t DEF DeleteCall
  <2> QED BY <2>1, SameRegistry, <1>p, <1>a
<1>8. ASSUME NEW h \in Tids, Start(h) \/ End(h) \/ Receive(h) PROVE PointersOK'
  <2>1. \A c, k : Has(c, k) => Has(c, k)'
    BY <1>8, SameRegistry, ReceiveWrites DEF Start, End, Rewrites
  <2>2. /\ pc'[h] \in {"running", "ended"} /\ UNCHANGED task
        /\ \A x \in Actors : x # h => /\ pc'[x] = pc[x] /\ id'[x] = id[x] /\ ptr'[x] = ptr[x]
                                     /\ stale'[x] = stale[x] /\ misled'[x] = misled[x]
    BY <1>8, <1>t, <1>a DEF Start, End, Receive
  <2> QED BY <2>1, <2>2, <1>p, <1>a
<1>9. ASSUME NEW h \in Tids, FindSelf(h) PROVE PointersOK'
  <2>1. Announced(tm.key[OwnBlock(h)]) => tm.key[OwnBlock(h)] = task[h]
    BY <1>9, OwnIdIs DEF FindSelf
  <2>2. /\ pc'[h] = "find_queue" /\ id'[h] = tm.key[OwnBlock(h)] /\ (~misled'[h] => Announced(tm.key[OwnBlock(h)]))
        /\ \A x \in Actors : x # h => pc'[x] = pc[x] /\ id'[x] = id[x] /\ misled'[x] = misled[x]
        /\ UNCHANGED <<tm, ptr, task, stale>>
    BY <1>9, <1>t DEF FindSelf
  <2> QED BY <2>1, <2>2, SameRegistry, <1>p, <1>a
<1>10. ASSUME NEW h \in Tids, FindQueue(h) PROVE PointersOK'
  <2>1. /\ \A x \in Actors : x # h => /\ pc'[x] = pc[x] /\ id'[x] = id[x] /\ ptr'[x] = ptr[x]
                                     /\ stale'[x] = stale[x] /\ misled'[x] = misled[x]
        /\ UNCHANGED <<tm, task>> /\ pc[h] = "find_queue"
    BY <1>10, <1>t DEF FindQueue
  <2>2. CASE BlockOf(tm, id[h]) = NoBlock
    <3>1. pc'[h] = "running"
      BY <2>2, <1>10, <1>t, <1>a DEF FindQueue
    <3> QED BY <2>1, <3>1, SameRegistry, <1>p, <1>a
  <2>3. CASE BlockOf(tm, id[h]) # NoBlock
    <3>1. Has(BlockOf(tm, id[h]), id[h])
      BY <2>3, BlockOfIs DEF TaskInv
    <3>2. /\ pc'[h] = "dequeue" /\ ptr'[h] = BlockOf(tm, id[h]) /\ misled'[h] = misled[h]
      BY <2>3, <1>10, <1>t, <1>a DEF FindQueue
    <3> QED BY <2>1, <3>1, <3>2, SameRegistry, <1>p, <1>a
  <2> QED BY <2>2, <2>3
<1>11. ASSUME NEW x \in Actors, Send(x) PROVE PointersOK'
  <2>1. \A c, k : Has(c, k) => Has(c, k)'
    BY <1>11, SameRegistry, SendWrites DEF Rewrites
  <2>2. /\ pc[x] = "enqueue" /\ pc'[x] \in {"idle", "running"} /\ UNCHANGED task
        /\ \A y \in Actors : y # x => /\ pc'[y] = pc[y] /\ id'[y] = id[y] /\ ptr'[y] = ptr[y]
                                     /\ stale'[y] = stale[y] /\ misled'[y] = misled[y]
    BY <1>11, <1>t DEF Send
  <2> QED BY <2>1, <2>2, <1>p, <1>a
<1>12. ASSUME NEW x \in Actors, NEW k \in TaskIds, FindAddressee(x, k) PROVE PointersOK'
  <2>1. Has(BlockOf(tm, k), k)
    BY <1>12, BlockOfIs DEF FindAddressee, TaskInv
  <2>2. /\ pc[x] \in {"idle", "running"} /\ pc'[x] = "enqueue" /\ id'[x] = k /\ ptr'[x] = BlockOf(tm, k)
        /\ (~stale'[x] => ~BeingDeleted(k))
        /\ \A y \in Actors : y # x => /\ pc'[y] = pc[y] /\ id'[y] = id[y] /\ ptr'[y] = ptr[y]
                                     /\ stale'[y] = stale[y]
        /\ UNCHANGED <<tm, task, misled>>
    BY <1>12, <1>t DEF FindAddressee
  <2> QED BY <2>1, <2>2, SameRegistry, <1>p, <1>a
<1>13. UNCHANGED vars => PointersOK'
  BY <1>p, SameRegistry DEF vars
<1> HIDE DEF PointersOK
<1> QED
  BY <1>1, <1>2, <1>3, <1>4, <1>5, <1>6, <1>7, <1>8, <1>9, <1>10, <1>11, <1>12, <1>13
     DEF Next, AppStep, TaskStep

\* Every message of queue q is for task k.
MessagesFor(q, k) == \A i \in DOMAIN q : q[i] = k

LEMMA QueueChanges ==
  ASSUME NEW q \in Seq(TaskIds), NEW k \in TaskIds, MessagesFor(q, k)
  PROVE  MessagesFor(Append(q, k), k) /\ (q # <<>> => MessagesFor(Tail(q), k))
  BY DEF MessagesFor

\* Messages stay with the task they are for.
LEMMA MessagesNext == TaskInv /\ [Next]_vars => MessagesOK'
<1> SUFFICES ASSUME TaskInv, [Next]_vars, ~raced' PROVE MessagesOK'
  BY DEF MessagesOK
<1>e. MessagesFor(<<>>, 0) /\ \A k : MessagesFor(<<>>, k)
  BY DEF MessagesFor
<1>r. InUse(tm.mp) \subseteq Blocks /\ \A b, k : Has(b, k) => b \in InUse(tm.mp) /\ tm.key[b] = k
  BY PoolIs DEF TaskInv, Has
<1>m. MessagesOK' <=> \A b \in InUse(tm'.mp) : MessagesFor(tm'.data[b].msgs, tm'.key[b])
  BY DEF MessagesOK, MessagesFor
<1>n. MessagesOK /\ ~raced => \A b \in InUse(tm.mp) : MessagesFor(tm.data[b].msgs, tm.key[b])
  BY DEF MessagesOK, MessagesFor
<1>k. ~raced => \A b \in InUse(tm.mp) : MessagesFor(tm.data[b].msgs, tm.key[b])
  BY <1>n DEF TaskInv
<1>0. tm' = tm /\ ~raced => MessagesOK'
  BY <1>k, <1>m
<1>1. ASSUME NEW a \in Apps, RenewQueue(a) PROVE MessagesOK'
  <2>1. PICK b \in Blocks : Has(b, id[a]) /\ Rewrites(b, tm.data[b].thread, <<>>, TRUE)
    BY <1>1, RenewWrites
  <2>2. ~raced
    BY <1>1 DEF RenewQueue, history
  <2> QED BY <2>1, <2>2, <1>e, <1>k, <1>m, <1>r DEF Rewrites
<1>2. ASSUME NEW a \in Apps, AddQueue(a) PROVE MessagesOK'
  <2>1. PICK h \in Tids \cup {NoTid} : \E b \in Blocks : Adds(b, id[a], h)
    BY <1>2, AddWrites
  <2>2. PICK b \in Blocks : Adds(b, id[a], h)
    BY <2>1
  <2>3. ~raced
    BY <1>2 DEF AddQueue, history
  <2> QED BY <2>2, <2>3, <1>e, <1>k, <1>m, <1>r DEF Adds
<1>3. ASSUME NEW a \in Apps, Register(a) PROVE MessagesOK'
  <2>1. Rewrites(ptr[a], tid[a], tm.data[ptr[a]].msgs, tm.data[ptr[a]].live)
    BY <1>3, RegisterWrites
  <2>2. ~raced
    BY <1>3 DEF Register, history
  <2> QED BY <2>1, <2>2, <1>k, <1>m, <1>r DEF Rewrites
<1>4. ASSUME NEW a \in Apps, DestroyQueue(a) PROVE MessagesOK'
  <2>1. PICK b \in Blocks : Has(b, id[a]) /\ Rewrites(b, tm.data[b].thread, tm.data[b].msgs, FALSE)
    BY <1>4, DestroyWrites
  <2>2. ~raced
    BY <1>4 DEF DestroyQueue, history
  <2> QED BY <2>1, <2>2, <1>k, <1>m, <1>r DEF Rewrites
<1>5. ASSUME NEW a \in Apps, Remove(a) PROVE MessagesOK'
  <2>1. PICK b \in Blocks : Has(b, id[a]) /\ Removes(b)
    BY <1>5, RemoveWrites
  <2>2. ~raced
    BY <1>5 DEF Remove
  <2> QED BY <2>1, <2>2, <1>k, <1>m DEF Removes
<1>6. ASSUME NEW x \in Actors, Send(x) PROVE MessagesOK'
  <2>1. ~raced /\ ~stale[x] /\ pc[x] = "enqueue"
    BY <1>6 DEF Send
  <2>2. Has(ptr[x], id[x]) /\ id[x] \in TaskIds
    BY <2>1 DEF TaskInv, PointersOK, TaskTypes
  <2>3. tm.data[ptr[x]].msgs \in Seq(TaskIds) /\ MessagesFor(tm.data[ptr[x]].msgs, id[x])
    BY <2>1, <2>2, <1>k, <1>r, InfoIs DEF TaskInv
  <2>4. MessagesFor(Append(tm.data[ptr[x]].msgs, id[x]), id[x])
    BY <2>2, <2>3, QueueChanges, SMTT(60)
  <2>5. CASE tm' # tm
    <3>1. Rewrites(ptr[x], tm.data[ptr[x]].thread, Append(tm.data[ptr[x]].msgs, id[x]),
                   tm.data[ptr[x]].live)
      BY <2>5, <1>6, SendWrites
    <3>2. /\ InUse(tm'.mp) = InUse(tm.mp) /\ tm'.key = tm.key
          /\ tm'.data[ptr[x]].msgs = Append(tm.data[ptr[x]].msgs, id[x])
          /\ \A c \in Blocks \ {ptr[x]} : tm'.data[c] = tm.data[c]
      BY <3>1 DEF Rewrites
    <3>3. MessagesFor(tm'.data[ptr[x]].msgs, tm'.key[ptr[x]])
      BY <2>2, <2>4, <3>2, <1>r
    <3> QED BY <2>1, <3>2, <3>3, <1>k, <1>m, <1>r
  <2> QED BY <2>1, <2>5, <1>0
<1>7. ASSUME NEW h \in Tids, Receive(h) PROVE MessagesOK'
  <2>1. ~raced
    BY <1>7 DEF Receive
  <2>2. CASE tm' # tm
    <3>1. /\ ptr[h] \in Blocks /\ tm.data[ptr[h]].msgs # <<>>
          /\ Rewrites(ptr[h], tm.data[ptr[h]].thread, Tail(tm.data[ptr[h]].msgs), tm.data[ptr[h]].live)
      BY <2>2, <1>7, ReceiveWrites
    <3>2. /\ InUse(tm'.mp) = InUse(tm.mp) /\ tm'.key = tm.key
          /\ tm'.data[ptr[h]].msgs = Tail(tm.data[ptr[h]].msgs)
          /\ \A c \in Blocks \ {ptr[h]} : tm'.data[c] = tm.data[c]
      BY <3>1 DEF Rewrites
    <3>3. tm.data[ptr[h]].msgs \in Seq(TaskIds) /\ tm.key[ptr[h]] \in TaskIds
      BY <3>1, InfoIs DEF TaskInv, RegistryOK
    <3>4. ptr[h] \in InUse(tm.mp) => MessagesFor(tm'.data[ptr[h]].msgs, tm'.key[ptr[h]])
      BY <2>1, <3>1, <3>2, <3>3, <1>k, QueueChanges
    <3> QED BY <2>1, <3>2, <3>4, <1>k, <1>m, <1>r
  <2> QED BY <2>1, <2>2, <1>0
<1>8. ASSUME NEW a \in Apps, AddFails(a) \/ StartThread(a) \/ StartFails(a) \/ Post(a) \/ Join(a)
      PROVE  tm' = tm /\ ~raced
  BY <1>8 DEF AddFails, StartThread, StartFails, Post, Join, history
<1>9. ASSUME NEW a \in Apps, NEW k \in TaskIds, CreateCall(a, k) \/ DeleteCall(a, k)
      PROVE  tm' = tm /\ ~raced
  BY <1>9 DEF CreateCall, DeleteCall, history
<1>10. ASSUME NEW h \in Tids, Start(h) \/ FindSelf(h) \/ FindQueue(h) \/ End(h)
       PROVE  tm' = tm /\ ~raced
  BY <1>10 DEF Start, FindSelf, FindQueue, End, history
<1>11. ASSUME NEW x \in Actors, NEW k \in TaskIds, FindAddressee(x, k)
       PROVE  tm' = tm /\ ~raced
  BY <1>11 DEF FindAddressee
<1>12. UNCHANGED vars => tm' = tm /\ ~raced
  BY DEF vars, history
<1> QED
  BY <1>0, <1>1, <1>2, <1>3, <1>4, <1>5, <1>6, <1>7, <1>8, <1>9, <1>10, <1>11, <1>12
     DEF Next, AppStep, TaskStep

\* The counts that StartsAccounted is about, before and after one of S moves.
LEMMA CountStep ==
  ASSUME NEW S, IsFiniteSet(S), NEW f, NEW g, NEW L, NEW t \in S, \A u \in S : u # t => g[u] = f[u]
  PROVE  Count(S, g, L) = Count(S, f, L) + Inside(g[t], L) - Inside(f[t], L)
<1>1. PICK e : e = [u \in S |-> f[u]]
  OBVIOUS
<1>2. Count(S, f, L) = Count(S, e, L)
  <2>1. {u \in S : f[u] \in L} = {u \in S : e[u] \in L}
    BY <1>1
  <2> QED BY <2>1 DEF Count
<1>3. Count(S, g, L) = Count(S, [e EXCEPT ![t] = g[t]], L)
  <2>1. {u \in S : g[u] \in L} = {u \in S : [e EXCEPT ![t] = g[t]][u] \in L}
    BY <1>1
  <2> QED BY <2>1 DEF Count
<1>4. DOMAIN e = S /\ e = [u \in S |-> e[u]] /\ e[t] = f[t]
  BY <1>1
<1>5. Count(S, [e EXCEPT ![t] = g[t]], L) = Count(S, e, L) + Inside(g[t], L) - Inside(f[t], L)
  BY <1>4, CountMove
<1> QED BY <1>2, <1>3, <1>5

LEMMA CountSame ==
  ASSUME NEW S, NEW f, NEW g, NEW L, \A u \in S : g[u] = f[u]
  PROVE  Count(S, g, L) = Count(S, f, L)
<1>1. {u \in S : g[u] \in L} = {u \in S : f[u] \in L}
  OBVIOUS
<1> QED BY <1>1 DEF Count

Posters(f) == Count(Apps, f, {"register", "post"})
Waiters(f) == Count(Tids, f, {"start"})

LEMMA StartsIs ==
  /\ StartsAccounted <=> sem + Posters(pc) = Waiters(pc)
  /\ StartsAccounted' <=> sem' + Posters(pc') = Waiters(pc')
<1>1. /\ {h \in Tids : pc[h] \in {"start"}} = {h \in Tids : pc[h] = "start"}
      /\ {h \in Tids : pc'[h] \in {"start"}} = {h \in Tids : pc'[h] = "start"}
  OBVIOUS
<1> QED BY <1>1 DEF StartsAccounted, Posters, Waiters, Count

\* The posts stay as many as the threads that wait for them.
LEMMA StartsNext == TaskInv /\ [Next]_vars => StartsAccounted'
<1> SUFFICES ASSUME TaskInv, [Next]_vars PROVE StartsAccounted'
  OBVIOUS
<1> USE DEF Goto, Leave, Home, locals, Actors
<1>a. Apps \cap Tids = {} /\ IsFiniteSet(Apps) /\ IsFiniteSet(Tids)
  BY TaskAssumption
<1>t. /\ pc \in [Actors -> AppLabels \cup ThreadLabels] /\ sem \in Nat
  BY DEF TaskInv, TaskTypes
<1>b. sem + Posters(pc) = Waiters(pc) /\ Posters(pc) \in Nat /\ Waiters(pc) \in Nat
  BY StartsIs, CountPositive, <1>a DEF TaskInv, Posters, Waiters
<1>0. sem' = sem /\ Posters(pc') = Posters(pc) /\ Waiters(pc') = Waiters(pc) => StartsAccounted'
  BY <1>b, StartsIs
<1>m. ASSUME NEW a \in Apps, \A x \in Actors : x # a => pc'[x] = pc[x]
      PROVE  /\ Posters(pc') = Posters(pc) + Inside(pc'[a], {"register", "post"})
                                          - Inside(pc[a], {"register", "post"})
             /\ Waiters(pc') = Waiters(pc)
  BY <1>m, <1>a, CountStep, CountSame DEF Posters, Waiters
<1>n. ASSUME NEW h \in Tids, \A x \in Actors : x # h => pc'[x] = pc[x]
      PROVE  /\ Waiters(pc') = Waiters(pc) + Inside(pc'[h], {"start"}) - Inside(pc[h], {"start"})
             /\ Posters(pc') = Posters(pc)
  BY <1>n, <1>a, CountStep, CountSame DEF Posters, Waiters
<1>1. ASSUME NEW a \in Apps, RenewQueue(a) \/ AddQueue(a) \/ Register(a) \/ DestroyQueue(a)
      PROVE  StartsAccounted'
  <2>1. /\ \A x \in Actors : x # a => pc'[x] = pc[x]
        /\ UNCHANGED sem
    BY <1>1, <1>t DEF RenewQueue, AddQueue, Register, DestroyQueue
  <2>2. pc[a] \in {"register", "post"} <=> pc'[a] \in {"register", "post"}
    BY <1>1, <1>t DEF RenewQueue, AddQueue, Register, DestroyQueue
  <2> QED BY <2>1, <2>2, <1>0, <1>b, <1>m DEF Inside
<1>2. ASSUME NEW a \in Apps, AddFails(a) \/ StartFails(a) \/ Remove(a) PROVE StartsAccounted'
  <2>1. /\ \A x \in Actors : x # a => pc'[x] = pc[x]
        /\ UNCHANGED sem
        /\ pc[a] \notin {"register", "post"} /\ pc'[a] \notin {"register", "post"}
    BY <1>2, <1>t DEF AddFails, StartFails, Remove
  <2> QED BY <2>1, <1>0, <1>b, <1>m DEF Inside
<1>3. ASSUME NEW a \in Apps, NEW k \in TaskIds, CreateCall(a, k) \/ DeleteCall(a, k)
      PROVE  StartsAccounted'
  <2>1. /\ \A x \in Actors : x # a => pc'[x] = pc[x]
        /\ UNCHANGED sem
        /\ pc[a] \notin {"register", "post"} /\ pc'[a] \notin {"register", "post"}
    BY <1>3, <1>t DEF CreateCall, DeleteCall
  <2> QED BY <2>1, <1>0, <1>b, <1>m DEF Inside
<1>4. ASSUME NEW a \in Apps, Post(a) PROVE StartsAccounted'
  <2>1. /\ \A x \in Actors : x # a => pc'[x] = pc[x]
        /\ sem' = sem + 1 /\ pc[a] = "post" /\ pc'[a] = "idle"
    BY <1>4, <1>t DEF Post
  <2>2. Posters(pc') = Posters(pc) - 1 /\ Waiters(pc') = Waiters(pc)
    BY <2>1, <1>b, <1>m DEF Inside
  <2> QED BY <2>1, <2>2, <1>b, <1>t, StartsIs
<1>5. ASSUME NEW a \in Apps, StartThread(a) PROVE StartsAccounted'
  <2>1. PICK h \in Tids : pc[h] = "none" /\ pc' = [pc EXCEPT ![a] = "register", ![h] = "start"]
    BY <1>5 DEF StartThread
  <2>2. /\ \A o \in Apps : o # a => pc'[o] = pc[o]
        /\ \A g \in Tids : g # h => pc'[g] = pc[g]
        /\ pc[a] = "start" /\ pc'[a] = "register" /\ pc'[h] = "start" /\ UNCHANGED sem
    BY <2>1, <1>5, <1>t, <1>a DEF StartThread
  <2>3. Posters(pc') = Posters(pc) + Inside(pc'[a], {"register", "post"})
                                   - Inside(pc[a], {"register", "post"})
    BY <2>2, <1>a, CountStep DEF Posters
  <2>4. Waiters(pc') = Waiters(pc) + Inside(pc'[h], {"start"}) - Inside(pc[h], {"start"})
    BY <2>2, <1>a, CountStep DEF Waiters
  <2>5. Posters(pc') = Posters(pc) + 1 /\ Waiters(pc') = Waiters(pc) + 1
    BY <2>1, <2>2, <2>3, <2>4, <1>b DEF Inside
  <2> QED BY <2>2, <2>5, <1>b, <1>t, StartsIs
<1>6. ASSUME NEW a \in Apps, Join(a) PROVE StartsAccounted'
  <2>1. tid[a] \in Tids
    BY <1>6 DEF Join, TaskInv, ThreadsOK
  <2>2. /\ \A o \in Apps : o # a => pc'[o] = pc[o]
        /\ \A g \in Tids : g # tid[a] => pc'[g] = pc[g]
        /\ pc[a] = "join" /\ pc'[a] = "destroy" /\ pc[tid[a]] = "ended" /\ pc'[tid[a]] = "none"
        /\ UNCHANGED sem
    BY <2>1, <1>6, <1>t, <1>a DEF Join
  <2>3. Posters(pc') = Posters(pc) + Inside(pc'[a], {"register", "post"})
                                   - Inside(pc[a], {"register", "post"})
    BY <2>2, <1>a, CountStep DEF Posters
  <2>4. Waiters(pc') = Waiters(pc) + Inside(pc'[tid[a]], {"start"}) - Inside(pc[tid[a]], {"start"})
    BY <2>1, <2>2, <1>a, CountStep DEF Waiters
  <2> QED BY <2>2, <2>3, <2>4, <1>0, <1>b DEF Inside
<1>7. ASSUME NEW h \in Tids, Start(h) PROVE StartsAccounted'
  <2>1. /\ \A x \in Actors : x # h => pc'[x] = pc[x]
        /\ sem' = sem - 1 /\ pc[h] = "start" /\ pc'[h] = "running"
    BY <1>7, <1>t DEF Start
  <2>2. Waiters(pc') = Waiters(pc) - 1 /\ Posters(pc') = Posters(pc)
    BY <2>1, <1>b, <1>n DEF Inside
  <2> QED BY <2>1, <2>2, <1>b, <1>t, StartsIs
<1>8. ASSUME NEW h \in Tids, TaskStep(h) PROVE StartsAccounted'
  <2>1. /\ \A x \in Actors : x # h => pc'[x] = pc[x]
        /\ UNCHANGED sem
    BY <1>8, <1>t DEF TaskStep, FindSelf, FindQueue, Receive, End
  <2>2. pc[h] # "start" /\ pc'[h] # "start"
    BY <1>8, <1>t, <1>a DEF TaskStep, FindSelf, FindQueue, Receive, End
  <2> QED BY <2>1, <2>2, <1>0, <1>b, <1>n DEF Inside
<1>9. ASSUME NEW x \in Actors, Send(x) \/ \E k \in TaskIds : FindAddressee(x, k)
      PROVE  StartsAccounted'
  <2>1. /\ \A y \in Actors : y # x => pc'[y] = pc[y]
        /\ UNCHANGED sem
    BY <1>9, <1>t DEF Send, FindAddressee
  <2>2. /\ pc[x] \notin {"register", "post"} /\ pc'[x] \notin {"register", "post"}
        /\ pc[x] # "start" /\ pc'[x] # "start"
    BY <1>9, <1>t, <1>a DEF Send, FindAddressee
  <2> QED BY <2>1, <2>2, <1>0, <1>b, <1>m, <1>n DEF Inside
<1>10. UNCHANGED vars => StartsAccounted'
  BY <1>0 DEF vars
<1> QED
  BY <1>1, <1>2, <1>3, <1>4, <1>5, <1>6, <1>7, <1>8, <1>9, <1>10 DEF Next, AppStep

----------------------------------------------------------------------------
(* The theorems. *)

\* Nobody has called anything and the registry is empty.
LEMMA InitInv == Init => TaskInv
<1> SUFFICES ASSUME Init PROVE TaskInv
  OBVIOUS
<1> USE DEF Init, Actors
<1>a. Apps \cap Tids = {} /\ NoTask \notin TaskIds /\ IsFiniteSet(Apps) /\ IsFiniteSet(Tids)
  BY TaskAssumption
<1>1. PICK k \in TaskIds : tm = EmptyData(max_num_task, k, TaskInfo(NoTid, <<>>, FALSE))
  BY DEF Init
<1>2. PICK p : p = [num_used |-> 0, block_ptr |-> [i \in 0 .. max_num_task - 1 |-> i]]
  OBVIOUS
<1>3. PoolOK(p, max_num_task) /\ InUse(p) = {}
  BY <1>2, PoolEmpty, TaskSizes
<1>4. PICK d : d = TaskInfo(NoTid, <<>>, FALSE)
  OBVIOUS
<1>5. d \in Infos
  <2>1. <<>> \in Seq(TaskIds) /\ FALSE \in BOOLEAN /\ NoTid \in Tids \cup {NoTid}
    OBVIOUS
  <2> QED BY <1>4, <2>1, InfoMade, Zenon
<1>6. RegistryOK /\ InUse(tm.mp) = {}
  <2>1. PICK ke, co, da : ke = [b \in Blocks |-> k] /\ co = [b \in Blocks |-> 0] /\ da = [b \in Blocks |-> d]
    OBVIOUS
  <2>2. tm = [mp |-> p, key |-> ke, count |-> co, data |-> da]
    BY <1>1, <1>2, <1>4, <2>1 DEF EmptyData, Blocks
  <2>3. /\ p \in [num_used : 0 .. max_num_task, block_ptr : [Blocks -> Blocks]]
        /\ ke \in [Blocks -> TaskIds] /\ co \in [Blocks -> {0, 1}] /\ da \in [Blocks -> Infos]
    BY <1>3, <1>5, <2>1 DEF PoolOK, Blocks
  <2>4. tm \in [mp : [num_used : 0 .. max_num_task, block_ptr : [Blocks -> Blocks]],
                key : [Blocks -> TaskIds], count : [Blocks -> {0, 1}], data : [Blocks -> Infos]]
    BY <2>2, <2>3, RegistryShape, Zenon
  <2>5. tm.mp = p /\ tm.count = co
    BY <2>2
  <2>6. InUse(tm.mp) = {} /\ PoolOK(tm.mp, max_num_task)
    BY <2>5, <1>3
  <2>7. \A b \in Blocks : tm.count[b] = 0
    BY <2>1, <2>5
  <2> QED BY <2>4, <2>6, <2>7 DEF RegistryOK
<1>7. TaskTypes
  BY <1>a DEF TaskTypes, AppLabels, ThreadLabels
<1>8. ClaimsOK /\ ThreadsOK /\ PointersOK
  BY <1>a DEF ClaimsOK, Creating, Deleting, ThreadsOK, Starting, PointersOK
<1>9. BlocksOK /\ MessagesOK
  BY <1>6, <1>a DEF BlocksOK, Starting, MessagesOK
<1>10. StartsAccounted
  <2>1. {a \in Apps : pc[a] \in {"register", "post"}} = {} /\ {h \in Tids : pc[h] = "start"} = {}
    BY <1>a
  <2>2. Cardinality({}) = 0 /\ sem = 0
    BY FS_EmptySet
  <2>3. \A A, B : A = {} /\ B = {} => sem + Cardinality(A) = Cardinality(B)
    BY <2>2
  <2> QED BY <2>1, <2>3, Zenon DEF StartsAccounted
<1> QED BY <1>6, <1>7, <1>8, <1>9, <1>10 DEF TaskInv

LEMMA TaskInvHolds == Spec => []TaskInv
<1>1. TaskInv /\ [Next]_vars => TaskInv'
  BY RegistryNext, TypesNext, ClaimsNext, ThreadsNext, BlocksNext, PointersNext, MessagesNext,
     StartsNext, Zenon DEF TaskInv
<1> QED BY InitInv, <1>1, PTL DEF Spec

\* Whatever the applications, threads and tasks are: the posts of the shared semaphore
\* and the threads that wait for one always make up, and a created task is in the
\* registry, with a thread and a queue of its own, until it has been joined.
THEOREM TasksStayRegistered == Spec => []Registered
<1>1. ASSUME TaskInv PROVE TypeOK
  <2>1. sem \in 0 .. Cardinality(Tids)
    <3>1. /\ sem + Posters(pc) = Waiters(pc) /\ Posters(pc) \in Nat /\ Waiters(pc) \in Nat /\ sem \in Nat
      BY <1>1, StartsIs, CountPositive, TaskAssumption DEF TaskInv, TaskTypes, Posters, Waiters
    <3>2. Waiters(pc) <= Cardinality(Tids) /\ Cardinality(Tids) \in Nat
      BY TaskAssumption, FS_Subset, FS_CardinalityType DEF Waiters, Count
    <3> QED BY <3>1, <3>2
  <2>2. AppLabels \cup ThreadLabels = Labels
    BY DEF AppLabels, ThreadLabels, Labels
  <2>3. /\ pc \in [Actors -> Labels] /\ id \in [Actors -> TaskIds \cup {NoTask}]
        /\ ptr \in [Actors -> Blocks \cup {NoBlock}] /\ tid \in [Apps -> Tids \cup {NoTid}]
        /\ task \in [Tids -> TaskIds \cup {NoTask}] /\ created \subseteq TaskIds
    BY <1>1, <2>2 DEF TaskInv, TaskTypes
  <2>4. tm.mp.num_used \in 0 .. max_num_task
    BY <1>1 DEF TaskInv, RegistryOK
  <2>5. \A b \in Blocks : /\ tm.key[b] \in TaskIds
                          /\ tm.count[b] = IF b \in InUse(tm.mp) THEN 1 ELSE 0
                          /\ tm.data[b].thread \in Tids \cup {NoTid}
    BY <1>1, InfoIs DEF TaskInv, RegistryOK
  <2> QED BY <2>1, <2>3, <2>4, <2>5 DEF TypeOK
<1>2. ASSUME TaskInv PROVE CreatedIsRegistered
  <2> SUFFICES ASSUME NEW k \in created, ~Ending(k)
               PROVE  LET b == BlockOf(tm, k) IN
                      /\ b # NoBlock /\ tm.data[b].live
                      /\ LET h == tm.data[b].thread IN h \in Tids /\ task[h] = k /\ pc[h] # "none"
    BY DEF CreatedIsRegistered, Ending
  <2>1. PICK b \in Blocks : Has(b, k)
    BY <1>2 DEF TaskInv, BlocksOK
  <2>2. BlockOf(tm, k) = b /\ b # NoBlock
    BY <1>2, <2>1, BlockOfIs, TaskSizes DEF TaskInv
  <2>3. tm.data[b].live
    BY <1>2, <2>1 DEF TaskInv, BlocksOK, Has, Ending
  <2>4. tm.data[b].thread \in Tids /\ task[tm.data[b].thread] = k
    BY <1>2, <2>1 DEF TaskInv, BlocksOK, Has
  <2>5. k # NoTask
    BY <1>2, TaskAssumption DEF TaskInv, TaskTypes
  <2>6. pc[tm.data[b].thread] # "none"
    BY <1>2, <2>4, <2>5 DEF TaskInv, ThreadsOK
  <2> QED BY <2>2, <2>3, <2>4, <2>6
<1>3. TaskInv => Registered
  BY <1>1, <1>2 DEF Registered, TaskInv
<1> QED BY TaskInvHolds, <1>3, PTL

\* A running thread's search for its task id (246-260) finds something from the store of its
\* thread id (177) to the removal of its taskinfo, and what it finds is its own task unless
\* the taskinfo found is of a task that is half created or half deleted.
THEOREM OwnIdIsFound == Spec => []OwnIdFound
<1>1. TaskInv => OwnIdFound
  BY OwnIdIs DEF OwnIdFound
<1> QED BY TaskInvHolds, <1>1, PTL

\* Queues are there when they are used, and of the task they are used for, and the
\* messages in them are that task's, as long as none was sent to a task being deleted.
THEOREM MessagesStayOwn == Spec => []MessagesAreOwn
<1>1. ASSUME TaskInv, NEW h \in Tids, pc[h] = "dequeue", ~misled[h]
      PROVE  tm.data[ptr[h]].live /\ tm.key[ptr[h]] = task[h]
  <2>1. Has(ptr[h], task[h])
    BY <1>1 DEF TaskInv, PointersOK
  <2>2. task[h] # NoTask
    BY <1>1 DEF TaskInv, ThreadsOK
  <2>3. ~Ending(task[h])
    BY <1>1, <2>2 DEF TaskInv, ThreadsOK, ClaimsOK, Ending, Starting, Creating, Deleting
  <2> QED BY <1>1, <2>1, <2>3 DEF TaskInv, BlocksOK, Has, Ending
<1>2. ASSUME TaskInv, NEW x \in Actors, pc[x] = "enqueue", ~stale[x]
      PROVE  tm.data[ptr[x]].live /\ tm.key[ptr[x]] = id[x]
  <2>1. Has(ptr[x], id[x]) /\ ~BeingDeleted(id[x])
    BY <1>2 DEF TaskInv, PointersOK
  <2> QED BY <1>2, <2>1 DEF TaskInv, BlocksOK, Has, BeingDeleted, Deleting
<1>3. TaskInv => MessagesAreOwn
  BY <1>1, <1>2, Zenon DEF MessagesAreOwn, UsesQueueOfTask, TaskInv, MessagesOK
<1> QED BY TaskInvHolds, <1>3, PTL
=============================================================================
