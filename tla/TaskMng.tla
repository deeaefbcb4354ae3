------------------------------ MODULE TaskMng ------------------------------
(***************************************************************************)
(* em_task.c: a registry of tasks (em_idatamng) with a thread and a        *)
(* message queue each.  Applications create and delete tasks; tasks and    *)
(* applications send messages by task id.  One semaphore holds new threads *)
(* back until their task is registered, and all creations share it.        *)
(*                                                                         *)
(* Calls of the registry are atomic (module DataMng), but the pointers it  *)
(* hands out are used afterwards; a queue is a bounded sequence (module    *)
(* BoundedFifo) whose calls fail instead of waiting for ever.  msgdata_size*)
(* is positive, and an id is created or deleted by one application at a    *)
(* time, deleted only after it was created.                                *)
(***************************************************************************)
EXTENDS KeyedBlocks, Sequences

CONSTANTS Apps,         \* the threads of the application
          Tids,         \* thread ids (pthread_t), free again after a join
          TaskIds,
          max_num_task,
          mqueue_size,
          NoTid, NoTask

ASSUME TaskAssumption == /\ max_num_task \in Nat \ {0}
                         /\ mqueue_size \in Nat \ {0}
                         /\ IsFiniteSet(Apps) /\ IsFiniteSet(Tids)
                         /\ Apps \cap Tids = {}
                         /\ NoTid \notin Tids
                         /\ NoTask \notin TaskIds

Actors == Apps \cup Tids
Blocks == 0 .. max_num_task - 1

VARIABLES
  tm,       \* taskinfo_mng: data are _em_taskinfo_t
  sem,      \* value of tm->sem
  pc,       \* what each application, and each thread of a task, is about to do
  id,       \* the task id its call is about
  ptr,      \* the taskinfo it has a pointer to
  tid,      \* the thread an application has created or is about to join
  task,     \* the task a thread was created for
  created,  \* the ids whose creation has succeeded, until they are removed
  stale,    \* history: the task was being deleted during the send
  misled,   \* history: the id found was that of a task that had not announced its thread
  raced     \* history: a message was sent to a task being deleted

locals == <<pc, id, ptr, tid>>
history == <<stale, misled, raced>>
vars == <<tm, sem, locals, task, created, history>>

\* A message is the task it is meant for.
TaskInfo(h, queue, alive) == [thread |-> h, msgs |-> queue, live |-> alive]

Goto(x, l) == pc' = [pc EXCEPT ![x] = l]
Home(x) == IF x \in Apps THEN "idle" ELSE "running"
Leave(x) == /\ Goto(x, Home(x))
            /\ id' = [id EXCEPT ![x] = NoTask]
            /\ ptr' = [ptr EXCEPT ![x] = NoBlock]
            /\ stale' = [stale EXCEPT ![x] = FALSE]
            /\ misled' = [misled EXCEPT ![x] = FALSE]

Init == /\ \E k \in TaskIds :
             tm = EmptyData(max_num_task, k, TaskInfo(NoTid, <<>>, FALSE))
        /\ sem = 0
        /\ pc = [x \in Actors |-> IF x \in Apps THEN "idle" ELSE "none"]
        /\ id = [x \in Actors |-> NoTask]
        /\ ptr = [x \in Actors |-> NoBlock]
        /\ tid = [a \in Apps |-> NoTid]
        /\ task = [h \in Tids |-> NoTask]
        /\ created = {}
        /\ stale = [x \in Actors |-> FALSE]
        /\ misled = [x \in Actors |-> FALSE]
        /\ raced = FALSE

Creating == {a \in Apps : pc[a] \in {"queue", "start", "register", "post"}}
Deleting == {a \in Apps : pc[a] \in {"join", "destroy", "remove"}}
Claimed == {id[a] : a \in Creating \cup Deleting}

\* em_task_create is past the store of the thread id of k (177), and em_task_delete has not
\* come back from joining the thread (230).
Announced(k) ==
  \/ k \in created /\ \A a \in Deleting : id[a] = k => pc[a] = "join"
  \/ \E a \in Creating : id[a] = k /\ pc[a] = "post"

----------------------------------------------------------------------------
(* em_task_create *)

\* The count of tasks is read without the mutex.
CreateCall(a, k) ==
  /\ pc[a] = "idle"
  /\ k \notin created \cup Claimed
  /\ ~PoolFull(tm.mp)
  /\ Goto(a, "queue")
  /\ id' = [id EXCEPT ![a] = k]
  /\ UNCHANGED <<tm, sem, ptr, tid, task, created, history>>

\* em_task_create_msgqueue for an id that an earlier creation left behind: the queue
\* is created anew in place.
RenewQueue(a) ==
  /\ pc[a] = "queue"
  /\ LET b == BlockOf(tm, id[a]) IN
     /\ b # NoBlock
     /\ tm' = [tm EXCEPT !.data[b] = TaskInfo(@.thread, <<>>, TRUE)]
  /\ Goto(a, "start")
  /\ UNCHANGED <<sem, id, ptr, tid, task, created, history>>

\* Mutant: the queue of the task that had the block before is taken over.
AddQueue_TakenOver(a) ==
  /\ pc[a] = "queue"
  /\ BlockOf(tm, id[a]) = NoBlock
  /\ ~PoolFull(tm.mp)
  /\ LET b == PoolNext(tm.mp) IN
     tm' = Filled([tm EXCEPT !.mp = PoolAlloc(@)], b, id[a], [tm.data[b] EXCEPT !.live = TRUE])
  /\ Goto(a, "start")
  /\ UNCHANGED <<sem, id, ptr, tid, task, created, history>>

\* Otherwise a taskinfo is added, whose thread_id is whatever the stack held.
AddQueue(a) ==
  /\ pc[a] = "queue"
  /\ BlockOf(tm, id[a]) = NoBlock
  /\ ~PoolFull(tm.mp)
  /\ \E h \in Tids \cup {NoTid} :
       tm' = Filled([tm EXCEPT !.mp = PoolAlloc(@)], PoolNext(tm.mp), id[a],
                    TaskInfo(h, <<>>, TRUE))
  /\ Goto(a, "start")
  /\ UNCHANGED <<sem, id, ptr, tid, task, created, history>>

\* Another creation has taken the last block since the count was read.
AddFails(a) ==
  /\ pc[a] = "queue"
  /\ BlockOf(tm, id[a]) = NoBlock
  /\ PoolFull(tm.mp)
  /\ Leave(a)
  /\ UNCHANGED <<tm, sem, tid, task, created, raced>>

\* em_task_start_task: the pointer to the taskinfo is fetched, then the thread made.
StartThread(a) ==
  /\ pc[a] = "start"
  /\ \E h \in Tids :
       /\ pc[h] = "none"
       /\ pc' = [pc EXCEPT ![a] = "register", ![h] = "start"]
       /\ tid' = [tid EXCEPT ![a] = h]
       /\ task' = [task EXCEPT ![h] = id[a]]
  /\ ptr' = [ptr EXCEPT ![a] = BlockOf(tm, id[a])]
  /\ UNCHANGED <<tm, sem, id, created, history>>

\* pthread_create fails, and the taskinfo stays behind.
StartFails(a) ==
  /\ pc[a] = "start"
  /\ Leave(a)
  /\ UNCHANGED <<tm, sem, tid, task, created, raced>>

\* Mutant: the task added last is taken for the one being created.
Register_Newest(a) ==
  /\ pc[a] = "register"
  /\ tm' = [tm EXCEPT !.data[tm.mp.block_ptr[tm.mp.num_used - 1]].thread = tid[a]]
  /\ Goto(a, "post")
  /\ UNCHANGED <<sem, id, ptr, tid, task, created, history>>

\* The thread id is stored through the pointer, without the mutex.
Register(a) ==
  /\ pc[a] = "register"
  /\ tm' = [tm EXCEPT !.data[ptr[a]].thread = tid[a]]
  /\ Goto(a, "post")
  /\ UNCHANGED <<sem, id, ptr, tid, task, created, history>>

\* Mutant: the post is forgotten.
Post_Forgotten(a) ==
  /\ pc[a] = "post"
  /\ created' = created \cup {id[a]}
  /\ tid' = [tid EXCEPT ![a] = NoTid]
  /\ Leave(a)
  /\ UNCHANGED <<tm, sem, task, raced>>

Post(a) ==
  /\ pc[a] = "post"
  /\ sem' = sem + 1
  /\ created' = created \cup {id[a]}
  /\ tid' = [tid EXCEPT ![a] = NoTid]
  /\ Leave(a)
  /\ UNCHANGED <<tm, task, raced>>

----------------------------------------------------------------------------
(* _em_thread_starter *)

\* Mutant: the thread does not wait.
Start_AtOnce(h) ==
  /\ pc[h] = "start"
  /\ Goto(h, "running")
  /\ UNCHANGED <<tm, sem, id, ptr, tid, task, created, history>>

\* Whichever creation posted, any new thread may take it.
Start(h) ==
  /\ pc[h] = "start"
  /\ sem > 0
  /\ sem' = sem - 1
  /\ Goto(h, "running")
  /\ UNCHANGED <<tm, id, ptr, tid, task, created, history>>

\* The entry function returns.
End(h) ==
  /\ pc[h] = "running"
  /\ Goto(h, "ended")
  /\ UNCHANGED <<tm, sem, id, ptr, tid, task, created, history>>

----------------------------------------------------------------------------
(* em_task_delete *)

\* Sends to the task that are under way from here on may come too late.
\* The taskinfo is copied; its queue shares its memory with the copy.
DeleteCall(a, k) ==
  /\ pc[a] = "idle"
  /\ k \in created \ Claimed
  /\ BlockOf(tm, k) # NoBlock
  /\ tid' = [tid EXCEPT ![a] = tm.data[BlockOf(tm, k)].thread]
  /\ id' = [id EXCEPT ![a] = k]
  /\ stale' = [x \in Actors |-> stale[x] \/ id[x] = k]
  /\ Goto(a, "join")
  /\ UNCHANGED <<tm, sem, ptr, task, created, misled, raced>>

\* Mutant: the thread is not waited for.
Join_NotWaited(a) ==
  /\ pc[a] = "join"
  /\ Goto(a, "destroy")
  /\ UNCHANGED <<tm, sem, id, ptr, tid, task, created, history>>

\* The thread id may name another thread from here on.
Join(a) ==
  /\ pc[a] = "join"
  /\ pc[tid[a]] = "ended"
  /\ pc' = [pc EXCEPT ![a] = "destroy", ![tid[a]] = "none"]
  /\ task' = [task EXCEPT ![tid[a]] = NoTask]
  /\ tid' = [tid EXCEPT ![a] = NoTid]
  /\ UNCHANGED <<tm, sem, id, ptr, created, history>>

DestroyQueue(a) ==
  /\ pc[a] = "destroy"
  /\ tm' = [tm EXCEPT !.data[BlockOf(tm, id[a])].live = FALSE]
  /\ Goto(a, "remove")
  /\ UNCHANGED <<sem, id, ptr, tid, task, created, history>>

Remove(a) ==
  /\ pc[a] = "remove"
  /\ LET b == BlockOf(tm, id[a]) IN
     tm' = [tm EXCEPT !.count[b] = 0, !.mp = PoolFree(@, b)]
  /\ created' = created \ {id[a]}
  /\ Leave(a)
  /\ UNCHANGED <<sem, tid, task, raced>>

----------------------------------------------------------------------------
(* em_msg_send *)

BeingDeleted(k) == \E a \in Deleting : id[a] = k

FindAddressee(x, k) ==
  /\ pc[x] = Home(x)
  /\ BlockOf(tm, k) # NoBlock
  /\ id' = [id EXCEPT ![x] = k]
  /\ ptr' = [ptr EXCEPT ![x] = BlockOf(tm, k)]
  /\ stale' = [stale EXCEPT ![x] = BeingDeleted(k)]
  /\ Goto(x, "enqueue")
  /\ UNCHANGED <<tm, sem, tid, task, created, misled, raced>>

\* A queue whose memory is gone may take the message, or lose it.
Send(x) ==
  /\ pc[x] = "enqueue"
  /\ LET info == tm.data[ptr[x]] IN
     \/ /\ Len(info.msgs) < mqueue_size
        /\ tm' = [tm EXCEPT !.data[ptr[x]].msgs = Append(@, id[x])]
     \/ (Len(info.msgs) >= mqueue_size \/ ~info.live) /\ UNCHANGED tm
  /\ raced' = (raced \/ stale[x])
  /\ Leave(x)
  /\ UNCHANGED <<sem, tid, task, created>>

----------------------------------------------------------------------------
(* em_msg_recv: em_get_task_id searches for the thread's own id, by which   *)
(* the queue is then found.                                                 *)

\* Mutant: the place in the array is taken for the block (as in em_gdatamng.c:290).
OwnBlock_Place(h) ==
  LET places == {i \in 0 .. tm.mp.num_used - 1 : tm.data[tm.mp.block_ptr[i]].thread = h}
  IN IF places = {} THEN NoBlock ELSE Min(places)

OwnBlock(h) == FirstBlock(tm, {b \in Blocks : tm.data[b].thread = h})

\* A search that finds nothing changes nothing (255).
FindSelf(h) ==
  /\ pc[h] = "running"
  /\ OwnBlock(h) # NoBlock
  /\ id' = [id EXCEPT ![h] = tm.key[OwnBlock(h)]]
  /\ misled' = [misled EXCEPT ![h] = ~Announced(tm.key[OwnBlock(h)])]
  /\ Goto(h, "find_queue")
  /\ UNCHANGED <<tm, sem, ptr, tid, task, created, stale, raced>>

FindQueue(h) ==
  /\ pc[h] = "find_queue"
  /\ LET b == BlockOf(tm, id[h]) IN
     IF b = NoBlock
       THEN Leave(h)
       ELSE /\ ptr' = [ptr EXCEPT ![h] = b]
            /\ Goto(h, "dequeue")
            /\ UNCHANGED <<id, stale, misled>>
  /\ UNCHANGED <<tm, sem, tid, task, created, raced>>

Receive(h) ==
  /\ pc[h] = "dequeue"
  /\ IF tm.data[ptr[h]].msgs = <<>>
       THEN UNCHANGED tm
       ELSE tm' = [tm EXCEPT !.data[ptr[h]].msgs = Tail(@)]
  /\ Leave(h)
  /\ UNCHANGED <<sem, tid, task, created, raced>>

----------------------------------------------------------------------------
AppStep(a) == \/ RenewQueue(a) \/ AddQueue(a) \/ AddFails(a)
              \/ StartThread(a) \/ StartFails(a) \/ Register(a) \/ Post(a)
              \/ Join(a) \/ DestroyQueue(a) \/ Remove(a)

TaskStep(h) == FindSelf(h) \/ FindQueue(h) \/ Receive(h) \/ End(h)

Next == \/ \E a \in Apps : AppStep(a) \/ \E k \in TaskIds : CreateCall(a, k) \/ DeleteCall(a, k)
        \/ \E h \in Tids : Start(h) \/ TaskStep(h)
        \/ \E x \in Actors : Send(x) \/ \E k \in TaskIds : FindAddressee(x, k)

Spec == Init /\ [][Next]_vars

----------------------------------------------------------------------------
(* Properties. *)

Labels == {"none", "start", "running", "ended", "find_queue", "dequeue", "enqueue",
           "idle", "queue", "register", "post", "join", "destroy", "remove"}

TypeOK == /\ tm.mp.num_used \in 0 .. max_num_task
          /\ \A b \in Blocks : /\ tm.key[b] \in TaskIds
                               /\ tm.count[b] = IF b \in InUse(tm.mp) THEN 1 ELSE 0
                               /\ tm.data[b].thread \in Tids \cup {NoTid}
          /\ sem \in 0 .. Cardinality(Tids)
          /\ pc \in [Actors -> Labels]
          /\ id \in [Actors -> TaskIds \cup {NoTask}]
          /\ ptr \in [Actors -> Blocks \cup {NoBlock}]
          /\ tid \in [Apps -> Tids \cup {NoTid}]
          /\ task \in [Tids -> TaskIds \cup {NoTask}]
          /\ created \subseteq TaskIds

\* The start semaphore and the creations about to post it always make up for the
\* threads that wait for it, whoever takes whose post (42, 187).
StartsAccounted ==
  sem + Cardinality({a \in Apps : pc[a] \in {"register", "post"}})
    = Cardinality({h \in Tids : pc[h] = "start"})

\* From the return of em_task_create to the end of em_task_delete's join the task is
\* in the registry once, with its own thread and a queue that is there (86-217).
CreatedIsRegistered ==
  \A k \in created : (\A a \in Apps : id[a] = k => pc[a] \notin {"destroy", "remove"}) =>
    LET b == BlockOf(tm, k) IN
    /\ b # NoBlock /\ tm.data[b].live
    /\ LET h == tm.data[b].thread IN h \in Tids /\ task[h] = k /\ pc[h] # "none"

\* em_get_task_id (246-260) asked by a running thread: it does not fail from the moment its
\* thread id is stored in the taskinfo on, however the registry changes around it, and an
\* id it answers is the thread's own, unless that is of a task which is just being created
\* or deleted or whose creation failed, and whose taskinfo names the thread by accident
\* (what the stack held, or the id of a thread that was joined).  So no task that is
\* completely registered ever passes for another.
OwnIdFound ==
  \A h \in Tids : pc[h] = "running" =>
    /\ Announced(task[h]) => OwnBlock(h) # NoBlock
    /\ OwnBlock(h) # NoBlock /\ Announced(tm.key[OwnBlock(h)]) => tm.key[OwnBlock(h)] = task[h]

\* A queue is there, and of the right task, when it is used: a task receives from its
\* own (229-239), em_task_delete joining the thread before it destroys the queue, and a
\* sender's (275-289) is the one of the task it named, unless that was being deleted
\* meanwhile, since the pointer is used without the mutex of the registry.
UsesQueueOfTask ==
  /\ \A h \in Tids : pc[h] = "dequeue" /\ ~misled[h] =>
       tm.data[ptr[h]].live /\ tm.key[ptr[h]] = task[h]
  /\ \A x \in Actors : pc[x] = "enqueue" /\ ~stale[x] =>
       tm.data[ptr[x]].live /\ tm.key[ptr[x]] = id[x]

\* Hence every message in a queue is for the task it belongs to, also after blocks of
\* the registry have been used again, as long as no message was sent to a task being
\* deleted; and queues are used as UsesQueueOfTask says (262-308).
MessagesAreOwn ==
  /\ UsesQueueOfTask
  /\ ~raced => \A b \in InUse(tm.mp) : \A i \in DOMAIN tm.data[b].msgs :
                 tm.data[b].msgs[i] = tm.key[b]

\* What the registry and the shared start semaphore owe every task: a post for each
\* thread that waits, and a block, thread and queue of its own from the return of
\* em_task_create to the join (86-245).
Registered == TypeOK /\ StartsAccounted /\ CreatedIsRegistered

\* What the semaphore is for ("start synchronisation control", 42): a thread whose entry
\* function runs is named by the taskinfo of its task.  Not so, as any new thread may take
\* the post of another's creation.
NamedWhenStarted ==
  \A h \in Tids : pc[h] = "running" =>
    LET b == BlockOf(tm, task[h]) IN b # NoBlock /\ tm.data[b].thread = h
=============================================================================
