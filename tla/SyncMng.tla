------------------------------ MODULE SyncMng ------------------------------
(***************************************************************************)
(* em_mtxmng.c, em_semmng.c and the manager of events in em_eventflag.c:   *)
(* mutexes, semaphores or events in the blocks of a pool.  None takes a    *)
(* mutex of its own.  Any thread may delete an object that others hold or  *)
(* wait for, whose calls then go on in a block that is free or another's.  *)
(*                                                                         *)
(* A mutex is a semaphore of value 1 here.  How events are waited for is   *)
(* module EventFlag's.                                                     *)
(***************************************************************************)
EXTENDS Pools

CONSTANTS Users,     \* the threads
          MaxNum,    \* max_mutex_num, max_sem_num or max_event_num
          MaxValue   \* bound: initial values of semaphores

Objects == 0 .. MaxNum - 1
Destroyed == -1

VARIABLES
  kind,     \* "mutex", "semaphore" or "event"
  mp_sync,  \* mp_mutex, mp_semaphore or mp_event
  permits,  \* what each block's object has to give, Destroyed if it is none
  value,    \* history: what the object was initialised with
  islock,   \* of mutexes
  known,    \* the objects the application has the id of, or the pointer to
  lost,     \* history: blocks whose object could not be initialised
  job,      \* what each thread is about to do
  on,       \* the object it does it to
  torn,     \* history: the object was deleted with threads at it, or made with such threads left
  down      \* a null pointer was given to pthread_mutex_destroy

objects == <<permits, value, islock>>
vars == <<kind, mp_sync, objects, known, lost, job, on, torn, down>>

\* What an islock that was never written may read as; only mutexes have one.
Marks == IF kind = "mutex" THEN BOOLEAN ELSE {FALSE}

Init == /\ kind \in {"mutex", "semaphore", "event"}
        /\ mp_sync = [num_used |-> 0, block_ptr |-> [i \in Objects |-> i]]
        /\ permits = [b \in Objects |-> Destroyed]
        /\ value = [b \in Objects |-> Destroyed]
        /\ \E set \in Marks : islock = [b \in Objects |-> set]
        /\ known = {} /\ lost = {}
        /\ job = [t \in Users |-> "out"]
        /\ on = [t \in Users |-> 0]
        /\ torn = [b \in Objects |-> FALSE]
        /\ down = FALSE

At(b) == {t \in Users : job[t] # "out" /\ on[t] = b}
Idle(t) == job[t] = "out" /\ ~down
Do(t, l, b) == /\ job' = [job EXCEPT ![t] = l]
               /\ on' = [on EXCEPT ![t] = b]
Then(t, l) == Do(t, l, on[t])
Leave(t) == Do(t, "out", 0)

----------------------------------------------------------------------------
(* Making: em_mtxmng_create_mutex, em_semmng_factory, em_evtmng_factory *)

\* Only a semaphore is given a value.
Values == IF kind = "semaphore" THEN 0 .. MaxValue ELSE {1}

Create(t) ==
  /\ Idle(t)
  /\ ~PoolFull(mp_sync)
  /\ LET b == PoolNext(mp_sync) IN
     /\ mp_sync' = PoolAlloc(mp_sync)
     /\ \E v \in Values :
          /\ permits' = [permits EXCEPT ![b] = v]
          /\ value' = [value EXCEPT ![b] = v]
     /\ known' = known \cup {b}
     /\ torn' = [torn EXCEPT ![b] = At(b) # {}]
  /\ UNCHANGED <<kind, islock, lost, job, on, down>>

\* em_sem_init or em_event_init fails: the block is not given back.  The result of
\* em_mutex_init is not looked at.
CreateFails(t) ==
  /\ Idle(t)
  /\ kind # "mutex" /\ ~PoolFull(mp_sync)
  /\ mp_sync' = PoolAlloc(mp_sync)
  /\ lost' = lost \cup {PoolNext(mp_sync)}
  /\ UNCHANGED <<kind, objects, known, job, on, torn, down>>

----------------------------------------------------------------------------
(* Deleting: em_mtxmng_delete_mutex, em_semmng_dispose, em_evtmng_dispose *)

Held(b) == {t \in Users : on[t] = b /\ job[t] \in {"mark", "holding", "unlock"}}

\* A mutex somebody holds is not destroyed (EBUSY), a semaphore never is, and nobody
\* looks at the result.  That of an event is looked at; without waiters it is 0.
Destroy(t, b) ==
  /\ Idle(t)
  /\ b \in known
  /\ known' = known \ {b}
  /\ permits' = IF kind = "mutex" /\ Held(b) = {} THEN [permits EXCEPT ![b] = Destroyed]
                ELSE permits
  /\ torn' = [torn EXCEPT ![b] = torn[b] \/ At(b) # {}]
  /\ Do(t, "free", b)
  /\ UNCHANGED <<kind, mp_sync, value, islock, lost, down>>

\* Mutant: the object is destroyed, its block is not given back.
Free_Kept(t) ==
  /\ job[t] = "free"
  /\ Leave(t)
  /\ UNCHANGED <<kind, mp_sync, objects, known, lost, torn, down>>

Free(t) ==
  /\ job[t] = "free"
  /\ mp_sync' = PoolFree(mp_sync, on[t])
  /\ Leave(t)
  /\ UNCHANGED <<kind, objects, known, lost, torn, down>>

\* While another thread frees a block, a lookup may miss one that is in use (module
\* Mempool), and em_mtxmng_delete_mutex destroys what it found without a look.
MayMiss(t) == \E u \in Users \ {t} : job[u] = "free"

DestroyNull(t, b) ==
  /\ Idle(t)
  /\ kind = "mutex" /\ b \in known
  /\ MayMiss(t)
  /\ down' = TRUE
  /\ UNCHANGED <<kind, mp_sync, objects, known, lost, job, on, torn>>

----------------------------------------------------------------------------
(* Using: em_mtxmng_lock and em_mtxmng_unlock, em_sem_wait and em_sem_post *)

\* The object is looked up; what is missed (MayMiss) ends the call with -1.
Lock(t, b) ==
  /\ Idle(t)
  /\ kind # "event" /\ b \in known
  /\ \E l \in {"lock", "timedlock"} : Do(t, l, b)
  /\ UNCHANGED <<kind, mp_sync, objects, known, lost, torn, down>>

\* Mutant: a call that has run out of time goes on as if it had the lock.
Acquire_OnTimeout(t) ==
  /\ job[t] \in {"lock", "timedlock"}
  /\ permits[on[t]] > 0 \/ job[t] = "timedlock"
  /\ permits' = [permits EXCEPT ![on[t]] = IF @ > 0 THEN @ - 1 ELSE @]
  /\ Then(t, IF kind = "mutex" THEN "mark" ELSE "holding")
  /\ UNCHANGED <<kind, mp_sync, value, islock, known, lost, torn, down>>

Acquire(t) ==
  /\ job[t] \in {"lock", "timedlock"}
  /\ permits[on[t]] > 0
  /\ permits' = [permits EXCEPT ![on[t]] = @ - 1]
  /\ Then(t, IF kind = "mutex" THEN "mark" ELSE "holding")
  /\ UNCHANGED <<kind, mp_sync, value, islock, known, lost, torn, down>>

\* The time has passed, or there is no mutex any more.
LockFails(t) ==
  /\ job[t] = "timedlock" \/ (job[t] = "lock" /\ permits[on[t]] = Destroyed)
  /\ Leave(t)
  /\ UNCHANGED <<kind, mp_sync, objects, known, lost, torn, down>>

Mark(t) ==
  /\ job[t] = "mark"
  /\ islock' = [islock EXCEPT ![on[t]] = TRUE]
  /\ Then(t, "holding")
  /\ UNCHANGED <<kind, mp_sync, permits, value, known, lost, torn, down>>

\* Mutant: the mutex is given back before islock is cleared.
Unlock_First(t) ==
  /\ job[t] = "holding"
  /\ permits' = [permits EXCEPT ![on[t]] = IF kind = "mutex" THEN 1 ELSE @ + 1]
  /\ Then(t, "unlock")
  /\ UNCHANGED <<kind, mp_sync, value, islock, known, lost, torn, down>>

\* em_mtxmng_unlock finds the block by its index, in use or not, and clears islock.
Unlock(t) ==
  /\ job[t] = "holding"
  /\ islock' = IF kind = "mutex" THEN [islock EXCEPT ![on[t]] = FALSE] ELSE islock
  /\ Then(t, "unlock")
  /\ UNCHANGED <<kind, mp_sync, permits, value, known, lost, torn, down>>

\* pthread_mutex_unlock whoever holds it, or sem_post.
Release(t) ==
  /\ job[t] = "unlock"
  /\ permits' = IF permits[on[t]] = Destroyed THEN permits
                ELSE [permits EXCEPT ![on[t]] = IF kind = "mutex" THEN 1 ELSE @ + 1]
  /\ Leave(t)
  /\ UNCHANGED <<kind, mp_sync, value, islock, known, lost, torn, down>>

\* em_mtxmng_destroy, em_semmng_destroy or em_evtmng_destroy, when no call is under way,
\* and the initialisation for the next use: what was never deleted is given up.
Recreate ==
  /\ \A t \in Users : Idle(t)
  /\ mp_sync' = [num_used |-> 0, block_ptr |-> [i \in Objects |-> i]]
  /\ permits' = [b \in Objects |-> Destroyed]
  /\ value' = [b \in Objects |-> Destroyed]
  /\ known' = {} /\ lost' = {}
  /\ torn' = [b \in Objects |-> FALSE]
  /\ \E set \in Marks : islock' = [b \in Objects |-> set]
  /\ UNCHANGED <<kind, job, on, down>>

----------------------------------------------------------------------------
Next == \/ Recreate
        \/ \E t \in Users :
             \/ Create(t) \/ CreateFails(t) \/ Free(t)
             \/ \E b \in Objects : Destroy(t, b) \/ DestroyNull(t, b) \/ Lock(t, b)
             \/ Acquire(t) \/ LockFails(t) \/ Mark(t) \/ Unlock(t) \/ Release(t)

Spec == Init /\ [][Next]_vars

----------------------------------------------------------------------------
(* Properties. *)

\* As many threads have an object as its value allows, and islock is set while one has
\* the mutex and may work under it, unless the object was deleted under a thread that
\* held it or waited for it (58-84).
PermitsAccounted ==
  \A b \in known : ~torn[b] =>
    /\ permits[b] + Cardinality(Held(b)) = value[b]
    /\ kind = "mutex" => \A t \in Held(b) : job[t] = "holding" => islock[b]

\* A block is in use for the object in it, or for one that could not be initialised.
BlocksAccounted ==
  /\ InUse(mp_sync) = known \cup lost \cup {on[t] : t \in {u \in Users : job[u] = "free"}}
  /\ known \cap lost = {}
=============================================================================
