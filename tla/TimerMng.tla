------------------------------ MODULE TimerMng ------------------------------
(***************************************************************************)
(* em_timer.c: timers named by the index of a block of a pool.  The kernel *)
(* keeps a pointer to the settings in that block and, at every expiry,     *)
(* starts a thread that reads them and calls the function they name.  No   *)
(* mutex is taken: such a thread may be anywhere while its timer is        *)
(* deleted and the block is used for another.                              *)
(*                                                                         *)
(* Pool calls are atomic (module Mempool says what an unlocked lookup may  *)
(* answer).  An id is used by one application at a time, from the return   *)
(* of em_timer_create until it is deleted.                                 *)
(***************************************************************************)
EXTENDS Pools

CONSTANTS Apps,       \* the threads of the application
          Callbacks,  \* the threads the kernel starts
          Settings,   \* what a timer calls, and with which argument
          KernelIds,  \* what timer_create may answer
          num_timer,
          NoSetting, NoId

ASSUME TimerAssumption == /\ num_timer \in Nat \ {0}
                          /\ NoSetting \notin Settings
                          /\ NoId \notin KernelIds

Blocks == 0 .. num_timer - 1

VARIABLES
  mp,              \* mp_timerinfo
  setting,         \* timer_info->setting of each block
  linux_timer_id,  \* timer_info->linux_timer_id of each block
  kernel,          \* the kernel's timers: the block they point to, whether they run,
                   \* and (history) the setting they were made for
  leaked,          \* history: kernel timers whose block was freed without them
  owned,           \* the setting of each timer an application has the id of
  pc,              \* what each application, and each callback, is about to do
  block,           \* the block its call or its settings pointer is about
  called,          \* the function and the argument a callback has read
  meant,           \* history: the setting of the timer that started a callback
  stale            \* history: that timer has been given up

timers == <<mp, setting, linux_timer_id, kernel, leaked, owned>>
callbacks == <<called, meant, stale>>
vars == <<timers, pc, block, callbacks>>

Actors == Apps \cup Callbacks
NoTimer == [block |-> NoBlock, armed |-> FALSE, made_for |-> NoSetting]
NoCall == [func |-> NoSetting, arg |-> NoSetting]

Existing == {k \in KernelIds : kernel[k] # NoTimer}
Goto(x, l) == pc' = [pc EXCEPT ![x] = l]
Leave(a) == Goto(a, "idle") /\ block' = [block EXCEPT ![a] = NoBlock]

Init == /\ mp = [num_used |-> 0, block_ptr |-> [i \in Blocks |-> i]]
        /\ setting = [b \in Blocks |-> NoSetting]
        /\ linux_timer_id = [b \in Blocks |-> NoId]
        /\ kernel = [k \in KernelIds |-> NoTimer]
        /\ leaked = {}
        /\ owned = [b \in Blocks |-> NoSetting]
        /\ pc = [x \in Actors |-> IF x \in Apps THEN "idle" ELSE "none"]
        /\ block = [x \in Actors |-> NoBlock]
        /\ called = [c \in Callbacks |-> NoCall]
        /\ meant = [c \in Callbacks |-> NoSetting]
        /\ stale = [c \in Callbacks |-> FALSE]

----------------------------------------------------------------------------
(* em_timer_create *)

CreateCall(a, s) ==
  /\ pc[a] = "idle"
  /\ ~PoolFull(mp)
  /\ LET b == PoolNext(mp) IN
     /\ mp' = PoolAlloc(mp)
     /\ setting' = [setting EXCEPT ![b] = s]
     /\ block' = [block EXCEPT ![a] = b]
  /\ Goto(a, "create")
  /\ UNCHANGED <<linux_timer_id, kernel, leaked, owned, callbacks>>

\* Mutant: the kernel is given the settings by timer_id, which is one more.
CreateTimer_ById(a) ==
  /\ pc[a] = "create"
  /\ \E k \in KernelIds \ Existing :
       /\ kernel' = [kernel EXCEPT ![k] = [block |-> (block[a] + 1) % num_timer,
                                           armed |-> FALSE, made_for |-> setting[block[a]]]]
       /\ linux_timer_id' = [linux_timer_id EXCEPT ![block[a]] = k]
  /\ Goto(a, "arm")
  /\ UNCHANGED <<mp, setting, leaked, owned, block, callbacks>>

CreateTimer(a) ==
  /\ pc[a] = "create"
  /\ \E k \in KernelIds \ Existing :
       /\ kernel' = [kernel EXCEPT ![k] = [block |-> block[a], armed |-> FALSE,
                                           made_for |-> setting[block[a]]]]
       /\ linux_timer_id' = [linux_timer_id EXCEPT ![block[a]] = k]
  /\ Goto(a, "arm")
  /\ UNCHANGED <<mp, setting, leaked, owned, block, callbacks>>

\* Mutant: the block is not given back.
CreateFails_Kept(a) ==
  /\ pc[a] = "create"
  /\ Leave(a)
  /\ UNCHANGED <<timers, callbacks>>

\* timer_create may fail at any time.
CreateFails(a) ==
  /\ pc[a] = "create"
  /\ mp' = PoolFree(mp, block[a])
  /\ Leave(a)
  /\ UNCHANGED <<setting, linux_timer_id, kernel, leaked, owned, callbacks>>

\* The id goes to the caller; an interval of 0 leaves the timer disarmed.
CreateArm(a) ==
  /\ pc[a] = "arm"
  /\ \E on \in BOOLEAN :
       kernel' = [kernel EXCEPT ![linux_timer_id[block[a]]].armed = on]
  /\ owned' = [owned EXCEPT ![block[a]] = setting[block[a]]]
  /\ Leave(a)
  /\ UNCHANGED <<mp, setting, linux_timer_id, leaked, callbacks>>

\* timer_settime refuses the interval: the block is freed, the kernel's timer is not.
CreateArmFails(a) ==
  /\ pc[a] = "arm"
  /\ mp' = PoolFree(mp, block[a])
  /\ leaked' = leaked \cup {linux_timer_id[block[a]]}
  /\ Leave(a)
  /\ UNCHANGED <<setting, linux_timer_id, kernel, owned, callbacks>>

----------------------------------------------------------------------------
\* The application gives a timer up; its callbacks under way may outlive it.
GiveUp(b) == /\ owned' = [owned EXCEPT ![b] = NoSetting]
             /\ stale' = [c \in Callbacks |-> stale[c] \/ block[c] = b]

(* em_timer_delete *)

DeleteCall(a, b) ==
  /\ pc[a] = "idle"
  /\ owned[b] # NoSetting
  /\ block' = [block EXCEPT ![a] = b]
  /\ GiveUp(b)
  /\ Goto(a, "delete")
  /\ UNCHANGED <<mp, setting, linux_timer_id, kernel, leaked, called, meant>>

\* Mutant: only the block is given back.
DeleteTimer_Kept(a) ==
  /\ pc[a] = "delete"
  /\ Goto(a, "free")
  /\ UNCHANGED <<timers, block, callbacks>>

DeleteTimer(a) ==
  /\ pc[a] = "delete"
  /\ kernel' = [kernel EXCEPT ![linux_timer_id[block[a]]] = NoTimer]
  /\ Goto(a, "free")
  /\ UNCHANGED <<mp, setting, linux_timer_id, leaked, owned, block, callbacks>>

\* Mutant: timer_id is taken for the index of the block, which is one less.
DeleteFree_ById(a) ==
  /\ pc[a] = "free"
  /\ mp' = PoolFree(mp, block[a] + 1)
  /\ Leave(a)
  /\ UNCHANGED <<setting, linux_timer_id, kernel, leaked, owned, callbacks>>

DeleteFree(a) ==
  /\ pc[a] = "free"
  /\ mp' = PoolFree(mp, block[a])
  /\ Leave(a)
  /\ UNCHANGED <<setting, linux_timer_id, kernel, leaked, owned, callbacks>>

----------------------------------------------------------------------------
(* em_timer_set_interval: the lookup and timer_settime are one step, since  *)
(* nobody else touches a timer that is owned.                               *)

SetInterval(a, b) ==
  /\ pc[a] = "idle"
  /\ owned[b] # NoSetting
  /\ \E on \in BOOLEAN :
       kernel' = [kernel EXCEPT ![linux_timer_id[b]].armed = on]
  /\ UNCHANGED <<mp, setting, linux_timer_id, leaked, owned, pc, block, callbacks>>

\* timer_settime refuses the interval: the timer goes on, but its block is freed.
SetFails(a, b) ==
  /\ pc[a] = "idle"
  /\ owned[b] # NoSetting
  /\ mp' = PoolFree(mp, b)
  /\ leaked' = leaked \cup {linux_timer_id[b]}
  /\ GiveUp(b)
  /\ UNCHANGED <<setting, linux_timer_id, kernel, pc, block, called, meant>>

----------------------------------------------------------------------------
(* The kernel and _em_timer_cbfunc *)

BeingDeleted(b) == \E a \in Apps : pc[a] = "delete" /\ block[a] = b

\* SIGEV_THREAD: a new thread for every expiry, expiries may overlap.
Expire(k, c) ==
  /\ kernel[k].armed
  /\ pc[c] = "none"
  /\ Goto(c, "func")
  /\ block' = [block EXCEPT ![c] = kernel[k].block]
  /\ meant' = [meant EXCEPT ![c] = kernel[k].made_for]
  /\ stale' = [stale EXCEPT ![c] = k \in leaked \/ BeingDeleted(kernel[k].block)]
  /\ UNCHANGED <<timers, called>>

\* timer_func and arg are read one after the other.
ReadFunc(c) ==
  /\ pc[c] = "func"
  /\ called' = [called EXCEPT ![c].func = setting[block[c]]]
  /\ Goto(c, "arg")
  /\ UNCHANGED <<timers, block, meant, stale>>

ReadArg(c) ==
  /\ pc[c] = "arg"
  /\ called' = [called EXCEPT ![c].arg = setting[block[c]]]
  /\ Goto(c, "calling")
  /\ UNCHANGED <<timers, block, meant, stale>>

\* timer_func returns.
EndCallback(c) ==
  /\ pc[c] = "calling"
  /\ Goto(c, "none")
  /\ block' = [block EXCEPT ![c] = NoBlock]
  /\ called' = [called EXCEPT ![c] = NoCall]
  /\ meant' = [meant EXCEPT ![c] = NoSetting]
  /\ stale' = [stale EXCEPT ![c] = FALSE]
  /\ UNCHANGED timers

----------------------------------------------------------------------------
Next == \/ \E a \in Apps :
             \/ \E s \in Settings : CreateCall(a, s)
             \/ CreateTimer(a) \/ CreateFails(a) \/ CreateArm(a) \/ CreateArmFails(a)
             \/ \E b \in Blocks : DeleteCall(a, b) \/ SetInterval(a, b) \/ SetFails(a, b)
             \/ DeleteTimer(a) \/ DeleteFree(a)
        \/ \E c \in Callbacks : \/ \E k \in KernelIds : Expire(k, c)
                                \/ ReadFunc(c) \/ ReadArg(c) \/ EndCallback(c)

Spec == Init /\ [][Next]_vars

----------------------------------------------------------------------------
(* Properties. *)

\* Types; a block that a call works on is in use, and no other call's.
TypeOK == /\ mp.num_used \in 0 .. num_timer
          /\ {mp.block_ptr[i] : i \in Blocks} = Blocks
          /\ setting \in [Blocks -> Settings \cup {NoSetting}]
          /\ linux_timer_id \in [Blocks -> KernelIds \cup {NoId}]
          /\ kernel \in [KernelIds -> [block : Blocks, armed : BOOLEAN, made_for : Settings]
                                        \cup {NoTimer}]
          /\ leaked \subseteq Existing
          /\ owned \in [Blocks -> Settings \cup {NoSetting}]
          /\ \A a \in Apps : (pc[a] = "idle") = (block[a] = NoBlock)
          /\ \A a \in Apps : block[a] # NoBlock =>
               /\ block[a] \in InUse(mp) /\ owned[block[a]] = NoSetting
               /\ \A o \in Apps \ {a} : block[o] # block[a]

\* From the return of em_timer_create until it is given up, an id names a block with
\* the caller's settings and a timer of the kernel that points to them (65-98).
IdNamesTimer ==
  \A b \in Blocks : owned[b] # NoSetting =>
    /\ b \in InUse(mp)
    /\ setting[b] = owned[b]
    /\ linux_timer_id[b] \in Existing
    /\ kernel[linux_timer_id[b]].block = b
    /\ kernel[linux_timer_id[b]].made_for = owned[b]

\* A callback calls the function of the timer that expired, with its argument, unless
\* that timer was given up meanwhile or its interval could not be set (46-51, 114).
CallbackCallsOwn ==
  \A c \in Callbacks : pc[c] = "calling" /\ ~stale[c] =>
    called[c] = [func |-> meant[c], arg |-> meant[c]]

\* The kernel has a timer for each block in use whose creation got that far, and no
\* other but those that a refused interval left behind (90-96, 141-147).
KernelAccounted ==
  Existing \ leaked = {linux_timer_id[b] : b \in {x \in InUse(mp) :
                         \A a \in Apps : block[a] = x => pc[a] \in {"arm", "delete"}}}

\* Ids, blocks, settings and the timers of the kernel belong together.
TimersSound == TypeOK /\ IdNamesTimer /\ KernelAccounted
=============================================================================
