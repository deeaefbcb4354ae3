--------------------------- MODULE LibraryProofs ---------------------------
(***************************************************************************)
(* What TLC checks on MCLibrary, for every number of threads, timers,      *)
(* objects and items and for all sizes, proved: the timers (TimerMng), the *)
(* mutexes, semaphores and events (SyncMng), the one-way allocator         *)
(* (OAlloc), the clock (TimeCalc), the list (ListMng) and the text of a    *)
(* feature (GeoJson).                                                      *)
(***************************************************************************)
EXTENDS MCLibrary, CommonLemmas, SequenceTheorems

(* Timers.  An id names its timer because of what holds of every block on   *)
(* its way from PoolAlloc to PoolFree: whose it is, whether the kernel has  *)
(* a timer for it yet, and that no other block has that one.                *)

AppLabels == {"idle", "create", "arm", "delete", "free"}
CallbackLabels == {"none", "func", "arg", "calling"}

TimerTypes ==
  /\ PoolOK(mp, num_timer)
  /\ setting \in [Blocks -> Settings \cup {NoSetting}]
  /\ linux_timer_id \in [Blocks -> KernelIds \cup {NoId}]
  /\ kernel \in [KernelIds -> [block : Blocks, armed : BOOLEAN, made_for : Settings] \cup {NoTimer}]
  /\ leaked \subseteq Existing
  /\ owned \in [Blocks -> Settings \cup {NoSetting}]
  /\ pc \in [Actors -> AppLabels \cup CallbackLabels]
  /\ block \in [Actors -> Blocks \cup {NoBlock}]
  /\ called \in [Callbacks -> [func : Settings \cup {NoSetting}, arg : Settings \cup {NoSetting}]]
  /\ meant \in [Callbacks -> Settings \cup {NoSetting}]
  /\ stale \in [Callbacks -> BOOLEAN]

\* An application is where only applications are, a callback where only callbacks are.
OwnLabels == \A x \in Actors : pc[x] \in IF x \in Apps THEN AppLabels ELSE CallbackLabels

\* The kernel has a timer for the settings in block b, and means that block.
Made(b) == /\ setting[b] \in Settings
           /\ linux_timer_id[b] \in Existing \ leaked
           /\ kernel[linux_timer_id[b]].block = b
           /\ kernel[linux_timer_id[b]].made_for = setting[b]

\* A call works on a block in use that is nobody else's.
BlockIsOwn ==
  \A a \in Apps : /\ pc[a] = "idle" <=> block[a] = NoBlock
                  /\ pc[a] # "idle" => /\ block[a] \in InUse(mp) /\ owned[block[a]] = NoSetting
                                       /\ \A o \in Apps \ {a} : block[o] # block[a]

\* How far it has come; a timer not yet armed has not been armed before.
CallsProgress ==
  \A a \in Apps : /\ pc[a] = "create" => setting[block[a]] \in Settings
                  /\ pc[a] \in {"arm", "delete"} => Made(block[a])
                  /\ pc[a] = "arm" => ~kernel[linux_timer_id[block[a]]].armed

IdsMade == \A b \in Blocks : owned[b] # NoSetting =>
             b \in InUse(mp) /\ setting[b] = owned[b] /\ Made(b)

\* Every block in use is owned or worked on, every timer of the kernel is its block's.
BlocksKept == \A b \in InUse(mp) : owned[b] # NoSetting \/ \E a \in Apps : block[a] = b

KernelsMade ==
  \A k \in Existing \ leaked :
    /\ linux_timer_id[kernel[k].block] = k
    /\ \/ owned[kernel[k].block] # NoSetting
       \/ \E a \in Apps : block[a] = kernel[k].block /\ pc[a] \in {"arm", "delete"}

\* A callback that is not stale works with the settings of a timer that is owned.
CallbacksOwn ==
  \A c \in Callbacks : pc[c] \in {"func", "arg", "calling"} =>
    /\ block[c] \in Blocks
    /\ ~stale[c] => /\ meant[c] # NoSetting /\ owned[block[c]] = meant[c]
                    /\ pc[c] \in {"arg", "calling"} => called[c].func = meant[c]
                    /\ pc[c] = "calling" => called[c].arg = meant[c]

TimersInv == /\ TimerTypes /\ OwnLabels /\ BlockIsOwn /\ CallsProgress
             /\ IdsMade /\ BlocksKept /\ KernelsMade /\ CallbacksOwn

LEMMA TimerSizes == /\ num_timer \in Nat /\ Blocks = 0 .. num_timer - 1 /\ NoBlock \notin Blocks
                    /\ NoSetting \notin Settings /\ NoId \notin KernelIds
  BY TimerAssumption DEF Blocks, NoBlock

\* What is in the kernel is a timer of a block, what is not is NoTimer.
LEMMA KernelIs ==
  ASSUME TimerTypes, NEW k \in Existing
  PROVE  k \in KernelIds /\ kernel[k] \in [block : Blocks, armed : BOOLEAN, made_for : Settings]
  BY DEF TimerTypes, Existing

LEMMA TimersInit == Init => TimersInv
<1> SUFFICES ASSUME Init PROVE TimersInv
  OBVIOUS
<1>1. InUse(mp) = {} /\ PoolOK(mp, num_timer)
  <2>1. mp = [num_used |-> 0, block_ptr |-> [i \in 0 .. num_timer - 1 |-> i]]
    BY DEF Init, Blocks
  <2> QED BY <2>1, PoolEmpty, TimerSizes, Zenon
<1>2. Existing = {}
  BY DEF Init, Existing
<1>3. TimerTypes
  BY <1>1, <1>2 DEF Init, TimerTypes, NoCall, AppLabels, CallbackLabels
<1>4. OwnLabels /\ BlockIsOwn /\ CallsProgress /\ CallbacksOwn
  BY DEF Init, OwnLabels, BlockIsOwn, CallsProgress, CallbacksOwn, Actors, AppLabels, CallbackLabels
<1>5. IdsMade /\ BlocksKept /\ KernelsMade
  BY <1>1, <1>2 DEF Init, IdsMade, BlocksKept, KernelsMade
<1> QED BY <1>3, <1>4, <1>5 DEF TimersInv

\* A call of application a that touches no block but b and leaves its callbacks alone.
Focus(a, b) ==
  /\ a \in Apps /\ b \in Blocks
  /\ block[a] \in {b, NoBlock} /\ block'[a] \in {b, NoBlock}
  /\ \A o \in Apps \ {a} : block[o] # b
  /\ \A x \in Actors \ {a} : pc'[x] = pc[x] /\ block'[x] = block[x]
  /\ \A c \in Blocks \ {b} : /\ setting'[c] = setting[c] /\ owned'[c] = owned[c]
                             /\ linux_timer_id'[c] = linux_timer_id[c]
                             /\ c \in InUse(mp') <=> c \in InUse(mp)
  /\ \A k : k \in Existing \ leaked /\ kernel[k].block # b
              <=> k \in Existing' \ leaked' /\ kernel'[k].block # b
  /\ \A k \in Existing \ leaked : kernel[k].block # b => kernel'[k] = kernel[k]
  /\ called' = called /\ meant' = meant /\ \A c \in Callbacks : stale[c] => stale'[c]

\* What the invariant says of the two.
Local(a, b) ==
  /\ pc[a] = "idle" <=> block[a] = NoBlock
  /\ pc[a] # "idle" => b \in InUse(mp) /\ owned[b] = NoSetting
  /\ pc[a] = "create" => setting[b] \in Settings
  /\ pc[a] \in {"arm", "delete"} => Made(b)
  /\ pc[a] = "arm" => ~kernel[linux_timer_id[b]].armed
  /\ owned[b] # NoSetting => b \in InUse(mp) /\ setting[b] = owned[b] /\ Made(b)
  /\ b \in InUse(mp) => owned[b] # NoSetting \/ block[a] = b
  /\ \A k \in Existing \ leaked : kernel[k].block = b =>
       /\ linux_timer_id[b] = k
       /\ owned[b] # NoSetting \/ (block[a] = b /\ pc[a] \in {"arm", "delete"})

\* Such a step keeps the invariant if it keeps what that says of the two, and takes no
\* timer from a callback that is not made stale.
LEMMA Focused ==
  ASSUME TimersInv, NEW a, NEW b, Focus(a, b), TimerTypes', OwnLabels', Local(a, b)',
         \/ owned'[b] = owned[b] \/ owned[b] = NoSetting
         \/ \A c \in Callbacks : block[c] = b => stale'[c]
  PROVE  TimersInv'
<1>1. \A c \in Blocks \ {b} : Made(c) => Made(c)'
  <2> SUFFICES ASSUME NEW c \in Blocks \ {b}, Made(c) PROVE Made(c)'
    OBVIOUS
  <2> DEFINE k == linux_timer_id[c]
  <2>1. linux_timer_id'[c] = k /\ setting'[c] = setting[c]
    BY DEF Focus
  <2>2. k \in Existing \ leaked /\ kernel[k].block = c /\ c # b
    BY DEF Made
  <2>3. k \in Existing' \ leaked' /\ kernel'[k] = kernel[k]
    BY <2>2 DEF Focus
  <2> QED BY <2>1, <2>2, <2>3 DEF Made
<1>2. ASSUME NEW o \in Apps \ {a}
      PROVE  /\ o \in Actors /\ pc'[o] = pc[o] /\ block'[o] = block[o]
             /\ block[o] # b /\ pc[o] \in AppLabels /\ block[o] \in Blocks \cup {NoBlock}
             /\ pc[o] # "idle" => block[o] \in Blocks \ {b}
  BY DEF Focus, Actors, OwnLabels, TimersInv, TimerTypes, BlockIsOwn
<1>3. BlockIsOwn'
  <2> SUFFICES ASSUME NEW o \in Apps
               PROVE  /\ pc'[o] = "idle" <=> block'[o] = NoBlock
                      /\ pc'[o] # "idle" => /\ block'[o] \in InUse(mp') /\ owned'[block'[o]] = NoSetting
                                            /\ \A q \in Apps \ {o} : block'[q] # block'[o]
    BY DEF BlockIsOwn
  <2>1. CASE o = a
    BY <1>2, <2>1 DEF Local, Focus
  <2>2. CASE o # a
    <3>1. pc[o] # "idle" => /\ block[o] \in InUse(mp') /\ owned'[block[o]] = NoSetting
      BY <1>2, <2>2 DEF TimersInv, BlockIsOwn, Focus
    <3>2. pc[o] # "idle" => \A q \in Apps \ {o} : block'[q] # block'[o]
      <4> SUFFICES ASSUME pc[o] # "idle", NEW q \in Apps \ {o} PROVE block'[q] # block'[o]
        OBVIOUS
      <4>1. CASE q = a
        BY <1>2, <2>2, <4>1, TimerSizes DEF Focus
      <4>2. CASE q # a
        BY <1>2, <2>2, <4>2 DEF TimersInv, BlockIsOwn
      <4> QED BY <4>1, <4>2
    <3> QED BY <1>2, <2>2, <3>1, <3>2 DEF TimersInv, BlockIsOwn
  <2> QED BY <2>1, <2>2
<1>4. CallsProgress'
  <2> SUFFICES ASSUME NEW o \in Apps
               PROVE  /\ pc'[o] = "create" => setting'[block'[o]] \in Settings
                      /\ pc'[o] \in {"arm", "delete"} => Made(block[o])'
                      /\ pc'[o] = "arm" => ~kernel'[linux_timer_id'[block'[o]]].armed
    BY DEF CallsProgress, Made
  <2>1. CASE o = a
    BY <2>1 DEF Local, Focus, Made
  <2>2. CASE o # a
    <3>1. pc'[o] = pc[o] /\ block'[o] = block[o] /\ (pc[o] # "idle" => block[o] \in Blocks \ {b})
      BY <1>2, <2>2
    <3>2. pc[o] = "create" => setting'[block[o]] \in Settings
      BY <3>1 DEF TimersInv, CallsProgress, Focus
    <3>3. pc[o] \in {"arm", "delete"} => Made(block[o])
      BY DEF TimersInv, CallsProgress
    <3>4. ASSUME pc[o] \in {"arm", "delete"}
          PROVE  kernel'[linux_timer_id'[block[o]]] = kernel[linux_timer_id[block[o]]]
      <4>1. /\ linux_timer_id'[block[o]] = linux_timer_id[block[o]]
            /\ linux_timer_id[block[o]] \in Existing \ leaked
            /\ kernel[linux_timer_id[block[o]]].block # b
        BY <3>1, <3>3, <3>4 DEF Made, Focus
      <4> QED BY <4>1 DEF Focus
    <3> QED BY <1>1, <3>1, <3>2, <3>3, <3>4 DEF TimersInv, CallsProgress, Made
  <2> QED BY <2>1, <2>2
<1>5. IdsMade'
  <2> SUFFICES ASSUME NEW c \in Blocks, owned'[c] # NoSetting
               PROVE  c \in InUse(mp') /\ setting'[c] = owned'[c] /\ Made(c)'
    BY DEF IdsMade, Blocks
  <2>1. CASE c = b
    BY <2>1 DEF Local
  <2>2. CASE c # b
    BY <1>1, <2>2 DEF TimersInv, IdsMade, Focus
  <2> QED BY <2>1, <2>2
<1>6. BlocksKept'
  <2> SUFFICES ASSUME NEW c \in InUse(mp')
               PROVE  owned'[c] # NoSetting \/ \E o \in Apps : block'[o] = c
    BY DEF BlocksKept
  <2>1. c \in Blocks
    <3>1. PoolOK(mp', num_timer)
      BY DEF TimerTypes
    <3> QED BY <3>1, InUseCount, TimerSizes
  <2>2. CASE c = b
    BY <2>2 DEF Local, Focus
  <2>3. CASE c # b
    <3>1. c \in InUse(mp) /\ owned'[c] = owned[c]
      BY <2>1, <2>3 DEF Focus
    <3>2. CASE \E o \in Apps : block[o] = c
      BY <1>2, <2>1, <2>3, <3>2, TimerSizes DEF Focus
    <3> QED BY <3>1, <3>2 DEF TimersInv, BlocksKept
  <2> QED BY <2>2, <2>3
<1>7. KernelsMade'
  <2> SUFFICES ASSUME NEW k \in Existing' \ leaked'
               PROVE  /\ linux_timer_id'[kernel'[k].block] = k
                      /\ \/ owned'[kernel'[k].block] # NoSetting
                         \/ \E o \in Apps : block'[o] = kernel'[k].block /\ pc'[o] \in {"arm", "delete"}
    BY DEF KernelsMade
  <2>1. CASE kernel'[k].block = b
    BY <2>1 DEF Local, Focus
  <2>2. CASE kernel'[k].block # b
    <3>1. k \in Existing \ leaked /\ kernel[k].block # b
      BY <2>2 DEF Focus
    <3>2. kernel'[k] = kernel[k] /\ kernel[k].block \in Blocks
      BY <3>1, KernelIs DEF Focus, TimersInv
    <3>3. linux_timer_id'[kernel[k].block] = k /\ owned'[kernel[k].block] = owned[kernel[k].block]
      BY <3>1, <3>2 DEF Focus, TimersInv, KernelsMade
    <3>4. ASSUME NEW o \in Apps, block[o] = kernel[k].block, pc[o] \in {"arm", "delete"}
          PROVE  block'[o] = kernel[k].block /\ pc'[o] \in {"arm", "delete"}
      <4>1. o # a
        BY <3>1, <3>2, <3>4, TimerSizes DEF Focus
      <4> QED BY <1>2, <3>4, <4>1
    <3> QED BY <3>1, <3>2, <3>3, <3>4 DEF TimersInv, KernelsMade
  <2> QED BY <2>1, <2>2
<1>8. CallbacksOwn'
  <2> SUFFICES ASSUME NEW c \in Callbacks, pc'[c] \in {"func", "arg", "calling"}
               PROVE  /\ block'[c] \in Blocks
                      /\ ~stale'[c] => /\ meant'[c] # NoSetting /\ owned'[block'[c]] = meant'[c]
                                       /\ pc'[c] \in {"arg", "calling"} => called'[c].func = meant'[c]
                                       /\ pc'[c] = "calling" => called'[c].arg = meant'[c]
    BY DEF CallbacksOwn, Blocks
  <2>1. c # a
    BY DEF Focus, OwnLabels, Actors, AppLabels
  <2>2. pc'[c] = pc[c] /\ block'[c] = block[c] /\ called' = called /\ meant' = meant
    BY <2>1 DEF Focus, Actors
  <2>3. block[c] \in Blocks
    BY <2>2 DEF TimersInv, CallbacksOwn
  <2>4. ASSUME ~stale'[c]
        PROVE  /\ meant[c] # NoSetting /\ owned[block[c]] = meant[c] /\ owned'[block[c]] = owned[block[c]]
               /\ pc[c] \in {"arg", "calling"} => called[c].func = meant[c]
               /\ pc[c] = "calling" => called[c].arg = meant[c]
    <3>1. ~stale[c]
      BY <2>4 DEF Focus
    <3>2. meant[c] # NoSetting /\ owned[block[c]] = meant[c]
      BY <2>2, <3>1 DEF TimersInv, CallbacksOwn
    <3>3. owned'[block[c]] = owned[block[c]]
      BY <2>3, <2>4, <3>2 DEF Focus
    <3> QED BY <2>2, <3>1, <3>2, <3>3 DEF TimersInv, CallbacksOwn
  <2> QED BY <2>2, <2>3, <2>4
<1> QED BY <1>3, <1>4, <1>5, <1>6, <1>7, <1>8 DEF TimersInv

\* Before the step, too.
LEMMA LocalBefore ==
  ASSUME TimersInv, NEW a \in Apps, NEW b \in Blocks, block[a] \in {b, NoBlock},
         \A o \in Apps \ {a} : block[o] # b
  PROVE  Local(a, b)
<1> USE TimerSizes DEF TimersInv
<1>1. pc[a] # "idle" => block[a] = b
  BY DEF BlockIsOwn
<1>2. /\ pc[a] = "idle" <=> block[a] = NoBlock
      /\ pc[a] # "idle" => b \in InUse(mp) /\ owned[b] = NoSetting
  BY <1>1 DEF BlockIsOwn
<1>3. /\ pc[a] = "create" => setting[b] \in Settings
      /\ pc[a] \in {"arm", "delete"} => Made(b)
      /\ pc[a] = "arm" => ~kernel[linux_timer_id[b]].armed
  BY <1>1 DEF CallsProgress
<1>4. owned[b] # NoSetting => b \in InUse(mp) /\ setting[b] = owned[b] /\ Made(b)
  BY DEF IdsMade
<1>5. b \in InUse(mp) => owned[b] # NoSetting \/ block[a] = b
  BY DEF BlocksKept
<1>6. ASSUME NEW k \in Existing \ leaked, kernel[k].block = b
      PROVE  /\ linux_timer_id[b] = k
             /\ owned[b] # NoSetting \/ (block[a] = b /\ pc[a] \in {"arm", "delete"})
  BY <1>6 DEF KernelsMade
<1> QED BY <1>2, <1>3, <1>4, <1>5, <1>6 DEF Local

\* Nobody else works on the block a call works on, or on one that is owned or free.
LEMMA Alone ==
  ASSUME TimersInv, NEW a \in Apps
  PROVE  /\ pc[a] # "idle" => /\ block[a] \in Blocks /\ block[a] \in InUse(mp)
                              /\ \A o \in Apps \ {a} : block[o] # block[a]
         /\ pc[a] = "idle" => block[a] = NoBlock
         /\ \A b \in Blocks : owned[b] # NoSetting \/ b \notin InUse(mp) =>
              \A o \in Apps : block[o] # b
<1>1. \A o \in Apps : /\ o \in Actors /\ block[o] \in Blocks \cup {NoBlock}
                      /\ pc[o] = "idle" <=> block[o] = NoBlock
                      /\ pc[o] # "idle" => block[o] \in InUse(mp) /\ owned[block[o]] = NoSetting
  BY DEF TimersInv, TimerTypes, BlockIsOwn, Actors
<1>2. pc[a] # "idle" => \A o \in Apps \ {a} : block[o] # block[a]
  BY DEF TimersInv, BlockIsOwn
<1> QED BY <1>1, <1>2, TimerSizes

LEMMA CreateCallStep ==
  ASSUME TimersInv, NEW a \in Apps, NEW s \in Settings, CreateCall(a, s)
  PROVE  TimersInv'
<1>0. PICK b : b = PoolNext(mp)
  OBVIOUS
<1>1. /\ PoolOK(mp', num_timer) /\ b \in Blocks /\ b \notin InUse(mp)
      /\ InUse(mp') = InUse(mp) \cup {b}
  <2>1. PoolOK(mp, num_timer) /\ mp.num_used # num_timer /\ mp' = PoolAlloc(mp)
    BY PoolFullWhen, TimerSizes DEF TimersInv, TimerTypes, CreateCall
  <2> QED BY <1>0, <2>1, PoolAllocTakes, TimerSizes
<1>2. /\ pc[a] = "idle" /\ pc' = [pc EXCEPT ![a] = "create"] /\ block' = [block EXCEPT ![a] = b]
      /\ setting' = [setting EXCEPT ![b] = s]
      /\ UNCHANGED <<linux_timer_id, kernel, leaked, owned, called, meant, stale>>
  BY <1>0 DEF CreateCall, Goto, callbacks
<1>3. a \in Actors /\ TimerTypes /\ OwnLabels /\ block[a] = NoBlock /\ \A o \in Apps : block[o] # b
  BY <1>1, <1>2, Alone DEF TimersInv, Actors
<1>4. Existing' = Existing
  BY <1>2 DEF Existing
<1>5. TimerTypes'
  BY <1>1, <1>2, <1>3, <1>4 DEF TimerTypes, AppLabels
<1>6. OwnLabels'
  BY <1>2, <1>3 DEF OwnLabels, TimerTypes, AppLabels
<1>7. Focus(a, b)
  BY <1>1, <1>2, <1>3, <1>4 DEF Focus, TimerTypes
<1>8. Local(a, b)
  BY <1>1, <1>3, LocalBefore
<1>9. owned[b] = NoSetting
  BY <1>1, <1>8 DEF Local
<1>10. \A k \in Existing \ leaked : kernel[k].block # b
  BY <1>2, <1>8, <1>9 DEF Local
<1>11. /\ pc'[a] = "create" /\ block'[a] = b /\ owned'[b] = NoSetting /\ b \in InUse(mp')
       /\ setting'[b] \in Settings
  BY <1>1, <1>2, <1>3, <1>9 DEF TimerTypes
<1>12. Local(a, b)'
  BY <1>1, <1>2, <1>4, <1>10, <1>11, TimerSizes DEF Local
<1> QED BY <1>2, <1>5, <1>6, <1>7, <1>12, Focused

LEMMA CreateTimerStep ==
  ASSUME TimersInv, NEW a \in Apps, CreateTimer(a)
  PROVE  TimersInv'
<1>0. PICK b : b = block[a]
  OBVIOUS
<1>1. PICK k \in KernelIds \ Existing :
        /\ kernel' = [kernel EXCEPT ![k] = [block |-> b, armed |-> FALSE, made_for |-> setting[b]]]
        /\ linux_timer_id' = [linux_timer_id EXCEPT ![b] = k]
  BY <1>0 DEF CreateTimer
<1>2. /\ pc[a] = "create" /\ pc' = [pc EXCEPT ![a] = "arm"]
      /\ UNCHANGED <<mp, setting, leaked, owned, block, called, meant, stale>>
  BY <1>0 DEF CreateTimer, Goto, callbacks
<1>3. /\ a \in Actors /\ TimerTypes /\ OwnLabels /\ b \in Blocks /\ b \in InUse(mp)
      /\ \A o \in Apps \ {a} : block[o] # b
  BY <1>0, <1>2, Alone DEF TimersInv, Actors
<1>4. Local(a, b)
  BY <1>0, <1>3, LocalBefore
<1>5. setting[b] \in Settings /\ owned[b] = NoSetting /\ b # NoBlock
      /\ \A j \in Existing \ leaked : kernel[j].block # b
  BY <1>2, <1>3, <1>4, TimerSizes DEF Local
<1>6. Existing' = Existing \cup {k} /\ k \notin leaked
  BY <1>1, <1>3, <1>5 DEF TimerTypes, Existing, NoTimer
<1>7. /\ kernel'[k].block = b /\ kernel'[k].armed = FALSE /\ kernel'[k].made_for = setting[b]
      /\ k \in KernelIds /\ k \notin Existing /\ Existing \subseteq KernelIds
      /\ \A j \in KernelIds \ {k} : kernel'[j] = kernel[j]
      /\ linux_timer_id'[b] = k /\ \A c \in Blocks \ {b} : linux_timer_id'[c] = linux_timer_id[c]
  BY <1>1, <1>3 DEF TimerTypes, Existing
<1>8. TimerTypes'
  BY <1>1, <1>2, <1>3, <1>5, <1>6 DEF TimerTypes, AppLabels
<1>9. OwnLabels'
  BY <1>2, <1>3 DEF OwnLabels, TimerTypes, AppLabels
<1>10. Focus(a, b)
  <2>1. block[a] = b /\ block'[a] = b
    BY <1>0, <1>2
  <2>2. /\ \A j : j \in Existing \ leaked /\ kernel[j].block # b
                   <=> j \in Existing' \ leaked' /\ kernel'[j].block # b
        /\ \A j \in Existing \ leaked : kernel[j].block # b => kernel'[j] = kernel[j]
    BY <1>2, <1>5, <1>6, <1>7
  <2> QED BY <1>2, <1>3, <1>7, <2>1, <2>2 DEF Focus, TimerTypes
<1>11. Local(a, b)'
  <2>1. /\ pc'[a] = "arm" /\ block'[a] = b /\ owned'[b] = NoSetting /\ b \in InUse(mp')
        /\ setting'[b] = setting[b]
    BY <1>0, <1>2, <1>3, <1>5 DEF TimerTypes
  <2>2. Made(b)' /\ ~kernel'[k].armed
    BY <1>2, <1>5, <1>6, <1>7 DEF Made
  <2>3. \A j \in Existing' \ leaked' : kernel'[j].block = b => j = k
    BY <1>2, <1>5, <1>6, <1>7
  <2> QED BY <1>2, <1>5, <1>7, <2>1, <2>2, <2>3 DEF Local
<1> QED BY <1>2, <1>8, <1>9, <1>10, <1>11, Focused

\* A free makes room without touching what is in the blocks.
LEMMA TimerFreed ==
  ASSUME TimerTypes, NEW b \in Blocks, mp' = PoolFree(mp, b)
  PROVE  PoolOK(mp', num_timer) /\ InUse(mp') = InUse(mp) \ {b}
  BY PoolFreeReturns, TimerSizes DEF TimerTypes

\* A call that frees its block, whether the kernel's timer is gone, was never made, or is
\* left behind.
LEMMA FreeStep ==
  ASSUME TimersInv, NEW a \in Apps, CreateFails(a) \/ CreateArmFails(a) \/ DeleteFree(a)
  PROVE  TimersInv'
<1>0. PICK b : b = block[a]
  OBVIOUS
<1>1. /\ pc[a] \in {"create", "arm", "free"} /\ pc' = [pc EXCEPT ![a] = "idle"]
      /\ block' = [block EXCEPT ![a] = NoBlock] /\ mp' = PoolFree(mp, b)
      /\ UNCHANGED <<setting, linux_timer_id, kernel, owned, called, meant, stale>>
      /\ leaked' = IF pc[a] = "arm" THEN leaked \cup {linux_timer_id[b]} ELSE leaked
  BY <1>0 DEF CreateFails, CreateArmFails, DeleteFree, Leave, Goto, callbacks
<1>2. /\ a \in Actors /\ TimerTypes /\ OwnLabels /\ b \in Blocks /\ b \in InUse(mp)
      /\ \A o \in Apps \ {a} : block[o] # b
  BY <1>0, <1>1, Alone DEF TimersInv, Actors
<1>3. Local(a, b)
  BY <1>0, <1>2, LocalBefore
<1>4. block[a] = b
  BY <1>0
<1>5. PoolOK(mp', num_timer) /\ InUse(mp') = InUse(mp) \ {b}
  BY <1>1, <1>2, TimerFreed
<1>6. owned[b] = NoSetting
  BY <1>1, <1>3 DEF Local
<1>7. /\ Existing' = Existing
      /\ pc[a] = "arm" => /\ linux_timer_id[b] \in Existing \ leaked
                          /\ kernel[linux_timer_id[b]].block = b
      /\ \A k \in Existing \ leaked : kernel[k].block = b => pc[a] = "arm" /\ k = linux_timer_id[b]
  BY <1>1, <1>3, <1>6 DEF Existing, Local, Made
<1>8. TimerTypes'
  BY <1>1, <1>2, <1>5, <1>7 DEF TimerTypes, AppLabels
<1>9. OwnLabels'
  BY <1>1, <1>2 DEF OwnLabels, TimerTypes, AppLabels
<1>10. Focus(a, b)
  <2>1. \A x \in Actors \ {a} : pc'[x] = pc[x] /\ block'[x] = block[x]
    BY <1>1, <1>2 DEF TimerTypes
  <2>2. block'[a] = NoBlock
    BY <1>1, <1>2 DEF TimerTypes
  <2>3. \A k : k \in Existing \ leaked /\ kernel[k].block # b
                <=> k \in Existing' \ leaked' /\ kernel'[k].block # b
    BY <1>1, <1>7
  <2> QED BY <1>1, <1>2, <1>4, <1>5, <2>1, <2>2, <2>3 DEF Focus
<1>11. Local(a, b)'
  <2>1. pc'[a] = "idle" /\ block'[a] = NoBlock /\ owned'[b] = NoSetting /\ b \notin InUse(mp')
    BY <1>1, <1>2, <1>5, <1>6 DEF TimerTypes
  <2>2. \A k \in Existing' \ leaked' : kernel'[k].block # b
    BY <1>1, <1>7
  <2> QED BY <2>1, <2>2 DEF Local
<1> QED BY <1>6, <1>8, <1>9, <1>10, <1>11, Focused

\* The kernel's timer of block b is armed or disarmed.
Rearmed(b) == \E up \in BOOLEAN : kernel' = [kernel EXCEPT ![linux_timer_id[b]].armed = up]

LEMMA RearmedKeeps ==
  ASSUME TimerTypes, NEW b \in Blocks, Made(b), Rearmed(b)
  PROVE  /\ kernel' \in [KernelIds -> [block : Blocks, armed : BOOLEAN, made_for : Settings] \cup {NoTimer}]
         /\ Existing' = Existing
         /\ \A k \in KernelIds : k # linux_timer_id[b] => kernel'[k] = kernel[k]
         /\ \A k \in KernelIds : kernel'[k].block = kernel[k].block /\ kernel'[k].made_for = kernel[k].made_for
<1> DEFINE j == linux_timer_id[b]
<1>1. PICK up \in BOOLEAN : kernel' = [kernel EXCEPT ![j].armed = up]
  BY DEF Rearmed
<1>2. j \in Existing /\ j \in KernelIds /\ kernel[j] \in [block : Blocks, armed : BOOLEAN, made_for : Settings]
  BY KernelIs DEF Made
<1> HIDE DEF j
<1>3. kernel'[j] = [kernel[j] EXCEPT !.armed = up] /\ \A k \in KernelIds \ {j} : kernel'[k] = kernel[k]
  BY <1>1, <1>2 DEF TimerTypes
<1>4. /\ kernel'[j] \in [block : Blocks, armed : BOOLEAN, made_for : Settings]
      /\ kernel'[j].block = kernel[j].block /\ kernel'[j].made_for = kernel[j].made_for
  BY <1>2, <1>3
<1>5. kernel'[j] # NoTimer /\ kernel[j] # NoTimer
  BY <1>2, <1>4, TimerSizes DEF NoTimer
<1>6. kernel' \in [KernelIds -> [block : Blocks, armed : BOOLEAN, made_for : Settings] \cup {NoTimer}]
  <2>1. kernel' = [k \in KernelIds |-> kernel'[k]]
    BY <1>1 DEF TimerTypes
  <2>2. \A k \in KernelIds : kernel'[k] \in [block : Blocks, armed : BOOLEAN, made_for : Settings] \cup {NoTimer}
    BY <1>3, <1>4 DEF TimerTypes
  <2> QED BY <2>1, <2>2
<1>7. Existing' = Existing
  BY <1>3, <1>5 DEF Existing
<1> QED BY <1>3, <1>4, <1>6, <1>7 DEF j

LEMMA CreateArmStep ==
  ASSUME TimersInv, NEW a \in Apps, CreateArm(a)
  PROVE  TimersInv'
<1>0. PICK b : b = block[a]
  OBVIOUS
<1>1. /\ pc[a] = "arm" /\ pc' = [pc EXCEPT ![a] = "idle"] /\ Rearmed(b)
      /\ block' = [block EXCEPT ![a] = NoBlock] /\ owned' = [owned EXCEPT ![b] = setting[b]]
      /\ UNCHANGED <<mp, setting, linux_timer_id, leaked, called, meant, stale>>
  BY <1>0 DEF CreateArm, Leave, Goto, callbacks, Rearmed
<1>2. /\ a \in Actors /\ TimerTypes /\ OwnLabels /\ b \in Blocks /\ b \in InUse(mp)
      /\ \A o \in Apps \ {a} : block[o] # b
  BY <1>0, <1>1, Alone DEF TimersInv, Actors
<1>3. Local(a, b)
  BY <1>0, <1>2, LocalBefore
<1>4. block[a] = b
  BY <1>0
<1>5. Made(b) /\ owned[b] = NoSetting
  BY <1>1, <1>3 DEF Local
<1>6. /\ kernel' \in [KernelIds -> [block : Blocks, armed : BOOLEAN, made_for : Settings] \cup {NoTimer}]
      /\ Existing' = Existing
      /\ \A k \in KernelIds : k # linux_timer_id[b] => kernel'[k] = kernel[k]
      /\ \A k \in KernelIds : kernel'[k].block = kernel[k].block /\ kernel'[k].made_for = kernel[k].made_for
  BY <1>1, <1>2, <1>5, RearmedKeeps
<1>7. Existing \subseteq KernelIds
  BY DEF Existing
<1>8. TimerTypes'
  BY <1>1, <1>2, <1>6 DEF TimerTypes, AppLabels
<1>9. OwnLabels'
  BY <1>1, <1>2 DEF OwnLabels, TimerTypes, AppLabels
<1>10. Focus(a, b)
  <2>1. \A x \in Actors \ {a} : pc'[x] = pc[x] /\ block'[x] = block[x]
    BY <1>1, <1>2 DEF TimerTypes
  <2>2. block'[a] = NoBlock /\ \A c \in Blocks \ {b} : owned'[c] = owned[c]
    BY <1>1, <1>2 DEF TimerTypes
  <2>3. linux_timer_id[b] \in Existing /\ kernel[linux_timer_id[b]].block = b
    BY <1>5 DEF Made
  <2>4. /\ \A k : k \in Existing \ leaked /\ kernel[k].block # b
                   <=> k \in Existing' \ leaked' /\ kernel'[k].block # b
        /\ \A k \in Existing \ leaked : kernel[k].block # b => kernel'[k] = kernel[k]
    BY <1>1, <1>6, <1>7, <2>3
  <2> QED BY <1>1, <1>2, <1>4, <2>1, <2>2, <2>4 DEF Focus
<1>11. Made(b)'
  BY <1>1, <1>5, <1>6, <1>7 DEF Made
<1>12. Local(a, b)'
  <2>1. pc'[a] = "idle" /\ block'[a] = NoBlock /\ b \in InUse(mp') /\ owned'[b] = setting[b]
    BY <1>1, <1>2 DEF TimerTypes
  <2>2. setting[b] # NoSetting
    BY <1>5, TimerSizes DEF Made
  <2>3. \A k \in Existing' \ leaked' : kernel'[k].block = b => linux_timer_id'[b] = k
    BY <1>1, <1>3, <1>6, <1>7 DEF Local
  <2> QED BY <1>1, <1>11, <2>1, <2>2, <2>3 DEF Local
<1> QED BY <1>5, <1>8, <1>9, <1>10, <1>12, Focused

LEMMA SetIntervalStep ==
  ASSUME TimersInv, NEW a \in Apps, NEW b \in Blocks, SetInterval(a, b)
  PROVE  TimersInv'
<1>1. /\ pc[a] = "idle" /\ owned[b] # NoSetting /\ Rearmed(b)
      /\ UNCHANGED <<mp, setting, linux_timer_id, leaked, owned, pc, block, called, meant, stale>>
  BY DEF SetInterval, Rearmed, callbacks
<1>2. TimerTypes /\ OwnLabels /\ block[a] = NoBlock /\ \A o \in Apps : block[o] # b
  BY <1>1, Alone DEF TimersInv
<1>3. Local(a, b)
  BY <1>2, LocalBefore
<1>4. Made(b) /\ b \in InUse(mp) /\ setting[b] = owned[b]
  BY <1>1, <1>3 DEF Local
<1>5. /\ kernel' \in [KernelIds -> [block : Blocks, armed : BOOLEAN, made_for : Settings] \cup {NoTimer}]
      /\ Existing' = Existing
      /\ \A k \in KernelIds : k # linux_timer_id[b] => kernel'[k] = kernel[k]
      /\ \A k \in KernelIds : kernel'[k].block = kernel[k].block /\ kernel'[k].made_for = kernel[k].made_for
  BY <1>1, <1>2, <1>4, RearmedKeeps
<1>6. Existing \subseteq KernelIds
  BY DEF Existing
<1>7. TimerTypes' /\ OwnLabels'
  BY <1>1, <1>2, <1>5 DEF TimerTypes, OwnLabels
<1>8. Focus(a, b)
  <2>1. linux_timer_id[b] \in Existing /\ kernel[linux_timer_id[b]].block = b
    BY <1>4 DEF Made
  <2>2. /\ \A k : k \in Existing \ leaked /\ kernel[k].block # b
                   <=> k \in Existing' \ leaked' /\ kernel'[k].block # b
        /\ \A k \in Existing \ leaked : kernel[k].block # b => kernel'[k] = kernel[k]
    BY <1>1, <1>5, <1>6, <2>1
  <2> QED BY <1>1, <1>2, <2>2 DEF Focus
<1>9. Made(b)'
  BY <1>1, <1>4, <1>5, <1>6 DEF Made
<1>10. Local(a, b)'
  <2>1. \A k \in Existing' \ leaked' : kernel'[k].block = b => linux_timer_id'[b] = k
    BY <1>1, <1>3, <1>5, <1>6 DEF Local
  <2> QED BY <1>1, <1>2, <1>4, <1>9, <2>1 DEF Local
<1> QED BY <1>1, <1>7, <1>8, <1>10, Focused

\* The application gives a timer up: to delete it, or for an interval that is refused.
LEMMA GiveUpStep ==
  ASSUME TimersInv, NEW a \in Apps, NEW b \in Blocks, DeleteCall(a, b) \/ SetFails(a, b)
  PROVE  TimersInv'
<1>1. /\ pc[a] = "idle" /\ owned[b] # NoSetting /\ owned' = [owned EXCEPT ![b] = NoSetting]
      /\ stale' = [c \in Callbacks |-> stale[c] \/ block[c] = b]
      /\ UNCHANGED <<setting, linux_timer_id, kernel, called, meant>>
      /\ \/ /\ pc' = [pc EXCEPT ![a] = "delete"] /\ block' = [block EXCEPT ![a] = b]
            /\ UNCHANGED <<mp, leaked>>
         \/ /\ mp' = PoolFree(mp, b) /\ leaked' = leaked \cup {linux_timer_id[b]}
            /\ UNCHANGED <<pc, block>>
  BY DEF DeleteCall, SetFails, GiveUp, Goto
<1>2. /\ a \in Actors /\ TimerTypes /\ OwnLabels /\ block[a] = NoBlock /\ \A o \in Apps : block[o] # b
  BY <1>1, Alone DEF TimersInv, Actors
<1>3. Local(a, b)
  BY <1>2, LocalBefore
<1>4. Made(b) /\ b \in InUse(mp) /\ setting[b] = owned[b]
  BY <1>1, <1>3 DEF Local
<1>5. linux_timer_id[b] \in Existing \ leaked /\ kernel[linux_timer_id[b]].block = b
  BY <1>4 DEF Made
<1>6. /\ Existing' = Existing
      /\ \A k \in Existing \ leaked : kernel[k].block = b => k = linux_timer_id[b]
  BY <1>1, <1>3 DEF Existing, Local
<1>7. PoolOK(mp, num_timer) /\ PoolOK(mp', num_timer) /\ \A c \in Blocks \ {b} : c \in InUse(mp') <=> c \in InUse(mp)
  BY <1>1, <1>2, TimerFreed DEF TimerTypes
<1>8. \A c \in Callbacks : (stale[c] => stale'[c]) /\ (block[c] = b => stale'[c])
  BY <1>1
<1>9. /\ owned'[b] = NoSetting /\ \A c \in Blocks \ {b} : owned'[c] = owned[c]
      /\ owned' \in [Blocks -> Settings \cup {NoSetting}]
  BY <1>1, <1>2 DEF TimerTypes
<1>10. stale' \in [Callbacks -> BOOLEAN]
  BY <1>1, <1>2 DEF TimerTypes
<1>11. CASE /\ pc' = [pc EXCEPT ![a] = "delete"] /\ block' = [block EXCEPT ![a] = b]
            /\ UNCHANGED <<mp, leaked>>
  <2>1. TimerTypes' /\ OwnLabels'
    <3>1. TimerTypes'
      BY <1>1, <1>2, <1>6, <1>9, <1>10, <1>11 DEF TimerTypes, AppLabels
    <3>2. OwnLabels'
      BY <1>2, <1>11 DEF OwnLabels, TimerTypes, AppLabels
    <3> QED BY <3>1, <3>2
  <2>2. Focus(a, b)
    BY <1>1, <1>2, <1>6, <1>8, <1>9, <1>11 DEF Focus, TimerTypes
  <2>3. pc'[a] = "delete" /\ block'[a] = b /\ b # NoBlock
    BY <1>2, <1>11, TimerSizes DEF TimerTypes
  <2>4. Made(b)'
    BY <1>1, <1>4, <1>6, <1>11 DEF Made
  <2>5. Local(a, b)'
    BY <1>1, <1>4, <1>6, <1>9, <1>11, <2>3, <2>4 DEF Local
  <2> QED BY <1>8, <2>1, <2>2, <2>5, Focused
<1>12. CASE /\ mp' = PoolFree(mp, b) /\ leaked' = leaked \cup {linux_timer_id[b]}
            /\ UNCHANGED <<pc, block>>
  <2>1. TimerTypes' /\ OwnLabels'
    BY <1>1, <1>2, <1>5, <1>6, <1>7, <1>9, <1>10, <1>12 DEF TimerTypes, OwnLabels
  <2>2. /\ \A k : k \in Existing \ leaked /\ kernel[k].block # b
                   <=> k \in Existing' \ leaked' /\ kernel'[k].block # b
    BY <1>1, <1>5, <1>6, <1>12
  <2>3. Focus(a, b)
    BY <1>1, <1>2, <1>7, <1>8, <1>9, <1>12, <2>2 DEF Focus
  <2>4. b \notin InUse(mp') /\ \A k \in Existing' \ leaked' : kernel'[k].block # b
    BY <1>1, <1>2, <1>6, <1>12, TimerFreed
  <2>5. Local(a, b)'
    BY <1>1, <1>2, <1>9, <1>12, <2>4 DEF Local
  <2> QED BY <1>8, <2>1, <2>3, <2>5, Focused
<1> QED BY <1>1, <1>11, <1>12

LEMMA DeleteTimerStep ==
  ASSUME TimersInv, NEW a \in Apps, DeleteTimer(a)
  PROVE  TimersInv'
<1>0. PICK b, j : b = block[a] /\ j = linux_timer_id[b]
  OBVIOUS
<1>1. /\ pc[a] = "delete" /\ pc' = [pc EXCEPT ![a] = "free"] /\ kernel' = [kernel EXCEPT ![j] = NoTimer]
      /\ UNCHANGED <<mp, setting, linux_timer_id, leaked, owned, block, called, meant, stale>>
  BY <1>0 DEF DeleteTimer, Goto, callbacks
<1>2. /\ a \in Actors /\ TimerTypes /\ OwnLabels /\ b \in Blocks /\ b \in InUse(mp)
      /\ \A o \in Apps \ {a} : block[o] # b
  BY <1>0, <1>1, Alone DEF TimersInv, Actors
<1>3. Local(a, b)
  BY <1>0, <1>2, LocalBefore
<1>4. block[a] = b /\ j = linux_timer_id[b]
  BY <1>0
<1>5. /\ j \in Existing \ leaked /\ kernel[j].block = b /\ owned[b] = NoSetting
      /\ \A k \in Existing \ leaked : kernel[k].block = b => k = j
  BY <1>1, <1>3, <1>4 DEF Local, Made
<1>6. /\ kernel'[j] = NoTimer /\ \A k \in KernelIds \ {j} : kernel'[k] = kernel[k]
      /\ Existing' = Existing \ {j} /\ Existing \subseteq KernelIds
  BY <1>1, <1>2, <1>5 DEF TimerTypes, Existing
<1>7. TimerTypes'
  BY <1>1, <1>2, <1>5, <1>6 DEF TimerTypes, AppLabels
<1>8. OwnLabels'
  BY <1>1, <1>2 DEF OwnLabels, TimerTypes, AppLabels
<1>9. Focus(a, b)
  <2>1. /\ \A k : k \in Existing \ leaked /\ kernel[k].block # b
                   <=> k \in Existing' \ leaked' /\ kernel'[k].block # b
        /\ \A k \in Existing \ leaked : kernel[k].block # b => kernel'[k] = kernel[k]
    BY <1>1, <1>5, <1>6
  <2> QED BY <1>1, <1>2, <1>4, <2>1 DEF Focus, TimerTypes
<1>10. Local(a, b)'
  <2>1. pc'[a] = "free" /\ block'[a] = b /\ b # NoBlock
    BY <1>1, <1>2, <1>4, TimerSizes DEF TimerTypes
  <2>2. \A k \in Existing' \ leaked' : kernel'[k].block # b
    BY <1>1, <1>5, <1>6
  <2> QED BY <1>1, <1>2, <1>5, <2>1, <2>2 DEF Local
<1> QED BY <1>1, <1>7, <1>8, <1>9, <1>10, Focused

\* The kernel's threads: a callback of a timer that is owned finds its settings.
LEMMA CallbackStep ==
  ASSUME TimersInv, NEW c \in Callbacks,
         (\E k \in KernelIds : Expire(k, c)) \/ ReadFunc(c) \/ ReadArg(c) \/ EndCallback(c)
  PROVE  TimersInv'
<1> DEFINE T == Settings \cup {NoSetting}
<1>0. /\ pc \in [Actors -> AppLabels \cup CallbackLabels] /\ block \in [Actors -> Blocks \cup {NoBlock}]
      /\ called \in [Callbacks -> [func : T, arg : T]]
      /\ meant \in [Callbacks -> T] /\ stale \in [Callbacks -> BOOLEAN]
      /\ setting \in [Blocks -> T] /\ TimerTypes
  BY DEF TimersInv, TimerTypes
<1>1. /\ UNCHANGED timers /\ Existing' = Existing /\ c \in Actors
      /\ pc[c] \in CallbackLabels /\ pc'[c] \in CallbackLabels
      /\ \A x \in Actors \ {c} : pc'[x] = pc[x] /\ block'[x] = block[x]
      /\ \A d \in Callbacks \ {c} : called'[d] = called[d] /\ meant'[d] = meant[d] /\ stale'[d] = stale[d]
  <2>1. c \in Actors /\ UNCHANGED timers
    BY DEF Actors, Expire, ReadFunc, ReadArg, EndCallback
  <2>2. /\ \A x \in Actors \ {c} : pc'[x] = pc[x] /\ block'[x] = block[x]
        /\ pc[c] \in CallbackLabels /\ pc'[c] \in CallbackLabels
    BY <1>0, <2>1 DEF Expire, ReadFunc, ReadArg, EndCallback, Goto, CallbackLabels
  <2>3. \A d \in Callbacks \ {c} : called'[d] = called[d] /\ meant'[d] = meant[d] /\ stale'[d] = stale[d]
    BY <1>0 DEF Expire, ReadFunc, ReadArg, EndCallback, Goto
  <2> QED BY <2>1, <2>2, <2>3 DEF timers, Existing
<1>2. /\ c \notin Apps /\ \A a \in Apps : a \in Actors \ {c}
  BY <1>1 DEF TimersInv, OwnLabels, AppLabels, CallbackLabels, Actors
<1>3. pc[c] \in {"func", "arg", "calling"} => block[c] \in Blocks /\ setting[block[c]] \in T
  BY <1>0 DEF TimersInv, CallbacksOwn
<1>4. TimerTypes' /\ CallbacksOwn'
  <2>1. ASSUME NEW k \in KernelIds, Expire(k, c) PROVE TimerTypes' /\ CallbacksOwn'
    <3> DEFINE b == kernel[k].block
    <3>1. /\ kernel[k].armed /\ pc' = [pc EXCEPT ![c] = "func"] /\ block' = [block EXCEPT ![c] = b]
          /\ meant' = [meant EXCEPT ![c] = kernel[k].made_for] /\ called' = called
          /\ stale' = [stale EXCEPT ![c] = k \in leaked \/ BeingDeleted(b)]
      BY <2>1 DEF Expire, Goto
    <3>2. k \in Existing /\ b \in Blocks /\ kernel[k].made_for \in Settings
      <4>1. kernel[k] # NoTimer
        BY <3>1 DEF NoTimer
      <4> QED BY <1>0, <4>1, KernelIs DEF Existing
    <3>3. k \notin leaked /\ ~BeingDeleted(b) => owned[b] = kernel[k].made_for
      <4> SUFFICES ASSUME k \notin leaked, ~BeingDeleted(b) PROVE owned[b] = kernel[k].made_for
        OBVIOUS
      <4>1. /\ linux_timer_id[b] = k
            /\ owned[b] # NoSetting \/ \E a \in Apps : block[a] = b /\ pc[a] = "arm"
        BY <3>2 DEF TimersInv, KernelsMade, BeingDeleted
      <4>2. owned[b] # NoSetting
        BY <3>1, <4>1 DEF TimersInv, CallsProgress
      <4> QED BY <3>2, <4>1, <4>2 DEF TimersInv, IdsMade, Made
    <3> HIDE DEF b
    <3>4. BeingDeleted(b) \in BOOLEAN
      BY DEF BeingDeleted
    <3>5. TimerTypes'
      BY <1>0, <1>1, <3>1, <3>2, <3>4 DEF TimerTypes, CallbackLabels, timers
    <3>6. pc'[c] = "func" /\ block'[c] = b /\ meant'[c] = kernel[k].made_for /\ (stale'[c] <=> k \in leaked \/ BeingDeleted(b))
      BY <1>0, <1>1, <3>1, <3>4
    <3>7. CallbacksOwn'
      BY <1>1, <3>2, <3>3, <3>6, TimerSizes DEF CallbacksOwn, TimersInv, Actors, timers, Blocks
    <3> QED BY <3>5, <3>7
  <2>2. CASE ReadFunc(c)
    <3>1. /\ pc[c] = "func" /\ pc' = [pc EXCEPT ![c] = "arg"]
          /\ called' = [called EXCEPT ![c].func = setting[block[c]]]
          /\ UNCHANGED <<block, meant, stale>>
      BY <2>2 DEF ReadFunc, Goto
    <3>2. pc'[c] = "arg" /\ called'[c].func = setting[block[c]] /\ called' \in [Callbacks -> [func : T, arg : T]]
      BY <1>0, <1>1, <1>3, <3>1
    <3>3. TimerTypes'
      BY <1>0, <1>1, <3>1, <3>2 DEF TimerTypes, CallbackLabels, timers
    <3>4. ~stale[c] => setting[block[c]] = meant[c]
      BY <1>3, <3>1 DEF TimersInv, CallbacksOwn, IdsMade
    <3>5. CallbacksOwn'
      BY <1>1, <3>1, <3>2, <3>4 DEF CallbacksOwn, TimersInv, Actors, timers, Blocks
    <3> QED BY <3>3, <3>5
  <2>3. CASE ReadArg(c)
    <3>1. /\ pc[c] = "arg" /\ pc' = [pc EXCEPT ![c] = "calling"]
          /\ called' = [called EXCEPT ![c].arg = setting[block[c]]]
          /\ UNCHANGED <<block, meant, stale>>
      BY <2>3 DEF ReadArg, Goto
    <3>2. /\ pc'[c] = "calling" /\ called'[c].arg = setting[block[c]] /\ called'[c].func = called[c].func
          /\ called' \in [Callbacks -> [func : T, arg : T]]
      BY <1>0, <1>1, <1>3, <3>1
    <3>3. TimerTypes'
      BY <1>0, <1>1, <3>1, <3>2 DEF TimerTypes, CallbackLabels, timers
    <3>4. ~stale[c] => setting[block[c]] = meant[c]
      BY <1>3, <3>1 DEF TimersInv, CallbacksOwn, IdsMade
    <3>5. CallbacksOwn'
      BY <1>1, <3>1, <3>2, <3>4 DEF CallbacksOwn, TimersInv, Actors, timers, Blocks
    <3> QED BY <3>3, <3>5
  <2>4. CASE EndCallback(c)
    <3>1. /\ pc'[c] = "none" /\ TimerTypes'
      BY <1>0, <1>1, <2>4 DEF TimerTypes, EndCallback, Goto, CallbackLabels, timers, NoCall
    <3>2. CallbacksOwn'
      BY <1>1, <3>1 DEF CallbacksOwn, TimersInv, Actors, timers, Blocks
    <3> QED BY <3>1, <3>2
  <2> QED BY <2>1, <2>2, <2>3, <2>4
<1>5. OwnLabels'
  BY <1>1, <1>2 DEF OwnLabels, TimersInv
<1>6. BlockIsOwn' /\ BlocksKept'
  BY <1>1, <1>2 DEF TimersInv, BlockIsOwn, BlocksKept, timers
<1>7. IdsMade' /\ CallsProgress'
  <2>1. \A b : Made(b)' = Made(b)
    BY <1>1 DEF Made, timers
  <2> QED BY <1>1, <1>2, <2>1 DEF TimersInv, IdsMade, CallsProgress, timers, Blocks
<1>8. KernelsMade'
  BY <1>1, <1>2 DEF TimersInv, KernelsMade, timers
<1> QED BY <1>4, <1>5, <1>6, <1>7, <1>8 DEF TimersInv

LEMMA TimersStep == TimersInv /\ [Next]_vars => TimersInv'
<1> SUFFICES ASSUME TimersInv, [Next]_vars PROVE TimersInv'
  OBVIOUS
<1>1. CASE Next
  <2>1. ASSUME NEW a \in Apps,
               \/ \E s \in Settings : CreateCall(a, s)
               \/ CreateTimer(a) \/ CreateFails(a) \/ CreateArm(a) \/ CreateArmFails(a)
               \/ \E b \in Blocks : DeleteCall(a, b) \/ SetInterval(a, b) \/ SetFails(a, b)
               \/ DeleteTimer(a) \/ DeleteFree(a)
        PROVE  TimersInv'
    BY <2>1, CreateCallStep, CreateTimerStep, CreateArmStep, FreeStep, GiveUpStep, SetIntervalStep, DeleteTimerStep
  <2> QED BY <1>1, <2>1, CallbackStep DEF Next
<1>2. CASE UNCHANGED vars
  <2>1. Existing' = Existing /\ \A b : Made(b)' = Made(b)
    BY <1>2 DEF vars, timers, Existing, Made
  <2>2. /\ TimerTypes' /\ OwnLabels' /\ BlockIsOwn' /\ CallsProgress'
    BY <1>2, <2>1 DEF vars, timers, callbacks, TimersInv, TimerTypes, OwnLabels, BlockIsOwn, CallsProgress
  <2>3. IdsMade' /\ BlocksKept' /\ KernelsMade' /\ CallbacksOwn'
    BY <1>2, <2>1 DEF vars, timers, callbacks, TimersInv, IdsMade, BlocksKept, KernelsMade, CallbacksOwn, Blocks
  <2> QED BY <2>2, <2>3 DEF TimersInv
<1> QED BY <1>1, <1>2

\* Ids, blocks, settings and the kernel's timers belong together.
LEMMA TimersInvSound == TimersInv => TimersSound /\ CallbackCallsOwn
<1> SUFFICES ASSUME TimersInv PROVE TimersSound /\ CallbackCallsOwn
  OBVIOUS
<1> USE DEF TimersInv
<1>1. TypeOK
  <2>1. mp.num_used \in 0 .. num_timer
    BY DEF TimerTypes, PoolOK
  <2>2. {mp.block_ptr[i] : i \in Blocks} = Blocks
    <3> DEFINE f == mp.block_ptr
    <3>1. f \in Injection(Blocks, Blocks)
      BY TimerSizes DEF TimerTypes, PoolOK, Injection, IsInjective
    <3>2. IsFiniteSet(Blocks)
      BY TimerSizes, FS_Interval
    <3>3. f \in Surjection(Blocks, Blocks)
      BY <3>1, <3>2, FS_Injection
    <3> QED BY <3>3 DEF Surjection
  <2>3. \A a \in Apps : block[a] # NoBlock =>
          /\ block[a] \in InUse(mp) /\ owned[block[a]] = NoSetting
          /\ \A o \in Apps \ {a} : block[o] # block[a]
    BY DEF BlockIsOwn
  <2>4. \A a \in Apps : (pc[a] = "idle") = (block[a] = NoBlock)
    BY DEF BlockIsOwn
  <2> QED BY <2>1, <2>2, <2>3, <2>4 DEF TypeOK, TimerTypes
<1>2. IdNamesTimer
  BY DEF IdNamesTimer, IdsMade, Made
<1>3. KernelAccounted
  <2> DEFINE Live == {x \in InUse(mp) : \A a \in Apps : block[a] = x => pc[a] \in {"arm", "delete"}}
  <2>1. InUse(mp) \subseteq Blocks
    BY InUseCount, TimerSizes DEF TimerTypes
  <2>2. ASSUME NEW b \in Live PROVE linux_timer_id[b] \in Existing \ leaked
    <3>1. owned[b] # NoSetting \/ \E a \in Apps : block[a] = b /\ pc[a] \in {"arm", "delete"}
      BY DEF BlocksKept
    <3>2. Made(b)
      BY <2>1, <3>1 DEF IdsMade, CallsProgress
    <3> QED BY <3>2 DEF Made
  <2>3. ASSUME NEW k \in Existing \ leaked PROVE \E b \in Live : linux_timer_id[b] = k
    <3> DEFINE b == kernel[k].block
    <3>1. b \in Blocks
      BY KernelIs
    <3>2. /\ linux_timer_id[b] = k
          /\ owned[b] # NoSetting \/ \E a \in Apps : block[a] = b /\ pc[a] \in {"arm", "delete"}
      BY DEF KernelsMade
    <3> HIDE DEF b
    <3>3. CASE owned[b] # NoSetting
      <4>1. b \in InUse(mp) /\ \A a \in Apps : block[a] # b
        BY <3>1, <3>3, TimerSizes DEF IdsMade, BlockIsOwn
      <4> QED BY <3>2, <4>1
    <3>4. ASSUME NEW a \in Apps, block[a] = b, pc[a] \in {"arm", "delete"}
          PROVE  b \in Live
      <4>1. pc[a] # "idle"
        BY <3>4
      <4>2. b \in InUse(mp) /\ \A o \in Apps \ {a} : block[o] # b
        BY <3>4, <4>1 DEF BlockIsOwn
      <4> QED BY <3>4, <4>2
    <3> QED BY <3>2, <3>3, <3>4
  <2> QED BY <2>2, <2>3 DEF KernelAccounted
<1>4. CallbackCallsOwn
  <2> SUFFICES ASSUME NEW c \in Callbacks, pc[c] = "calling", ~stale[c]
               PROVE  called[c] = [func |-> meant[c], arg |-> meant[c]]
    BY DEF CallbackCallsOwn
  <2>1. called[c].func = meant[c] /\ called[c].arg = meant[c]
    BY DEF CallbacksOwn
  <2>2. called[c] \in [func : Settings \cup {NoSetting}, arg : Settings \cup {NoSetting}]
    BY DEF TimerTypes
  <2> QED BY <2>1, <2>2
<1> QED BY <1>1, <1>2, <1>3, <1>4 DEF TimersSound

\* A step of the library's instances is one of the timers', or leaves them alone.
LEMMA TimersRun == MCSpec => Spec
<1>1. MCInit => Init
  BY DEF MCInit
<1>2. [MCNext]_<<part, vars, sync, list, oalloc, clock, json>> => [Next]_vars
  BY DEF MCNext
<1> QED BY <1>1, <1>2, PTL DEF MCSpec, Spec

\* From the return of em_timer_create until the timer is given up, whatever the other
\* threads create, delete or re-arm and whichever call of the kernel fails, an id names
\* a block of its own with the caller's settings and a timer of the kernel that points to
\* it, and there are no other timers but those a refused interval left behind
\* (em_timer.c:65-98, 114-147).
THEOREM TimersStaySound == MCSpec => []TimersSound
<1>1. Spec => []TimersInv
  BY TimersInit, TimersStep, PTL DEF Spec
<1> QED BY <1>1, TimersRun, TimersInvSound, PTL

\* A callback calls the function of the timer that expired, with its own argument, as
\* long as that timer is not given up (em_timer.c:46-51).
THEOREM CallbacksCallTheirOwn == MCSpec => []CallbackCallsOwn
<1>1. Spec => []TimersInv
  BY TimersInit, TimersStep, PTL DEF Spec
<1> QED BY <1>1, TimersRun, TimersInvSound, PTL

----------------------------------------------------------------------------
(* The one-way allocator.  That allocations are disjoint is not inductive   *)
(* alone: what keeps a new one clear of the others is that all of them end  *)
(* in front of next_alloc_index, and what keeps it inside is that the units *)
(* do not exceed the area.                                                  *)

AreaTypes == /\ mem_unit_size \in Nat \ {0}
          /\ mem_total_bnum \in Nat
          /\ next_alloc_index \in Nat
          /\ area \in Nat
          /\ allocated \subseteq [start : Nat, size : Nat]

\* While the area is there its units fit into it, and the units up to next_alloc_index
\* are those handed out.
AreaFront == area > 0 => /\ next_alloc_index <= mem_total_bnum
                     /\ mem_total_bnum * mem_unit_size <= area

AreaBehindFront == \A a \in allocated : a.start + a.size <= next_alloc_index * mem_unit_size

AreaInv == AreaTypes /\ AreaFront /\ AreaBehindFront /\ Area!AllocationsDisjoint

\* As many units are taken as it needs to hold the bytes asked for.
LEMMA UnitsSuffice ==
  ASSUME mem_unit_size \in Nat \ {0}, NEW size \in Nat
  PROVE  Area!Units(size) \in Nat /\ size <= Area!Units(size) * mem_unit_size
<1> DEFINE u == mem_unit_size
           q == size \div u
<1>1. q \in Nat /\ size = q * u + (size % u) /\ size % u \in 0 .. u - 1
  BY SMT
<1>2. (q + 1) * u = q * u + u
  BY <1>1, SMT
<1>3. CASE size - q * u > 0
  <2>1. Area!Units(size) = q + 1
    BY <1>3 DEF Area!Units
  <2> HIDE DEF q
  <2>2. q * u \in Nat
    BY <1>1, SMT
  <2> QED BY <1>1, <1>2, <2>1, <2>2, SMT
<1>4. CASE ~(size - q * u > 0)
  <2>1. Area!Units(size) = q
    BY <1>4 DEF Area!Units
  <2> HIDE DEF q
  <2>2. q * u \in Nat
    BY <1>1, SMT
  <2> QED BY <1>1, <1>4, <2>1, <2>2, SMT
<1> QED BY <1>3, <1>4

LEMMA AreaInit == Area!Init => AreaInv
<1> SUFFICES ASSUME Area!Init PROVE AreaInv
  OBVIOUS
<1>1. PICK total \in TotalSizes, unit \in UnitSizes :
        /\ mem_unit_size = unit /\ mem_total_bnum = total \div unit
        /\ next_alloc_index = 0 /\ area = total /\ allocated = {}
  BY DEF Area!Init
<1>2. total \in Nat /\ unit \in Nat \ {0}
  BY LibraryAssumption
<1>3. total \div unit \in Nat /\ (total \div unit) * unit <= total
  BY <1>2, SMT
<1>4. AreaTypes /\ AreaFront
  BY <1>1, <1>2, <1>3, SMT DEF AreaTypes, AreaFront
<1>5. AreaBehindFront /\ Area!AllocationsDisjoint
  BY <1>1 DEF AreaBehindFront, Area!AllocationsDisjoint
<1> QED BY <1>4, <1>5 DEF AreaInv

LEMMA AreaAllocStep ==
  ASSUME AreaInv, NEW size \in Nat, Area!Alloc(size)
  PROVE  AreaInv'
<1> DEFINE u == mem_unit_size
           new == [start |-> next_alloc_index * u, size |-> size]
           n == Area!Units(size)
<1> USE DEF AreaInv
<1>1. /\ area > 0 /\ n <= mem_total_bnum - next_alloc_index
      /\ allocated' = allocated \cup {new}
      /\ next_alloc_index' = next_alloc_index + n
      /\ mem_unit_size' = u /\ mem_total_bnum' = mem_total_bnum /\ area' = area
  BY DEF Area!Alloc
<1>2. n \in Nat /\ size <= n * u
  BY UnitsSuffice DEF AreaTypes
<1> HIDE DEF n
<1>3. /\ next_alloc_index * u \in Nat /\ n * u \in Nat
      /\ (next_alloc_index + n) * u = next_alloc_index * u + n * u
  BY <1>2, SMT DEF AreaTypes
<1>4. AreaTypes'
  BY <1>1, <1>2, <1>3, SMT DEF AreaTypes
<1>5. AreaFront'
  BY <1>1, <1>2, SMT DEF AreaFront, AreaTypes
<1>6. new.start + new.size <= next_alloc_index' * u
  BY <1>1, <1>2, <1>3, SMT DEF AreaTypes
<1>7. \A a \in allocated : a.start + a.size <= new.start
  BY DEF AreaBehindFront
<1>8. AreaBehindFront'
  <2> SUFFICES ASSUME NEW a \in allocated'
               PROVE  a.start + a.size <= next_alloc_index' * u
    BY <1>1 DEF AreaBehindFront
  <2>1. CASE a \in allocated
    <3>1. a.start + a.size \in Nat
      BY <2>1 DEF AreaTypes
    <3> QED BY <1>1, <1>3, <1>7, <2>1, <3>1, SMT
  <2> QED BY <1>1, <1>6, <2>1
<1>9. next_alloc_index' * u <= area
  <2>1. next_alloc_index' * u <= mem_total_bnum * u
    BY <1>1, <1>2, SMT DEF AreaTypes
  <2>2. mem_total_bnum * u \in Nat /\ next_alloc_index' * u \in Nat
    BY <1>1, <1>2, SMT DEF AreaTypes
  <2> QED BY <1>1, <2>1, <2>2, SMT DEF AreaFront, AreaTypes
<1>10. Area!AllocationsDisjoint'
  <2>1. \A a \in allocated' : a.start + a.size <= area'
    BY <1>1, <1>6, <1>9, <1>2, <1>3, SMT DEF Area!AllocationsDisjoint, AreaTypes
  <2>2. \A a, b \in allocated' :
          a # b => a.start + a.size <= b.start \/ b.start + b.size <= a.start
    BY <1>1, <1>7 DEF Area!AllocationsDisjoint
  <2> QED BY <2>1, <2>2 DEF Area!AllocationsDisjoint
<1> QED BY <1>4, <1>5, <1>8, <1>10

LEMMA AreaStep == AreaInv /\ [Area!Next]_(Area!vars) => AreaInv'
<1> SUFFICES ASSUME AreaInv, [Area!Next]_(Area!vars) PROVE AreaInv'
  OBVIOUS
<1>1. CASE Area!Delete
  BY <1>1, SMT DEF Area!Delete, Area!state, AreaInv, AreaTypes, AreaFront, AreaBehindFront, Area!AllocationsDisjoint
<1>2. ASSUME NEW size \in Requests, Area!Alloc(size)
      PROVE  AreaInv'
  BY <1>2, AreaAllocStep, LibraryAssumption
<1>3. CASE UNCHANGED Area!vars
  BY <1>3 DEF Area!vars, Area!state, AreaInv, AreaTypes, AreaFront, AreaBehindFront, Area!AllocationsDisjoint
<1> QED BY <1>1, <1>2, <1>3 DEF Area!Next

LEMMA AreaRun == MCSpec => Area!Spec
<1>1. MCInit => Area!Init
  BY DEF MCInit
<1>2. [MCNext]_<<part, vars, sync, list, oalloc, clock, json>> => [Area!Next]_(Area!vars)
  BY DEF MCNext, oalloc, Area!vars, Area!state
<1> QED BY <1>1, <1>2, PTL DEF MCSpec, Area!Spec

\* Whatever the sizes of the area, of its units and of the requests (em_oalloc.c:38,
\* 78-90): no byte is handed out twice, and none outside the area.
THEOREM AllocationsNeverOverlap == MCSpec => []AllocationsDisjoint
<1>1. AreaInv => AllocationsDisjoint
  BY DEF AreaInv, AllocationsDisjoint
<1>2. Area!Spec => []AreaInv
  BY AreaInit, AreaStep, PTL DEF Area!Spec
<1> QED BY AreaRun, <1>1, <1>2, PTL

----------------------------------------------------------------------------
(* The clock: a carry or a borrow of one second is always enough, and no    *)
(* millisecond is lost in the conversions.                                  *)

ClockInv == now \in Nat /\ begun \in Nat /\ init_time = Clock!Reading(begun)

\* The nanoseconds of a sum overflow by less than a second.
LEMMA SumExact ==
  ASSUME NEW t \in Nat, NEW ms \in Nat
  PROVE  Clock!Offset(Clock!Reading(t), ms) = Clock!Reading(t + 2 * ms)
<1>1. /\ t = 2000 * (t \div 2000) + (t % 2000) /\ t % 2000 \in 0 .. 1999 /\ t \div 2000 \in Nat
      /\ ms = 1000 * (ms \div 1000) + (ms % 1000) /\ ms % 1000 \in 0 .. 999
      /\ ms \div 1000 \in Nat
  BY SMT
<1> DEFINE r == (t % 2000) + 2 * (ms % 1000)
           carry == IF r >= 2000 THEN 1 ELSE 0
<1>2. /\ (t + 2 * ms) \div 2000 = t \div 2000 + ms \div 1000 + carry
      /\ (t + 2 * ms) % 2000 = r - 2000 * carry
  BY <1>1, SMT
<1> QED BY <1>1, <1>2, SMT
     DEF Clock!Offset, Clock!TimespecAdd, Clock!CalcTimespec, Clock!Reading, Clock!NanosPerSec, Clock!NanosPerMs

LEMMA ReadingNormal == ASSUME NEW n \in Nat PROVE Clock!Reading(n) \in Clock!Timespec
<1>1. n \div 2000 \in Int /\ n % 2000 \in Int /\ 0 <= n % 2000 /\ n % 2000 <= 1999
  BY SMT
<1>2. (n % 2000) * 500000 \in Int /\ 0 <= (n % 2000) * 500000 /\ (n % 2000) * 500000 < 1000000000
  BY <1>1, SMT
<1>3. Clock!Reading(n) = [tv_sec |-> n \div 2000, tv_nsec |-> (n % 2000) * 500000]
  BY SMT DEF Clock!Reading, Clock!NanosPerMs
<1> QED BY <1>1, <1>2, <1>3, SMT DEF Clock!Timespec, Clock!NanosPerSec

\* A deadline is a struct timespec that the timed waits of pthreads and of POSIX take, with
\* less than a second of nanoseconds (em_time.c:58-75, 131-142).
THEOREM DeadlineNormal ==
  ASSUME NEW t \in Nat, NEW ms \in Nat
  PROVE  Clock!Offset(Clock!Reading(t), ms) \in Clock!Timespec
<1>1. t + 2 * ms \in Nat
  BY SMT
<1> QED BY <1>1, ReadingNormal, SumExact

\* What em_calc_timespec2ms finds in a difference, before it becomes an int.
LEMMA DifferenceExact ==
  ASSUME NEW t \in Nat, NEW s \in Nat
  PROVE  LET d == Clock!TimespecSub(Clock!Reading(t), Clock!Reading(s))
         IN d.tv_sec * 1000 + d.tv_nsec \div Clock!NanosPerMs = (t - s) \div 2
<1> DEFINE borrow == IF t % 2000 < s % 2000 THEN 1 ELSE 0
           half == (t % 2000) - (s % 2000) + 2000 * borrow
           d == Clock!TimespecSub(Clock!Reading(t), Clock!Reading(s))
<1>1. /\ t = 2000 * (t \div 2000) + (t % 2000) /\ t % 2000 \in 0 .. 1999 /\ t \div 2000 \in Nat
      /\ s = 2000 * (s \div 2000) + (s % 2000) /\ s % 2000 \in 0 .. 1999 /\ s \div 2000 \in Nat
  BY SMT
<1>2. /\ d.tv_sec = t \div 2000 - s \div 2000 - borrow
      /\ d.tv_nsec = half * 500000
  BY <1>1, SMT DEF Clock!TimespecSub, Clock!Reading, Clock!NanosPerSec, Clock!NanosPerMs
<1>3. half \in 0 .. 1999 /\ (half * 500000) \div 1000000 = half \div 2
  BY <1>1, SMT
<1>4. t - s = 2000 * d.tv_sec + half
  BY <1>1, <1>2, SMT
<1>5. d.tv_sec \in Int
  BY <1>1, <1>2, SMT
<1> HIDE DEF d, half
<1>6. (t - s) \div 2 = 1000 * d.tv_sec + half \div 2
  BY <1>3, <1>4, <1>5, SMT
<1>7. d.tv_sec * 1000 + d.tv_nsec \div Clock!NanosPerMs = (t - s) \div 2
  BY <1>2, <1>3, <1>5, <1>6, SMT DEF Clock!NanosPerMs
<1> QED BY <1>7 DEF d

LEMMA ClockStep == ClockInv /\ [Clock!Next]_(Clock!vars) => ClockInv'
<1> SUFFICES ASSUME ClockInv, [Clock!Next]_(Clock!vars) PROVE ClockInv'
  OBVIOUS
<1>1. CASE Clock!TickInit
  BY <1>1 DEF Clock!TickInit, ClockInv, Clock!Reading
<1>2. CASE \E t \in Moments : Clock!SetClock(t)
  BY <1>2, LibraryAssumption DEF Clock!SetClock, ClockInv, Clock!Reading
<1>3. CASE UNCHANGED Clock!vars
  BY <1>3 DEF Clock!vars, ClockInv, Clock!Reading
<1> QED BY <1>1, <1>2, <1>3 DEF Clock!Next

LEMMA ClockExact == ASSUME ClockInv PROVE Clock!TimesExact
<1>1. \A ms \in Timeouts : Clock!Offset(Clock!Reading(now), ms) = Clock!Reading(now + 2 * ms)
  BY SumExact, LibraryAssumption DEF ClockInv
<1>2. ASSUME is_initialized
      PROVE  Clock!TickCount = Clock!ToInt((now - begun) \div 2)
  BY <1>2, DifferenceExact DEF ClockInv, Clock!TickCount, Clock!Timespec2ms
<1> QED BY <1>1, <1>2 DEF Clock!TimesExact

LEMMA ClockRun == MCSpec => Clock!Spec
<1>1. MCInit => Clock!Init
  BY DEF MCInit
<1>2. [MCNext]_<<part, vars, sync, list, oalloc, clock, json>> => [Clock!Next]_(Clock!vars)
  BY DEF MCNext, clock, Clock!vars
<1> QED BY <1>1, <1>2, PTL DEF MCSpec, Clock!Spec

\* For every reading of the clock, whether or not it has been set back, every time-out
\* and every width of an int (em_time.c:58-96, 131-142): deadlines are exact to the
\* nanosecond and tick counts to the millisecond.
THEOREM TimesAlwaysExact == MCSpec => []TimesExact
<1>1. Clock!Init => ClockInv
  BY LibraryAssumption DEF Clock!Init, ClockInv
<1>2. ClockInv => TimesExact
  BY ClockExact DEF TimesExact
<1>3. Clock!Spec => []ClockInv
  BY <1>1, ClockStep, PTL DEF Clock!Spec
<1> QED BY ClockRun, <1>2, <1>3, PTL

----------------------------------------------------------------------------
(* Mutexes, semaphores and events.  What is accounted for depends on the    *)
(* blocks: an object that nobody has deleted has a block of its own, and    *)
(* one that is being freed is no other thread's to free.                    *)

Objs == 0 .. MaxNum - 1
InsideLabels == {"mark", "holding", "unlock"}
SyncLabels == {"out", "free", "lock", "timedlock"} \cup InsideLabels
Holders(b) == {t \in Users : on[t] = b /\ job[t] \in InsideLabels}
Freeing == {t \in Users : job[t] = "free"}

SyncTypes ==
  /\ kind \in {"mutex", "semaphore", "event"}
  /\ PoolOK(mp_sync, MaxNum)
  /\ permits \in [Objs -> Int] /\ value \in [Objs -> Int]
  /\ islock \in [Objs -> BOOLEAN] /\ torn \in [Objs -> BOOLEAN]
  /\ known \subseteq Objs /\ lost \subseteq Objs
  /\ job \in [Users -> SyncLabels] /\ on \in [Users -> Objs]

SyncBlocks ==
  /\ InUse(mp_sync) = known \cup lost \cup {on[t] : t \in Freeing}
  /\ known \cap lost = {}
  /\ \A t \in Freeing : /\ on[t] \notin known /\ on[t] \notin lost
                        /\ \A u \in Freeing : on[u] = on[t] => u = t

\* An object's permits are there or with its holders, unless it was torn; a mutex has one.
PermitsOf(b) ==
  /\ value[b] \in Nat /\ (kind = "mutex" => value[b] = 1)
  /\ ~torn[b] => /\ permits[b] \in Nat
                 /\ permits[b] + Cardinality(Holders(b)) = value[b]
                 /\ kind = "mutex" => \A t \in Holders(b) : job[t] = "holding" => islock[b]

SyncInv == SyncTypes /\ SyncBlocks /\ \A b \in known : PermitsOf(b)

LEMMA SyncSizes == MaxNum \in Nat /\ MaxNum # 0 /\ IsFiniteSet(Users) /\ 0 \in Objs
  BY LibraryAssumption DEF Objs

\* The operators of Pools are the same in SyncMng's instance.
LEMMA SyncPools ==
  /\ \A p : /\ Sync!PoolFull(p) <=> PoolFull(p)
            /\ Sync!PoolNext(p) = PoolNext(p) /\ Sync!PoolAlloc(p) = PoolAlloc(p)
            /\ Sync!InUse(p) = InUse(p)
  /\ \A p, r : Sync!PoolFree(p, r) = PoolFree(p, r)
<1>1. \A S : Sync!Cardinality(S) = Cardinality(S)
  BY DEF Sync!Cardinality, Cardinality
<1>2. \A p : /\ Sync!PoolFull(p) <=> PoolFull(p)
             /\ Sync!PoolNext(p) = PoolNext(p) /\ Sync!PoolAlloc(p) = PoolAlloc(p)
             /\ Sync!InUse(p) = InUse(p)
  BY <1>1 DEF Sync!PoolFull, PoolFull, Sync!PoolNext, PoolNext, Sync!PoolAlloc, PoolAlloc,
              Sync!InUse, InUse
<1>3. \A p, r : Sync!PoolFree(p, r) = PoolFree(p, r)
  BY DEF Sync!PoolFree, PoolFree, Sync!InUse, InUse
<1> QED BY <1>2, <1>3

LEMMA HoldersCount ==
  ASSUME NEW b
  PROVE  IsFiniteSet(Holders(b)) /\ Cardinality(Holders(b)) \in Nat
<1>1. Holders(b) \subseteq Users
  BY DEF Holders
<1> QED BY <1>1, SyncSizes, FS_Subset, FS_CardinalityType

LEMMA SyncInit == Sync!Init => SyncInv
<1> SUFFICES ASSUME Sync!Init PROVE SyncInv
  OBVIOUS
<1>1. mp_sync = [num_used |-> 0, block_ptr |-> [i \in 0 .. MaxNum - 1 |-> i]]
  BY DEF Sync!Init, Sync!Objects
<1>2. PoolOK(mp_sync, MaxNum) /\ InUse(mp_sync) = {}
  BY <1>1, PoolEmpty, SyncSizes, Zenon
<1>3. /\ permits \in [Objs -> Int] /\ value \in [Objs -> Int] /\ torn \in [Objs -> BOOLEAN]
      /\ known = {} /\ lost = {} /\ kind \in {"mutex", "semaphore", "event"}
      /\ job = [t \in Users |-> "out"] /\ on = [t \in Users |-> 0]
  BY DEF Sync!Init, Sync!Objects, Objs, Sync!Destroyed
<1>4. islock \in [Objs -> BOOLEAN]
  BY DEF Sync!Init, Sync!Objects, Objs, Sync!Marks
<1>5. Freeing = {}
  BY <1>3 DEF Freeing
<1> QED BY <1>2, <1>3, <1>4, <1>5, SyncSizes DEF SyncInv, SyncTypes, SyncBlocks, SyncLabels

\* Creation: the block is nobody's, so its permits are new.
LEMMA SyncCreate ==
  ASSUME SyncInv, NEW t \in Users, Sync!Create(t) \/ Sync!CreateFails(t)
  PROVE  SyncInv'
<1>0. PICK b : b = PoolNext(mp_sync)
  OBVIOUS
<1>1. ~PoolFull(mp_sync) /\ mp_sync' = PoolAlloc(mp_sync) /\ UNCHANGED <<kind, islock, job, on>>
  BY SyncPools DEF Sync!Create, Sync!CreateFails, Sync!objects
<1>2. /\ PoolOK(mp_sync', MaxNum) /\ b \in Objs /\ b \notin InUse(mp_sync)
      /\ InUse(mp_sync') = InUse(mp_sync) \cup {b}
  <2>1. PoolOK(mp_sync, MaxNum) /\ mp_sync.num_used # MaxNum
    BY <1>1, PoolFullWhen, SyncSizes DEF SyncInv, SyncTypes
  <2> QED BY <1>0, <1>1, <2>1, PoolAllocTakes, SyncSizes DEF Objs
<1>3. /\ b \notin known /\ b \notin lost /\ \A u \in Freeing : on[u] # b
      /\ Freeing' = Freeing /\ \A c : Holders(c)' = Holders(c)
  BY <1>1, <1>2 DEF SyncInv, SyncBlocks, Freeing, Holders
<1>4. CASE Sync!CreateFails(t)
  <2>1. lost' = lost \cup {b} /\ UNCHANGED <<permits, value, known, torn>>
    BY <1>0, <1>4, SyncPools DEF Sync!CreateFails, Sync!objects
  <2>2. SyncTypes' /\ SyncBlocks'
    BY <1>1, <1>2, <1>3, <2>1 DEF SyncInv, SyncTypes, SyncBlocks
  <2>3. \A c \in known' : PermitsOf(c)'
    BY <1>1, <1>3, <2>1 DEF SyncInv, PermitsOf
  <2> QED BY <2>2, <2>3 DEF SyncInv
<1>5. CASE Sync!Create(t)
  <2>1. PICK v \in Sync!Values :
          permits' = [permits EXCEPT ![b] = v] /\ value' = [value EXCEPT ![b] = v]
    BY <1>0, <1>5, SyncPools DEF Sync!Create
  <2>2. v \in Nat /\ (kind = "mutex" => v = 1)
    BY LibraryAssumption DEF Sync!Values
  <2>3. /\ known' = known \cup {b} /\ lost' = lost
        /\ torn' = [torn EXCEPT ![b] = Sync!At(b) # {}]
    BY <1>0, <1>5, SyncPools DEF Sync!Create
  <2>4. SyncTypes'
    BY <1>1, <1>2, <2>1, <2>2, <2>3 DEF SyncInv, SyncTypes
  <2>5. SyncBlocks'
    BY <1>1, <1>2, <1>3, <2>3 DEF SyncInv, SyncBlocks
  <2>6. ASSUME NEW c \in known' PROVE PermitsOf(c)'
    <3>1. CASE c = b
      <4>1. permits'[b] = v /\ value'[b] = v /\ (torn'[b] <=> Sync!At(b) # {})
        BY <1>2, <2>1, <2>3 DEF SyncInv, SyncTypes
      <4>2. ~torn'[b] => Holders(b) = {}
        BY <4>1 DEF Sync!At, Holders, InsideLabels
      <4>3. Cardinality({}) = 0
        BY FS_EmptySet
      <4>4. ~torn'[b] => Holders(b)' = {} /\ v + Cardinality(Holders(b)') = v
        BY <1>3, <2>2, <4>2, <4>3
      <4> QED BY <1>1, <2>2, <3>1, <4>1, <4>4 DEF PermitsOf
    <3>2. CASE c # b
      <4>1. c \in known /\ permits'[c] = permits[c] /\ value'[c] = value[c] /\ torn'[c] = torn[c]
        BY <2>1, <2>3, <3>2 DEF SyncInv, SyncTypes
      <4> QED BY <1>1, <1>3, <4>1 DEF SyncInv, PermitsOf
    <3> QED BY <3>1, <3>2
  <2> QED BY <2>4, <2>5, <2>6 DEF SyncInv
<1> QED BY <1>4, <1>5

\* Deletion: the object is known no more, whatever becomes of its permits.
LEMMA SyncDestroy ==
  ASSUME SyncInv, NEW t \in Users, NEW b \in Objs, Sync!Destroy(t, b)
  PROVE  SyncInv'
<1>1. /\ job[t] = "out" /\ b \in known /\ known' = known \ {b} /\ UNCHANGED <<kind, mp_sync, value, islock, lost>>
      /\ job' = [job EXCEPT ![t] = "free"] /\ on' = [on EXCEPT ![t] = b]
      /\ \/ permits' = permits \/ permits' = [permits EXCEPT ![b] = -1]
      /\ torn' = [torn EXCEPT ![b] = torn[b] \/ Sync!At(b) # {}]
  BY DEF Sync!Destroy, Sync!Idle, Sync!Do, Sync!Destroyed
<1>2. SyncTypes'
  <2>1. (Sync!At(b) # {}) \in BOOLEAN
    OBVIOUS
  <2> QED BY <1>1, <2>1 DEF SyncInv, SyncTypes, SyncLabels
<1>3. Freeing' = Freeing \cup {t} /\ t \notin Freeing /\ on'[t] = b /\ \A u \in Freeing : on'[u] = on[u]
  BY <1>1 DEF SyncInv, SyncTypes, Freeing
<1>4. SyncBlocks'
  <2>1. {on'[u] : u \in Freeing'} = {on[u] : u \in Freeing} \cup {b}
    BY <1>3
  <2> QED BY <1>1, <1>3, <2>1 DEF SyncInv, SyncBlocks
<1>5. \A c : Holders(c)' = Holders(c)
  BY <1>1 DEF SyncInv, SyncTypes, Holders, InsideLabels
<1>6. ASSUME NEW c \in known' PROVE PermitsOf(c)'
  <2>1. c \in known /\ c # b /\ permits'[c] = permits[c] /\ torn'[c] = torn[c]
    BY <1>1 DEF SyncInv, SyncTypes
  <2>2. \A u \in Holders(c) : job'[u] = job[u]
    BY <1>1 DEF Holders, InsideLabels, SyncInv, SyncTypes
  <2> QED BY <1>1, <1>5, <2>1, <2>2 DEF SyncInv, PermitsOf
<1> QED BY <1>2, <1>4, <1>6 DEF SyncInv

LEMMA SyncFree ==
  ASSUME SyncInv, NEW t \in Users, Sync!Free(t)
  PROVE  SyncInv'
<1>0. PICK b : b = on[t]
  OBVIOUS
<1>1. /\ job[t] = "free" /\ mp_sync' = PoolFree(mp_sync, b)
      /\ job' = [job EXCEPT ![t] = "out"] /\ on' = [on EXCEPT ![t] = 0]
      /\ UNCHANGED <<kind, permits, value, islock, known, lost, torn>>
  BY <1>0, SyncPools DEF Sync!Free, Sync!Leave, Sync!Do, Sync!objects
<1>2. PoolOK(mp_sync', MaxNum) /\ InUse(mp_sync') = InUse(mp_sync) \ {b}
  BY <1>1, PoolFreeReturns, SyncSizes DEF SyncInv, SyncTypes
<1>3. SyncTypes'
  BY <1>1, <1>2, SyncSizes DEF SyncInv, SyncTypes, SyncLabels
<1>4. Freeing' = Freeing \ {t} /\ t \in Freeing /\ \A u \in Freeing \ {t} : on'[u] = on[u] /\ on[u] # b
  BY <1>0, <1>1 DEF SyncInv, SyncTypes, SyncBlocks, Freeing
<1>5. SyncBlocks'
  <2>1. {on'[u] : u \in Freeing'} = {on[u] : u \in Freeing} \ {b}
    BY <1>0, <1>4
  <2>2. b \notin known /\ b \notin lost
    BY <1>0, <1>4 DEF SyncInv, SyncBlocks
  <2> QED BY <1>1, <1>2, <1>4, <2>1, <2>2 DEF SyncInv, SyncBlocks
<1>6. \A c : Holders(c)' = Holders(c)
  BY <1>1 DEF SyncInv, SyncTypes, Holders, InsideLabels
<1>7. ASSUME NEW c \in known' PROVE PermitsOf(c)'
  <2>1. \A u \in Holders(c) : job'[u] = job[u]
    BY <1>1 DEF Holders, InsideLabels, SyncInv, SyncTypes
  <2> QED BY <1>1, <1>6, <2>1 DEF SyncInv, PermitsOf
<1> QED BY <1>3, <1>5, <1>7 DEF SyncInv

\* A step of a call that uses an object leaves blocks alone.
LEMMA UseKeepsBlocks ==
  ASSUME SyncInv, NEW t \in Users, NEW l \in SyncLabels \ {"free"}, NEW b \in Objs,
         job[t] # "free", job' = [job EXCEPT ![t] = l], on' = [on EXCEPT ![t] = b],
         UNCHANGED <<kind, mp_sync, value, known, lost, torn>>,
         permits' \in [Objs -> Int], islock' \in [Objs -> BOOLEAN]
  PROVE  SyncTypes' /\ SyncBlocks'
<1>1. SyncTypes'
  BY DEF SyncInv, SyncTypes
<1>2. Freeing' = Freeing /\ t \notin Freeing
  BY DEF SyncInv, SyncTypes, Freeing
<1>3. \A u \in Freeing : on'[u] = on[u]
  BY <1>2 DEF SyncInv, SyncTypes, Freeing
<1>4. {on'[u] : u \in Freeing} = {on[u] : u \in Freeing}
  BY <1>3
<1>5. SyncBlocks'
  BY <1>2, <1>3, <1>4 DEF SyncInv, SyncBlocks
<1> QED BY <1>1, <1>5

\* A step that takes nothing and gives nothing.
LEMMA SyncOutside ==
  ASSUME SyncInv, NEW t \in Users,
         (\E b \in Objs : Sync!Lock(t, b)) \/ Sync!LockFails(t)
  PROVE  SyncInv'
<1>1. PICK l \in {"out", "lock", "timedlock"}, b \in Objs :
        job' = [job EXCEPT ![t] = l] /\ on' = [on EXCEPT ![t] = b]
  BY SyncSizes DEF Sync!Lock, Sync!LockFails, Sync!Leave, Sync!Do
<1>2. /\ job[t] \in {"out", "lock", "timedlock"}
      /\ UNCHANGED <<kind, mp_sync, permits, value, islock, known, lost, torn>>
  BY DEF Sync!Lock, Sync!LockFails, Sync!Idle, Sync!objects
<1>3. SyncTypes' /\ SyncBlocks'
  <2>1. permits' \in [Objs -> Int] /\ islock' \in [Objs -> BOOLEAN]
    BY <1>2 DEF SyncInv, SyncTypes
  <2>2. l \in SyncLabels \ {"free"} /\ job[t] # "free"
    BY <1>2 DEF SyncLabels
  <2> QED BY <1>1, <1>2, <2>1, <2>2, UseKeepsBlocks
<1>4. /\ \A c : Holders(c)' = Holders(c)
      /\ \A c : \A u \in Holders(c) : job'[u] = job[u]
  BY <1>1, <1>2 DEF SyncInv, SyncTypes, Holders, InsideLabels
<1>5. \A c \in known' : PermitsOf(c)'
  BY <1>2, <1>4 DEF SyncInv, PermitsOf
<1> QED BY <1>3, <1>5 DEF SyncInv

\* A permit goes from the object to the thread, and back.
LEMMA SyncAcquire ==
  ASSUME SyncInv, NEW t \in Users, Sync!Acquire(t)
  PROVE  SyncInv'
<1>0. PICK b, l : b = on[t] /\ l = IF kind = "mutex" THEN "mark" ELSE "holding"
  OBVIOUS
<1>1. /\ job[t] \in {"lock", "timedlock"} /\ permits[b] > 0
      /\ permits' = [permits EXCEPT ![b] = permits[b] - 1]
      /\ job' = [job EXCEPT ![t] = l] /\ on' = [on EXCEPT ![t] = b]
      /\ UNCHANGED <<kind, mp_sync, value, islock, known, lost, torn>>
  BY <1>0 DEF Sync!Acquire, Sync!Then, Sync!Do
<1>2. b \in Objs /\ l \in SyncLabels \ {"free"} /\ l \in InsideLabels
  BY <1>0 DEF SyncInv, SyncTypes, SyncLabels, InsideLabels
<1>3. SyncTypes' /\ SyncBlocks'
  <2>1. permits' \in [Objs -> Int] /\ islock' \in [Objs -> BOOLEAN] /\ job[t] # "free"
    BY <1>1, <1>2 DEF SyncInv, SyncTypes
  <2> QED BY <1>1, <1>2, <2>1, UseKeepsBlocks
<1>4. /\ Holders(b)' = Holders(b) \cup {t} /\ t \notin Holders(b)
      /\ \A c \in Objs \ {b} : Holders(c)' = Holders(c)
      /\ \A c : \A u \in Holders(c) : job'[u] = job[u]
      /\ job'[t] = l
  BY <1>0, <1>1, <1>2 DEF SyncInv, SyncTypes, Holders, InsideLabels
<1>5. Cardinality(Holders(b)') = Cardinality(Holders(b)) + 1 /\ Cardinality(Holders(b)) \in Nat
  BY <1>4, HoldersCount, FS_AddElement, ZenonT(60)
<1>6. ASSUME NEW c \in known' PROVE PermitsOf(c)'
  <2>0. c \in Objs /\ PermitsOf(c)
    BY <1>1 DEF SyncInv, SyncTypes
  <2>1. CASE c # b
    <3>1. permits'[c] = permits[c] /\ Holders(c)' = Holders(c)
      BY <1>1, <1>4, <2>0, <2>1 DEF SyncInv, SyncTypes
    <3> QED BY <1>1, <1>4, <2>0, <3>1 DEF PermitsOf
  <2>2. CASE c = b
    <3>1. PICK n \in Int : permits[b] = n
      BY <1>2 DEF SyncInv, SyncTypes
    <3>2. permits'[b] = n - 1 /\ n > 0
      BY <1>1, <1>2, <3>1 DEF SyncInv, SyncTypes
    <3>3. ~torn[b] => n - 1 \in Nat /\ (n - 1) + Cardinality(Holders(b)') = value[b]
      BY <1>5, <2>0, <2>2, <3>1, <3>2 DEF PermitsOf
    <3>4. kind = "mutex" /\ ~torn[b] => \A u \in Holders(b)' : job'[u] = "holding" => islock[b]
      BY <1>0, <1>4, <2>0, <2>2 DEF PermitsOf
    <3> QED BY <1>1, <2>0, <2>2, <3>2, <3>3, <3>4 DEF PermitsOf
  <2> QED BY <2>1, <2>2
<1> QED BY <1>3, <1>6 DEF SyncInv

\* A mutex that is not torn has one holder at most.
LEMMA OneHolder ==
  ASSUME SyncInv, kind = "mutex", NEW b \in known, ~torn[b], NEW t \in Holders(b)
  PROVE  Holders(b) = {t} /\ permits[b] = 0 /\ value[b] = 1
<1>1. IsFiniteSet(Holders(b)) /\ Cardinality(Holders(b)) \in Nat
  BY HoldersCount
<1>2. Cardinality(Holders(b)) # 0
  BY <1>1, FS_EmptySet
<1>3. permits[b] \in Nat /\ value[b] = 1 /\ permits[b] + Cardinality(Holders(b)) = value[b]
  BY DEF SyncInv, PermitsOf
<1>4. Cardinality(Holders(b)) = 1 /\ permits[b] = 0
  BY <1>1, <1>2, <1>3
<1>5. \E x : Holders(b) = {x}
  BY <1>1, <1>4, FS_Singleton
<1> QED BY <1>3, <1>4, <1>5

LEMMA SyncMark ==
  ASSUME SyncInv, NEW t \in Users, Sync!Mark(t) \/ Sync!Unlock(t)
  PROVE  SyncInv'
<1>0. PICK b : b = on[t]
  OBVIOUS
<1>1. PICK l \in {"holding", "unlock"} :
        job' = [job EXCEPT ![t] = l] /\ on' = [on EXCEPT ![t] = b]
  BY <1>0 DEF Sync!Mark, Sync!Unlock, Sync!Then, Sync!Do
<1>2. /\ job[t] \in {"mark", "holding"} /\ b \in Objs /\ l \in InsideLabels
      /\ UNCHANGED <<kind, mp_sync, permits, value, known, lost, torn>>
  BY <1>0 DEF SyncInv, SyncTypes, Sync!Mark, Sync!Unlock, InsideLabels
<1>3. \/ islock' = [islock EXCEPT ![b] = TRUE]
      \/ l = "unlock" /\ islock' = islock
      \/ l = "unlock" /\ islock' = [islock EXCEPT ![b] = FALSE]
  <2>1. CASE Sync!Mark(t)
    BY <1>0, <2>1 DEF Sync!Mark
  <2>2. CASE Sync!Unlock(t)
    <3>1. job' = [job EXCEPT ![t] = "unlock"]
      BY <2>2 DEF Sync!Unlock, Sync!Then, Sync!Do
    <3>2. l = "unlock"
      BY <1>1, <3>1 DEF SyncInv, SyncTypes
    <3> QED BY <1>0, <2>2, <3>2 DEF Sync!Unlock
  <2> QED BY <2>1, <2>2
<1>4. SyncTypes' /\ SyncBlocks'
  <2>1. /\ permits' \in [Objs -> Int] /\ islock' \in [Objs -> BOOLEAN] /\ job[t] # "free"
        /\ l \in SyncLabels \ {"free"}
    BY <1>2, <1>3 DEF SyncInv, SyncTypes, SyncLabels
  <2> QED BY <1>1, <1>2, <2>1, UseKeepsBlocks
<1>5. /\ \A c : Holders(c)' = Holders(c)
      /\ \A c : \A u \in Holders(c) \ {t} : job'[u] = job[u]
      /\ job'[t] = l /\ t \in Holders(b) /\ \A c \in Objs \ {b} : t \notin Holders(c)
  BY <1>0, <1>1, <1>2 DEF SyncInv, SyncTypes, Holders, InsideLabels
<1>6. ASSUME NEW c \in known' PROVE PermitsOf(c)'
  <2>0. c \in Objs /\ c \in known /\ PermitsOf(c) /\ permits' = permits /\ kind' = kind /\ torn' = torn
        /\ value' = value
    BY <1>2 DEF SyncInv, SyncTypes
  <2>1. kind = "mutex" /\ ~torn[c] => \A u \in Holders(c) : job'[u] = "holding" => islock'[c]
    <3> SUFFICES ASSUME kind = "mutex", ~torn[c], NEW u \in Holders(c), job'[u] = "holding"
                 PROVE  islock'[c]
      OBVIOUS
    <3>1. CASE c = b
      <4>1. Holders(b) = {t}
        BY <1>5, <2>0, <3>1, OneHolder
      <4>2. l = "holding"
        BY <1>5, <3>1, <4>1
      <4> QED BY <1>2, <1>3, <3>1, <4>2 DEF SyncInv, SyncTypes
    <3>2. CASE c # b
      <4>1. u # t /\ job'[u] = job[u] /\ islock'[c] = islock[c]
        BY <1>3, <1>5, <2>0, <3>2 DEF SyncInv, SyncTypes
      <4> QED BY <2>0, <4>1 DEF PermitsOf
    <3> QED BY <3>1, <3>2
  <2> QED BY <1>5, <2>0, <2>1 DEF PermitsOf
<1> QED BY <1>4, <1>6 DEF SyncInv

LEMMA SyncRelease ==
  ASSUME SyncInv, NEW t \in Users, Sync!Release(t)
  PROVE  SyncInv'
<1>0. PICK b : b = on[t]
  OBVIOUS
<1>1. /\ job[t] = "unlock" /\ job' = [job EXCEPT ![t] = "out"] /\ on' = [on EXCEPT ![t] = 0]
      /\ permits' = IF permits[b] = -1 THEN permits
                    ELSE [permits EXCEPT ![b] = IF kind = "mutex" THEN 1 ELSE permits[b] + 1]
      /\ UNCHANGED <<kind, mp_sync, value, islock, known, lost, torn>>
  BY <1>0 DEF Sync!Release, Sync!Leave, Sync!Do, Sync!Destroyed
<1>2. b \in Objs /\ "out" \in SyncLabels \ {"free"} /\ permits[b] \in Int
  BY <1>0 DEF SyncInv, SyncTypes, SyncLabels
<1>3. permits' \in [Objs -> Int] /\ \A c \in Objs \ {b} : permits'[c] = permits[c]
  BY <1>1, <1>2 DEF SyncInv, SyncTypes
<1>4. SyncTypes' /\ SyncBlocks'
  <2>1. islock' \in [Objs -> BOOLEAN] /\ job[t] # "free"
    BY <1>1 DEF SyncInv, SyncTypes
  <2> QED BY <1>1, <1>2, <1>3, <2>1, SyncSizes, UseKeepsBlocks
<1>5. /\ Holders(b)' = Holders(b) \ {t} /\ t \in Holders(b)
      /\ \A c \in Objs \ {b} : Holders(c)' = Holders(c)
      /\ \A c : \A u \in Holders(c)' : job'[u] = job[u]
  BY <1>0, <1>1, <1>2 DEF SyncInv, SyncTypes, Holders, InsideLabels
<1>6. Cardinality(Holders(b)') = Cardinality(Holders(b)) - 1 /\ Cardinality(Holders(b)) \in Nat
  BY <1>5, HoldersCount, FS_RemoveElement
<1>7. ASSUME NEW c \in known' PROVE PermitsOf(c)'
  <2>0. c \in Objs /\ c \in known /\ PermitsOf(c)
    BY <1>1 DEF SyncInv, SyncTypes
  <2>1. CASE c # b
    <3>1. permits'[c] = permits[c] /\ Holders(c)' = Holders(c)
      BY <1>3, <1>5, <2>0, <2>1
    <3> QED BY <1>1, <1>5, <2>0, <3>1 DEF PermitsOf
  <2>2. CASE c = b
    <3>1. PICK n \in Int : permits[b] = n
      BY <1>2
    <3>2. ~torn[b] => permits'[b] = n + 1 /\ n \in Nat
      <4>1. ~torn[b] => n \in Nat /\ n # -1
        BY <2>0, <2>2, <3>1 DEF PermitsOf
      <4>2. ~torn[b] /\ kind = "mutex" => n = 0
        BY <1>5, <2>0, <2>2, <3>1, OneHolder
      <4> QED BY <1>1, <1>2, <3>1, <4>1, <4>2 DEF SyncInv, SyncTypes
    <3>3. ~torn[b] => (n + 1) + Cardinality(Holders(b)') = value[b] /\ n + 1 \in Nat
      BY <1>6, <2>0, <2>2, <3>1, <3>2 DEF PermitsOf
    <3>4. kind = "mutex" /\ ~torn[b] => \A u \in Holders(b)' : job'[u] = "holding" => islock[b]
      BY <1>5, <2>0, <2>2 DEF PermitsOf
    <3> QED BY <1>1, <2>0, <2>2, <3>2, <3>3, <3>4 DEF PermitsOf
  <2> QED BY <2>1, <2>2
<1> QED BY <1>4, <1>7 DEF SyncInv

LEMMA SyncRecreate == SyncInv /\ Sync!Recreate => SyncInv'
<1> SUFFICES ASSUME SyncInv, Sync!Recreate PROVE SyncInv'
  OBVIOUS
<1>1. mp_sync' = [num_used |-> 0, block_ptr |-> [i \in 0 .. MaxNum - 1 |-> i]]
  BY DEF Sync!Recreate, Sync!Objects
<1>2. PoolOK(mp_sync', MaxNum) /\ InUse(mp_sync') = {}
  BY <1>1, PoolEmpty, SyncSizes, Zenon
<1>3. /\ permits' \in [Objs -> Int] /\ value' \in [Objs -> Int] /\ torn' \in [Objs -> BOOLEAN]
      /\ known' = {} /\ lost' = {} /\ UNCHANGED <<kind, job, on>> /\ \A t \in Users : job[t] = "out"
  BY DEF Sync!Recreate, Sync!Objects, Objs, Sync!Destroyed, Sync!Idle
<1>4. islock' \in [Objs -> BOOLEAN]
  BY DEF Sync!Recreate, Sync!Objects, Objs, Sync!Marks
<1>5. Freeing' = {}
  BY <1>3 DEF Freeing
<1> QED BY <1>2, <1>3, <1>4, <1>5 DEF SyncInv, SyncTypes, SyncBlocks

LEMMA SyncStep == SyncInv /\ [Sync!Next]_(Sync!vars) => SyncInv'
<1> SUFFICES ASSUME SyncInv, [Sync!Next]_(Sync!vars) PROVE SyncInv'
  OBVIOUS
<1>1. CASE UNCHANGED <<kind, mp_sync, permits, value, islock, known, lost, job, on, torn>>
  <2>1. Freeing' = Freeing /\ \A c : Holders(c)' = Holders(c)
    BY <1>1 DEF Freeing, Holders
  <2>2. SyncTypes' /\ SyncBlocks'
    BY <1>1, <2>1 DEF SyncInv, SyncTypes, SyncBlocks
  <2>3. \A c \in known' : PermitsOf(c)'
    BY <1>1, <2>1 DEF SyncInv, PermitsOf
  <2> QED BY <2>2, <2>3 DEF SyncInv
<1>2. CASE Sync!Next
  <2>1. ASSUME NEW t \in Users, NEW b \in Objs, Sync!DestroyNull(t, b) PROVE SyncInv'
    BY <1>1, <2>1 DEF Sync!DestroyNull, Sync!objects
  <2>2. ASSUME NEW t \in Users,
               \/ Sync!Create(t) \/ Sync!CreateFails(t) \/ Sync!Free(t)
               \/ Sync!Acquire(t) \/ Sync!LockFails(t) \/ Sync!Mark(t) \/ Sync!Unlock(t)
               \/ Sync!Release(t)
        PROVE  SyncInv'
    BY <2>2, SyncCreate, SyncFree, SyncAcquire, SyncOutside, SyncMark, SyncRelease
  <2>3. ASSUME NEW t \in Users, NEW b \in Objs, Sync!Destroy(t, b) \/ Sync!Lock(t, b) PROVE SyncInv'
    BY <2>3, SyncDestroy, SyncOutside
  <2>4. Sync!Objects = Objs
    BY DEF Sync!Objects, Objs
  <2> QED BY <1>2, <2>1, <2>2, <2>3, <2>4, SyncRecreate DEF Sync!Next
<1> QED BY <1>1, <1>2 DEF Sync!vars, Sync!objects

LEMMA SyncRun == MCSpec => []SyncInv
<1>1. MCInit => Sync!Init
  BY DEF MCInit
<1>2. [MCNext]_<<part, vars, sync, list, oalloc, clock, json>> => [Sync!Next]_(Sync!vars)
  BY DEF MCNext, sync, Sync!vars, Sync!objects
<1> QED BY <1>1, <1>2, SyncInit, SyncStep, PTL DEF MCSpec

\* As many threads are inside as the object's value allows, and islock is set while one
\* works under a mutex, whatever is created and deleted elsewhere and however often a wait
\* times out, unless the object itself is deleted under those that use it
\* (em_mtxmng.c:58-84, em_semmng.c).
THEOREM PermitsStayAccounted == MCSpec => []PermitsAccounted
<1>1. SyncInv => PermitsAccounted
  <2>1. \A b : Sync!Held(b) = Holders(b)
    BY DEF Sync!Held, Holders, InsideLabels
  <2>2. \A S : Sync!Cardinality(S) = Cardinality(S)
    BY DEF Sync!Cardinality, Cardinality
  <2> QED BY <2>1, <2>2 DEF SyncInv, PermitsOf, PermitsAccounted, Sync!PermitsAccounted
<1> QED BY <1>1, SyncRun, PTL

\* A block is in use for the object in it, for one being deleted, or for one that could
\* not be initialised, and for one of them only.
THEOREM BlocksStayAccounted == MCSpec => []BlocksAccounted
<1>1. SyncInv => BlocksAccounted
  <2>1. Sync!InUse(mp_sync) = InUse(mp_sync)
    BY SyncPools
  <2> QED BY <2>1 DEF SyncInv, SyncBlocks, Freeing, BlocksAccounted, Sync!BlocksAccounted
<1> QED BY <1>1, SyncRun, PTL

----------------------------------------------------------------------------
(* The list.  What em_list_remove_at and a reader reach by walking is known from  *)
(* the items in their order, a sequence s that each step lengthens or shortens.   *)

Records == [data : Data \cup {NoData}, next : List!Items \cup {List!NULL},
            back : List!Items \cup {List!NULL}]

\* The items of the list are those of s, in this order in both directions.
Chained(s) ==
  /\ s \in [0 .. count - 1 -> List!Items]
  /\ \A i, j \in 0 .. count - 1 : s[i] = s[j] => i = j
  /\ first = IF count = 0 THEN List!NULL ELSE s[0]
  /\ last = IF count = 0 THEN List!NULL ELSE s[count - 1]
  /\ \A i \in 0 .. count - 1 : /\ item[s[i]].next = IF i = count - 1 THEN List!NULL ELSE s[i + 1]
                               /\ item[s[i]].back = IF i = 0 THEN List!NULL ELSE s[i - 1]
                               /\ item[s[i]].data = expected[i + 1]
  /\ InUse(mp_list) = {s[i] : i \in 0 .. count - 1}

ListInv == /\ PoolOK(mp_list, num_max_item)
           /\ item \in [List!Items -> Records]
           /\ count \in Nat
           /\ expected \in [1 .. count -> Data]
           /\ \E s : Chained(s)

LEMMA ListSizes == /\ num_max_item \in Nat /\ List!Items = 0 .. num_max_item - 1
                   /\ List!NULL = -1 /\ List!NULL \notin List!Items
  BY LibraryAssumption DEF List!Items, List!NULL

\* The operators of Pools are the same in ListMng's instance.
LEMMA ListPools ==
  /\ \A p : /\ List!PoolFull(p) <=> PoolFull(p)
            /\ List!PoolNext(p) = PoolNext(p) /\ List!PoolAlloc(p) = PoolAlloc(p)
            /\ List!InUse(p) = InUse(p)
  /\ \A p, r : List!PoolFree(p, r) = PoolFree(p, r)
<1>1. \A S : List!Cardinality(S) = Cardinality(S)
  BY DEF List!Cardinality, Cardinality
<1>2. \A p : /\ List!PoolFull(p) <=> PoolFull(p)
             /\ List!PoolNext(p) = PoolNext(p) /\ List!PoolAlloc(p) = PoolAlloc(p)
             /\ List!InUse(p) = InUse(p)
  BY <1>1 DEF List!PoolFull, PoolFull, List!PoolNext, PoolNext, List!PoolAlloc, PoolAlloc,
              List!InUse, InUse
<1>3. \A p, r : List!PoolFree(p, r) = PoolFree(p, r)
  BY DEF List!PoolFree, PoolFree, List!InUse, InUse
<1> QED BY <1>2, <1>3

\* A function on 1 .. n is a sequence of n.
LEMMA LenOf ==
  ASSUME NEW n \in Nat, NEW S, NEW f \in [1 .. n -> S]
  PROVE  f \in Seq(S) /\ Len(f) = n
<1>1. f \in Seq(S)
  BY SeqDef
<1>2. Len(f) \in Nat /\ DOMAIN f = 1 .. Len(f) /\ DOMAIN f = 1 .. n
  BY <1>1, LenProperties
<1> QED BY <1>1, <1>2

\* As many steps by next from the first item as there are in front of it reach an item.
LEMMA ForwardReaches ==
  ASSUME NEW s, Chained(s), count \in Nat, NEW n \in 0 .. count - 1
  PROVE  List!Forward(n) = s[n]
<1> DEFINE Walks(f) == f = [i \in 0 .. n |-> IF i = 0 THEN first ELSE item[f[i - 1]].next]
           walk == CHOOSE f : Walks(f)
<1>1. n \in Nat /\ first = s[0] /\ \A i \in 1 .. n : item[s[i - 1]].next = s[i]
  BY DEF Chained
<1>2. \E f : Walks(f)
  <2> DEFINE g == [i \in 0 .. n |-> s[i]]
  <2>1. Walks(g)
    BY <1>1
  <2> QED BY <2>1
<1>3. Walks(walk)
  <2> HIDE DEF Walks
  <2> QED BY <1>2
<1> HIDE DEF walk
<1>4. walk[0] = s[0] /\ \A i \in 1 .. n : walk[i] = item[walk[i - 1]].next
  BY <1>1, <1>3
<1>5. \A i \in 0 .. n : walk[i] = s[i]
  <2>1. PICK S : S = {i \in 0 .. n : walk[i] = s[i]}
    OBVIOUS
  <2>2. \A i \in 0 .. n - 1 : i \in S => i + 1 \in S
    BY <1>1, <1>4, <2>1
  <2>3. 0 \in S
    BY <1>1, <1>4, <2>1
  <2>4. \A i \in 0 .. n : i \in S
    BY ONLY <1>1, <2>2, <2>3, IntervalInduction
  <2> QED BY <2>1, <2>4
<1>6. List!Forward(n) = walk[n]
  BY DEF List!Forward, walk
<1> QED BY <1>1, <1>5, <1>6

LEMMA BackwardReaches ==
  ASSUME NEW s, Chained(s), count \in Nat, NEW n \in 0 .. count - 1
  PROVE  List!Backward(n) = s[count - 1 - n]
<1> DEFINE Walks(f) == f = [i \in 0 .. n |-> IF i = 0 THEN last ELSE item[f[i - 1]].back]
           walk == CHOOSE f : Walks(f)
           at(i) == s[count - 1 - i]
<1>1. n \in Nat /\ last = at(0) /\ \A i \in 1 .. n : item[at(i - 1)].back = at(i)
  BY DEF Chained
<1> HIDE DEF at
<1>2. \E f : Walks(f)
  <2> DEFINE g == [i \in 0 .. n |-> at(i)]
  <2>1. Walks(g)
    BY <1>1
  <2> QED BY <2>1
<1>3. Walks(walk)
  <2> HIDE DEF Walks
  <2> QED BY <1>2
<1> HIDE DEF walk
<1>4. walk[0] = at(0) /\ \A i \in 1 .. n : walk[i] = item[walk[i - 1]].back
  <2>1. walk = [i \in 0 .. n |-> IF i = 0 THEN last ELSE item[walk[i - 1]].back]
    BY <1>3
  <2>2. 0 \in 0 .. n /\ \A i \in 1 .. n : i \in 0 .. n /\ i # 0
    BY <1>1
  <2> QED BY <1>1, <2>1, <2>2
<1>5. \A i \in 0 .. n : walk[i] = at(i)
  <2>1. PICK S : S = {i \in 0 .. n : walk[i] = at(i)}
    OBVIOUS
  <2>2. \A i \in 0 .. n - 1 : i \in S => i + 1 \in S
    BY <1>1, <1>4, <2>1
  <2>3. 0 \in S
    BY <1>1, <1>4, <2>1
  <2>4. \A i \in 0 .. n : i \in S
    BY ONLY <1>1, <2>2, <2>3, IntervalInduction
  <2> QED BY <2>1, <2>4
<1>6. List!Backward(n) = walk[n]
  BY DEF List!Backward, walk
<1> QED BY <1>1, <1>5, <1>6 DEF at
LEMMA ListInit == List!Init => ListInv
<1> SUFFICES ASSUME List!Init PROVE ListInv
  OBVIOUS
<1>1. mp_list = [num_used |-> 0, block_ptr |-> [i \in 0 .. num_max_item - 1 |-> i]]
  BY ListSizes DEF List!Init
<1>2. PoolOK(mp_list, num_max_item) /\ InUse(mp_list) = {}
  BY <1>1, PoolEmpty, ListSizes, Zenon
<1>3. /\ first = List!NULL /\ last = List!NULL /\ count = 0 /\ expected = <<>>
      /\ item \in [List!Items -> Records]
  BY DEF List!Init, Records
<1>4. Chained(<<>>) /\ expected \in [1 .. count -> Data]
  BY <1>2, <1>3 DEF Chained
<1> QED BY <1>2, <1>3, <1>4 DEF ListInv

\* What is added is the last item.
LEMMA ListAdd ==
  ASSUME ListInv, NEW d \in Data, List!Add(d)
  PROVE  ListInv'
<1>0. PICK new, c, s : new = PoolNext(mp_list) /\ c = count /\ Chained(s)
  BY DEF ListInv
<1>1. /\ c \in Nat /\ count = c /\ expected \in [1 .. c -> Data] /\ item \in [List!Items -> Records]
      /\ s \in [0 .. c - 1 -> List!Items]
      /\ \A i, j \in 0 .. c - 1 : s[i] = s[j] => i = j
  BY <1>0 DEF ListInv, Chained
<1>2. /\ PoolOK(mp_list', num_max_item) /\ new \in List!Items /\ new \notin InUse(mp_list)
      /\ InUse(mp_list') = InUse(mp_list) \cup {new}
  <2>1. PoolOK(mp_list, num_max_item) /\ ~PoolFull(mp_list) /\ mp_list' = PoolAlloc(mp_list)
    BY ListPools DEF ListInv, List!Add
  <2>2. mp_list.num_used # num_max_item
    BY <2>1, PoolFullWhen, ListSizes
  <2> QED BY <1>0, <2>1, <2>2, PoolAllocTakes, ListSizes
<1>3. \A i \in 0 .. c - 1 : s[i] # new
  BY <1>0, <1>1, <1>2 DEF Chained
<1>4. /\ (c = 0) = (first = List!NULL)
      /\ c > 0 => first = s[0] /\ last = s[c - 1] /\ last \in List!Items /\ last # new
      /\ first' = (IF c = 0 THEN new ELSE first) /\ last' = new /\ count' = c + 1
      /\ expected' = Append(expected, d)
  BY <1>0, <1>1, <1>3, ListPools, ListSizes, SMTT(60) DEF Chained, List!Add
<1>5. PICK linked : /\ linked = IF c = 0 THEN item ELSE [item EXCEPT ![last].next = new]
                    /\ item' = [linked EXCEPT ![new] =
                         [data |-> d, next |-> List!NULL, back |-> IF c = 0 THEN List!NULL ELSE last]]
  BY <1>0, <1>4, ListPools DEF List!Add
<1>6. /\ linked \in [List!Items -> Records]
      /\ \A x \in List!Items : /\ linked[x].next = IF c > 0 /\ x = last THEN new ELSE item[x].next
                               /\ linked[x].back = item[x].back /\ linked[x].data = item[x].data
  <2>1. CASE c = 0
    BY <1>1, <1>5, <2>1
  <2>2. CASE c # 0
    BY <1>1, <1>2, <1>4, <1>5, <2>2 DEF Records
  <2> QED BY <2>1, <2>2
<1>7. /\ item' \in [List!Items -> Records]
      /\ item'[new].next = List!NULL /\ item'[new].data = d
      /\ item'[new].back = IF c = 0 THEN List!NULL ELSE last
      /\ \A x \in List!Items \ {new} : item'[x] = linked[x]
  BY <1>2, <1>4, <1>5, <1>6 DEF Records
<1>8. PICK t \in [0 .. c -> List!Items] : t[c] = new /\ \A i \in 0 .. c - 1 : t[i] = s[i]
  <2> DEFINE g == [i \in 0 .. c |-> IF i = c THEN new ELSE s[i]]
  <2>1. g \in [0 .. c -> List!Items] /\ g[c] = new /\ \A i \in 0 .. c - 1 : g[i] = s[i]
    BY <1>1, <1>2
  <2> HIDE DEF g
  <2> QED BY <2>1
<1>9. \A i, j \in 0 .. c : t[i] = t[j] => i = j
  BY <1>1, <1>3, <1>8
<1>10. expected' \in [1 .. c + 1 -> Data] /\ expected'[c + 1] = d
       /\ \A i \in 1 .. c : expected'[i] = expected[i]
  BY <1>1, <1>4
<1>11. ASSUME NEW i \in 0 .. c
       PROVE  /\ item'[t[i]].next = IF i = c THEN List!NULL ELSE t[i + 1]
              /\ item'[t[i]].back = IF i = 0 THEN List!NULL ELSE t[i - 1]
              /\ item'[t[i]].data = expected'[i + 1]
  <2>1. CASE i = c
    BY <1>1, <1>4, <1>7, <1>8, <1>10, <2>1
  <2>2. CASE i # c
    <3>1. i \in 0 .. c - 1 /\ t[i] = s[i] /\ s[i] \in List!Items \ {new}
      BY <1>1, <1>3, <1>8, <2>2
    <3>2. /\ item[s[i]].next = IF i = c - 1 THEN List!NULL ELSE s[i + 1]
          /\ item[s[i]].back = IF i = 0 THEN List!NULL ELSE s[i - 1]
          /\ item[s[i]].data = expected[i + 1]
      BY <1>0, <1>1, <3>1 DEF Chained
    <3>3. s[i] = last <=> i = c - 1
      BY <1>1, <1>4, <3>1
    <3> QED BY <1>1, <1>4, <1>6, <1>7, <1>8, <1>10, <3>1, <3>2, <3>3
  <2> QED BY <2>1, <2>2
<1>12. InUse(mp_list') = {t[i] : i \in 0 .. c}
  BY <1>0, <1>1, <1>2, <1>8 DEF Chained
<1>13. first' = t[0]
  BY <1>1, <1>4, <1>8
<1>14. count' - 1 = c /\ count' # 0 /\ count' \in Nat /\ last' = t[c]
  BY <1>1, <1>4, <1>8
<1>15. Chained(t)'
  BY <1>8, <1>9, <1>11, <1>12, <1>13, <1>14 DEF Chained
<1> QED BY <1>2, <1>4, <1>7, <1>8, <1>10, <1>14, <1>15 DEF ListInv

\* The item at a position goes out of the sequence, and the ones at its sides are linked
\* to each other.
LEMMA ListRemove ==
  ASSUME ListInv, NEW k \in 0 .. num_max_item - 1, List!RemoveAt(k)
  PROVE  ListInv'
<1>0. PICK c, s : c = count /\ Chained(s)
  BY SMTT(60) DEF ListInv
<1>1. /\ c \in Nat /\ count = c /\ expected \in [1 .. c -> Data] /\ item \in [List!Items -> Records]
      /\ s \in [0 .. c - 1 -> List!Items]
      /\ \A i, j \in 0 .. c - 1 : s[i] = s[j] => i = j
      /\ k \in 0 .. c - 1
  BY <1>0, ListSizes, SMTT(60) DEF ListInv, Chained, List!RemoveAt
<1>2. PICK x, d, before :
        /\ x = s[k] /\ d = item[x]
        /\ before = IF d.back = List!NULL THEN item ELSE [item EXCEPT ![d.back].next = d.next]
        /\ item' = IF d.next = List!NULL THEN before ELSE [before EXCEPT ![d.next].back = d.back]
        /\ first' = IF d.back = List!NULL THEN d.next ELSE first
        /\ last' = IF d.next = List!NULL THEN d.back ELSE last
        /\ mp_list' = PoolFree(mp_list, x)
  <2>1. List!Forward(k) = s[k]
    BY <1>0, <1>1, ForwardReaches
  <2> QED BY <2>1, ListPools, ZenonT(60) DEF List!RemoveAt
<1>3. /\ PoolOK(mp_list', num_max_item) /\ InUse(mp_list') = InUse(mp_list) \ {x}
  BY <1>2, PoolFreeReturns, ListSizes, Zenon DEF ListInv
<1>4. PICK b, n : b = d.back /\ n = d.next
  OBVIOUS
<1>5. /\ b = IF k = 0 THEN List!NULL ELSE s[k - 1]
      /\ n = IF k = c - 1 THEN List!NULL ELSE s[k + 1]
      /\ first = s[0] /\ last = s[c - 1]
  BY <1>0, <1>1, <1>2, <1>4 DEF Chained
<1>6. /\ k = 0 => b = List!NULL
      /\ k # 0 => b \in List!Items /\ b # List!NULL
      /\ k = c - 1 => n = List!NULL
      /\ k # c - 1 => n \in List!Items /\ n # List!NULL
  BY <1>1, <1>5, ListSizes, SMTT(60)
<1>7. /\ before \in [List!Items -> Records]
      /\ \A y \in List!Items : /\ before[y].next = IF k # 0 /\ y = b THEN n ELSE item[y].next
                               /\ before[y].back = item[y].back /\ before[y].data = item[y].data
  <2>1. CASE k = 0
    BY <1>1, <1>2, <1>4, <1>6, <2>1
  <2>2. CASE k # 0
    <3>1. before = [item EXCEPT ![b].next = n]
      BY <1>2, <1>4, <1>6, <2>2, Zenon
    <3>2. n \in List!Items \cup {List!NULL}
      BY <1>6
    <3> QED BY <1>1, <1>6, <2>2, <3>1, <3>2, SMTT(60) DEF Records
  <2> QED BY <2>1, <2>2
<1>8. /\ item' \in [List!Items -> Records]
      /\ \A y \in List!Items : /\ item'[y].next = IF k # 0 /\ y = b THEN n ELSE item[y].next
                               /\ item'[y].back = IF k # c - 1 /\ y = n THEN b ELSE item[y].back
                               /\ item'[y].data = item[y].data
  <2>1. CASE k = c - 1
    BY <1>2, <1>4, <1>6, <1>7, <2>1, ZenonT(60)
  <2>2. CASE k # c - 1
    <3>1. item' = [before EXCEPT ![n].back = b]
      BY <1>2, <1>4, <1>6, <2>2, Zenon
    <3>2. b \in List!Items \cup {List!NULL}
      BY <1>6
    <3> QED BY <1>6, <1>7, <2>2, <3>1, <3>2 DEF Records
  <2> QED BY <2>1, <2>2, SMTT(60)
<1>9. PICK t \in [0 .. c - 2 -> List!Items] :
        \A i \in 0 .. c - 2 : t[i] = IF i < k THEN s[i] ELSE s[i + 1]
  <2>1. [i \in 0 .. c - 2 |-> IF i < k THEN s[i] ELSE s[i + 1]] \in [0 .. c - 2 -> List!Items]
    BY <1>1
  <2> QED BY <2>1
<1>10. \A i, j \in 0 .. c - 2 : t[i] = t[j] => i = j
  BY <1>1, <1>9, SMTT(60)
<1>11. count' = c - 1 /\ c - 1 \in Nat /\ count' - 1 = c - 2
  BY <1>0, <1>1 DEF List!RemoveAt
<1>12. /\ expected' \in [1 .. c - 1 -> Data]
       /\ \A i \in 1 .. c - 1 : expected'[i] = expected[IF i <= k THEN i ELSE i + 1]
  <2>1. Len(expected) = c
    BY <1>1, LenOf
  <2>2. expected' = [i \in 1 .. c - 1 |-> expected[IF i <= k THEN i ELSE i + 1]]
    BY <2>1 DEF List!RemoveAt
  <2> QED BY <1>1, <2>2
<1>13. ASSUME NEW i \in 0 .. c - 2
       PROVE  /\ item'[t[i]].next = IF i = c - 2 THEN List!NULL ELSE t[i + 1]
              /\ item'[t[i]].back = IF i = 0 THEN List!NULL ELSE t[i - 1]
              /\ item'[t[i]].data = expected'[i + 1]
  <2>0. \A j \in 0 .. c - 1 : /\ s[j] \in List!Items
                              /\ item[s[j]].next = IF j = c - 1 THEN List!NULL ELSE s[j + 1]
                              /\ item[s[j]].back = IF j = 0 THEN List!NULL ELSE s[j - 1]
                              /\ item[s[j]].data = expected[j + 1]
    BY <1>0, <1>1 DEF Chained
  <2>1. CASE i < k
    <3>1. i \in 0 .. c - 1 /\ t[i] = s[i] /\ i # c - 1 /\ i + 1 \in 0 .. c - 1
      BY <1>1, <1>9, <2>1
    <3>2. (k # 0 /\ s[i] = b) <=> i = k - 1
      BY <1>1, <1>5, <2>1, <3>1
    <3>3. ~(k # c - 1 /\ s[i] = n)
      BY <1>1, <1>5, <2>1, <3>1
    <3>4. i # 0 => i - 1 \in 0 .. c - 2 /\ t[i - 1] = s[i - 1]
      BY <1>1, <1>9, <2>1
    <3>5. item'[t[i]].next = IF i = c - 2 THEN List!NULL ELSE t[i + 1]
      <4>1. CASE i = k - 1
        BY <1>1, <1>5, <1>8, <1>9, <2>0, <3>1, <3>2, <4>1
      <4>2. CASE i # k - 1
        <5>1. i # c - 2 /\ i + 1 \in 0 .. c - 2 /\ i + 1 < k /\ t[i + 1] = s[i + 1]
          BY <1>1, <1>9, <2>1, <4>2
        <5>2. item'[s[i]].next = item[s[i]].next
          BY <1>8, <2>0, <3>1, <3>2, <4>2
        <5> QED BY <2>0, <3>1, <5>1, <5>2
      <4> QED BY <4>1, <4>2
    <3>6. item'[t[i]].back = IF i = 0 THEN List!NULL ELSE t[i - 1]
      BY <1>8, <2>0, <3>1, <3>3, <3>4
    <3>7. item'[t[i]].data = expected'[i + 1]
      BY <1>1, <1>8, <1>12, <2>0, <2>1, <3>1
    <3> QED BY <3>5, <3>6, <3>7
  <2>2. CASE i >= k
    <3>1. i + 1 \in 0 .. c - 1 /\ t[i] = s[i + 1] /\ i + 1 # 0 /\ k # c - 1
      BY <1>1, <1>9, <2>2
    <3>2. ~(k # 0 /\ s[i + 1] = b)
      BY <1>1, <1>5, <2>2, <3>1
    <3>3. s[i + 1] = n <=> i = k
      BY <1>1, <1>5, <2>2, <3>1
    <3>4. i # c - 2 => i + 1 \in 0 .. c - 2 /\ t[i + 1] = s[i + 2]
      BY <1>1, <1>9, <2>2
    <3>5. item'[t[i]].next = IF i = c - 2 THEN List!NULL ELSE t[i + 1]
      <4>1. item'[s[i + 1]].next = item[s[i + 1]].next
        BY <1>8, <2>0, <3>1, <3>2
      <4>2. i + 1 = c - 1 <=> i = c - 2
        BY <1>1
      <4>3. (i + 1) + 1 = i + 2
        OBVIOUS
      <4> QED BY <2>0, <3>1, <3>4, <4>1, <4>2, <4>3
    <3>6. item'[t[i]].back = IF i = 0 THEN List!NULL ELSE t[i - 1]
      <4>1. CASE i = k
        BY <1>1, <1>5, <1>8, <1>9, <2>0, <3>1, <3>3, <4>1
      <4>2. CASE i # k
        <5>1. /\ i # 0 /\ i - 1 \in 0 .. c - 2 /\ ~(i - 1 < k) /\ (i - 1) + 1 = i
              /\ (i + 1) - 1 = i
          BY <1>1, <2>2, <4>2
        <5>2. item'[s[i + 1]].back = item[s[i + 1]].back
          BY <1>8, <2>0, <3>1, <3>3, <4>2
        <5> QED BY <1>9, <2>0, <3>1, <5>1, <5>2
      <4> QED BY <4>1, <4>2
    <3>7. item'[t[i]].data = expected'[i + 1]
      BY <1>1, <1>8, <1>12, <2>0, <2>2, <3>1
    <3> QED BY <3>5, <3>6, <3>7
  <2> QED BY <1>1, <2>1, <2>2
<1>14. InUse(mp_list') = {t[i] : i \in 0 .. c - 2}
  <2>1. InUse(mp_list') = {s[i] : i \in 0 .. c - 1} \ {s[k]}
    BY <1>0, <1>1, <1>2, <1>3 DEF Chained
  <2>2. ASSUME NEW i \in 0 .. c - 1, i # k PROVE \E j \in 0 .. c - 2 : s[i] = t[j]
    <3>1. CASE i < k
      BY <1>1, <1>9, <3>1
    <3>2. CASE i > k
      <4>1. i - 1 \in 0 .. c - 2 /\ ~(i - 1 < k) /\ (i - 1) + 1 = i
        BY <1>1, <3>2
      <4> QED BY <1>9, <4>1
    <3> QED BY <1>1, <2>2, <3>1, <3>2
  <2>3. ASSUME NEW j \in 0 .. c - 2 PROVE \E i \in 0 .. c - 1 : i # k /\ t[j] = s[i]
    <3>1. j \in 0 .. c - 1 /\ j + 1 \in 0 .. c - 1 /\ (j < k => j # k) /\ (~(j < k) => j + 1 # k)
      BY <1>1
    <3> QED BY <1>9, <3>1
  <2>4. \A i \in 0 .. c - 1 : s[i] = s[k] => i = k
    BY <1>1
  <2>5. ASSUME NEW y \in InUse(mp_list') PROVE \E j \in 0 .. c - 2 : y = t[j]
    <3>1. PICK i \in 0 .. c - 1 : y = s[i] /\ i # k
      BY <2>1
    <3> QED BY <2>2, <3>1
  <2>6. ASSUME NEW j \in 0 .. c - 2 PROVE t[j] \in InUse(mp_list')
    BY <2>1, <2>3, <2>4
  <2> QED BY <2>5, <2>6
<1>15. /\ first' = (IF c - 1 = 0 THEN List!NULL ELSE t[0])
       /\ last' = (IF c - 1 = 0 THEN List!NULL ELSE t[c - 2])
  <2>1. CASE c = 1
    <3>1. k = 0 /\ c - 1 = 0
      BY <1>1, <2>1
    <3>2. b = List!NULL /\ n = List!NULL
      BY <1>6, <2>1, <3>1
    <3> QED BY <1>2, <1>4, <3>1, <3>2, Zenon
  <2>2. CASE c > 1
    <3>1. 0 \in 0 .. c - 2 /\ c - 2 \in 0 .. c - 2 /\ (c - 2) + 1 = c - 1 /\ (c - 1) - 1 = c - 2
      BY <1>1, <2>2
    <3>2. t[0] = IF k = 0 THEN s[1] ELSE s[0]
      BY <1>1, <1>9, <3>1
    <3>3. t[c - 2] = IF k = c - 1 THEN s[c - 2] ELSE s[c - 1]
      BY <1>1, <1>9, <3>1
    <3>4. first' = t[0]
      BY <1>1, <1>2, <1>4, <1>5, <1>6, <2>2, <3>2
    <3>5. last' = t[c - 2]
      BY <1>1, <1>2, <1>4, <1>5, <1>6, <2>2, <3>1, <3>3
    <3> QED BY <1>1, <2>2, <3>4, <3>5
  <2> QED BY <1>1, <2>1, <2>2, SMTT(60)
<1>16. Chained(t)'
  BY <1>9, <1>10, <1>11, <1>13, <1>14, <1>15 DEF Chained
<1> QED BY <1>3, <1>8, <1>9, <1>11, <1>12, <1>16 DEF ListInv

\* A new list has no items, whatever the memory of the old one holds.
LEMMA ListRecreate == ListInv /\ List!Recreate => ListInv'
<1> SUFFICES ASSUME ListInv, List!Recreate PROVE ListInv'
  OBVIOUS
<1>1. mp_list' = [num_used |-> 0, block_ptr |-> [i \in 0 .. num_max_item - 1 |-> i]]
  BY ListSizes DEF List!Recreate
<1>2. PoolOK(mp_list', num_max_item) /\ InUse(mp_list') = {}
  BY <1>1, PoolEmpty, ListSizes, Zenon
<1>3. /\ first' = List!NULL /\ last' = List!NULL /\ count' = 0 /\ expected' = <<>>
      /\ item' \in [List!Items -> Records]
  BY DEF List!Recreate, ListInv
<1>4. Chained(<<>>)' /\ expected' \in [1 .. count' -> Data]
  BY <1>2, <1>3 DEF Chained
<1> QED BY <1>2, <1>3, <1>4 DEF ListInv

\* Every operation of the list keeps the invariant.
LEMMA ListStep == ListInv /\ [List!Next]_(List!vars) => ListInv'
<1> SUFFICES ASSUME ListInv, [List!Next]_(List!vars) PROVE ListInv'
  OBVIOUS
<1>1. CASE UNCHANGED List!vars
  <2>1. UNCHANGED <<mp_list, first, last, count, item, expected>>
    BY <1>1 DEF List!vars
  <2>2. \A s : Chained(s)' <=> Chained(s)
    BY <2>1 DEF Chained
  <2> QED BY <2>1, <2>2 DEF ListInv
<1>2. CASE List!Next
  BY <1>2, ListAdd, ListRemove, ListRecreate DEF List!Next
<1> QED BY <1>1, <1>2

\* The invariant holds of every execution.
LEMMA ListRun == MCSpec => []ListInv
<1>1. MCInit => List!Init
  BY DEF MCInit
<1>2. [MCNext]_<<part, vars, sync, list, oalloc, clock, json>> => [List!Next]_(List!vars)
  BY DEF MCNext, list, List!vars
<1> QED BY <1>1, <1>2, ListInit, ListStep, PTL DEF MCSpec

\* The list is the data added and not removed, in order, read by next from the first item
\* and by back from the last, and it has exactly the items in use, whatever is added and
\* removed, at whatever positions, and however often the list is made anew (em_list.c:51-113).
THEOREM ListsAreSequences == MCSpec => []ListIsSequence
<1>1. ListInv => ListIsSequence
  <2> SUFFICES ASSUME ListInv PROVE List!ListIsSequence
    BY DEF ListIsSequence
  <2>1. PICK s : Chained(s)
    BY DEF ListInv
  <2>2. count \in Nat /\ Len(expected) = count
    BY LenOf DEF ListInv
  <2>3. \A i \in 0 .. count - 1 : List!Forward(i) = s[i] /\ List!Backward(count - 1 - i) = s[i]
    <3> SUFFICES ASSUME NEW i \in 0 .. count - 1
                 PROVE  List!Forward(i) = s[i] /\ List!Backward(count - 1 - i) = s[i]
      OBVIOUS
    <3>1. count - 1 - i \in 0 .. count - 1 /\ count - 1 - (count - 1 - i) = i
      BY <2>2
    <3>2. List!Backward(count - 1 - i) = s[count - 1 - (count - 1 - i)]
      BY <2>1, <2>2, <3>1, BackwardReaches
    <3>3. List!Forward(i) = s[i]
      BY <2>1, <2>2, ForwardReaches
    <3> QED BY <3>1, <3>2, <3>3
  <2>4. \A i \in 0 .. count - 1 : item[List!Forward(i)].data = expected[i + 1]
    BY <2>1, <2>3 DEF Chained
  <2>5. List!InUse(mp_list) = {List!Forward(i) : i \in 0 .. count - 1}
    <3>1. List!InUse(mp_list) = {s[i] : i \in 0 .. count - 1}
      BY <2>1, ListPools DEF Chained
    <3> QED BY <2>3, <3>1
  <2>6. (count = 0) = (first = List!NULL)
    BY <2>1, <2>2, ListSizes DEF Chained
  <2>7. count > 0 => item[last].next = List!NULL /\ item[first].back = List!NULL
    BY <2>1, <2>2 DEF Chained
  <2> QED BY <2>2, <2>3, <2>4, <2>5, <2>6, <2>7 DEF List!ListIsSequence
<1> QED BY <1>1, ListRun, PTL

----------------------------------------------------------------------------
(* Text.  What has been printed is known from the pieces asked for so far: they are all *)
(* there if they fit together, and from the first that did not fit nothing counts.      *)

Names == {"feature", "geometry", "point", "properties", "{", ",", "}", "key", "int", "float", "string"}
TextPieces == [name : Names, length : Nat \ {0}]
Texts == Seq(TextPieces)

Written(text, offset) == [text |-> text, offset |-> offset, fits |-> TRUE]
Failed(text, offset) == [text |-> text, offset |-> offset, fits |-> FALSE]

\* What out must be when the pieces of t have been asked for.
Printed(out, t) ==
  /\ t \in Texts
  /\ Json!LengthOf(t) < len => out = Written(t, Json!LengthOf(t))
  /\ ~(Json!LengthOf(t) < len) => \E text, offset : out = Failed(text, offset)

\* A piece of text has its name and its length.
LEMMA PieceIs ==
  ASSUME NEW name \in Names, NEW length \in Nat \ {0}
  PROVE  Json!Piece(name, length) \in TextPieces /\ Json!Piece(name, length).length = length
  BY DEF TextPieces, Json!Piece

\* The length of a text is the sum of the lengths of its pieces, by the only function
\* that adds them up from the front.
LEMMA LengthWalk ==
  ASSUME NEW t \in Texts
  PROVE  \E u \in [0 .. Len(t) -> Nat] :
           /\ u[0] = 0 /\ \A i \in 1 .. Len(t) : u[i] = u[i - 1] + t[i].length
           /\ Json!LengthOf(t) = u[Len(t)]
<1> DEFINE Sums(f) == f = [i \in 0 .. Len(t) |-> IF i = 0 THEN 0 ELSE f[i - 1] + t[i].length]
           walk == CHOOSE f : Sums(f)
<1>1. Len(t) \in Nat /\ \A i \in 1 .. Len(t) : t[i].length \in Nat
  <2>1. t \in Seq(TextPieces)
    BY DEF Texts
  <2>2. Len(t) \in Nat
    BY <2>1, LenProperties
  <2>3. \A i \in 1 .. Len(t) : t[i] \in TextPieces
    BY <2>1, ElementOfSeq
  <2> QED BY <2>2, <2>3 DEF TextPieces
<1>2. PICK S : S = {m \in 0 .. Len(t) : \E f \in [0 .. m -> Nat] :
                      f[0] = 0 /\ \A i \in 1 .. m : f[i] = f[i - 1] + t[i].length}
  OBVIOUS
<1>3. 0 \in S
  <2>1. [i \in 0 .. 0 |-> 0] \in [0 .. 0 -> Nat] /\ [i \in 0 .. 0 |-> 0][0] = 0
    OBVIOUS
  <2>2. 0 \in 0 .. Len(t) /\ 1 .. 0 = {}
    BY <1>1
  <2> QED BY <1>2, <2>1, <2>2
<1>4. ASSUME NEW m \in 0 .. Len(t) - 1, m \in S PROVE m + 1 \in S
  <2>1. PICK f \in [0 .. m -> Nat] : f[0] = 0 /\ \A i \in 1 .. m : f[i] = f[i - 1] + t[i].length
    BY <1>2, <1>4
  <2> DEFINE g == [i \in 0 .. m + 1 |-> IF i = m + 1 THEN f[m] + t[m + 1].length ELSE f[i]]
  <2>2. m \in Nat /\ m + 1 \in 1 .. Len(t) /\ (m + 1) - 1 = m
    BY <1>1
  <2>3. g \in [0 .. m + 1 -> Nat]
    BY <1>1, <2>1, <2>2
  <2>4. g[m + 1] = f[m] + t[m + 1].length /\ \A i \in 0 .. m : g[i] = f[i]
    BY <2>2
  <2> HIDE DEF g
  <2>5. g[0] = 0 /\ \A i \in 1 .. m + 1 : g[i] = g[i - 1] + t[i].length
    <3>1. ASSUME NEW i \in 1 .. m + 1 PROVE g[i] = g[i - 1] + t[i].length
      <4>1. CASE i = m + 1
        BY <2>2, <2>4, <4>1
      <4>2. CASE i # m + 1
        <5>1. i \in 1 .. m /\ i \in 0 .. m /\ i - 1 \in 0 .. m
          BY <2>2, <4>2
        <5> QED BY <2>1, <2>4, <5>1
      <4> QED BY <4>1, <4>2
    <3> QED BY <2>1, <2>2, <2>4, <3>1
  <2>6. m + 1 \in 0 .. Len(t)
    BY <2>2
  <2> QED BY <1>2, <2>3, <2>5, <2>6
<1>5. PICK f \in [0 .. Len(t) -> Nat] :
        f[0] = 0 /\ \A i \in 1 .. Len(t) : f[i] = f[i - 1] + t[i].length
  <2>1. \A m \in 0 .. Len(t) : m \in S
    <3>1. Len(t) \in Nat /\ \A m \in 0 .. Len(t) - 1 : m \in S => m + 1 \in S
      BY <1>1, <1>4
    <3> QED BY ONLY <1>3, <3>1, IntervalInduction
  <2>2. Len(t) \in S
    BY <1>1, <2>1
  <2> QED BY <1>2, <2>2
<1>6. Sums(f)
  BY <1>1, <1>5
<1>7. Sums(walk)
  <2> HIDE DEF Sums
  <2> QED BY <1>6
<1> HIDE DEF walk
<1>8. walk[0] = 0 /\ \A i \in 1 .. Len(t) : walk[i] = walk[i - 1] + t[i].length
  <2>1. walk = [i \in 0 .. Len(t) |-> IF i = 0 THEN 0 ELSE walk[i - 1] + t[i].length]
    BY <1>7
  <2>2. 0 \in 0 .. Len(t) /\ \A i \in 1 .. Len(t) : i \in 0 .. Len(t) /\ i # 0
    BY <1>1
  <2> QED BY <2>1, <2>2
<1>9. \A i \in 0 .. Len(t) : walk[i] = f[i]
  <2>1. PICK T : T = {i \in 0 .. Len(t) : walk[i] = f[i]}
    OBVIOUS
  <2>2. \A i \in 0 .. Len(t) - 1 : i \in T => i + 1 \in T
    BY <1>1, <1>5, <1>8, <2>1
  <2>3. 0 \in T
    BY <1>1, <1>5, <1>8, <2>1
  <2>4. \A i \in 0 .. Len(t) : i \in T
    BY ONLY <1>1, <2>2, <2>3, IntervalInduction
  <2> QED BY <2>1, <2>4
<1>10. Json!LengthOf(t) = walk[Len(t)]
  BY DEF Json!LengthOf, walk
<1> QED BY <1>1, <1>5, <1>9, <1>10, SMTT(60)

\* A text without pieces has no characters.
LEMMA LengthOfEmpty == Json!LengthOf(<<>>) = 0
<1>1. <<>> \in Texts /\ Len(<<>>) = 0
  BY EmptySeq DEF Texts
<1> QED BY <1>1, LengthWalk

\* A piece more adds its length.
LEMMA LengthOfAppend ==
  ASSUME NEW t \in Texts, NEW p \in TextPieces
  PROVE  /\ Append(t, p) \in Texts
         /\ Json!LengthOf(t) \in Nat
         /\ Json!LengthOf(Append(t, p)) = Json!LengthOf(t) + p.length
<1> DEFINE n == Len(t)
           tp == Append(t, p)
<1>1. /\ tp \in Texts /\ Len(tp) = n + 1 /\ n \in Nat
      /\ tp[n + 1] = p /\ \A i \in 1 .. n : tp[i] = t[i]
  BY AppendProperties, LenProperties DEF Texts
<1> HIDE DEF tp
<1>2. PICK u \in [0 .. n -> Nat] :
        /\ u[0] = 0 /\ \A i \in 1 .. n : u[i] = u[i - 1] + t[i].length
        /\ Json!LengthOf(t) = u[n]
  BY LengthWalk
<1>3. PICK v \in [0 .. Len(tp) -> Nat] :
        /\ v[0] = 0 /\ \A i \in 1 .. Len(tp) : v[i] = v[i - 1] + tp[i].length
        /\ Json!LengthOf(tp) = v[Len(tp)]
  BY <1>1, LengthWalk
<1>4. \A i \in 0 .. n : v[i] = u[i]
  <2>1. PICK S : S = {i \in 0 .. n : v[i] = u[i]}
    OBVIOUS
  <2>2. ASSUME NEW i \in 0 .. n - 1, i \in S PROVE i + 1 \in S
    <3>1. i + 1 \in 1 .. n /\ i + 1 \in 1 .. n + 1 /\ (i + 1) - 1 = i /\ i + 1 \in 0 .. n
      BY <1>1
    <3>2. u[i + 1] = u[i] + t[i + 1].length
      BY <1>2, <3>1
    <3>3. v[i + 1] = v[i] + tp[i + 1].length
      BY <1>1, <1>3, <3>1
    <3> QED BY <1>1, <2>1, <2>2, <3>1, <3>2, <3>3
  <2>3. 0 \in S
    BY <1>1, <1>2, <1>3, <2>1
  <2>4. \A i \in 0 .. n : i \in S
    BY ONLY <1>1, <2>2, <2>3, IntervalInduction
  <2> QED BY <2>1, <2>4
<1>5. v[n + 1] = v[n] + p.length
  BY <1>1, <1>3
<1>6. Json!LengthOf(t) \in Nat
  BY <1>1, <1>2
<1> QED BY <1>1, <1>2, <1>3, <1>4, <1>5, <1>6 DEF tp

\* What a call of snprintf does to what has been written.
LEMMA SnprintfDoes ==
  ASSUME NEW text, NEW offset, NEW p
  PROVE  /\ Json!Snprintf(Failed(text, offset), p) = Failed(text, offset)
         /\ Json!Snprintf(Written(text, offset), p) =
              IF 0 < p.length /\ p.length < len - offset
              THEN Written(Append(text, p), offset + p.length) ELSE Failed(text, offset)
<1> DEFINE R(x, o, b) == [text |-> x, offset |-> o, fits |-> b]
           Fits(r, c) == [r EXCEPT !.fits = c]
           Text(r, y) == [r EXCEPT !.text = y]
           Offset(r, z) == [r EXCEPT !.offset = z]
<1>1. PICK yes, no : yes = TRUE /\ no = FALSE
  OBVIOUS
<1>2. \A x, o, b, c : Fits(R(x, o, b), c) = R(x, o, c)
  OBVIOUS
<1>3. /\ \A x, o, b, y : Text(R(x, o, b), y) = R(y, o, b)
      /\ \A x, o, b, z : Offset(R(x, o, b), z) = R(x, z, b)
  OBVIOUS
<1>4. PICK failed, written : failed = R(text, offset, no) /\ written = R(text, offset, yes)
  OBVIOUS
<1>5. failed.fits = no /\ written.fits = yes /\ written.text = text /\ written.offset = offset
  BY <1>4
<1>6. Json!Snprintf(failed, p) = Fits(failed, no)
  BY <1>1, <1>5, Zenon DEF Json!Snprintf
<1>7. Json!Snprintf(written, p) =
        IF 0 < p.length /\ p.length < len - offset
        THEN Offset(Text(written, Append(text, p)), offset + p.length) ELSE Fits(written, no)
  BY <1>1, <1>5, Zenon DEF Json!Snprintf
<1> HIDE DEF R, Fits, Text, Offset
<1>8. /\ Fits(failed, no) = R(text, offset, no)
      /\ Fits(written, no) = R(text, offset, no)
      /\ Offset(Text(written, Append(text, p)), offset + p.length) =
           R(Append(text, p), offset + p.length, yes)
  <2>1. PICK a, z : a = Append(text, p) /\ z = offset + p.length
    OBVIOUS
  <2>2. Fits(failed, no) = R(text, offset, no) /\ Fits(written, no) = R(text, offset, no)
    BY ONLY <1>2, <1>4, SMT
  <2>3. Text(written, a) = R(a, offset, yes)
    BY ONLY <1>3, <1>4, SMT
  <2>4. Offset(Text(written, a), z) = R(a, z, yes)
    BY ONLY <1>3, <2>3, SMT
  <2> QED BY <2>1, <2>2, <2>4, Zenon
<1>9. /\ failed = Failed(text, offset) /\ written = Written(text, offset)
      /\ R(text, offset, no) = Failed(text, offset)
      /\ R(Append(text, p), offset + p.length, yes) = Written(Append(text, p), offset + p.length)
  BY <1>1, <1>4, Zenon DEF R, Failed, Written
<1> QED BY <1>6, <1>7, <1>8, <1>9, Zenon

\* A piece more is asked for: everything before it must have fitted too.
LEMMA PrintedAppends ==
  ASSUME len \in Nat, NEW out, NEW t, Printed(out, t), NEW p \in TextPieces
  PROVE  Printed(Json!Snprintf(out, p), Append(t, p))
<1>1. PICK l \in Nat, k \in Nat \ {0} : l = Json!LengthOf(t) /\ k = p.length
  BY LengthOfAppend DEF Printed, TextPieces
<1>2. Append(t, p) \in Texts /\ Json!LengthOf(Append(t, p)) = l + k
  BY <1>1, LengthOfAppend DEF Printed
<1>3. CASE l < len
  <2>1. out = Written(t, l)
    BY <1>1, <1>3 DEF Printed
  <2>2. 0 < k /\ (k < len - l <=> l + k < len)
    BY <1>1
  <2>3. Json!Snprintf(out, p) = IF l + k < len THEN Written(Append(t, p), l + k) ELSE Failed(t, l)
    BY <1>1, <2>1, <2>2, SnprintfDoes
  <2> QED BY <1>2, <2>3 DEF Printed
<1>4. CASE ~(l < len)
  <2>1. PICK text, offset : out = Failed(text, offset)
    BY <1>1, <1>4 DEF Printed
  <2>2. Json!Snprintf(out, p) = Failed(text, offset)
    BY <2>1, SnprintfDoes
  <2>3. ~(l + k < len)
    BY <1>1, <1>4
  <2> QED BY <1>2, <2>2, <2>3 DEF Printed
<1> QED BY <1>3, <1>4

\* Elements as the property wants them: of known types, with lengths of at least one.
Fine(e) == /\ e.type \in Json!Known
           /\ e.key \in Nat \ {0} /\ e.val \in Nat \ {0}

Comma == Json!Piece(",", 2)
Opening == Json!Piece("{", 2)
Closing == Json!Piece("}", 2)
Key(e) == Json!Piece("key", e.key)
Val(e) == Json!Piece(e.type, e.val)

\* What is printed of an element is made of pieces of text.
LEMMA PiecesAre ==
  /\ Comma \in TextPieces /\ Opening \in TextPieces /\ Closing \in TextPieces
  /\ Comma.length = 2 /\ Closing.length = 2
  /\ \A e : Fine(e) => Key(e) \in TextPieces /\ Val(e) \in TextPieces
<1>1. ASSUME NEW e, Fine(e) PROVE Key(e) \in TextPieces /\ Val(e) \in TextPieces
  BY <1>1, PieceIs DEF Fine, Key, Val, Json!Known, Names
<1>2. "," \in Names /\ "{" \in Names /\ "}" \in Names /\ 2 \in Nat \ {0}
  BY DEF Names
<1> QED BY <1>1, <1>2, PieceIs DEF Comma, Opening, Closing

\* An element of a known type is its key and its value.
LEMMA PrintedElem ==
  ASSUME len \in Nat, NEW out, NEW t, Printed(out, t), NEW e, Fine(e)
  PROVE  Printed(Json!Elem(out, e), Append(Append(t, Key(e)), Val(e)))
<1>1. Json!Elem(out, e) = Json!Snprintf(Json!Snprintf(out, Key(e)), Val(e))
  BY DEF Json!Elem, Fine, Key, Val
<1> QED BY <1>1, PiecesAre, PrintedAppends

\* The text that is meant grows by the elements one after the other.
LEMMA SeparatedWalk ==
  ASSUME NEW obj, NEW n \in Nat \ {0}, Len(obj) = n
  PROVE  \E sep : /\ sep[1] = <<Opening>> \o <<Key(obj[1]), Val(obj[1])>>
                  /\ \A i \in 2 .. n : sep[i] = Append(sep[i - 1], Comma) \o <<Key(obj[i]), Val(obj[i])>>
                  /\ Json!Separated(obj) = Append(sep[n], Closing)
<1> DEFINE On(x, i) == Append(x, Comma) \o <<Key(obj[i]), Val(obj[i])>>
           Front == <<Opening>> \o <<Key(obj[1]), Val(obj[1])>>
           Grows(f) == f = [i \in 1 .. n |-> (IF i = 1 THEN <<Opening>> ELSE Append(f[i - 1], Comma))
                                               \o <<Key(obj[i]), Val(obj[i])>>]
           walk == CHOOSE f : Grows(f)
<1>1. \A f : Grows(f) <=> f = [i \in 1 .. n |-> IF i = 1 THEN Front ELSE On(f[i - 1], i)]
  <2>1. \A f : [i \in 1 .. n |-> (IF i = 1 THEN <<Opening>> ELSE Append(f[i - 1], Comma))
                                    \o <<Key(obj[i]), Val(obj[i])>>]
                 = [i \in 1 .. n |-> IF i = 1 THEN Front ELSE On(f[i - 1], i)]
    OBVIOUS
  <2> QED BY <2>1
<1> HIDE DEF On, Front, Grows
<1>2. PICK S : S = {m \in 0 .. n - 1 : \E f : f[1] = Front /\ \A i \in 2 .. m + 1 : f[i] = On(f[i - 1], i)}
  OBVIOUS
<1>3. 0 \in S
  <2>1. [i \in 1 .. 1 |-> Front][1] = Front /\ 2 .. 0 + 1 = {} /\ 0 \in 0 .. n - 1
    OBVIOUS
  <2> QED BY <1>2, <2>1
<1>4. ASSUME NEW m \in 0 .. n - 2, m \in S PROVE m + 1 \in S
  <2>1. PICK f : f[1] = Front /\ \A i \in 2 .. m + 1 : f[i] = On(f[i - 1], i)
    BY <1>2, <1>4
  <2> DEFINE g == [i \in 1 .. m + 2 |-> IF i = m + 2 THEN On(f[m + 1], m + 2) ELSE f[i]]
  <2>2. g[m + 2] = On(f[m + 1], m + 2) /\ \A i \in 1 .. m + 1 : g[i] = f[i]
    OBVIOUS
  <2> HIDE DEF g
  <2>3. ASSUME NEW i \in 2 .. m + 2 PROVE g[i] = On(g[i - 1], i)
    <3>1. CASE i = m + 2
      <4>1. i - 1 = m + 1 /\ m + 1 \in 1 .. m + 1
        BY <3>1
      <4> QED BY <2>2, <3>1, <4>1
    <3>2. CASE i # m + 2
      <4>1. i \in 2 .. m + 1 /\ i \in 1 .. m + 1 /\ i - 1 \in 1 .. m + 1
        BY <3>2
      <4> QED BY <2>1, <2>2, <4>1
    <3> QED BY <3>1, <3>2
  <2>4. g[1] = Front /\ (m + 1) + 1 = m + 2 /\ m + 1 \in 0 .. n - 1
    BY <2>1, <2>2
  <2> QED BY <1>2, <2>3, <2>4
<1>5. PICK f : f[1] = Front /\ \A i \in 2 .. n : f[i] = On(f[i - 1], i)
  <2>1. \A m \in 0 .. n - 1 : m \in S
    <3>1. n - 1 \in Nat /\ \A m \in 0 .. (n - 1) - 1 : m \in S => m + 1 \in S
      BY <1>4
    <3> QED BY ONLY <1>3, <3>1, IntervalInduction
  <2>2. n - 1 \in S /\ (n - 1) + 1 = n
    BY <2>1
  <2> QED BY <1>2, <2>2
<1>6. \E h : Grows(h)
  <2> DEFINE h == [i \in 1 .. n |-> f[i]]
  <2>1. h = [i \in 1 .. n |-> IF i = 1 THEN Front ELSE On(h[i - 1], i)]
    BY <1>5
  <2> QED BY <1>1, <2>1
<1>7. Grows(walk)
  BY <1>6
<1> HIDE DEF walk
<1>8. walk = [i \in 1 .. n |-> IF i = 1 THEN Front ELSE On(walk[i - 1], i)]
  BY <1>1, <1>7
<1>9. walk[1] = Front /\ \A i \in 2 .. n : walk[i] = On(walk[i - 1], i)
  <2>1. 1 \in 1 .. n /\ \A i \in 2 .. n : i \in 1 .. n /\ i # 1
    OBVIOUS
  <2> QED BY <1>8, <2>1
<1>10. Json!Separated(obj) = Append(walk[n], Closing)
  BY DEF Json!Separated, walk, Grows, Comma, Opening, Closing, Key, Val
<1> QED BY <1>9, <1>10 DEF On, Front

\* Texts put together, piece by piece.
LEMMA Concats ==
  ASSUME NEW t \in Texts, NEW h \in Texts, NEW k \in TextPieces, NEW v \in TextPieces
  PROVE  /\ t \o h \in Texts
         /\ h \o <<k, v>> \in Texts
         /\ Append(t \o h, k) = t \o Append(h, k)
         /\ Append(Append(t \o h, k), v) = t \o (h \o <<k, v>>)
<1>1. /\ t \in Seq(TextPieces) /\ h \in Seq(TextPieces) /\ t \o h \in Seq(TextPieces)
      /\ Append(h, k) \in Seq(TextPieces) /\ Append(t \o h, k) \in Seq(TextPieces)
  BY ConcatProperties, AppendProperties DEF Texts
<1>2. Append(t \o h, k) = t \o Append(h, k)
  <2>1. Append(t \o h, k) = (t \o h) \o <<k>> /\ Append(h, k) = h \o <<k>> /\ <<k>> \in Seq(TextPieces)
    BY <1>1, AppendIsConcat
  <2> QED BY <1>1, <2>1, ConcatAssociative
<1>3. Append(Append(t \o h, k), v) = t \o Append(Append(h, k), v)
  <2>1. /\ Append(t \o Append(h, k), v) = (t \o Append(h, k)) \o <<v>>
        /\ Append(Append(h, k), v) = Append(h, k) \o <<v>> /\ <<v>> \in Seq(TextPieces)
    <3>1. t \o Append(h, k) \in Seq(TextPieces)
      BY <1>1, <1>2
    <3> QED BY <1>1, <3>1, AppendIsConcat, SMTT(60)
  <2>2. (t \o Append(h, k)) \o <<v>> = t \o (Append(h, k) \o <<v>>)
    BY <1>1, <2>1, ConcatAssociative, SMTT(60)
  <2> QED BY <1>2, <2>1, <2>2
<1>4. Append(Append(h, k), v) = h \o <<k, v>> /\ h \o <<k, v>> \in Seq(TextPieces)
  <2>1. Append(Append(h, k), v) = (h \o <<k>>) \o <<v>>
    BY <1>1, AppendIsConcat
  <2>2. (h \o <<k>>) \o <<v>> = h \o (<<k>> \o <<v>>)
    BY <1>1, ConcatAssociative, <<k>> \in Seq(TextPieces), <<v>> \in Seq(TextPieces)
  <2>3. <<k>> \o <<v>> = <<k, v>>
    <3>1. <<k>> \in Seq(TextPieces) /\ <<v>> \in Seq(TextPieces) /\ <<k, v>> \in Seq(TextPieces)
      OBVIOUS
    <3>2. PICK a, b, c : a = <<k>> /\ b = <<v>> /\ c = <<k>> \o <<v>>
      OBVIOUS
    <3>3. Len(a) = 1 /\ Len(b) = 1 /\ a[1] = k /\ b[1] = v
      BY <3>2
    <3>4. c \in Seq(TextPieces) /\ Len(c) = 2 /\ c[1] = k /\ c[2] = v
      BY <3>1, <3>2, <3>3, ConcatProperties
    <3>5. c = <<k, v>>
      BY <3>1, <3>4, SeqEqual
    <3> QED BY <3>2, <3>5
  <2>4. Append(Append(h, k), v) \in Seq(TextPieces)
    BY <1>1, AppendProperties
  <2> QED BY <2>1, <2>2, <2>3, <2>4
<1> QED BY <1>1, <1>2, <1>3, <1>4 DEF Texts

\* The text that is meant is made of pieces.
LEMMA SeparatedIsText ==
  ASSUME NEW obj, Len(obj) \in Nat \ {0}, \A i \in 1 .. Len(obj) : Fine(obj[i])
  PROVE  Json!Separated(obj) \in Texts
<1> DEFINE n == Len(obj)
<1>1. PICK sep : /\ sep[1] = <<Opening>> \o <<Key(obj[1]), Val(obj[1])>>
                 /\ \A i \in 2 .. n : sep[i] = Append(sep[i - 1], Comma) \o <<Key(obj[i]), Val(obj[i])>>
                 /\ Json!Separated(obj) = Append(sep[n], Closing)
  BY SeparatedWalk
<1>2. /\ <<Opening>> \in Texts /\ Comma \in TextPieces /\ Closing \in TextPieces
      /\ \A i \in 1 .. n : Key(obj[i]) \in TextPieces /\ Val(obj[i]) \in TextPieces
  BY PiecesAre DEF Texts
<1> HIDE DEF n
<1>3. n \in Nat \ {0}
  BY DEF n
<1>4. PICK S : S = {i \in 0 .. n - 1 : sep[i + 1] \in Texts}
  OBVIOUS
<1>5. 0 \in S
  <2>1. sep[1] \in Texts
    BY <1>1, <1>2, <1>3, Concats
  <2>2. 0 \in 0 .. n - 1 /\ 0 + 1 = 1
    BY <1>3
  <2> QED BY <1>4, <2>1, <2>2
<1>6. ASSUME NEW i \in 0 .. (n - 1) - 1, i \in S PROVE i + 1 \in S
  <2>1. PICK h, j : h = Append(sep[i + 1], Comma) /\ j = i + 2
    OBVIOUS
  <2>2. j \in 1 .. n /\ j \in 2 .. n /\ j - 1 = i + 1 /\ (i + 1) + 1 = j /\ i + 1 \in 0 .. n - 1
    BY <1>3, <2>1
  <2>3. h \in Texts
    BY <1>2, <1>4, <1>6, <2>1, AppendProperties DEF Texts
  <2>4. sep[j] = h \o <<Key(obj[j]), Val(obj[j])>>
    BY <1>1, <2>1, <2>2
  <2>5. sep[j] \in Texts
    BY <1>2, <2>2, <2>3, <2>4, Concats
  <2> QED BY <1>4, <2>2, <2>5
<1>7. \A i \in 0 .. n - 1 : i \in S
  <2>1. n - 1 \in Nat
    BY <1>3
  <2> QED BY ONLY <1>5, <1>6, <2>1, IntervalInduction
<1>8. n - 1 \in S /\ (n - 1) + 1 = n
  BY <1>3, <1>7
<1> QED BY <1>1, <1>2, <1>4, <1>8, AppendProperties DEF Texts

\* The function em_json_snprint_obj computes piece after piece.
LEMMA ObjWalk ==
  ASSUME NEW out, NEW obj, NEW n \in Nat, Len(obj) = n
  PROVE  \E up : /\ up[0] = Json!Snprintf(out, Opening)
                 /\ \A i \in 1 .. n : up[i] = Json!Snprintf(Json!Elem(up[i - 1], obj[i]), Comma)
                 /\ Json!Obj(out, obj) = IF up[n].fits THEN [up[n] EXCEPT !.text[Len(up[n].text)] = Closing]
                                         ELSE up[n]
<1> DEFINE On(x, i) == Json!Snprintf(Json!Elem(x, obj[i]), Comma)
           Front == Json!Snprintf(out, Opening)
           Grows(f) == f = [i \in 0 .. n |-> IF i = 0 THEN Front ELSE On(f[i - 1], i)]
           walk == CHOOSE f : Grows(f)
<1>1. \A f : Grows(f) <=> f = [i \in 0 .. n |-> IF i = 0 THEN Front ELSE On(f[i - 1], i)]
  OBVIOUS
<1> HIDE DEF On, Front, Grows
<1>2. PICK S : S = {m \in 0 .. n : \E f : f[0] = Front /\ \A i \in 1 .. m : f[i] = On(f[i - 1], i)}
  OBVIOUS
<1>3. 0 \in S
  <2>1. [i \in 0 .. 0 |-> Front][0] = Front /\ 1 .. 0 = {} /\ 0 \in 0 .. n
    OBVIOUS
  <2> QED BY <1>2, <2>1
<1>4. ASSUME NEW m \in 0 .. n - 1, m \in S PROVE m + 1 \in S
  <2>1. PICK f : f[0] = Front /\ \A i \in 1 .. m : f[i] = On(f[i - 1], i)
    BY <1>2, <1>4
  <2> DEFINE g == [i \in 0 .. m + 1 |-> IF i = m + 1 THEN On(f[m], m + 1) ELSE f[i]]
  <2>2. g[m + 1] = On(f[m], m + 1) /\ \A i \in 0 .. m : g[i] = f[i]
    OBVIOUS
  <2> HIDE DEF g
  <2>3. ASSUME NEW i \in 1 .. m + 1 PROVE g[i] = On(g[i - 1], i)
    <3>1. CASE i = m + 1
      <4>1. i - 1 = m /\ m \in 0 .. m
        BY <3>1
      <4> QED BY <2>2, <3>1, <4>1
    <3>2. CASE i # m + 1
      <4>1. i \in 1 .. m /\ i \in 0 .. m /\ i - 1 \in 0 .. m
        BY <3>2
      <4> QED BY <2>1, <2>2, <4>1
    <3> QED BY <3>1, <3>2
  <2>4. g[0] = Front /\ m + 1 \in 0 .. n
    BY <2>1, <2>2
  <2> QED BY <1>2, <2>3, <2>4
<1>5. PICK f : f[0] = Front /\ \A i \in 1 .. n : f[i] = On(f[i - 1], i)
  <2>1. \A m \in 0 .. n : m \in S
    BY ONLY <1>3, <1>4, IntervalInduction, n \in Nat
  <2>2. n \in S
    BY <2>1
  <2> QED BY <1>2, <2>2
<1>6. \E h : Grows(h)
  <2> DEFINE h == [i \in 0 .. n |-> f[i]]
  <2>1. h = [i \in 0 .. n |-> IF i = 0 THEN Front ELSE On(h[i - 1], i)]
    BY <1>5
  <2> QED BY <1>1, <2>1
<1>7. Grows(walk)
  BY <1>6
<1> HIDE DEF walk
<1>8. walk = [i \in 0 .. n |-> IF i = 0 THEN Front ELSE On(walk[i - 1], i)]
  BY <1>1, <1>7
<1>9. walk[0] = Front /\ \A i \in 1 .. n : walk[i] = On(walk[i - 1], i)
  <2>1. 0 \in 0 .. n /\ \A i \in 1 .. n : i \in 0 .. n /\ i # 0
    OBVIOUS
  <2> QED BY <1>8, <2>1
<1>10. Json!Obj(out, obj) = IF walk[n].fits THEN [walk[n] EXCEPT !.text[Len(walk[n].text)] = Closing] ELSE walk[n]
  BY DEF Json!Obj, walk, Grows, On, Front, Comma, Opening, Closing
<1> QED BY <1>9, <1>10, Zenon DEF On, Front

\* An element and its comma, behind what has been asked for.
LEMMA PrintedNext ==
  ASSUME len \in Nat, NEW out, NEW t \in Texts, NEW h \in Texts, Printed(out, t \o h), NEW e, Fine(e)
  PROVE  /\ h \o <<Key(e), Val(e)>> \in Texts
         /\ Printed(Json!Snprintf(Json!Elem(out, e), Comma), Append(t \o (h \o <<Key(e), Val(e)>>), Comma))
<1>1. Key(e) \in TextPieces /\ Val(e) \in TextPieces /\ Comma \in TextPieces
  BY PiecesAre
<1>2. /\ h \o <<Key(e), Val(e)>> \in Texts
      /\ Append(Append(t \o h, Key(e)), Val(e)) = t \o (h \o <<Key(e), Val(e)>>)
  BY <1>1, Concats, ZenonT(60)
<1>3. Printed(Json!Elem(out, e), t \o (h \o <<Key(e), Val(e)>>))
  BY <1>2, PrintedElem
<1>4. Printed(Json!Snprintf(Json!Elem(out, e), Comma), Append(t \o (h \o <<Key(e), Val(e)>>), Comma))
  BY <1>1, <1>3, PrintedAppends
<1> QED BY <1>2, <1>4

\* One piece in the place of another of its length.
LEMMA LastReplaced ==
  ASSUME NEW u \in Texts, NEW a \in TextPieces, NEW b \in TextPieces
  PROVE  \A x, z : x = Append(u, a) /\ z = [x EXCEPT ![Len(x)] = b] => z = Append(u, b)
<1> SUFFICES ASSUME NEW x, NEW z, x = Append(u, a), z = [x EXCEPT ![Len(x)] = b]
             PROVE  z = Append(u, b)
  OBVIOUS
<1> DEFINE y == Append(u, b)
<1>1. /\ x \in Seq(TextPieces) /\ Len(x) = Len(u) + 1 /\ Len(u) \in Nat
      /\ \A i \in 1 .. Len(u) : x[i] = u[i]
  BY AppendProperties, LenProperties DEF Texts
<1>2. /\ y \in Seq(TextPieces) /\ Len(y) = Len(u) + 1
      /\ y[Len(u) + 1] = b /\ \A i \in 1 .. Len(u) : y[i] = u[i]
  BY AppendProperties DEF Texts
<1> HIDE DEF y
<1>3. Len(x) \in 1 .. Len(x)
  BY <1>1
<1>4. /\ z \in Seq(TextPieces) /\ Len(z) = Len(x)
      /\ \A j \in 1 .. Len(x) : z[j] = IF j = Len(x) THEN b ELSE x[j]
  <2>1. z = [x EXCEPT ![Len(x)] = b] /\ b \in TextPieces
    OBVIOUS
  <2> QED BY ONLY <1>1, <1>3, <2>1, ExceptSeq
<1>5. \A i \in 1 .. Len(z) : z[i] = y[i]
  BY <1>1, <1>2, <1>4
<1>6. z = y
  BY <1>1, <1>2, <1>4, <1>5, SeqEqual
<1> QED BY <1>6 DEF y

\* The bracket that is written over the last comma, which is of its length.
LEMMA WrittenReplaced ==
  ASSUME NEW x, NEW l, NEW c
  PROVE  [Written(x, l) EXCEPT !.text[Len(Written(x, l).text)] = c] = Written([x EXCEPT ![Len(x)] = c], l)
<1> DEFINE R(y, o, b) == [text |-> y, offset |-> o, fits |-> b]
<1>1. PICK yes : yes = TRUE
  OBVIOUS
<1>2. PICK w : w = R(x, l, yes)
  OBVIOUS
<1>3. w.text = x /\ [w EXCEPT !.text[Len(x)] = c] = R([x EXCEPT ![Len(x)] = c], l, yes)
  BY <1>2
<1>4. [w EXCEPT !.text[Len(w.text)] = c] = R([x EXCEPT ![Len(x)] = c], l, yes)
  BY <1>3
<1>5. w = Written(x, l) /\ R([x EXCEPT ![Len(x)] = c], l, yes) = Written([x EXCEPT ![Len(x)] = c], l)
  BY <1>1, <1>2, Zenon DEF Written
<1> HIDE DEF R
<1> QED BY <1>4, <1>5, Zenon

\* The elements with commas between them and the closing bracket in the place of the last.
LEMMA PrintedObj ==
  ASSUME len \in Nat, NEW out, NEW t, Printed(out, t), NEW obj, NEW n \in Nat \ {0}, Len(obj) = n,
         \A i \in 1 .. n : Fine(obj[i])
  PROVE  Printed(Json!Obj(out, obj), t \o Json!Separated(obj))
<1>1. PICK sep : /\ sep[1] = <<Opening>> \o <<Key(obj[1]), Val(obj[1])>>
                 /\ \A i \in 2 .. n : sep[i] = Append(sep[i - 1], Comma) \o <<Key(obj[i]), Val(obj[i])>>
                 /\ Json!Separated(obj) = Append(sep[n], Closing)
  BY SeparatedWalk
<1>2. PICK up : /\ up[0] = Json!Snprintf(out, Opening)
                /\ \A i \in 1 .. n : up[i] = Json!Snprintf(Json!Elem(up[i - 1], obj[i]), Comma)
                /\ Json!Obj(out, obj) = IF up[n].fits THEN [up[n] EXCEPT !.text[Len(up[n].text)] = Closing]
                                        ELSE up[n]
  BY ObjWalk
<1>3. t \in Texts /\ Comma \in TextPieces /\ Opening \in TextPieces /\ Closing \in TextPieces
  BY PiecesAre DEF Printed
<1>4. PICK S : S = {i \in 0 .. n - 1 : /\ sep[i + 1] \in Texts
                                       /\ Printed(up[i + 1], Append(t \o sep[i + 1], Comma))}
  OBVIOUS
<1>5. 0 \in S
  <2>1. <<Opening>> \in Texts /\ Append(t, Opening) = t \o <<Opening>>
    BY <1>3, AppendIsConcat DEF Texts
  <2>2. Printed(up[0], t \o <<Opening>>)
    BY <1>2, <1>3, <2>1, PrintedAppends
  <2>3. Fine(obj[1]) /\ up[1] = Json!Snprintf(Json!Elem(up[0], obj[1]), Comma)
    BY <1>2
  <2>4. sep[1] \in Texts /\ Printed(up[1], Append(t \o sep[1], Comma))
    BY <1>1, <1>3, <2>1, <2>2, <2>3, PrintedNext
  <2>5. 0 \in 0 .. n - 1 /\ 0 + 1 = 1
    OBVIOUS
  <2> QED BY <1>4, <2>4, <2>5
<1>6. ASSUME NEW i \in 0 .. (n - 1) - 1, i \in S PROVE i + 1 \in S
  <2>1. PICK h, j, e : h = Append(sep[i + 1], Comma) /\ j = i + 2 /\ e = obj[i + 2]
    OBVIOUS
  <2>2. j \in 1 .. n /\ j \in 2 .. n /\ j - 1 = i + 1 /\ (i + 1) + 1 = j /\ i + 1 \in 0 .. n - 1
    BY <2>1
  <2>3. sep[i + 1] \in Texts /\ Printed(up[i + 1], Append(t \o sep[i + 1], Comma))
    BY <1>4, <1>6
  <2>4. h \in Texts /\ Append(t \o sep[i + 1], Comma) = t \o h
    <3>1. h \in Texts
      BY <1>3, <2>1, <2>3, AppendProperties DEF Texts
    <3> QED BY <1>3, <2>1, <2>3, <3>1, Concats, ZenonT(60)
  <2>5. Fine(e) /\ up[j] = Json!Snprintf(Json!Elem(up[i + 1], e), Comma) /\ sep[j] = h \o <<Key(e), Val(e)>>
    BY <1>1, <1>2, <2>1, <2>2
  <2>6. Printed(up[i + 1], t \o h)
    BY <2>3, <2>4
  <2>7. sep[j] \in Texts /\ Printed(up[j], Append(t \o sep[j], Comma))
    BY <1>3, <2>4, <2>5, <2>6, PrintedNext
  <2> QED BY <1>4, <2>2, <2>7
<1>7. PICK u : /\ u = t \o sep[n] /\ u \in Texts /\ Printed(up[n], Append(u, Comma))
               /\ t \o Json!Separated(obj) = Append(u, Closing)
  <2>1. \A i \in 0 .. n - 1 : i \in S
    <3>1. n - 1 \in Nat
      OBVIOUS
    <3> QED BY ONLY <1>5, <1>6, <3>1, IntervalInduction
  <2>2. n - 1 \in S /\ (n - 1) + 1 = n
    BY <2>1
  <2>3. sep[n] \in Texts /\ Printed(up[n], Append(t \o sep[n], Comma))
    BY <1>4, <2>2
  <2>4. t \o sep[n] \in Texts /\ Append(t \o sep[n], Closing) = t \o Append(sep[n], Closing)
    BY <1>3, <2>3, Concats
  <2> QED BY <1>1, <2>3, <2>4
<1>8. PICK l \in Nat : /\ Json!LengthOf(Append(u, Comma)) = l /\ Json!LengthOf(Append(u, Closing)) = l
                       /\ Append(u, Closing) \in Texts
  <2>1. /\ Json!LengthOf(Append(u, Comma)) = Json!LengthOf(u) + 2
        /\ Json!LengthOf(Append(u, Closing)) = Json!LengthOf(u) + 2
        /\ Append(u, Closing) \in Texts /\ Json!LengthOf(u) \in Nat
    BY <1>3, <1>7, LengthOfAppend, PiecesAre, ZenonT(60)
  <2> QED BY <2>1
<1>9. CASE l < len
  <2>1. up[n] = Written(Append(u, Comma), l)
    BY <1>7, <1>8, <1>9 DEF Printed
  <2>2. PICK x : x = Append(u, Comma)
    OBVIOUS
  <2>3. [Written(x, l) EXCEPT !.text[Len(Written(x, l).text)] = Closing]
          = Written([x EXCEPT ![Len(x)] = Closing], l)
    BY WrittenReplaced
  <2>4. [x EXCEPT ![Len(x)] = Closing] = Append(u, Closing)
    <3>1. \A y, z : y = Append(u, Comma) /\ z = [y EXCEPT ![Len(y)] = Closing] => z = Append(u, Closing)
      BY <1>3, <1>7, LastReplaced
    <3> QED BY <2>2, <3>1
  <2>5. Written(x, l).fits = TRUE
    BY DEF Written
  <2>6. Json!Obj(out, obj) = [Written(x, l) EXCEPT !.text[Len(Written(x, l).text)] = Closing]
    BY <1>2, <2>1, <2>2, <2>5, Zenon
  <2>7. Json!Obj(out, obj) = Written(Append(u, Closing), l)
    BY <2>3, <2>4, <2>6
  <2> QED BY <1>7, <1>8, <1>9, <2>7 DEF Printed
<1>10. CASE ~(l < len)
  <2>1. PICK text, offset : up[n] = Failed(text, offset)
    BY <1>7, <1>8, <1>10 DEF Printed
  <2>2. Failed(text, offset).fits = FALSE
    BY DEF Failed
  <2>3. Json!Obj(out, obj) = Failed(text, offset)
    BY <1>2, <2>1, <2>2, Zenon
  <2> QED BY <1>7, <1>8, <1>10, <2>3 DEF Printed
<1> QED BY <1>9, <1>10


\* What the property asks of the feature.
Printable == /\ gf.geometry = "point"
             /\ gf.has_properties => /\ gf.properties # <<>>
                                     /\ \A i \in DOMAIN gf.properties : gf.properties[i].type \in Json!Known

LEMMA PrintableElements ==
  ASSUME gf \in Json!Features, Printable, gf.has_properties
  PROVE  Len(gf.properties) \in Nat \ {0} /\ \A i \in 1 .. Len(gf.properties) : Fine(gf.properties[i])
<1>1. PICK obj : obj = gf.properties
  OBVIOUS
<1>2. PICK n \in 0 .. MaxElems : obj \in [1 .. n -> Json!Elements]
  BY <1>1 DEF Json!Features, Json!Objects
<1>3. n \in Nat
  BY LibraryAssumption
<1>4. obj \in Seq(Json!Elements) /\ Len(obj) = n
  BY <1>2, <1>3, LenOf
<1>5. n # 0
  <2>1. obj # <<>>
    BY <1>1 DEF Printable
  <2> QED BY <1>4, <2>1, EmptySeq
<1>6. ASSUME NEW i \in 1 .. n PROVE Fine(obj[i])
  <2>1. obj[i] \in Json!Elements /\ i \in DOMAIN obj
    BY <1>2, <1>6
  <2>2. obj[i].type \in Json!Known
    BY <1>1, <2>1 DEF Printable
  <2>3. obj[i].key \in KeyLengths /\ obj[i].val \in ValueLengths
    BY <2>1 DEF Json!Elements
  <2> QED BY <2>2, <2>3, LibraryAssumption DEF Fine
<1> QED BY <1>1, <1>3, <1>4, <1>5, <1>6

LEMMA PrintedFeature ==
  ASSUME gf \in Json!Features, len \in Nat, Printable
  PROVE  Printed(Json!Feature, Json!Meant)
<1>1. PICK F, G, P, Q : /\ F = Json!Piece("feature", 21) /\ G = Json!Piece("geometry", 12)
                        /\ P = Json!Piece("point", gf.point) /\ Q = Json!Piece("properties", 16)
  OBVIOUS
<1>2. /\ F \in TextPieces /\ G \in TextPieces /\ P \in TextPieces /\ Q \in TextPieces
      /\ F.length = 21 /\ Closing \in TextPieces /\ len \in Nat
  <2>1. gf.point \in Nat \ {0}
    BY LibraryAssumption DEF Json!Features
  <2>2. /\ {"feature", "geometry", "point", "properties"} \subseteq Names
        /\ 21 \in Nat \ {0} /\ 12 \in Nat \ {0} /\ 16 \in Nat \ {0}
    BY DEF Names
  <2> QED BY <1>1, <2>1, <2>2, PieceIs, PiecesAre
<1>3. PICK f, g, o : /\ f = Json!Snprintf(Json!Nothing, F) /\ g = Json!Snprintf(Json!Snprintf(f, G), P)
                     /\ o = Json!Obj(Json!Snprintf(g, Q), gf.properties)
  OBVIOUS
<1>4. Json!Feature = Json!Snprintf(IF gf.has_properties THEN o ELSE g, Closing)
  <2>1. gf.geometry = "point"
    BY DEF Printable
  <2>2. Json!Geometry(f, gf.geometry, gf.point) = g
    BY <1>1, <1>3, <2>1, Zenon DEF Json!Geometry
  <2> QED BY <1>1, <1>3, <2>2, Zenon DEF Json!Feature, Closing
<1>5. <<>> \in Texts /\ Append(<<>>, F) = <<F>>
  BY EmptySeq DEF Texts
<1>6. Printed(f, <<F>>)
  <2>1. <<F>> \in Texts /\ Json!LengthOf(<<F>>) = 21
    <3>1. PICK e : e = <<>>
      OBVIOUS
    <3>2. e \in Texts /\ Json!LengthOf(e) = 0 /\ Append(e, F) = <<F>>
      BY <1>5, <3>1, LengthOfEmpty
    <3>3. Append(e, F) \in Texts /\ Json!LengthOf(Append(e, F)) = 0 + 21
      BY <1>2, <3>2, LengthOfAppend
    <3> QED BY <3>2, <3>3
  <2>2. Json!Nothing = Written(<<>>, 0)
    BY DEF Json!Nothing, Written
  <2>3. 0 < 21 /\ len - 0 = len /\ 0 + 21 = 21
    BY <1>2
  <2>4. f = IF 21 < len THEN Written(<<F>>, 21) ELSE Failed(<<>>, 0)
    BY <1>2, <1>3, <1>5, <2>2, <2>3, SnprintfDoes
  <2> QED BY <2>1, <2>4 DEF Printed
<1>7. Printed(g, <<F, G, P>>) /\ <<F, G, P>> \in Texts
  <2>1. Append(Append(<<F>>, G), P) = <<F, G, P>>
    <3>1. PICK a, b, c, d : /\ a = <<F>> /\ b = Append(a, G) /\ c = Append(b, P) /\ d = <<F, G, P>>
      OBVIOUS
    <3>2. /\ a \in Seq(TextPieces) /\ Len(a) = 1 /\ a[1] = F
          /\ d \in Seq(TextPieces) /\ Len(d) = 3 /\ d[1] = F /\ d[2] = G /\ d[3] = P
      BY <1>2, <3>1
    <3>3. b \in Seq(TextPieces) /\ Len(b) = 2 /\ b[1] = F /\ b[2] = G
      BY <1>2, <3>1, <3>2, AppendProperties
    <3>4. c \in Seq(TextPieces) /\ Len(c) = 3 /\ c[1] = F /\ c[2] = G /\ c[3] = P
      BY <1>2, <3>1, <3>3, AppendProperties
    <3>5. c = d
      BY <3>2, <3>4, SeqEqual
    <3> QED BY <3>1, <3>5
  <2>2. Printed(g, Append(Append(<<F>>, G), P))
    BY <1>2, <1>3, <1>6, PrintedAppends
  <2> QED BY <2>1, <2>2 DEF Printed
<1>8. CASE gf.has_properties
  <2>1. PICK sep : sep = Json!Separated(gf.properties)
    OBVIOUS
  <2>2. Printed(Json!Snprintf(g, Q), Append(<<F, G, P>>, Q))
    BY <1>2, <1>7, PrintedAppends
  <2>3. Printed(o, Append(<<F, G, P>>, Q) \o sep)
    BY <1>2, <1>3, <1>8, <2>1, <2>2, PrintableElements, PrintedObj
  <2>4. Printed(Json!Feature, Append(Append(<<F, G, P>>, Q) \o sep, Closing))
    <3>1. Json!Feature = Json!Snprintf(o, Closing)
      BY <1>4, <1>8, Zenon
    <3> QED BY <1>2, <2>3, <3>1, PrintedAppends
  <2>5. sep \in Texts
    BY <1>8, <2>1, PrintableElements, SeparatedIsText
  <2>6. Append(Append(<<F, G, P>>, Q) \o sep, Closing) = (<<F, G, P>> \o (<<Q>> \o sep)) \o <<Closing>>
    <3>1. /\ <<F, G, P>> \in Seq(TextPieces) /\ sep \in Seq(TextPieces) /\ <<Q>> \in Seq(TextPieces)
          /\ Append(<<F, G, P>>, Q) = <<F, G, P>> \o <<Q>>
      BY <1>2, <1>7, <2>5, AppendIsConcat DEF Texts
    <3>2. (<<F, G, P>> \o <<Q>>) \o sep = <<F, G, P>> \o (<<Q>> \o sep)
      BY <3>1, ConcatAssociative
    <3>3. (<<F, G, P>> \o <<Q>>) \o sep \in Seq(TextPieces)
      BY <3>1, ConcatProperties
    <3>4. Append((<<F, G, P>> \o <<Q>>) \o sep, Closing) = ((<<F, G, P>> \o <<Q>>) \o sep) \o <<Closing>>
      BY <1>2, <3>3, AppendIsConcat
    <3> QED BY <3>1, <3>2, <3>4
  <2>7. Json!Meant = (<<F, G, P>> \o (<<Q>> \o sep)) \o <<Closing>>
    BY <1>1, <1>8, <2>1, Zenon DEF Json!Meant, Closing
  <2> QED BY <2>4, <2>6, <2>7
<1>9. CASE ~gf.has_properties
  <2>1. Json!Feature = Json!Snprintf(g, Closing)
    BY <1>4, <1>9, Zenon
  <2>2. Printed(Json!Feature, Append(<<F, G, P>>, Closing))
    BY <1>2, <1>7, <2>1, PrintedAppends
  <2>3. Append(<<F, G, P>>, Closing) = (<<F, G, P>> \o <<>>) \o <<Closing>>
    BY <1>2, <1>7, AppendIsConcat, ConcatEmptySeq DEF Texts
  <2>4. Json!Meant = (<<F, G, P>> \o <<>>) \o <<Closing>>
    BY <1>1, <1>9, Zenon DEF Json!Meant, Closing
  <2> QED BY <2>2, <2>3, <2>4
<1> QED BY <1>8, <1>9

\* What is there once the feature has been printed.
JsonInv == /\ gf \in Json!Features /\ len \in Nat
           /\ dst # Json!Nothing /\ Printable => Printed(dst, Json!Meant)

\* Printing happens once, before anything is looked at.
LEMMA JsonRun == MCSpec => []JsonInv
<1>1. MCInit => JsonInv
  BY LibraryAssumption DEF MCInit, Json!Init, JsonInv
<1>2. JsonInv /\ [MCNext]_<<part, vars, sync, list, oalloc, clock, json>> => JsonInv'
  <2> SUFFICES ASSUME JsonInv, [MCNext]_<<part, vars, sync, list, oalloc, clock, json>> PROVE JsonInv'
    OBVIOUS
  <2>1. gf' = gf /\ len' = len /\ (dst' = dst \/ dst' = Json!Feature)
    BY DEF MCNext, json, Json!PrintFeature
  <2>2. gf \in Json!Features /\ len \in Nat /\ (Printable' <=> Printable) /\ Json!Meant' = Json!Meant
    BY <2>1 DEF JsonInv, Printable, Json!Meant
  <2>3. \A t : Printed(dst, t) /\ dst' = dst => Printed(dst, t)'
    BY <2>1 DEF Printed
  <2>4. \A t : Printed(Json!Feature, t) /\ dst' = Json!Feature => Printed(dst, t)'
    BY <2>1 DEF Printed
  <2>5. ASSUME dst' # Json!Nothing, Printable PROVE Printed(dst, Json!Meant)'
    <3>1. CASE dst' = dst
      <4>1. Printed(dst, Json!Meant)
        BY <2>5, <3>1 DEF JsonInv
      <4> QED BY <2>2, <2>3, <3>1, <4>1
    <3>2. CASE dst' = Json!Feature
      <4>1. Printed(Json!Feature, Json!Meant)
        BY <2>2, <2>5, PrintedFeature
      <4> QED BY <2>2, <2>4, <3>2, <4>1
    <3> QED BY <2>1, <3>1, <3>2
  <2> QED BY <2>1, <2>2, <2>5 DEF JsonInv
<1> QED BY <1>1, <1>2, PTL DEF MCSpec

\* The whole text of a point and properties of known types is written, and its length
\* answered, if it fits with its NUL, and -1 is answered if it does not, for all lengths
\* of keys and values, any number of properties and every size of the buffer
\* (em_geojson.c:31-192).
THEOREM TextIsComplete == MCSpec => []TextComplete
<1>1. JsonInv => TextComplete
  <2> SUFFICES ASSUME JsonInv, dst # Json!Nothing, Printable
               PROVE  IF Json!LengthOf(Json!Meant) < len
                      THEN dst.text = Json!Meant /\ Json!Returned = Json!LengthOf(Json!Meant)
                      ELSE Json!Returned = -1
    BY Zenon DEF TextComplete, Json!TextComplete, Printable
  <2>1. Printed(dst, Json!Meant)
    BY DEF JsonInv
  <2>2. CASE Json!LengthOf(Json!Meant) < len
    <3>1. dst = Written(Json!Meant, Json!LengthOf(Json!Meant))
      BY <2>1, <2>2 DEF Printed
    <3>2. dst.fits = TRUE /\ dst.text = Json!Meant /\ dst.offset = Json!LengthOf(Json!Meant)
      BY <3>1 DEF Written
    <3> QED BY <2>2, <3>2, Zenon DEF Json!Returned
  <2>3. CASE ~(Json!LengthOf(Json!Meant) < len)
    <3>1. PICK text, offset : dst = Failed(text, offset)
      BY <2>1, <2>3 DEF Printed
    <3>2. dst.fits = FALSE
      BY <3>1 DEF Failed
    <3> QED BY <2>3, <3>2, Zenon DEF Json!Returned
  <2> QED BY <2>2, <2>3
<1> QED BY <1>1, JsonRun, PTL
=============================================================================
