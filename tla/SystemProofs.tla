---------------------------- MODULE SystemProofs ----------------------------
(***************************************************************************)
(* What TLC checks on MCSystem, for every number of threads, handlers,     *)
(* commands and messages, proved: the event flag (EventFlag), the MQTT     *)
(* client (MqttConnect), the command loop (Command) and the two system     *)
(* programs (SysSample).                                                   *)
(***************************************************************************)
EXTENDS MCSystem, Sequences, TLAPS

----------------------------------------------------------------------------
(* The event flag *)

\* The variables keep their types, and only a wait with a timeout can be late: every
\* way out of em_eventflag_wait forgets the request and its deadline together.
LEMMA FlagTypes == (Init => TypeOK) /\ (TypeOK /\ [Next]_vars => TypeOK')
<1>1. Init => TypeOK
  BY DEF Init, TypeOK, NoRequest
<1>2. TypeOK /\ [Next]_vars => TypeOK'
  <2> SUFFICES ASSUME TypeOK, [Next]_vars PROVE TypeOK'
    OBVIOUS
  <2>1. CASE UNCHANGED vars
    BY <2>1 DEF vars, TypeOK
  <2>2. ASSUME NEW t \in Threads, NEW r \in Requests, WaitCall(t, r) PROVE TypeOK'
    <3>1. t \notin late
      BY <2>2 DEF TypeOK, WaitCall
    <3> QED
      BY <2>2, <3>1 DEF TypeOK, WaitCall, Goto
  <2>3. ASSUME NEW t \in Threads, NEW fs \in Masks, Set(t, fs)
        PROVE TypeOK'
    BY <2>3, MasksAssumption DEF TypeOK, Set, Wake
  <2>4. ASSUME NEW t \in Threads, Clear(t) PROVE TypeOK'
    BY <2>4 DEF TypeOK, Clear
  <2>5. ASSUME NEW t \in Threads, Check(t) PROVE TypeOK'
    BY <2>5 DEF TypeOK, Check, Goto
  <2>6. ASSUME NEW t \in Threads, Leave(t), flags' \subseteq Bits PROVE TypeOK'
    BY <2>6 DEF TypeOK, Leave, Goto
  <2>7. ASSUME NEW t \in Threads, TimeOut(t) \/ Answer(t) PROVE TypeOK'
    BY <2>6, <2>7 DEF TypeOK, TimeOut, Answer
  <2>8. ASSUME NEW t \in Threads, SpuriousWake(t) PROVE TypeOK'
    BY <2>8 DEF TypeOK, SpuriousWake, Goto
  <2>9. ASSUME NEW t \in Threads, Expire(t) PROVE TypeOK'
    BY <2>9 DEF TypeOK, Expire, Waiting, Goto
  <2>10. CASE Recreate
    BY <2>10 DEF TypeOK, Recreate
  <2> QED
    BY <2>1, <2>2, <2>3, <2>4, <2>5, <2>7, <2>8, <2>9, <2>10 DEF Next, Call, Step
<1> QED
  BY <1>1, <1>2

\* Whoever sleeps in the condition variable sleeps with none of its flags set: a check
\* goes to sleep only then, a set wakes every sleeper, and nothing else sets a flag.
\* Inductive given the types, which say that pc and req are functions on Threads.
LEMMA FlagWakes ==
  (Init => SleepersUnserved) /\ (TypeOK /\ SleepersUnserved /\ [Next]_vars => SleepersUnserved')
<1>1. Init => SleepersUnserved
  BY DEF Init, SleepersUnserved, Asleep
<1>2. TypeOK /\ SleepersUnserved /\ [Next]_vars => SleepersUnserved'
  <2> SUFFICES ASSUME TypeOK, SleepersUnserved, [Next]_vars,
                      NEW u \in Threads, pc'[u] = "asleep"
               PROVE  Wanted(u)' = {}
    BY DEF SleepersUnserved, Asleep
  <2> DEFINE Slept == pc[u] = "asleep" /\ req'[u] = req[u] /\ flags' \subseteq flags
  <2>1. Slept => Wanted(u)' = {}
    BY DEF SleepersUnserved, Asleep, Wanted
  <2>2. CASE UNCHANGED vars
    BY <2>1, <2>2 DEF vars
  <2>3. ASSUME NEW t \in Threads, NEW r \in Requests, WaitCall(t, r) PROVE Slept
    BY <2>3 DEF TypeOK, WaitCall, Goto
  <2>4. ASSUME NEW t \in Threads, NEW fs \in Masks, Set(t, fs)
        PROVE FALSE
    BY <2>4 DEF Set, Wake, Asleep
  <2>5. ASSUME NEW t \in Threads, Clear(t) PROVE Slept
    BY <2>5 DEF Clear
  <2>6. ASSUME NEW t \in Threads, Check(t) PROVE Wanted(u)' = {}
    <3>1. CASE u = t
      BY <2>6, <3>1 DEF TypeOK, Check, Goto, Wanted
    <3>2. CASE u # t
      BY <2>1, <2>6, <3>2 DEF TypeOK, Check, Goto
    <3> QED
      BY <3>1, <3>2
  <2>7. ASSUME NEW t \in Threads, TimeOut(t) \/ Answer(t) PROVE Slept
    BY <2>7 DEF TypeOK, TimeOut, Answer, Leave, Goto
  <2>8. ASSUME NEW t \in Threads, SpuriousWake(t) PROVE Slept
    BY <2>8 DEF TypeOK, SpuriousWake, Goto
  <2>9. ASSUME NEW t \in Threads, Expire(t) PROVE Slept
    BY <2>9 DEF TypeOK, Expire, Waiting, Goto
  <2>10. CASE Recreate
    BY <2>10 DEF TypeOK, Recreate
  <2> QED
    BY <2>1, <2>2, <2>3, <2>4, <2>5, <2>6, <2>7, <2>8, <2>9, <2>10
    DEF Next, Call, Step
<1> QED
  BY <1>1, <1>2

----------------------------------------------------------------------------
(* The MQTT client *)

\* Called back and not dropped since, the client is connected ...
YesIsConnected ==
  /\ called_back \in {"never", "yes", "dropped"}
  /\ called_back = "yes" => is_connected

\* ... and nobody announces, or has been told of, a connection that never was.
AnnouncedAfterCall ==
  /\ loop = "announce" => called_back # "never"
  /\ owner = "connected" /\ ~spurious => called_back # "never"

MqttInv == Mqtt!TypeOK /\ YesIsConnected /\ AnnouncedAfterCall

LEMMA MqttInit == Mqtt!Init => MqttInv
BY DEF Mqtt!Init, MqttInv, Mqtt!TypeOK, YesIsConnected, AnnouncedAfterCall

\* The steps of the thread that owns the client
LEMMA OwnerInv ==
  ASSUME MqttInv, loop # "crashed",
         \/ Mqtt!Owner \/ Mqtt!SpuriousWake \/ Mqtt!LoopStop \/ Mqtt!Unsubscribe \/ Mqtt!Recreate
         \/ \E timeout \in BOOLEAN : Mqtt!ConnectCall(timeout)
         \/ \E h \in Handlers : Mqtt!Subscribe(h)
  PROVE  MqttInv'
<1> USE DEF MqttInv, Mqtt!TypeOK, YesIsConnected, AnnouncedAfterCall,
            Mqtt!client, Mqtt!library, Mqtt!caller, Mqtt!history
<1>1. CASE Mqtt!LoopStart
  BY <1>1 DEF Mqtt!LoopStart
<1>2. CASE Mqtt!Wait
  BY <1>2 DEF Mqtt!Wait
<1>3. CASE Mqtt!Expire
  BY <1>3 DEF Mqtt!Expire
<1>4. CASE Mqtt!GiveUp
  BY <1>4 DEF Mqtt!GiveUp
<1>5. CASE Mqtt!Disconnect
  BY <1>5 DEF Mqtt!Disconnect, Mqtt!Dropped
<1>6. CASE Mqtt!SpuriousWake
  BY <1>6 DEF Mqtt!SpuriousWake
<1>7. CASE Mqtt!LoopStop
  BY <1>7 DEF Mqtt!LoopStop
<1>8. CASE Mqtt!Unsubscribe
  BY <1>8 DEF Mqtt!Unsubscribe
<1>9. ASSUME NEW timeout \in BOOLEAN, Mqtt!ConnectCall(timeout)
      PROVE  MqttInv'
  BY <1>9 DEF Mqtt!ConnectCall
<1>10. ASSUME NEW h \in Handlers, Mqtt!Subscribe(h)
       PROVE  MqttInv'
  BY <1>10 DEF Mqtt!Subscribe
<1>11. CASE Mqtt!Recreate
  BY <1>11 DEF Mqtt!Recreate
<1> QED BY <1>1, <1>2, <1>3, <1>4, <1>5, <1>6, <1>7, <1>8, <1>9, <1>10, <1>11 DEF Mqtt!Owner

\* The steps of the library's thread: its callbacks
LEMMA LoopInv ==
  ASSUME MqttInv, loop # "crashed",
         \/ Mqtt!OnConnect \/ Mqtt!Broadcast \/ Mqtt!OnDisconnect
         \/ Mqtt!OnMessage \/ Mqtt!CallHandler \/ Mqtt!HandlerReturns
  PROVE  MqttInv'
<1> USE DEF MqttInv, Mqtt!TypeOK, YesIsConnected, AnnouncedAfterCall,
            Mqtt!client, Mqtt!library, Mqtt!caller, Mqtt!history
<1>1. CASE Mqtt!OnConnect
  BY <1>1 DEF Mqtt!OnConnect
<1>2. CASE Mqtt!Broadcast
  BY <1>2 DEF Mqtt!Broadcast
<1>3. CASE Mqtt!OnDisconnect
  BY <1>3 DEF Mqtt!OnDisconnect, Mqtt!Dropped
<1>4. CASE Mqtt!OnMessage
  BY <1>4 DEF Mqtt!OnMessage
<1>5. CASE Mqtt!CallHandler
  BY <1>5 DEF Mqtt!CallHandler
<1>6. CASE Mqtt!HandlerReturns
  BY <1>6 DEF Mqtt!HandlerReturns
<1> QED BY <1>1, <1>2, <1>3, <1>4, <1>5, <1>6

LEMMA MqttNext == MqttInv /\ [Mqtt!Next]_(Mqtt!vars) => MqttInv'
<1> SUFFICES ASSUME MqttInv, [Mqtt!Next]_(Mqtt!vars) PROVE MqttInv'
  OBVIOUS
<1>1. CASE Mqtt!Next
  BY <1>1, OwnerInv, LoopInv DEF Mqtt!Next
<1>2. CASE UNCHANGED Mqtt!vars
  BY <1>2 DEF Mqtt!vars, Mqtt!client, Mqtt!library, Mqtt!caller, Mqtt!history,
              MqttInv, Mqtt!TypeOK, YesIsConnected, AnnouncedAfterCall
<1> QED BY <1>1, <1>2

----------------------------------------------------------------------------
(* The command loop.  A line is posted, waits in the queue, is taken and    *)
(* executed: the history of the lines posted runs through these.            *)

ALine == Seq(Cmd!Words)

CmdTypes ==
  /\ at \in [Cmd!CmdThreads -> {"out", "test", "read", "exec", "ended"}]
  /\ line \in [Cmd!CmdThreads -> ALine]
  /\ qu_cmd \in Seq(ALine) /\ posted \in Seq(ALine) /\ executed \in Seq(Cmd!Words)

\* The line the background loop has taken and not executed, if there is one
Taken == IF at["background"] = "exec" THEN 1 ELSE 0

\* Where the i-th line posted is: executed, taken, or in the queue.
LinesInOrder ==
  /\ Len(posted) = Len(executed) + Taken + Len(qu_cmd)
  /\ \A i \in 1 .. Len(executed) : executed[i] = posted[i][2]
  /\ Taken = 1 => line["background"] = posted[Len(executed) + 1]
  /\ \A i \in 1 .. Len(qu_cmd) : qu_cmd[i] = posted[Len(executed) + Taken + i]

CmdInv ==
  /\ Cmd!TypeOK /\ CmdTypes /\ LinesInOrder
  /\ \A t \in Cmd!CmdThreads : Len(line[t]) \in 0 .. 2
  /\ \A i \in 1 .. Len(posted) : Len(posted[i]) = 2
  /\ ~is_running => stopped
  /\ at["background"] = "ended" => stopped

LEMMA LinesAre == \A l \in Cmd!Lines : l \in ALine /\ Len(l) \in 0 .. 2
<1>1. "async" \in Cmd!Words
  BY DEF Cmd!Words
<1>2. \A w \in Cmd!Words : /\ <<w>> \in ALine /\ Len(<<w>>) \in 0 .. 2
                           /\ <<"async", w>> \in ALine /\ Len(<<"async", w>>) \in 0 .. 2
  BY <1>1 DEF ALine
<1>3. <<>> \in ALine /\ Len(<<>>) = 0
  BY DEF ALine
<1>4. \A l \in Cmd!Lines : l = <<>> \/ \E w \in Cmd!Words : l = <<w>> \/ l = <<"async", w>>
  BY DEF Cmd!Lines
<1> QED
  <2> SUFFICES ASSUME NEW l \in Cmd!Lines PROVE l \in ALine /\ Len(l) \in 0 .. 2
    OBVIOUS
  <2>1. CASE l = <<>>
    BY <1>3, <2>1
  <2>2. ASSUME NEW w \in Cmd!Words, l = <<w>> PROVE l \in ALine /\ Len(l) \in 0 .. 2
    BY <1>2, <2>2, Zenon
  <2>3. ASSUME NEW w \in Cmd!Words, l = <<"async", w>> PROVE l \in ALine /\ Len(l) \in 0 .. 2
    BY <1>2, <2>3, Zenon
  <2> QED BY <1>4, <2>1, <2>2, <2>3

LEMMA CmdInit == Cmd!Init => CmdInv
<1> SUFFICES ASSUME Cmd!Init PROVE CmdInv
  OBVIOUS
<1>1. <<>> \in ALine /\ Len(<<>>) = 0
  BY DEF ALine
<1>2. /\ at \in [Cmd!CmdThreads -> {"out", "test", "read", "exec", "ended"}]
      /\ line \in [Cmd!CmdThreads -> ALine] /\ \A t \in Cmd!CmdThreads : line[t] = <<>>
      /\ at["background"] = "out"
  BY <1>1 DEF Cmd!Init, Cmd!CmdThreads
<1>3. Len(qu_cmd) = 0 /\ Len(posted) = 0 /\ Len(executed) = 0
  BY DEF Cmd!Init
<1>4. CmdTypes
  BY <1>2 DEF Cmd!Init, CmdTypes
<1>5. LinesInOrder
  BY <1>2, <1>3 DEF LinesInOrder, Taken
<1>6. Cmd!TypeOK
  BY <1>2, <1>3, SystemAssumption DEF Cmd!Init, Cmd!TypeOK
<1> QED BY <1>1, <1>2, <1>3, <1>4, <1>5, <1>6 DEF CmdInv, Cmd!Init

\* Neither the lines that wait nor those executed change.
LinesStay == UNCHANGED <<commands, qu_cmd, posted, executed>>

\* A step of thread t, which may take up another line
LEMMA StepAside ==
  ASSUME CmdInv, LinesStay, NEW t \in Cmd!CmdThreads, NEW l \in {"out", "test", "read", "exec", "ended"},
         at' = [at EXCEPT ![t] = l], NEW z \in ALine, Len(z) \in 0 .. 2, line' = [line EXCEPT ![t] = z],
         t = "background" => at[t] # "exec" /\ l # "exec" /\ (l = "ended" => stopped'),
         stopped => stopped', ~is_running' => stopped'
  PROVE  CmdInv'
<1>1. CmdTypes /\ Cmd!TypeOK /\ LinesInOrder
  BY DEF CmdInv
<1>2. CmdTypes' /\ Cmd!TypeOK'
  BY <1>1 DEF CmdTypes, Cmd!TypeOK, LinesStay
<1>3. "background" \in Cmd!CmdThreads
  BY DEF Cmd!CmdThreads
<1>4. Taken' = Taken /\ (Taken = 1 => line'["background"] = line["background"])
      /\ (at'["background"] = "ended" => stopped')
  BY <1>1, <1>3 DEF CmdTypes, Taken, CmdInv
<1>5. LinesInOrder'
  BY <1>1, <1>4 DEF LinesInOrder, LinesStay
<1>6. \A o \in Cmd!CmdThreads : Len(line'[o]) \in 0 .. 2
  BY <1>1 DEF CmdTypes, CmdInv
<1> QED BY <1>2, <1>4, <1>5, <1>6 DEF CmdInv, LinesStay

\* A line executed in the foreground, or put at the end of the queue
LEMMA StepExec ==
  ASSUME CmdInv, NEW t \in {"console", "other"}, at[t] = "exec", NEW l \in {"out", "test"},
         at' = [at EXCEPT ![t] = l], Cmd!ExecString(t), line' = line
  PROVE  CmdInv'
<1>1. CmdTypes /\ Cmd!TypeOK /\ LinesInOrder
  BY DEF CmdInv
<1>2. PICK z : z = line[t]
  OBVIOUS
<1>3. z \in ALine /\ Len(z) \in 0 .. 2 /\ t \in Cmd!CmdThreads /\ line' = [line EXCEPT ![t] = z]
  BY <1>1, <1>2 DEF CmdTypes, CmdInv, Cmd!CmdThreads
<1>4. CASE UNCHANGED <<qu_cmd, posted>>
  <2>1. (stopped => stopped') /\ (~is_running' => stopped')
    BY <1>4 DEF Cmd!ExecString, Cmd!Exec, CmdInv
  <2>2. LinesStay
    BY <1>4 DEF LinesStay, Cmd!ExecString
  <2> QED BY <1>3, <2>1, <2>2, StepAside
<1>5. CASE /\ Len(z) > 1 /\ Len(qu_cmd) < QueueSize
           /\ qu_cmd' = Append(qu_cmd, z) /\ posted' = Append(posted, z)
           /\ UNCHANGED <<is_running, stopped, commands, executed>>
  <2>1. Len(z) = 2
    <3>1. PICK n \in 0 .. 2 : n = Len(z)
      BY <1>3
    <3>2. n > 1
      BY <1>5, <3>1
    <3> QED BY <3>1, <3>2
  <2>2. /\ qu_cmd' \in Seq(ALine) /\ Len(qu_cmd') = Len(qu_cmd) + 1
        /\ \A i \in 1 .. Len(qu_cmd) : qu_cmd'[i] = qu_cmd[i]
        /\ qu_cmd'[Len(qu_cmd) + 1] = z
    BY <1>1, <1>3, <1>5 DEF CmdTypes
  <2>3. /\ posted' \in Seq(ALine) /\ Len(posted') = Len(posted) + 1
        /\ \A i \in 1 .. Len(posted) : posted'[i] = posted[i]
        /\ posted'[Len(posted) + 1] = z
    BY <1>1, <1>3, <1>5 DEF CmdTypes
  <2>4. CmdTypes'
    BY <1>1, <1>5, <2>2, <2>3 DEF CmdTypes
  <2>5. at'["background"] = at["background"] /\ line'["background"] = line["background"]
    BY <1>1 DEF CmdTypes, Cmd!CmdThreads
  <2>6. Taken' = Taken /\ Taken \in {0, 1}
    BY <2>5 DEF Taken
  <2>7. Len(qu_cmd) \in Nat /\ Len(posted) \in Nat /\ Len(executed) \in Nat
    BY <1>1 DEF CmdTypes
  <2>8. Cmd!TypeOK'
    <3>1. \A i \in 1 .. Len(qu_cmd') : i \in 1 .. Len(qu_cmd) \/ i = Len(qu_cmd) + 1
      BY <2>2, <2>7
    <3>2. \A i \in 1 .. Len(qu_cmd') : Len(qu_cmd'[i]) = 2
      BY <1>1, <2>1, <2>2, <3>1 DEF Cmd!TypeOK
    <3> QED BY <1>1, <1>5, <2>2, <2>4, <2>7, <3>2, SystemAssumption DEF Cmd!TypeOK, CmdTypes
  <2>9. LinesInOrder'
    <3>1. Len(posted') = Len(executed') + Taken' + Len(qu_cmd')
      BY <1>1, <1>5, <2>2, <2>3, <2>6, <2>7 DEF LinesInOrder
    <3>2. Len(posted) = Len(executed) + Taken + Len(qu_cmd)
      BY <1>1 DEF LinesInOrder
    <3>3. \A i \in 1 .. Len(executed) : executed[i] = posted'[i][2]
      <4>1. \A i \in 1 .. Len(executed) : i \in 1 .. Len(posted)
        BY <2>6, <2>7, <3>2
      <4> QED BY <1>1, <2>3, <4>1 DEF LinesInOrder
    <3>4. Taken = 1 => line["background"] = posted'[Len(executed) + 1]
      <4>1. Taken = 1 => Len(executed) + 1 \in 1 .. Len(posted)
        BY <2>6, <2>7, <3>2
      <4> QED BY <1>1, <2>3, <4>1 DEF LinesInOrder
    <3>5. ASSUME NEW i \in 1 .. Len(qu_cmd') PROVE qu_cmd'[i] = posted'[Len(executed) + Taken + i]
      <4>1. CASE i \in 1 .. Len(qu_cmd)
        <5>1. Len(executed) + Taken + i \in 1 .. Len(posted)
          BY <2>6, <2>7, <3>2, <4>1
        <5> QED BY <1>1, <2>2, <2>3, <4>1, <5>1 DEF LinesInOrder
      <4>2. CASE i = Len(qu_cmd) + 1
        <5>1. Len(executed) + Taken + i = Len(posted) + 1
          BY <2>6, <2>7, <3>2, <4>2
        <5> QED BY <2>2, <2>3, <4>2, <5>1
      <4> QED BY <2>2, <2>7, <4>1, <4>2
    <3> QED BY <1>5, <2>5, <2>6, <3>1, <3>3, <3>4, <3>5 DEF LinesInOrder
  <2>10. \A i \in 1 .. Len(posted') : Len(posted'[i]) = 2
    <3>1. \A i \in 1 .. Len(posted') : i \in 1 .. Len(posted) \/ i = Len(posted) + 1
      BY <2>3, <2>7
    <3> QED BY <2>1, <2>3, <3>1 DEF CmdInv
  <2> QED BY <1>5, <2>4, <2>5, <2>8, <2>9, <2>10 DEF CmdInv
<1> QED BY <1>2, <1>4, <1>5 DEF Cmd!ExecString

\* The background loop takes the line at the head of the queue ...
LEMMA StepTake == ASSUME CmdInv, Cmd!BgTake, qu_cmd # <<>> PROVE CmdInv'
<1>1. CmdTypes /\ Cmd!TypeOK /\ LinesInOrder
  BY DEF CmdInv
<1>2. PICK z : z = Head(qu_cmd)
  OBVIOUS
<1>3. /\ at["background"] = "read" /\ qu_cmd' = Tail(qu_cmd)
      /\ line' = [line EXCEPT !["background"] = z] /\ at' = [at EXCEPT !["background"] = "exec"]
      /\ UNCHANGED <<is_running, commands, stopped, posted, executed>>
  BY <1>2 DEF Cmd!BgTake, Cmd!Goto, Cmd!history
<1>4. Len(qu_cmd) \in Nat \ {0} /\ z = qu_cmd[1] /\ z \in ALine
  BY <1>1, <1>2 DEF CmdTypes
<1>5. qu_cmd' \in Seq(ALine) /\ Len(qu_cmd') = Len(qu_cmd) - 1
      /\ \A i \in 1 .. Len(qu_cmd) - 1 : qu_cmd'[i] = qu_cmd[i + 1]
  BY <1>1, <1>3, <1>4 DEF CmdTypes
<1>6. "background" \in Cmd!CmdThreads
  BY DEF Cmd!CmdThreads
<1>7. CmdTypes'
  BY <1>1, <1>3, <1>4, <1>5 DEF CmdTypes
<1>8. Taken = 0 /\ Taken' = 1 /\ line'["background"] = z
  BY <1>1, <1>3, <1>6 DEF CmdTypes, Taken
<1>9. \A i \in 1 .. Len(qu_cmd') : i + 1 \in 1 .. Len(qu_cmd) /\ i \in 1 .. Len(qu_cmd) - 1
  BY <1>4, <1>5
<1>10. Cmd!TypeOK'
  <2>1. Len(qu_cmd') <= QueueSize
    BY <1>1, <1>4, <1>5, SystemAssumption DEF Cmd!TypeOK
  <2>2. \A i \in 1 .. Len(qu_cmd') : Len(qu_cmd'[i]) = 2
    BY <1>1, <1>5, <1>9 DEF Cmd!TypeOK
  <2> QED BY <1>1, <1>3, <1>7, <2>1, <2>2 DEF Cmd!TypeOK, CmdTypes
<1>11. Len(executed) \in Nat
  BY <1>1 DEF CmdTypes
<1>12. LinesInOrder'
  <2>1. Len(posted) = Len(executed) + Len(qu_cmd)
    BY <1>1, <1>4, <1>8, <1>11 DEF LinesInOrder
  <2>2. Len(posted') = Len(executed') + Taken' + Len(qu_cmd')
    BY <1>3, <1>4, <1>5, <1>8, <1>11, <2>1
  <2>3. \A i \in 1 .. Len(qu_cmd) : qu_cmd[i] = posted[Len(executed) + i]
    BY <1>1, <1>8, <1>11 DEF LinesInOrder
  <2>4. z = posted[Len(executed) + 1]
    BY <1>4, <2>3
  <2>5. \A i \in 1 .. Len(qu_cmd') : qu_cmd'[i] = posted[Len(executed) + 1 + i]
    <3>1. \A i \in 1 .. Len(qu_cmd') : Len(executed) + (i + 1) = Len(executed) + 1 + i
      BY <1>11
    <3> QED BY <1>5, <1>9, <2>3, <3>1
  <2> QED BY <1>1, <1>3, <1>8, <2>2, <2>4, <2>5 DEF LinesInOrder
<1>13. \A t \in Cmd!CmdThreads : Len(line'[t]) \in 0 .. 2
  <2>1. Len(z) = 2
    BY <1>1, <1>4 DEF Cmd!TypeOK
  <2>2. \A t \in Cmd!CmdThreads : line'[t] = z \/ line'[t] = line[t]
    BY <1>1, <1>3 DEF CmdTypes
  <2>3. \A t \in Cmd!CmdThreads : Len(line[t]) \in 0 .. 2
    BY DEF CmdInv
  <2> QED BY <2>1, <2>2, <2>3
<1>14. at'["background"] # "ended"
  BY <1>1, <1>3, <1>6 DEF CmdTypes
<1> QED BY <1>3, <1>7, <1>10, <1>12, <1>13, <1>14 DEF CmdInv

\* ... and executes its second word.
LEMMA StepBgExec == ASSUME CmdInv, Cmd!BgExec PROVE CmdInv'
<1>1. CmdTypes /\ Cmd!TypeOK /\ LinesInOrder
  BY DEF CmdInv
<1>2. PICK z : z = line["background"]
  OBVIOUS
<1>3. "background" \in Cmd!CmdThreads /\ z \in ALine
  BY <1>1, <1>2 DEF Cmd!CmdThreads, CmdTypes
<1>4. /\ at["background"] = "exec" /\ executed' = Append(executed, z[2])
      /\ at' = [at EXCEPT !["background"] = "test"]
      /\ UNCHANGED <<commands, qu_cmd, line, posted>>
      /\ (stopped => stopped') /\ (~is_running' => stopped')
  BY <1>2 DEF Cmd!BgExec, Cmd!Goto, Cmd!Exec, CmdInv
<1>5. Len(executed) \in Nat /\ Len(qu_cmd) \in Nat
  BY <1>1 DEF CmdTypes
<1>6. Taken = 1 /\ Taken' = 0 /\ at'["background"] = "test"
  BY <1>1, <1>3, <1>4 DEF CmdTypes, Taken
<1>7. Len(posted) = Len(executed) + 1 + Len(qu_cmd) /\ z = posted[Len(executed) + 1]
  BY <1>1, <1>2, <1>6 DEF LinesInOrder
<1>8. Len(z) = 2 /\ z[2] \in Cmd!Words
  <2>1. Len(executed) + 1 \in 1 .. Len(posted)
    BY <1>5, <1>7
  <2>2. Len(z) = 2
    BY <1>7, <2>1 DEF CmdInv
  <2> QED BY <1>3, <2>2 DEF ALine
<1>9. /\ executed' \in Seq(Cmd!Words) /\ Len(executed') = Len(executed) + 1
      /\ \A i \in 1 .. Len(executed) : executed'[i] = executed[i]
      /\ executed'[Len(executed) + 1] = z[2]
  BY <1>1, <1>4, <1>8 DEF CmdTypes
<1>10. CmdTypes' /\ Cmd!TypeOK'
  BY <1>1, <1>4, <1>9 DEF CmdTypes, Cmd!TypeOK
<1>11. LinesInOrder'
  <2>1. Len(posted') = Len(executed') + Taken' + Len(qu_cmd')
    BY <1>4, <1>5, <1>6, <1>7, <1>9
  <2>2. ASSUME NEW i \in 1 .. Len(executed') PROVE executed'[i] = posted[i][2]
    <3>1. i \in 1 .. Len(executed) \/ i = Len(executed) + 1
      BY <1>5, <1>9
    <3> QED BY <1>1, <1>7, <1>9, <3>1 DEF LinesInOrder
  <2>3. \A i \in 1 .. Len(qu_cmd) : qu_cmd[i] = posted[Len(executed') + Taken' + i]
    <3>1. Len(executed') + Taken' = Len(executed) + Taken
      BY <1>5, <1>6, <1>9
    <3> QED BY <1>1, <3>1 DEF LinesInOrder
  <2>4. \A i \in 1 .. Len(executed') : executed'[i] = posted'[i][2]
    BY <1>4, <2>2
  <2>5. \A i \in 1 .. Len(qu_cmd') : qu_cmd'[i] = posted'[Len(executed') + Taken' + i]
    BY <1>4, <2>3
  <2>6. ~(Taken' = 1)
    BY <1>6
  <2> QED BY <2>1, <2>4, <2>5, <2>6, Zenon DEF LinesInOrder
<1> QED BY <1>4, <1>6, <1>10, <1>11 DEF CmdInv

LEMMA CmdNext == CmdInv /\ [Cmd!Next]_(Cmd!vars) => CmdInv'
<1> USE DEF Cmd!state, Cmd!history, Cmd!Goto
<1> SUFFICES ASSUME CmdInv, [Cmd!Next]_(Cmd!vars) PROVE CmdInv'
  OBVIOUS
<1>1. CmdTypes /\ Cmd!TypeOK /\ LinesInOrder /\ (~is_running => stopped)
  BY DEF CmdInv
<1> DEFINE Labels == {"out", "test", "read", "exec", "ended"}
<1>2. /\ "console" \in Cmd!CmdThreads /\ "background" \in Cmd!CmdThreads /\ "other" \in Cmd!CmdThreads
      /\ \A t \in Cmd!CmdThreads : /\ line[t] \in ALine /\ Len(line[t]) \in 0 .. 2
                                  /\ line = [line EXCEPT ![t] = line[t]]
  BY <1>1 DEF CmdTypes, Cmd!CmdThreads, CmdInv
\* A step that executes no line and leaves the queue alone
<1>3. ASSUME NEW t \in Cmd!CmdThreads, NEW l \in Labels, at' = [at EXCEPT ![t] = l],
             UNCHANGED <<commands, qu_cmd, line, posted, executed, stopped>>,
             ~is_running' => stopped,
             t = "background" => at[t] # "exec" /\ l # "exec" /\ (l = "ended" => stopped)
      PROVE  CmdInv'
  <2>1. PICK z : z = line[t]
    OBVIOUS
  <2>2. z \in ALine /\ Len(z) \in 0 .. 2 /\ line' = [line EXCEPT ![t] = z]
    BY <1>2, <1>3, <2>1
  <2>3. LinesStay
    BY <1>3 DEF LinesStay
  <2> QED BY <1>3, <2>2, <2>3, StepAside
<1>4. ASSUME NEW c \in Commands, Cmd!Register(c) PROVE CmdInv'
  BY <1>1, <1>4 DEF Cmd!Register, CmdInv, CmdTypes, Cmd!TypeOK, LinesInOrder, Taken
<1>5. ASSUME NEW t \in {"console", "other"}, NEW z \in Cmd!Lines,
             line' = [line EXCEPT ![t] = z], at' = [at EXCEPT ![t] = "exec"],
             UNCHANGED <<is_running, commands, qu_cmd, stopped, posted, executed>>
      PROVE  CmdInv'
  <2>1. z \in ALine /\ Len(z) \in 0 .. 2
    BY LinesAre
  <2>2. LinesStay /\ t \in Cmd!CmdThreads
    BY <1>2, <1>5 DEF LinesStay
  <2> QED BY <1>1, <1>5, <2>1, <2>2, StepAside
<1>6. ASSUME NEW z \in Cmd!Lines, Cmd!OtherExec(z) PROVE CmdInv'
  BY <1>5, <1>6 DEF Cmd!OtherExec
<1>7. CASE Cmd!Recreate
  <2>1. Cmd!Init'
    BY <1>7 DEF Cmd!Recreate, Cmd!Init
  <2>2. Cmd!Init' => CmdInv'
    BY CmdInit, PTL
  <2> QED BY <2>1, <2>2
<1>8. CASE Cmd!OtherReturns
  BY <1>8, StepExec DEF Cmd!OtherReturns
<1>9. CASE Cmd!Start
  BY <1>2, <1>3, <1>9 DEF Cmd!Start
<1>10. ASSUME NEW t \in Cmd!Looping, Cmd!Test(t) PROVE CmdInv'
  <2>1. t \in Cmd!CmdThreads
    BY <1>2 DEF Cmd!Looping
  <2>2. PICK l \in {"read", "ended"} : at' = [at EXCEPT ![t] = l] /\ (l = "ended" => ~is_running)
    BY <1>10 DEF Cmd!Test
  <2> QED BY <1>1, <1>3, <1>10, <2>1, <2>2 DEF Cmd!Test
<1>11. CASE Cmd!ConsoleRead
  <2>1. CASE \E l \in Cmd!Lines : line' = [line EXCEPT !["console"] = l] /\ at' = [at EXCEPT !["console"] = "exec"]
    BY <1>5, <1>11, <2>1 DEF Cmd!ConsoleRead
  <2>2. CASE at' = [at EXCEPT !["console"] = "test"] /\ UNCHANGED line
    BY <1>1, <1>2, <1>3, <1>11, <2>2 DEF Cmd!ConsoleRead
  <2> QED BY <1>11, <2>1, <2>2 DEF Cmd!ConsoleRead
<1>12. CASE Cmd!ConsoleExec
  BY <1>12, StepExec DEF Cmd!ConsoleExec
<1>13. CASE Cmd!StartBg
  BY <1>1, <1>2, <1>3, <1>13 DEF Cmd!StartBg
<1>14. CASE Cmd!BgTake
  <2>1. CASE qu_cmd = <<>>
    BY <1>1, <1>2, <1>3, <1>14, <2>1 DEF Cmd!BgTake
  <2> QED BY <1>14, <2>1, StepTake
<1>15. CASE Cmd!BgExec
  BY <1>15, StepBgExec
<1>16. CASE UNCHANGED Cmd!vars
  BY <1>1, <1>16 DEF Cmd!vars, CmdInv, CmdTypes, Cmd!TypeOK, LinesInOrder, Taken
<1> QED
BY <1>4, <1>6, <1>7, <1>8, <1>9, <1>10, <1>11, <1>12, <1>13, <1>14, <1>15, <1>16
DEF Cmd!Next, Cmd!ConsoleStep, Cmd!BgStep, Cmd!Looping

\* The lines taken from posted are those executed and those to come, in that order.
LEMMA CmdOrder == CmdInv => AsyncInOrder
<1> SUFFICES ASSUME CmdInv PROVE Cmd!AsyncInOrder
  BY DEF AsyncInOrder
<1>1. CmdTypes /\ Cmd!TypeOK /\ LinesInOrder /\ \A i \in 1 .. Len(posted) : Len(posted[i]) = 2
  BY DEF CmdInv
<1>2. PICK h : h = IF at["background"] = "exec" THEN <<line["background"]>> ELSE <<>>
  OBVIOUS
<1>3. line["background"] \in ALine
  BY <1>1 DEF CmdTypes, Cmd!CmdThreads
<1>4. h \in Seq(ALine)
  BY <1>2, <1>3
<1>5. Len(h) = Taken /\ (Taken = 1 => h[1] = line["background"]) /\ Taken \in {0, 1}
  BY <1>2 DEF Taken
<1>6. PICK r : r = h \o qu_cmd
  OBVIOUS
<1>7. qu_cmd \in Seq(ALine) /\ posted \in Seq(ALine) /\ executed \in Seq(Cmd!Words)
  BY <1>1 DEF CmdTypes
<1>8. r \in Seq(ALine) /\ Len(r) = Len(h) + Len(qu_cmd)
  BY <1>4, <1>6, <1>7
<1>9. (\A i \in 1 .. Len(h) : r[i] = h[i]) /\ \A i \in 1 .. Len(qu_cmd) : r[Len(h) + i] = qu_cmd[i]
  BY <1>4, <1>6, <1>7
<1>10. /\ Len(qu_cmd) \in Nat /\ Len(posted) \in Nat /\ Len(executed) \in Nat
       /\ Len(r) \in Nat
  BY <1>7, <1>8
<1>11. Len(posted) = Len(executed) + Len(r)
  BY <1>1, <1>5, <1>8, <1>10 DEF LinesInOrder
<1>12. ASSUME NEW i \in 1 .. Len(r) PROVE r[i] = posted[Len(executed) + i]
  <2>1. CASE i \in 1 .. Len(h)
    <3>1. Taken = 1 /\ i = 1
      BY <1>5, <2>1
    <3> QED BY <1>1, <1>5, <1>9, <2>1, <3>1 DEF LinesInOrder
  <2>2. CASE i \notin 1 .. Len(h)
    <3>1. PICK j \in 1 .. Len(qu_cmd) : i = Len(h) + j
      <4>1. i - Len(h) \in 1 .. Len(qu_cmd) /\ i = Len(h) + (i - Len(h))
        BY <1>5, <1>8, <1>10, <2>2
      <4> QED BY <4>1
    <3>2. r[i] = qu_cmd[j] /\ qu_cmd[j] = posted[Len(executed) + Taken + j]
      BY <1>1, <1>9, <3>1 DEF LinesInOrder
    <3>3. Len(executed) + Taken + j = Len(executed) + i
      BY <1>5, <1>10, <3>1
    <3> QED BY <3>2, <3>3
  <2> QED BY <2>1, <2>2
<1>13. \A i \in 1 .. Len(posted) : posted[i][2] \in Cmd!Words
  <2>1. ASSUME NEW i \in 1 .. Len(posted) PROVE posted[i][2] \in Cmd!Words
    <3>1. posted[i] \in ALine /\ Len(posted[i]) = 2
      BY <1>1, <1>7
    <3> QED BY <3>1 DEF ALine
  <2> QED BY <2>1
<1>14. \A i \in 1 .. Len(r) : Len(executed) + i \in 1 .. Len(posted) /\ r[i][2] = posted[Len(executed) + i][2]
  BY <1>10, <1>11, <1>12
<1>15. PICK f : f = [i \in 1 .. Len(r) |-> r[i][2]]
  OBVIOUS
<1>16. PICK g : g = [i \in 1 .. Len(posted) |-> posted[i][2]]
  OBVIOUS
<1>17. f \in Seq(Cmd!Words)
  BY <1>10, <1>13, <1>14, <1>15
<1>18. Len(f) = Len(r) /\ \A i \in 1 .. Len(r) : f[i] = posted[Len(executed) + i][2]
  BY <1>10, <1>13, <1>14, <1>15
<1>19. g \in Seq(Cmd!Words) /\ Len(g) = Len(posted) /\ \A i \in 1 .. Len(posted) : g[i] = posted[i][2]
  BY <1>10, <1>13, <1>16
<1>20. PICK w : w = executed \o f
  OBVIOUS
<1>21. w \in Seq(Cmd!Words) /\ Len(w) = Len(executed) + Len(f)
  BY <1>7, <1>17, <1>20
<1>22. (\A i \in 1 .. Len(executed) : w[i] = executed[i]) /\ \A i \in 1 .. Len(f) : w[Len(executed) + i] = f[i]
  BY <1>7, <1>17, <1>20
<1>23. ASSUME NEW i \in 1 .. Len(posted) PROVE w[i] = g[i]
  <2>1. CASE i \in 1 .. Len(executed)
    BY <1>1, <1>19, <1>22, <2>1 DEF LinesInOrder
  <2>2. CASE i \notin 1 .. Len(executed)
    <3>1. PICK j \in 1 .. Len(r) : i = Len(executed) + j
      <4>1. i - Len(executed) \in 1 .. Len(r) /\ i = Len(executed) + (i - Len(executed))
        BY <1>10, <1>11, <2>2
      <4> QED BY <4>1
    <3> QED BY <1>18, <1>19, <1>22, <3>1
  <2> QED BY <2>1, <2>2
<1>24. Len(w) = Len(g)
  BY <1>11, <1>18, <1>19, <1>21
<1>25. w = g
  BY <1>19, <1>21, <1>23, <1>24
<1>26. h \o qu_cmd = r /\ executed \o f = g
  BY <1>6, <1>20, <1>25
<1>27. at["background"] = "ended" => stopped
  BY DEF CmdInv
<1> QED BY <1>2, <1>15, <1>16, <1>26, <1>27, Zenon DEF Cmd!AsyncInOrder

----------------------------------------------------------------------------
(* The system programs *)

AllTasks == {"App1", "App2", "Cmd"}
Running == {"connect", "test", "receive", "send", "delete"}

\* What the tasks and the callbacks use, all of which init creates.
Used == {"memmng", "time", "tmr", "evt", "cmd", "tsk", "ef"}

\* Where main is.
MainTypes ==
  /\ program \in {"sample01", "sample02"}
  /\ main \in {"init", "start", "poll", "join", "finalize", "halted", "failed"}
  /\ main = "init" => step \in 1 .. 11
  /\ main \in {"start", "join"} => step \in 1 .. 3
  /\ main = "poll" => step = 1
  /\ main = "finalize" => step \in 1 .. 10

\* What has been created while main goes from one manager to the next.
Created ==
  /\ main = "init" => {Sample!CreateOrder[i] : i \in 1 .. step - 1} \subseteq alive
  /\ main \in {"start", "poll", "join"} => Used \subseteq alive

\* The tasks that have not been started, and those that have been joined
TasksFollowMain ==
  /\ main = "init" => \A t \in AllTasks : task[t] = "none"
  /\ main = "start" => \A i \in step .. 3 : task[Sample!Tasks[i]] = "none"
  /\ main = "join" => \A i \in 1 .. step - 1 :
                        Sample!Joined(Sample!Tasks[i]) => task[Sample!Tasks[i]] = "none"
  /\ main = "finalize" => \A t \in AllTasks : Sample!Joined(t) => task[t] = "none"

\* A callback that has not been overtaken by em_timer_delete has a timer.
CallbackHasTimer == \A a \in Sample!Apps : callback[a] = "running" => a \in timers

SampleInv == /\ Sample!TypeOK /\ MainTypes
             /\ (Sample!Over \/ (Created /\ TasksFollowMain)) /\ CallbackHasTimer

LEMMA Orders ==
  /\ Len(Sample!CreateOrder) = 11
  /\ \A m \in Used : \E i \in 1 .. 10 : Sample!CreateOrder[i] = m
  /\ Len(Sample!DestroyOrder) = 10
  /\ Len(Sample!Tasks) = 3
<1> DEFINE I == Sample!InitOrder
           F == Sample!FinalOrder
           A == <<"memmng">>
           B == <<"dm">>
           Z == <<"dm", "memmng">>
           M == {"memmng", "time", "mem", "tmr", "mtx", "sem", "evt", "cmd", "tsk", "ef", "dm"}
<1>1. A \in Seq(M) /\ I \in Seq(M) /\ B \in Seq(M) /\ F \in Seq(M) /\ Z \in Seq(M)
  BY DEF Sample!InitOrder, Sample!FinalOrder
<1>2. Len(A) = 1 /\ Len(I) = 9 /\ Len(B) = 1 /\ Len(F) = 8 /\ Len(Z) = 2
  BY DEF Sample!InitOrder, Sample!FinalOrder
<1>3. A[1] = "memmng" /\ I[1] = "time" /\ I[3] = "tmr" /\ I[6] = "evt"
      /\ I[7] = "cmd" /\ I[8] = "tsk" /\ I[9] = "ef"
  BY DEF Sample!InitOrder
<1> HIDE DEF I, F, M, A, B, Z
<1>4. PICK p : p = A \o I
  OBVIOUS
<1>5. p \in Seq(M)
  BY <1>1, <1>4
<1>6. Len(p) = Len(A) + Len(I)
  BY <1>1, <1>4
<1>7. (\A i \in 1 .. Len(A) : p[i] = A[i]) /\ \A i \in 1 .. Len(I) : p[Len(A) + i] = I[i]
  BY <1>1, <1>4
<1>8. Len(p) = 10 /\ p[1] = "memmng" /\ \A i \in 1 .. 9 : p[1 + i] = I[i]
  BY <1>2, <1>3, <1>6, <1>7
<1>9. PICK c : c = p \o B
  OBVIOUS
<1>10. Len(c) = Len(p) + Len(B) /\ \A i \in 1 .. Len(p) : c[i] = p[i]
  BY <1>1, <1>5, <1>9
<1>11. Len(c) = 11 /\ \A i \in 1 .. 10 : c[i] = p[i]
  BY <1>2, <1>8, <1>10
<1>12. p[2] = "time" /\ p[4] = "tmr" /\ p[7] = "evt" /\ p[8] = "cmd" /\ p[9] = "tsk" /\ p[10] = "ef"
  BY <1>3, <1>8
<1>13. \A m \in Used : \E i \in 1 .. 10 : c[i] = m
  BY <1>8, <1>11, <1>12 DEF Used
<1>14. PICK d : d = F \o Z
  OBVIOUS
<1>15. Len(d) = Len(F) + Len(Z)
  BY <1>1, <1>14
<1>16. c = Sample!CreateOrder /\ d = Sample!DestroyOrder
  BY <1>4, <1>9, <1>14 DEF Sample!CreateOrder, Sample!DestroyOrder, A, B, I, F, Z
<1> QED BY <1>2, <1>11, <1>13, <1>15, <1>16 DEF Sample!Tasks

LEMMA SampleInit == MCInit => SampleInv
<1> SUFFICES ASSUME MCInit PROVE SampleInv
  OBVIOUS
<1>1. Sample!Loaded /\ main \in {"init", "halted"}
  BY DEF MCInit
<1>2. Sample!TypeOK /\ MainTypes /\ CallbackHasTimer
  BY <1>1, SystemAssumption DEF Sample!Loaded, Sample!TypeOK, Sample!Apps, MainTypes, CallbackHasTimer
<1>3. \A i \in 1 .. step - 1 : FALSE
  BY <1>1 DEF Sample!Loaded
<1>4. {Sample!CreateOrder[i] : i \in 1 .. step - 1} \subseteq alive
  BY <1>3
<1>5. Sample!Over \/ (Created /\ TasksFollowMain)
  BY <1>1, <1>4 DEF Sample!Loaded, Sample!Over, Created, TasksFollowMain, AllTasks
<1> QED BY <1>2, <1>5 DEF SampleInv

\* What the steps of main do.  The managers of CreateOrder are Used ones and others; when
\* all have been created, so have those Used.
LEMMA MainInv ==
  ASSUME SampleInv, ~Sample!Over, Sample!Main
  PROVE  SampleInv'
<1> USE DEF Sample!managers, Sample!flags, Sample!timing, Sample!commands
<1>1. /\ Sample!TypeOK /\ MainTypes /\ Created /\ TasksFollowMain /\ CallbackHasTimer
  BY DEF SampleInv
<1>2. CASE Sample!Create
  <2>1. main = "init" /\ step \in 1 .. 11 /\ Len(Sample!CreateOrder) = 11
    BY <1>1, <1>2, Orders DEF Sample!Create, MainTypes
  <2>2. UNCHANGED <<program, task, timers, callback, msgs>>
    BY <1>2 DEF Sample!Create
  <2>3. Sample!TypeOK' /\ CallbackHasTimer'
    BY <1>1, <2>2 DEF Sample!TypeOK, CallbackHasTimer
  <2>4. CASE main' = "failed"
    BY <1>1, <2>2, <2>3, <2>4 DEF SampleInv, MainTypes, Sample!Over
  <2>5. CASE alive' = alive \cup {Sample!CreateOrder[step]} /\ Sample!Advance(Sample!CreateOrder, "start")
    <3>1. CASE step < 11
      <4>1. main' = "init" /\ step' = step + 1
        BY <2>1, <2>5, <3>1 DEF Sample!Advance
      <4>2. \A i \in 1 .. step : Sample!CreateOrder[i] \in alive'
        <5>1. \A i \in 1 .. step : i \in 1 .. step - 1 \/ i = step
          BY <2>1
        <5> QED BY <1>1, <2>1, <2>5, <5>1 DEF Created
      <4>3. \A i \in 1 .. step' - 1 : i \in 1 .. step
        BY <2>1, <4>1
      <4>4. Created'
        BY <4>1, <4>2, <4>3 DEF Created
      <4>5. MainTypes' /\ TasksFollowMain'
        BY <1>1, <2>1, <2>2, <3>1, <4>1 DEF MainTypes, TasksFollowMain
      <4> QED BY <2>3, <4>4, <4>5 DEF SampleInv
    <3>2. CASE ~(step < 11)
      <4>1. main' = "start" /\ step' = 1 /\ step = 11
        BY <2>1, <2>5, <3>2 DEF Sample!Advance
      <4>2. \A i \in 1 .. 10 : i \in 1 .. step - 1
        BY <4>1
      <4>3. \A i \in 1 .. 10 : Sample!CreateOrder[i] \in alive'
        BY <1>1, <2>1, <2>5, <4>2 DEF Created
      <4>4. Used \subseteq alive'
        BY <4>3, Orders
      <4>5. \A i \in 1 .. 3 : Sample!Tasks[i] \in AllTasks
        BY DEF Sample!Tasks, AllTasks
      <4>6. MainTypes' /\ Created' /\ TasksFollowMain'
        BY <1>1, <2>1, <2>2, <4>1, <4>4, <4>5 DEF MainTypes, Created, TasksFollowMain
      <4> QED BY <2>3, <4>6 DEF SampleInv
    <3> QED BY <3>1, <3>2
  <2> QED BY <1>2, <2>4, <2>5 DEF Sample!Create, Sample!Fail
<1>3. CASE Sample!StartTask
  <2>1. main = "start" /\ step \in 1 .. 3 /\ Len(Sample!Tasks) = 3
    BY <1>1, <1>3, Orders DEF Sample!StartTask, MainTypes
  <2>2. UNCHANGED <<program, alive, timers, callback, msgs>>
    BY <1>3 DEF Sample!StartTask
  <2>3. CASE main' = "failed" /\ UNCHANGED task
    BY <1>1, <2>2, <2>3 DEF SampleInv, MainTypes, Sample!Over, Sample!TypeOK, CallbackHasTimer
  <2>4. CASE Sample!Goto(Sample!Tasks[step], "start") /\ Sample!Advance(Sample!Tasks, "poll")
    <3>1. PICK t \in AllTasks : t = Sample!Tasks[step]
      BY <2>1 DEF Sample!Tasks, AllTasks
    <3>2. task[t] = "none"
      BY <1>1, <2>1, <3>1 DEF TasksFollowMain
    <3>3. task' = [task EXCEPT ![t] = "start"]
      BY <2>4, <3>1 DEF Sample!Goto
    <3>4. Sample!TypeOK' /\ CallbackHasTimer'
      BY <1>1, <2>2, <3>2, <3>3 DEF Sample!TypeOK, Sample!Apps, CallbackHasTimer, AllTasks
    <3>5. \/ main' = "start" /\ step' = step + 1 /\ step < 3
          \/ main' = "poll" /\ step' = 1
      BY <2>1, <2>4 DEF Sample!Advance
    <3>6. MainTypes' /\ Created'
      BY <1>1, <2>1, <2>2, <3>5 DEF MainTypes, Created
    <3>7. \A i \in step + 1 .. 3 : i \in step .. 3 /\ Sample!Tasks[i] # t
      BY <2>1, <3>1 DEF Sample!Tasks
    <3>8. TasksFollowMain'
      BY <1>1, <2>1, <3>3, <3>5, <3>7 DEF TasksFollowMain, Sample!TypeOK
    <3> QED BY <3>4, <3>6, <3>8 DEF SampleInv
  <2> QED BY <1>3, <2>3, <2>4 DEF Sample!StartTask, Sample!Fail
<1>4. CASE Sample!Poll
  <2>1. main = "poll" /\ main' = "join" /\ UNCHANGED <<step, program, alive, task, timers, callback, msgs>>
    BY <1>4 DEF Sample!Poll
  <2> QED BY <1>1, <2>1
  DEF SampleInv, Sample!TypeOK, MainTypes, Created, TasksFollowMain, CallbackHasTimer
<1>5. CASE Sample!JoinTask
  <2>1. main = "join" /\ step \in 1 .. 3 /\ Len(Sample!Tasks) = 3
    BY <1>1, <1>5, Orders DEF Sample!JoinTask, MainTypes
  <2>2. UNCHANGED <<program, alive, timers, callback, msgs>>
    BY <1>5 DEF Sample!JoinTask
  <2>3. PICK t \in AllTasks : t = Sample!Tasks[step]
    BY <2>1 DEF Sample!Tasks, AllTasks
  <2>4. \/ Sample!Joined(t) /\ task[t] = "ended" /\ task' = [task EXCEPT ![t] = "none"]
        \/ ~Sample!Joined(t) /\ task' = task
    BY <1>5, <2>3 DEF Sample!JoinTask
  <2>5. Sample!TypeOK' /\ CallbackHasTimer'
    BY <1>1, <2>2, <2>4 DEF Sample!TypeOK, Sample!Apps, CallbackHasTimer, AllTasks
  <2>6. \/ main' = "join" /\ step' = step + 1 /\ step < 3
        \/ main' = "finalize" /\ step' = 1 /\ step = 3
    BY <1>5, <2>1 DEF Sample!JoinTask, Sample!Advance
  <2>7. MainTypes' /\ Created'
    BY <1>1, <2>1, <2>2, <2>6 DEF MainTypes, Created
  <2>8. \A i \in 1 .. step : Sample!Joined(Sample!Tasks[i]) => task'[Sample!Tasks[i]] = "none"
    <3>1. \A i \in 1 .. step : i \in 1 .. step - 1 \/ i = step
      BY <2>1
    <3>2. \A i \in 1 .. step : task[Sample!Tasks[i]] = "none" => task'[Sample!Tasks[i]] = "none"
      <4>1. \A i \in 1 .. step : Sample!Tasks[i] \in Sample!Apps \cup {"Cmd"}
        BY <2>1 DEF Sample!Tasks, Sample!Apps
      <4> QED BY <1>1, <2>4, <4>1 DEF Sample!TypeOK
    <3>3. Sample!Joined(t) => task'[t] = "none"
      BY <1>1, <2>4 DEF Sample!TypeOK, Sample!Apps, AllTasks
    <3> QED BY <1>1, <2>1, <2>3, <3>1, <3>2, <3>3 DEF TasksFollowMain
  <2>9. \A x : Sample!Joined(x)' = Sample!Joined(x)
    BY <2>2 DEF Sample!Joined
  <2>10. CASE main' = "join" /\ step' = step + 1
    <3>1. \A i \in 1 .. step' - 1 : i \in 1 .. step
      BY <2>1, <2>10
    <3> QED BY <2>5, <2>7, <2>8, <2>9, <2>10, <3>1 DEF SampleInv, TasksFollowMain
  <2>11. CASE main' = "finalize" /\ step = 3
    <3>1. \A x \in AllTasks : \E i \in 1 .. step : Sample!Tasks[i] = x
      BY <2>11 DEF AllTasks, Sample!Tasks
    <3> QED BY <2>5, <2>7, <2>8, <2>9, <2>11, <3>1 DEF SampleInv, TasksFollowMain
  <2> QED BY <2>6, <2>10, <2>11
<1>6. CASE Sample!Destroy
  <2>1. main = "finalize" /\ step \in 1 .. 10 /\ UNCHANGED <<program, task, timers, callback, msgs>>
    BY <1>1, <1>6 DEF Sample!Destroy, MainTypes
  <2>2. \/ main' = "finalize" /\ step' = step + 1 /\ step < 10
        \/ main' = "halted" /\ step' = 1
    BY <1>6, <2>1, Orders DEF Sample!Destroy, Sample!Advance
  <2> QED BY <1>1, <2>1, <2>2
  DEF SampleInv, Sample!TypeOK, MainTypes, Created, TasksFollowMain, CallbackHasTimer, Sample!Over,
      Sample!Joined
<1> QED BY <1>2, <1>3, <1>4, <1>5, <1>6 DEF Sample!Main

\* Of the rest, only DeleteTimer takes a timer away, and marks its callback.
LEMMA OthersInv ==
  ASSUME SampleInv, ~Sample!Over,
         \/ Sample!Cmd \/ Sample!SendFromTimer \/ Sample!SetFromTimer
         \/ \E a \in Sample!Apps : Sample!App(a) \/ Sample!Fire(a) \/ Sample!Pause(a)
         \/ \E x \in Sample!Executors : Sample!BeginShutdown(x) \/ Sample!ShutdownStep(x)
  PROVE  SampleInv'
<1> USE DEF Sample!managers, Sample!flags, Sample!timing, Sample!commands, Sample!Goto
<1>1. /\ Sample!TypeOK /\ MainTypes /\ Created /\ TasksFollowMain /\ CallbackHasTimer
  BY DEF SampleInv
<1> DEFINE Fixed == UNCHANGED <<program, alive, main, step>>
           Goes(t, l) == task[t] # "none" /\ task' = [task EXCEPT ![t] = l]
           Gone(t) == task' = task \/ \E l : Goes(t, l)
<1>2. ASSUME Fixed, NEW t \in AllTasks, Gone(t), Sample!TypeOK', CallbackHasTimer'
      PROVE  SampleInv'
  <2>1. \A x \in AllTasks : task[x] = "none" => task'[x] = "none"
    BY <1>1, <1>2 DEF Sample!TypeOK, Sample!Apps, AllTasks
  <2>2. \A i \in 1 .. 3 : Sample!Tasks[i] \in AllTasks
    BY DEF Sample!Tasks, AllTasks
  <2>3. \A x : Sample!Joined(x)' = Sample!Joined(x)
    BY <1>2 DEF Sample!Joined
  <2>4. main = "start" => \A i \in step .. 3 : i \in 1 .. 3
    BY <1>1 DEF MainTypes
  <2>5. main = "join" => \A i \in 1 .. step - 1 : i \in 1 .. 3
    BY <1>1 DEF MainTypes
  <2>6. TasksFollowMain'
    BY <1>1, <1>2, <2>1, <2>2, <2>3, <2>4, <2>5 DEF TasksFollowMain
  <2> QED BY <1>1, <1>2, <2>6 DEF SampleInv, MainTypes, Created
<1> DEFINE Labels == {"none", "start", "connect", "test", "receive", "send", "delete",
                      "enter", "prompt", "ended"}
\* A task that goes on, with its timer if it has one
<1>3. ASSUME Fixed, NEW t \in AllTasks, NEW l \in Labels, Goes(t, l),
             t \in timers => l \in Running, UNCHANGED <<timers, callback>>, msgs' \in 0 .. QueueLen
      PROVE  SampleInv'
  <2>1. Sample!TypeOK'
    BY <1>1, <1>3 DEF Sample!TypeOK, Sample!Apps, AllTasks, Running
  <2>2. CallbackHasTimer'
    BY <1>1, <1>3 DEF CallbackHasTimer
  <2> QED BY <1>2, <1>3, <2>1, <2>2
<1>4. msgs \in 0 .. QueueLen /\ (Sample!Sent => msgs' \in 0 .. QueueLen)
  BY <1>1, SystemAssumption DEF Sample!TypeOK, Sample!Sent
\* A step beside the tasks
<1>5. ASSUME Fixed, UNCHANGED <<task, timers>>, callback' \in [Sample!Apps -> {"none", "running", "late"}],
             \A a \in Sample!Apps : callback'[a] = "running" => a \in timers, msgs' \in 0 .. QueueLen
      PROVE  SampleInv'
  <2>1. Sample!TypeOK'
    BY <1>1, <1>5 DEF Sample!TypeOK
  <2>2. CallbackHasTimer'
    BY <1>5 DEF CallbackHasTimer
  <2>3. "Cmd" \in AllTasks
    BY DEF AllTasks
  <2> QED BY <1>2, <1>5, <2>1, <2>2, <2>3
<1>6. "Cmd" \notin timers
  BY <1>1 DEF Sample!TypeOK, Sample!Apps
<1>7. CASE Sample!Cmd
  <2>1. Fixed /\ UNCHANGED <<timers, callback, msgs>>
    BY <1>7 DEF Sample!Cmd, Sample!Register, Sample!EnterLoop, Sample!Prompt
  <2>2. \E l \in Labels : Goes("Cmd", l)
    BY <1>7 DEF Sample!Cmd, Sample!Register, Sample!EnterLoop, Sample!Prompt
  <2>3. "Cmd" \in AllTasks
    BY DEF AllTasks
  <2> QED BY <1>3, <1>4, <1>6, <2>1, <2>2, <2>3
<1>8. CASE Sample!SendFromTimer \/ Sample!SetFromTimer
  <2>1. Fixed /\ UNCHANGED <<task, timers>> /\ msgs' \in 0 .. QueueLen
    BY <1>4, <1>8 DEF Sample!SendFromTimer, Sample!SetFromTimer
  <2>2. \E a : callback' = [callback EXCEPT ![a] = "none"]
    BY <1>8 DEF Sample!SendFromTimer, Sample!SetFromTimer
  <2>3. /\ callback' \in [Sample!Apps -> {"none", "running", "late"}]
        /\ \A a \in Sample!Apps : callback'[a] = "running" => a \in timers
    BY <1>1, <2>2 DEF Sample!TypeOK, CallbackHasTimer
  <2> QED BY <1>5, <2>1, <2>3
<1>9. ASSUME NEW a \in Sample!Apps, Sample!Fire(a) PROVE SampleInv'
  <2>1. Fixed /\ UNCHANGED <<task, timers, msgs>> /\ callback' = [callback EXCEPT ![a] = "running"] /\ a \in timers
    BY <1>9 DEF Sample!Fire
  <2>2. /\ callback' \in [Sample!Apps -> {"none", "running", "late"}]
        /\ \A o \in Sample!Apps : callback'[o] = "running" => o \in timers
    BY <1>1, <2>1 DEF Sample!TypeOK, CallbackHasTimer
  <2> QED BY <1>4, <1>5, <2>1, <2>2
<1>10. ASSUME UNCHANGED <<program, alive, main, step, task, timers, callback, msgs>> PROVE SampleInv'
  BY <1>1, <1>10 DEF SampleInv, Sample!TypeOK, MainTypes, Created, TasksFollowMain, CallbackHasTimer,
                     Sample!Joined
<1>11. ASSUME NEW a \in Sample!Apps, Sample!Pause(a) PROVE SampleInv'
  BY <1>10, <1>11 DEF Sample!Pause
<1>12. ASSUME NEW x \in Sample!Executors, Sample!BeginShutdown(x) \/ Sample!ShutdownStep(x) PROVE SampleInv'
  BY <1>10, <1>12 DEF Sample!BeginShutdown, Sample!ShutdownStep
<1>13. ASSUME NEW a \in Sample!Apps, Sample!App(a) PROVE SampleInv'
  <2>1. a \in AllTasks
    BY DEF Sample!Apps, AllTasks
  <2>2. CASE Sample!CreateTimer(a)
    <3>1. CASE Sample!Fail /\ UNCHANGED <<task, timers>>
      BY <1>1, <2>2, <3>1 DEF Sample!CreateTimer, Sample!Fail, SampleInv, Sample!Over, Sample!TypeOK,
                              MainTypes, CallbackHasTimer
    <3>2. CASE ~(Sample!Fail /\ UNCHANGED <<task, timers>>)
      <4>1. PICK l \in {"connect", "test"} : task' = [task EXCEPT ![a] = l]
        BY <2>2, <3>2 DEF Sample!CreateTimer
      <4>2. Fixed /\ timers' = timers \cup {a} /\ UNCHANGED <<callback, msgs>> /\ task[a] = "start"
        BY <2>2, <3>2 DEF Sample!CreateTimer
      <4>3. Sample!TypeOK' /\ CallbackHasTimer'
        BY <1>1, <4>1, <4>2 DEF Sample!TypeOK, CallbackHasTimer
      <4> QED BY <1>2, <2>1, <4>1, <4>2, <4>3
    <3> QED BY <3>1, <3>2
  <2>3. CASE Sample!Connect(a)
    BY <1>3, <1>4, <2>1, <2>3 DEF Sample!Connect, Running
  <2>4. CASE Sample!TestShutdown(a)
    BY <1>3, <1>4, <2>1, <2>4 DEF Sample!TestShutdown, Running
  <2>5. CASE Sample!DeleteTimer(a)
    <3>1. Fixed /\ task[a] = "delete" /\ task' = [task EXCEPT ![a] = "ended"]
          /\ timers' = timers \ {a} /\ msgs' = msgs
          /\ callback' = [callback EXCEPT ![a] = IF @ = "none" THEN "none" ELSE "late"]
      BY <2>5 DEF Sample!DeleteTimer
    <3>2. callback' \in [Sample!Apps -> {"none", "running", "late"}] /\ callback'[a] # "running"
          /\ \A o \in Sample!Apps \ {a} : callback'[o] = callback[o]
      BY <1>1, <3>1 DEF Sample!TypeOK
    <3>3. Sample!TypeOK'
      BY <1>1, <3>1, <3>2 DEF Sample!TypeOK
    <3>4. CallbackHasTimer'
      BY <1>1, <3>1, <3>2 DEF CallbackHasTimer
    <3> QED BY <1>2, <2>1, <3>1, <3>3, <3>4
  <2>6. CASE a = "App1" /\ Sample!App1Receive
    <3>1. msgs' \in 0 .. QueueLen
      BY <1>4, <2>6, SystemAssumption DEF Sample!App1Receive
    <3> QED BY <1>3, <2>1, <2>6, <3>1 DEF Sample!App1Receive, Running
  <2>7. CASE a = "App2" /\ (Sample!App2Receive \/ Sample!App2Send)
    BY <1>3, <1>4, <2>1, <2>7 DEF Sample!App2Receive, Sample!App2Send, Running
  <2> QED BY <1>13, <2>2, <2>3, <2>4, <2>5, <2>6, <2>7 DEF Sample!App
<1> QED BY <1>7, <1>8, <1>9, <1>11, <1>12, <1>13

LEMMA SampleNext == SampleInv /\ [Sample!Next]_(Sample!vars) => SampleInv'
<1> SUFFICES ASSUME SampleInv, [Sample!Next]_(Sample!vars) PROVE SampleInv'
  OBVIOUS
<1>1. CASE Sample!Next
  BY <1>1, MainInv, OthersInv DEF Sample!Next, Sample!System
<1>2. CASE UNCHANGED Sample!vars
  BY <1>2 DEF Sample!vars, Sample!managers, Sample!flags, Sample!timing, Sample!commands, SampleInv,
              Sample!TypeOK, MainTypes, Created, TasksFollowMain, CallbackHasTimer, Sample!Over,
              Sample!Joined
<1> QED BY <1>1, <1>2

\* Whatever uses a manager runs between start and join, when all of them are there.
LEMMA SampleUses == SampleInv => AliveWhenUsed
<1> SUFFICES ASSUME SampleInv, ~Sample!Over PROVE Sample!AliveWhenUsed
  BY DEF AliveWhenUsed, Sample!AliveWhenUsed
<1> USE DEF Sample!Apps
<1>1. /\ Sample!TypeOK /\ MainTypes /\ Created /\ TasksFollowMain /\ CallbackHasTimer
  BY DEF SampleInv
<1>2. main \in {"start", "poll", "join"} => Used \subseteq alive
  BY <1>1 DEF Created
<1>3. \A t \in AllTasks : Sample!Needs(t) \subseteq Used
  BY DEF Sample!Needs, Used
<1>4. main \notin {"start", "poll", "join"} => \A t \in AllTasks : Sample!Joined(t) => task[t] = "none"
  BY <1>1 DEF MainTypes, TasksFollowMain, Sample!Over
<1>5. \A t \in AllTasks : task[t] = "none" => Sample!Needs(t) = {}
  BY DEF Sample!Needs
<1>6. ASSUME NEW t \in AllTasks, ~(t = "Cmd" /\ program = "sample02")
      PROVE  Sample!Needs(t) \subseteq alive
  <2>1. Sample!Joined(t)
    BY <1>1, <1>6 DEF Sample!Joined, MainTypes
  <2> QED BY <1>2, <1>3, <1>4, <1>5, <2>1
<1>7. ASSUME NEW a \in Sample!Apps, callback[a] = "running"
      PROVE  Sample!CallbackNeeds(a) \subseteq alive
  <2>1. task[a] # "none" /\ Sample!Joined(a) /\ a \in AllTasks
    BY <1>1, <1>7 DEF Sample!TypeOK, CallbackHasTimer, Sample!Joined, AllTasks
  <2> QED BY <1>2, <1>4, <2>1 DEF Sample!CallbackNeeds, Used
<1> QED BY <1>6, <1>7 DEF Sample!AliveWhenUsed, AllTasks

----------------------------------------------------------------------------
(* The theorems.  A behaviour of MCSpec is one of a component, the others  *)
(* stand still.                                                            *)

\* What the components start in, and what they do
LEMMA StartsAll == MCInit => Init /\ Mqtt!Init /\ Cmd!Init
BY DEF MCInit

LEMMA StepsAll ==
  [MCNext]_<<part, vars, mqtt, cmd, sample>> =>
    [Next]_vars /\ [Mqtt!Next]_(Mqtt!vars) /\ [Cmd!Next]_(Cmd!vars) /\ [Sample!Next]_(Sample!vars)
<1> USE DEF mqtt, cmd, sample, Mqtt!vars, Mqtt!client, Mqtt!library, Mqtt!caller, Mqtt!history,
            Cmd!vars, Cmd!state, Cmd!history, Sample!vars, Sample!managers, Sample!flags,
            Sample!timing, Sample!commands
<1> SUFFICES ASSUME [MCNext]_<<part, vars, mqtt, cmd, sample>>
             PROVE  /\ [Next]_vars /\ [Mqtt!Next]_(Mqtt!vars) 
                    /\ [Cmd!Next]_(Cmd!vars) /\ [Sample!Next]_(Sample!vars)
  OBVIOUS
<1>1. CASE Next /\ UNCHANGED <<mqtt, cmd, sample>>
  BY <1>1
<1>2. CASE Mqtt!Next /\ UNCHANGED <<vars, cmd, sample>>
  BY <1>2
<1>3. CASE Cmd!Next /\ UNCHANGED <<vars, mqtt, sample>>
  BY <1>3
<1>4. CASE Sample!Next /\ UNCHANGED <<vars, mqtt, cmd>>
  BY <1>4
<1>5. CASE UNCHANGED <<vars, mqtt, cmd, sample>>
  BY <1>5
<1> QED BY <1>1, <1>2, <1>3, <1>4, <1>5 DEF MCNext

\* em_eventflag_wait loses no wake-up: nobody sleeps in the condition variable with one of
\* the flags it asked for set (em_eventflag.c:183-236).
THEOREM NoLostWakeup == MCSpec => []SleepersUnserved
BY StartsAll, StepsAll, FlagTypes, FlagWakes, PTL DEF MCSpec

\* em_mqttc_connect (em_mqttc.c:179-188) may miss the broadcast and time out, but it does
\* not report a connection that never was.
THEOREM ConnectNeverLies == MCSpec => []ConnectReported
<1>1. MqttInv => ConnectReported
  BY DEF MqttInv, YesIsConnected, AnnouncedAfterCall, ConnectReported, Mqtt!ConnectReported
<1> QED BY <1>1, StartsAll, StepsAll, MqttInit, MqttNext, PTL DEF MCSpec

\* A line put in the queue by "async" is executed, once and in its turn, and a line is left
\* there only by em_cmd_stop (em_command.c:199, 204, 213, 243).
THEOREM LinesTakenInTurn == MCSpec => []AsyncInOrder
BY StartsAll, StepsAll, CmdInit, CmdNext, CmdOrder, PTL DEF MCSpec

\* Tasks and callbacks of the system programs use no manager before em_sysmng_init has
\* created it or after em_sysmng_finalize has destroyed it (em_system.c:34-152).
THEOREM ManagersAliveWhenUsed == MCSpec => []AliveWhenUsed
BY StepsAll, SampleInit, SampleNext, SampleUses, PTL DEF MCSpec

\* All four keep their types.
THEOREM SystemTypes == MCSpec => []Types
<1>1. TypeOK /\ MqttInv /\ CmdInv /\ SampleInv => Types
  BY DEF Types, MqttInv, CmdInv, SampleInv
<1> QED
BY <1>1, StartsAll, StepsAll, FlagTypes, MqttInit, MqttNext, CmdInit, CmdNext, SampleInit, SampleNext,
   PTL DEF MCSpec
=============================================================================
