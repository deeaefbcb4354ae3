--------------------------- MODULE TransferProofs ---------------------------
(***************************************************************************)
(* What TLC checks on MCTransfer, for every number of sockets, workers,    *)
(* descriptors, requests, slots, records, threads and units, proved: the   *)
(* sockets (Ether), the HTTP client (Http), the ring (RingBuf), the upload *)
(* (Upload) and the heap (MemMng).                                         *)
(***************************************************************************)
EXTENDS MCTransfer, CommonLemmas, SequenceTheorems

----------------------------------------------------------------------------
(* Sockets *)

Calls == [pc : {"select", "transfer"}, sk : Sockets!Sockets]

SocketTypes ==
  /\ descriptor \in [Sockets!Descriptors -> Sockets!Sockets \cup {Sockets!Nobody}]
  /\ sock \in [Sockets!Sockets -> Sockets!Descriptors \cup {Sockets!NoSocket}]
  /\ connected \in [Sockets!Sockets -> BOOLEAN]
  /\ owner \in [Sockets!Sockets -> {"out", "bind", "connect", "open", "close"}]
  /\ user \in [Workers -> {Sockets!Out} \cup Calls]
  /\ torn \in [Workers -> BOOLEAN]
  /\ leaked \subseteq Sockets!Descriptors

\* A socket whose owner is not done with it has its descriptor.
Held == \A s \in Sockets!Sockets : owner[s] # "out" =>
          /\ sock[s] \in Sockets!Descriptors /\ descriptor[sock[s]] = s
          /\ sock[s] \notin leaked

\* What was left behind stays open, any other open descriptor is in use.
NoneLost == /\ \A d \in leaked : descriptor[d] # Sockets!Nobody
            /\ \A d \in Sockets!Descriptors \ leaked : descriptor[d] # Sockets!Nobody =>
                 owner[descriptor[d]] # "out" /\ sock[descriptor[d]] = d

\* The test of a call lets only open connections pass, and a socket is closed under a
\* call no otherwise than by Close.
Linked == \A s \in Sockets!Sockets : connected[s] => owner[s] = "open" /\ s \in Tcp
Underway == \A w \in Workers : user[w] # Sockets!Out /\ ~torn[w] =>
              owner[user[w].sk] \in {"open", "close"}

SocketInv == SocketTypes /\ Held /\ NoneLost /\ Linked /\ Underway

LEMMA SocketsStart == Sockets!Init => SocketInv
  BY DEF Sockets!Init, SocketInv, SocketTypes, Held, NoneLost, Linked, Underway,
         Sockets!Out, Sockets!NoSocket

\* Every step keeps the types, Held and NoneLost.
LEMMA DescriptorsNext ==
  ASSUME SocketInv, [Sockets!Next]_(Sockets!vars)
  PROVE  SocketTypes' /\ Held' /\ NoneLost'
<1> USE DEF SocketTypes, Held, NoneLost, Sockets!Goto, Sockets!sockets
<1>0. SocketTypes /\ Held /\ NoneLost /\ Sockets!Nobody \notin Sockets!Sockets
  BY TransferAssumption DEF SocketInv
<1>1. ASSUME NEW s \in Sockets!Sockets, owner[s] = "out", Sockets!Open(s),
             connected' \in [Sockets!Sockets -> BOOLEAN],
             owner' \in [Sockets!Sockets -> {"out", "bind", "connect", "open", "close"}],
             owner'[s] # "out",
             \A r \in Sockets!Sockets \ {s} : owner'[r] = "out" <=> owner[r] = "out",
             UNCHANGED <<leaked, user, torn>>
      PROVE  SocketTypes' /\ Held' /\ NoneLost'
  <2>1. PICK d \in Sockets!Closed : /\ sock' = [sock EXCEPT ![s] = d]
                                    /\ descriptor' = [descriptor EXCEPT ![d] = s]
    BY <1>1 DEF Sockets!Open
  <2>2. d \in Sockets!Descriptors /\ descriptor[d] = Sockets!Nobody
    BY <2>1 DEF Sockets!Closed
  <2>3. d \notin leaked /\ \A r \in Sockets!Sockets : owner[r] # "out" => sock[r] # d
    BY <1>0, <2>2
  <2>4. /\ sock' \in [Sockets!Sockets -> Sockets!Descriptors \cup {Sockets!NoSocket}]
        /\ descriptor' \in [Sockets!Descriptors -> Sockets!Sockets \cup {Sockets!Nobody}]
        /\ sock'[s] = d /\ descriptor'[d] = s
        /\ \A r \in Sockets!Sockets \ {s} : sock'[r] = sock[r]
        /\ \A e \in Sockets!Descriptors \ {d} : descriptor'[e] = descriptor[e]
    BY <1>0, <2>1, <2>2
  <2>5. SocketTypes'
    BY <1>0, <1>1, <2>4
  <2>6. Held'
    BY <1>0, <1>1, <2>2, <2>3, <2>4
  <2>7. NoneLost'
    BY <1>0, <1>1, <2>2, <2>3, <2>4
  <2> QED BY <2>5, <2>6, <2>7
<1>2. ASSUME NEW s \in Sockets!Sockets, owner[s] # "out", Sockets!Close(s),
             owner' = [owner EXCEPT ![s] = "out"], UNCHANGED <<sock, connected, leaked, user>>
      PROVE  SocketTypes' /\ Held' /\ NoneLost'
  <2>1. PICK d \in Sockets!Descriptors :
          d = sock[s] /\ descriptor[d] = s /\ d \notin leaked
    BY <1>0, <1>2
  <2>2. /\ descriptor' = [descriptor EXCEPT ![d] = Sockets!Nobody]
        /\ torn' \in [Workers -> BOOLEAN]
    BY <1>2, <2>1 DEF Sockets!Close
  <2>3. /\ descriptor' \in [Sockets!Descriptors -> Sockets!Sockets \cup {Sockets!Nobody}]
        /\ descriptor'[d] = Sockets!Nobody
        /\ \A e \in Sockets!Descriptors \ {d} : descriptor'[e] = descriptor[e]
        /\ owner'[s] = "out" /\ \A r \in Sockets!Sockets \ {s} : owner'[r] = owner[r]
    BY <1>0, <1>2, <2>2
  <2>4. SocketTypes'
    BY <1>0, <1>2, <2>2, <2>3
  <2>5. Held'
    BY <1>0, <1>2, <2>1, <2>3
  <2>6. NoneLost'
    BY <1>0, <1>2, <2>1, <2>3
  <2> QED BY <2>4, <2>5, <2>6
<1>3. ASSUME NEW s \in Sockets!Sockets, Sockets!SocketInit(s)
      PROVE  SocketTypes' /\ Held' /\ NoneLost'
  BY <1>0, <1>1, <1>3 DEF Sockets!SocketInit
<1>4. ASSUME NEW l \in Sockets!Sockets, NEW s \in Sockets!Sockets, Sockets!Accept(l, s)
      PROVE  SocketTypes' /\ Held' /\ NoneLost'
  BY <1>0, <1>1, <1>4 DEF Sockets!Accept
<1>5. ASSUME NEW s \in Sockets!Sockets, Sockets!SocketInitFails(s)
      PROVE  SocketTypes' /\ Held' /\ NoneLost'
  BY <1>0, <1>5 DEF Sockets!SocketInitFails
<1>6. ASSUME NEW s \in Sockets!Sockets, Sockets!Bind(s)
      PROVE  SocketTypes' /\ Held' /\ NoneLost'
  BY <1>0, <1>6 DEF Sockets!Bind
<1>7. ASSUME NEW s \in Sockets!Sockets, Sockets!OpenFails(s) \/ Sockets!SocketClose(s)
      PROVE  SocketTypes' /\ Held' /\ NoneLost'
  BY <1>2, <1>7 DEF Sockets!OpenFails, Sockets!SocketClose
<1>8. ASSUME NEW s \in Sockets!Sockets, Sockets!NoDestination(s)
      PROVE  SocketTypes' /\ Held' /\ NoneLost'
  <2>1. PICK d \in Sockets!Descriptors :
          d = sock[s] /\ descriptor[d] = s /\ d \notin leaked
    BY <1>0, <1>8 DEF Sockets!NoDestination
  <2>2. /\ leaked' = leaked \cup {d} /\ owner' = [owner EXCEPT ![s] = "out"]
        /\ UNCHANGED <<descriptor, sock, connected, user, torn>>
    BY <1>8, <2>1 DEF Sockets!NoDestination
  <2>3. SocketTypes'
    BY <1>0, <2>1, <2>2
  <2>4. Held'
    BY <1>0, <2>1, <2>2
  <2>5. NoneLost'
    BY <1>0, <2>1, <2>2
  <2> QED BY <2>3, <2>4, <2>5
<1>9. ASSUME NEW s \in Sockets!Sockets, Sockets!ConnectClient(s) \/ Sockets!Disconnect(s)
      PROVE  SocketTypes' /\ Held' /\ NoneLost'
  <2>1. /\ owner[s] # "out" /\ UNCHANGED <<descriptor, sock, leaked, user, torn>>
        /\ \E b \in BOOLEAN : connected' = [connected EXCEPT ![s] = b]
        /\ \E l \in {"open", "close"} : owner' = [owner EXCEPT ![s] = l]
    BY <1>9 DEF Sockets!ConnectClient, Sockets!Disconnect
  <2>2. /\ connected' \in [Sockets!Sockets -> BOOLEAN]
        /\ owner' \in [Sockets!Sockets -> {"out", "bind", "connect", "open", "close"}]
        /\ owner'[s] # "out" /\ \A r \in Sockets!Sockets \ {s} : owner'[r] = owner[r]
    BY <1>0, <2>1
  <2> QED BY <1>0, <2>1, <2>2
<1>10. ASSUME UNCHANGED <<descriptor, sock, connected, leaked, owner>>,
              user' \in [Workers -> {Sockets!Out} \cup Calls], torn' \in [Workers -> BOOLEAN]
       PROVE  SocketTypes' /\ Held' /\ NoneLost'
  BY <1>0, <1>10
<1>11. ASSUME NEW w \in Workers, NEW s \in Sockets!Sockets, Sockets!UseTcp(w, s) \/ Sockets!UseUdp(w, s)
       PROVE  SocketTypes' /\ Held' /\ NoneLost'
  BY <1>0, <1>10, <1>11 DEF Sockets!UseTcp, Sockets!UseUdp, Calls
<1>12. ASSUME NEW w \in Workers, Sockets!Select(w) \/ Sockets!Transfer(w)
       PROVE  SocketTypes' /\ Held' /\ NoneLost'
  <2>1. user' \in [Workers -> {Sockets!Out} \cup Calls] /\ torn' \in [Workers -> BOOLEAN]
    <3>1. CASE Sockets!Return(w)
      BY <1>0, <3>1 DEF Sockets!Return
    <3>2. CASE user[w].pc = "select" /\ user' = [user EXCEPT ![w].pc = "transfer"] /\ UNCHANGED torn
      <4>1. user[w] \in Calls
        BY <1>0, <3>2 DEF Sockets!Out
      <4>2. [user[w] EXCEPT !.pc = "transfer"] \in Calls
        BY <4>1 DEF Calls
      <4> QED BY <1>0, <3>2, <4>2
    <3> QED BY <1>12, <3>1, <3>2 DEF Sockets!Select, Sockets!Transfer
  <2> QED BY <1>10, <1>12, <2>1 DEF Sockets!Select, Sockets!Transfer
<1>13. CASE UNCHANGED Sockets!vars
  BY <1>0, <1>13 DEF Sockets!vars
<1>14. Listening \subseteq Sockets!Sockets
  BY DEF Sockets!Sockets
<1> HIDE DEF SocketTypes, Held, NoneLost
<1> QED BY <1>3, <1>4, <1>5, <1>6, <1>7, <1>8, <1>9, <1>11, <1>12, <1>13, <1>14 DEF Sockets!Next

\* Every step keeps Linked and Underway.
LEMMA CallsNext ==
  ASSUME SocketInv, [Sockets!Next]_(Sockets!vars)
  PROVE  Linked' /\ Underway'
<1> USE DEF Linked, Underway, Sockets!Goto, Sockets!sockets
<1>0. SocketTypes /\ Linked /\ Underway
  BY DEF SocketInv
<1>00. /\ connected \in [Sockets!Sockets -> BOOLEAN]
       /\ owner \in [Sockets!Sockets -> {"out", "bind", "connect", "open", "close"}]
       /\ torn \in [Workers -> BOOLEAN] /\ user \in [Workers -> {Sockets!Out} \cup Calls]
       /\ \A w \in Workers : user[w] # Sockets!Out => user[w].sk \in Sockets!Sockets
  BY <1>0 DEF SocketTypes, Calls
<1>1. ASSUME NEW s \in Sockets!Sockets, Sockets!SocketInit(s) \/ Sockets!SocketInitFails(s)
      PROVE  Linked' /\ Underway'
  BY <1>0, <1>00, <1>1 DEF Sockets!SocketInit, Sockets!SocketInitFails
<1>2. ASSUME NEW s \in Sockets!Sockets, Sockets!Bind(s) \/ Sockets!ConnectClient(s)
      PROVE  Linked' /\ Underway'
  BY <1>0, <1>00, <1>2 DEF Sockets!Bind, Sockets!ConnectClient
<1>3. ASSUME NEW l \in Sockets!Sockets, NEW s \in Sockets!Sockets, Sockets!Accept(l, s)
      PROVE  Linked' /\ Underway'
  BY <1>0, <1>00, <1>3 DEF Sockets!Accept
<1>4. ASSUME NEW s \in Sockets!Sockets, Sockets!OpenFails(s) \/ Sockets!SocketClose(s)
      PROVE  Linked' /\ Underway'
  <2>1. /\ owner' = [owner EXCEPT ![s] = "out"] /\ UNCHANGED <<connected, user>>
        /\ ~connected[s] \/ s \notin Tcp
    BY <1>0, <1>4 DEF Sockets!OpenFails, Sockets!SocketClose
  <2>2. \A w \in Workers : torn'[w] = (torn[w] \/ user[w].sk = s)
    BY <1>4 DEF Sockets!OpenFails, Sockets!SocketClose, Sockets!Close
  <2> QED BY <1>0, <1>00, <2>1, <2>2
<1>5. ASSUME NEW s \in Sockets!Sockets, Sockets!NoDestination(s)
      PROVE  Linked' /\ Underway'
  BY <1>0, <1>00, <1>5, TransferAssumption DEF Sockets!NoDestination
<1>6. ASSUME NEW s \in Sockets!Sockets, Sockets!Disconnect(s)
      PROVE  Linked' /\ Underway'
  BY <1>0, <1>00, <1>6 DEF Sockets!Disconnect
<1>7. ASSUME NEW w \in Workers, NEW s \in Sockets!Sockets, Sockets!UseTcp(w, s) \/ Sockets!UseUdp(w, s)
      PROVE  Linked' /\ Underway'
  BY <1>0, <1>00, <1>7 DEF Sockets!UseTcp, Sockets!UseUdp
<1>8. ASSUME NEW w \in Workers, Sockets!Select(w) \/ Sockets!Transfer(w)
      PROVE  Linked' /\ Underway'
  BY <1>0, <1>00, <1>8 DEF Sockets!Select, Sockets!Transfer, Sockets!Return, Calls, Sockets!Out
<1>9. CASE UNCHANGED Sockets!vars
  BY <1>0, <1>9 DEF Sockets!vars
<1>10. Listening \subseteq Sockets!Sockets
  BY DEF Sockets!Sockets
<1> HIDE DEF Linked, Underway
<1> QED BY <1>1, <1>2, <1>3, <1>4, <1>5, <1>6, <1>7, <1>8, <1>9, <1>10 DEF Sockets!Next

LEMMA SocketsNext == SocketInv /\ [Sockets!Next]_(Sockets!vars) => SocketInv'
  BY DescriptorsNext, CallsNext DEF SocketInv

LEMMA SocketsSafe ==
  ASSUME SocketInv
  PROVE  OwnDescriptor /\ Sockets!DescriptorsAccounted
<1>1. OwnDescriptor
  <2> SUFFICES ASSUME NEW w \in Workers, user[w] # Sockets!Out, ~torn[w]
               PROVE  LET s == user[w].sk
                      IN sock[s] \in Sockets!Descriptors /\ descriptor[sock[s]] = s
    BY DEF OwnDescriptor, Sockets!OwnDescriptor
  <2>1. user[w].sk \in Sockets!Sockets
    BY DEF SocketInv, SocketTypes, Calls
  <2> QED BY <2>1 DEF SocketInv, Underway, Held
<1>2. ASSUME NEW s \in Sockets!Sockets
      PROVE  {d \in Sockets!Descriptors : descriptor[d] = s} \ leaked =
               IF owner[s] = "out" THEN {} ELSE {sock[s]}
  <2>0. s # Sockets!Nobody
    BY TransferAssumption
  <2>1. CASE owner[s] = "out"
    BY <2>0, <2>1 DEF SocketInv, NoneLost
  <2>2. CASE owner[s] # "out"
    BY <2>0, <2>2 DEF SocketInv, NoneLost, Held
  <2> QED BY <2>1, <2>2
<1> QED BY <1>1, <1>2 DEF Sockets!DescriptorsAccounted

----------------------------------------------------------------------------
(* HTTP *)

\* The reply of the request under way is in the buffer from its beginning.
Buffered ==
  /\ reply \in [data : BOOLEAN, data_size : 0 .. buf_size, buf_capacity : {buf_size}]
  /\ answer \in Nat /\ data_size \in Nat /\ curl \in Nat
  /\ method # "none" => /\ ~succeeded /\ answer = reply.data_size
                        /\ \A i \in 1 .. reply.data_size : i \in DOMAIN bytes /\ bytes[i] = curl

\* The requests that failed came before the one under way.
Before ==
  /\ failed \in [requests : SUBSET Nat, forms : SUBSET Nat] /\ curl \in Nat
  /\ \A r \in failed.requests \cup failed.forms :
       r <= curl /\ (method # "none" => r < curl)

HttpInv == Buffered /\ Httpc!ReplyIsOwn /\ Before /\ Httpc!HandlesAccounted

LEMMA HttpStarts == Httpc!Init => HttpInv
  BY TransferAssumption DEF Httpc!Init, HttpInv, Buffered, Httpc!ReplyIsOwn, Before, Httpc!HandlesAccounted,
     Httpc!BufInit, Httpc!None

LEMMA HttpNext == HttpInv /\ [Httpc!Next]_(Httpc!vars) => HttpInv'
<1> SUFFICES ASSUME HttpInv, [Httpc!Next]_(Httpc!vars) PROVE HttpInv'
  OBVIOUS
<1> USE DEF HttpInv, Buffered, Httpc!ReplyIsOwn, Before, Httpc!HandlesAccounted,
            Httpc!headers, Httpc!buffer, Httpc!request
<1>0. /\ HttpInv /\ buf_size \in Nat /\ BlockSizes \subseteq Nat
      /\ reply.data_size \in 0 .. buf_size /\ reply.buf_capacity = buf_size
  BY TransferAssumption
<1>1. ASSUME UNCHANGED <<curl, handles, forms, reply, bytes, Httpc!request, failed>> PROVE HttpInv'
  BY <1>0, <1>1
<1>2. ASSUME NEW h \in Headers, Httpc!AddHeader(h) \/ Httpc!AddToArgument(h) PROVE HttpInv'
  BY <1>1, <1>2 DEF Httpc!AddHeader, Httpc!AddToArgument
<1>3. ASSUME Httpc!Setopt \/ Httpc!ResetHeader \/ Httpc!ResetArgument PROVE HttpInv'
  BY <1>1, <1>3 DEF Httpc!Setopt, Httpc!ResetHeader, Httpc!ResetArgument
<1>4. ASSUME NEW m \in Httpc!Methods, NEW a \in BOOLEAN, Httpc!Start(m, a) PROVE HttpInv'
  <2>1. /\ method = "none" /\ method' = m /\ m # "none" /\ curl' = curl + 1
        /\ handles' = handles \cup {curl + 1} /\ forms' = forms \cup Httpc!Form(m)
        /\ answer' = 0 /\ ~succeeded' /\ UNCHANGED <<bytes, data_size, failed>>
    BY <1>4 DEF Httpc!Start, Httpc!Ready, Httpc!Methods
  <2>2. reply' = [reply EXCEPT !.data_size = 0]
    BY <1>4 DEF Httpc!Start, Httpc!CurlInit, Httpc!BufClear
  <2>3. /\ reply' \in [data : BOOLEAN, data_size : 0 .. buf_size, buf_capacity : {buf_size}]
        /\ reply'.data_size = 0
    BY <1>0, <2>2
  <2>4. Buffered' /\ Httpc!ReplyIsOwn'
    BY <1>0, <2>1, <2>3
  <2>5. Before'
    BY <1>0, <2>1
  <2>6. Httpc!HandlesAccounted'
    BY <1>0, <2>1 DEF Httpc!Form
  <2> QED BY <2>4, <2>5, <2>6
<1>5. ASSUME NEW n \in BlockSizes, Httpc!Receive(n) PROVE HttpInv'
  <2>1. /\ method # "none" /\ answer' = answer + n
        /\ UNCHANGED <<curl, handles, forms, method, data_size, succeeded, failed>>
    BY <1>5 DEF Httpc!Receive
  <2>2. n \in Nat /\ reply.data_size + n <= buf_size
    BY <1>0, <1>5 DEF Httpc!Receive, Httpc!BufTakes
  <2>3. reply' = [reply EXCEPT !.data_size = reply.data_size + n]
    BY <1>5 DEF Httpc!Receive, Httpc!BufAppend
  <2>4. /\ reply' \in [data : BOOLEAN, data_size : 0 .. buf_size, buf_capacity : {buf_size}]
        /\ reply'.data_size = reply.data_size + n
    BY <1>0, <2>2, <2>3
  <2>5. ASSUME NEW i \in 1 .. reply.data_size + n 
        PROVE  i \in DOMAIN bytes' /\ bytes'[i] = curl
    <3>1. i \in 1 .. buf_size
      BY <1>0, <2>2
    <3>2. i \in DOMAIN bytes'
      BY <1>5, <3>1 DEF Httpc!Receive
    <3>3. CASE i > reply.data_size
      BY <1>5, <3>1, <3>3 DEF Httpc!Receive
    <3>4. CASE ~(i > reply.data_size)
      <4>1. i \in 1 .. reply.data_size
        BY <1>0, <3>4, <2>2
      <4>2. i \in DOMAIN bytes /\ bytes[i] = curl
        BY <1>0, <2>1, <4>1
      <4>3. bytes'[i] = IF i \in DOMAIN bytes THEN bytes[i] ELSE Httpc!None
        BY <1>5, <3>1, <3>4 DEF Httpc!Receive
      <4> QED BY <3>2, <4>2, <4>3
    <3> QED BY <3>3, <3>4
  <2>6. Buffered' /\ Httpc!ReplyIsOwn'
    BY <1>0, <2>1, <2>2, <2>4, <2>5
  <2> QED BY <1>0, <2>1, <2>6
<1>6. ASSUME Httpc!Succeed PROVE HttpInv'
  <2>1. /\ method # "none" /\ method' = "none" /\ data_size' = reply.data_size
        /\ forms' = forms \ {curl} /\ handles' = handles \ {curl}
        /\ UNCHANGED <<curl, reply, bytes, answer, failed>>
    BY <1>6 DEF Httpc!Succeed, Httpc!Respond
  <2>2. Buffered' /\ Httpc!ReplyIsOwn'
    BY <1>0, <2>1
  <2>3. curl \notin failed.requests \cup failed.forms
    BY <1>0, <2>1
  <2> QED BY <1>0, <2>1, <2>2, <2>3
<1>7. ASSUME Httpc!Fail PROVE HttpInv'
  <2>1. /\ method # "none" /\ method' = "none"
        /\ failed' = [requests |-> failed.requests \cup {curl},
                      forms |-> IF method = "multipart" THEN failed.forms \cup {curl}
                                ELSE failed.forms]
        /\ UNCHANGED <<curl, handles, forms, reply, bytes, answer, data_size, succeeded>>
    BY <1>7 DEF Httpc!Fail
  <2>2. Buffered' /\ Httpc!ReplyIsOwn'
    BY <1>0, <2>1
  <2>3. Before'
    BY <1>0, <2>1
  <2>4. Httpc!HandlesAccounted'
    BY <1>0, <2>1
  <2> QED BY <2>2, <2>3, <2>4
<1>8. ASSUME Httpc!Recreate PROVE HttpInv'
  BY <1>0, <1>8 DEF Httpc!Recreate, Httpc!Ready, Httpc!BufInit
<1>9. CASE UNCHANGED Httpc!vars
  BY <1>1, <1>9 DEF Httpc!vars
<1> HIDE DEF HttpInv
<1> QED BY <1>2, <1>3, <1>4, <1>5, <1>6, <1>7, <1>8, <1>9 DEF Httpc!Next

LEMMA HttpSafe ==
  ASSUME HttpInv
  PROVE  ReplyIsOwn /\ Httpc!HandlesAccounted
  BY DEF HttpInv, ReplyIsOwn

----------------------------------------------------------------------------
(* The ring *)

Content == Records \cup {NoRecord} \cup Nat
Place(o) == Around(tail_ptr + o, num_max)

\* The queued records are the last ones added, from the tail on; a slot that is being
\* filled is the one behind them.
RingInv ==
  /\ num_used \in 0 .. num_max /\ head_ptr \in Slots /\ tail_ptr \in Slots
  /\ rawdata \in [Slots -> Content]
  /\ added \in Seq(Content) /\ num_used <= Len(added) /\ Len(added) <= num_max
  /\ head_ptr = Place(num_used)
  /\ slot # Null => slot = head_ptr /\ num_used < num_max
  /\ \A o \in 0 .. num_used - 1 : rawdata[Place(o)] = added[Len(added) - num_used + 1 + o]

\* A step of the ring, whoever takes it and whatever the record.
RingStep == \/ GetNew \/ Add
            \/ \E r \in Content : Fill(r)
            \/ \E n \in Nat : Delete(n)
            \/ UNCHANGED vars

LEMMA RingStarts == Init => RingInv
<1> SUFFICES ASSUME Init PROVE RingInv
  OBVIOUS
<1>1. <<>> \in Seq(Content) /\ Len(<<>>) = 0
  OBVIOUS
<1> QED BY <1>1, RingAssumption DEF Init, RingInv, Slots, Content, Place, Around, Null

\* No two offsets share a slot.
LEMMA PlacesDiffer ==
  ASSUME RingInv, NEW o \in 0 .. num_max - 1
  PROVE  /\ Place(o) \in Slots
         /\ \A q \in 0 .. num_max - 1 : Place(o) = Place(q) => o = q
  BY RingAssumption DEF RingInv, Place, Around, Slots

\* Sequence q is a with x behind it, without its first element if it would be too long.
Grown(q, a, x, S) ==
  /\ q \in Seq(S) /\ Len(q) = IF Len(a) < num_max THEN Len(a) + 1 ELSE num_max
  /\ q[Len(q)] = x
  /\ \A k \in 1 .. Len(q) - 1 : q[Len(q) - k] = a[Len(a) - k + 1]

LEMMA LastOfGrows ==
  ASSUME NEW S, NEW a \in Seq(S), Len(a) <= num_max, NEW x \in S
  PROVE  Grown(LastOf(Append(a, x)), a, x, S)
<1>0. num_max \in Nat \ {0} /\ Len(a) \in Nat
  BY RingAssumption, LenProperties
<1>1. PICK b : b = Append(a, x)
  OBVIOUS
<1>2. /\ b \in Seq(S) /\ Len(b) = Len(a) + 1 /\ b[Len(a) + 1] = x
      /\ \A i \in 1 .. Len(a) : b[i] = a[i]
  <2>1. /\ Append(a, x) \in Seq(S) /\ Len(Append(a, x)) = Len(a) + 1
        /\ \A i \in 1 .. Len(a) : Append(a, x)[i] = a[i]
        /\ Append(a, x)[Len(a) + 1] = x
    BY AppendProperties
  <2> QED BY <1>1, <2>1
<1>3. CASE Len(a) < num_max
  <2>1. LastOf(b) = b
    BY <1>0, <1>2, <1>3 DEF LastOf
  <2>2. Grown(b, a, x, S)
    BY <1>0, <1>2, <1>3 DEF Grown
  <2> QED BY <1>1, <2>1, <2>2
<1>4. CASE ~(Len(a) < num_max)
  <2>1. PICK c : c = Tail(b)
    OBVIOUS
  <2>2. b # <<>>
    BY <1>0, <1>2
  <2>3. c \in Seq(S) /\ Len(c) = Len(a) /\ \A i \in 1 .. Len(a) : c[i] = b[i + 1]
    BY <1>0, <1>2, <2>1, <2>2, HeadTailProperties
  <2>4. LastOf(b) = c
    BY <1>0, <1>2, <1>4, <2>1 DEF LastOf
  <2>5. Grown(c, a, x, S)
    BY <1>0, <1>2, <1>4, <2>3 DEF Grown
  <2> QED BY <1>1, <2>4, <2>5
<1> QED BY <1>3, <1>4

LEMMA RingNext == RingInv /\ RingStep => RingInv'
<1> SUFFICES ASSUME RingInv, RingStep PROVE RingInv'
  OBVIOUS
<1>0. /\ num_used \in 0 .. num_max /\ head_ptr \in 0 .. num_max - 1 /\ tail_ptr \in 0 .. num_max - 1
      /\ rawdata \in [Slots -> Content] /\ num_max \in Nat \ {0} /\ Len(added) \in Nat
      /\ added \in Seq(Content)
  BY RingAssumption, LenProperties DEF RingInv, Slots
<1>1. ASSUME NEW n \in 1 .. num_used, Deleted(n), UNCHANGED <<head_ptr, rawdata, added>>,
             slot' = slot \/ slot' = head_ptr
      PROVE  RingInv'
  <2>1. PICK e : e = Around(tail_ptr + n, num_max)
    OBVIOUS
  <2>2. tail_ptr' = e /\ num_used' = num_used - n
    <3>1. PICK i \in Nat : i = tail_ptr + n /\ i <= 2 * num_max - 1
      BY <1>0
    <3>2. i % num_max = Around(i, num_max)
      BY <1>0, <3>1, AroundIs
    <3> QED BY <1>1, <2>1, <3>1, <3>2 DEF Deleted
  <2>3. e \in 0 .. num_max - 1 /\ num_used' \in 0 .. num_max - 1
    BY <1>0, <2>1, <2>2 DEF Around
  <2>4. \A o \in 0 .. num_used - n : Around(e + o, num_max) = Around(tail_ptr + (o + n), num_max)
    BY <1>0, <2>1 DEF Around
  <2>5. head_ptr' = Place(num_used)'
    <3>1. head_ptr' = head_ptr /\ head_ptr = Around(tail_ptr + num_used, num_max)
      BY <1>1 DEF RingInv, Place
    <3>2. PICK k \in 0 .. num_used - n : num_used' = k /\ k + n = num_used
      BY <1>0, <2>2
    <3>3. Around(e + k, num_max) = Around(tail_ptr + num_used, num_max)
      BY ONLY <2>4, <3>2
    <3> QED BY <2>2, <3>1, <3>2, <3>3 DEF Place
  <2>6. ASSUME NEW o \in 0 .. num_used' - 1
        PROVE  rawdata'[Around(e + o, num_max)] = added'[Len(added') - num_used' + 1 + o]
    <3>1. PICK q \in 0 .. num_used - 1 : q = o + n
      BY <1>0, <2>2
    <3>2. rawdata[Around(tail_ptr + q, num_max)] = added[Len(added) - num_used + 1 + q]
      BY DEF RingInv, Place
    <3>3. Around(e + o, num_max) = Around(tail_ptr + q, num_max)
      BY <1>0, <2>2, <2>4, <3>1
    <3>4. Len(added) - num_used' + 1 + o = Len(added) - num_used + 1 + q
      BY <1>0, <2>2, <3>1
    <3> QED BY <1>1, <3>2, <3>3, <3>4
  <2>7. slot' # Null => slot' = head_ptr' /\ num_used' < num_max
    BY <1>0, <1>1, <2>3 DEF RingInv
  <2> QED BY <1>0, <1>1, <2>2, <2>3, <2>5, <2>6, <2>7 DEF RingInv, Place, Slots
<1>2. CASE GetNew
  <2>1. CASE num_used < num_max /\ UNCHANGED <<num_used, tail_ptr>>
    BY <1>0, <1>2, <2>1 DEF GetNew, RingInv, Place
  <2>2. CASE num_used >= num_max /\ Deleted(1)
    <3>1. 1 \in 1 .. num_used
      BY <1>0, <2>2
    <3> QED BY <1>1, <1>2, <2>2, <3>1 DEF GetNew
  <2> QED BY <1>2, <2>1, <2>2 DEF GetNew
<1>3. ASSUME NEW n \in Nat, Delete(n) PROVE RingInv'
  <2>1. n \in 1 .. num_used
    BY <1>0, <1>3 DEF Delete
  <2> QED BY <1>1, <1>3, <2>1 DEF Delete
<1>4. ASSUME NEW r \in Content, Fill(r) PROVE RingInv'
  <2>1. /\ slot = Place(num_used) /\ num_used \in 0 .. num_max - 1
        /\ rawdata' = [rawdata EXCEPT ![slot] = r]
        /\ UNCHANGED <<num_used, head_ptr, tail_ptr, slot, added>>
    BY <1>0, <1>4 DEF Fill, RingInv, pointers
  <2>2. ASSUME NEW o \in 0 .. num_used - 1 PROVE rawdata'[Place(o)] = rawdata[Place(o)]
    <3>1. o \in 0 .. num_max - 1 /\ o # num_used
      BY <1>0
    <3>2. Place(o) \in Slots /\ Place(o) # slot
      BY <2>1, <3>1, PlacesDiffer
    <3> QED BY <1>0, <2>1, <3>2
  <2>3. rawdata' \in [Slots -> Content]
    BY <1>0, <2>1
  <2>4. \A o \in 0 .. num_used - 1 : rawdata'[Place(o)] = added[Len(added) - num_used + 1 + o]
    BY <2>2 DEF RingInv
  <2> QED BY <2>1, <2>3, <2>4 DEF RingInv, Place
<1>5. CASE Add
  <2>1. /\ slot = head_ptr /\ num_used < num_max /\ num_used' = num_used + 1
        /\ added' = LastOf(Append(added, rawdata[head_ptr])) /\ slot' = Null
        /\ UNCHANGED <<tail_ptr, rawdata>>
    BY <1>5 DEF Add, RingInv
  <2>2. head_ptr' = Around(head_ptr + 1, num_max) /\ head_ptr' \in Slots
    <3>1. PICK i \in Nat : i = head_ptr + 1 /\ i <= 2 * num_max - 1
      BY <1>0
    <3>2. i % num_max = Around(i, num_max) /\ Around(i, num_max) \in 0 .. num_max - 1
      BY <1>0, <3>1, AroundIs
    <3> QED BY <1>5, <3>1, <3>2 DEF Add, Slots
  <2>3. PICK x : x = rawdata[head_ptr]
    OBVIOUS
  <2>4. Grown(LastOf(Append(added, x)), added, x, Content)
    <3>1. x \in Content /\ added \in Seq(Content) /\ Len(added) <= num_max
      BY <1>0, <2>3 DEF RingInv, Slots
    <3> QED BY <3>1, LastOfGrows, Zenon
  <2>5. /\ added' \in Seq(Content)
        /\ Len(added') = IF Len(added) < num_max THEN Len(added) + 1 ELSE num_max
        /\ added'[Len(added')] = x
        /\ \A k \in 1 .. Len(added') - 1 : added'[Len(added') - k] = added[Len(added) - k + 1]
    BY <2>1, <2>3, <2>4 DEF Grown
  <2>6. num_used' <= Len(added') /\ Len(added') <= num_max /\ Len(added') \in Nat
    BY <1>0, <2>1, <2>5 DEF RingInv
  <2>7. head_ptr' = Place(num_used)' /\ head_ptr = Place(num_used)
    BY <1>0, <2>1, <2>2 DEF RingInv, Place, Around
  <2>8. ASSUME NEW o \in 0 .. num_used' - 1
        PROVE  rawdata'[Place(o)] = added'[Len(added') - num_used' + 1 + o]
    <3>1. CASE o = num_used
      BY <1>0, <2>1, <2>3, <2>5, <2>6, <2>7, <3>1, SMTT(60)
    <3>2. CASE o # num_used
      <4>1. o \in 0 .. num_used - 1
        BY <1>0, <2>1, <3>2
      <4>2. PICK k \in 1 .. Len(added') - 1 : k = num_used - o
        BY <1>0, <2>1, <2>6, <4>1
      <4>3. added'[Len(added') - k] = added[Len(added) - k + 1]
        BY <2>5
      <4>4. rawdata[Place(o)] = added[Len(added) - num_used + 1 + o]
        BY <4>1 DEF RingInv
      <4>5. /\ Len(added') - k = Len(added') - num_used' + 1 + o
            /\ Len(added) - k + 1 = Len(added) - num_used + 1 + o
        BY <1>0, <2>1, <2>6, <4>1, <4>2
      <4> QED BY <2>1, <4>3, <4>4, <4>5
    <3> QED BY <3>1, <3>2
  <2> QED BY <1>0, <2>1, <2>2, <2>5, <2>6, <2>7, <2>8 DEF RingInv, Place
<1>6. CASE UNCHANGED vars
  BY <1>6 DEF vars, pointers, RingInv, Place
<1> QED BY <1>2, <1>3, <1>4, <1>5, <1>6 DEF RingStep

\* The slot of an offset from the oldest record.
LEMMA TailPlaces ==
  ASSUME RingInv, NEW o \in 0 .. num_used - 1
  PROVE  TailSlot(o) = Place(o)
<1>0. num_max \in Nat \ {0} /\ num_used \in 0 .. num_max /\ tail_ptr \in 0 .. num_max - 1
  BY RingAssumption DEF RingInv, Slots
<1>1. PICK i \in Nat : i = tail_ptr + o /\ i <= 2 * num_max - 1
  BY <1>0
<1>2. i % num_max = Around(i, num_max)
  BY <1>0, <1>1, AroundIs
<1> QED BY <1>0, <1>1, <1>2 DEF TailSlot, Place

LEMMA RingReadOldest ==
  ASSUME RingInv
  PROVE  OldestFirst
<1> SUFFICES ASSUME NEW o \in 0 .. num_used - 1
             PROVE  /\ rawdata[TailSlot(o)] = added[Len(added) - num_used + 1 + o]
                    /\ TailSlot(o) # slot
  BY DEF OldestFirst
<1>0. num_max \in Nat \ {0} /\ num_used \in 0 .. num_max
  BY RingAssumption DEF RingInv
<1>1. TailSlot(o) = Place(o)
  BY TailPlaces
<1>2. Place(o) \in Slots /\ Place(o) # Null
  <2>1. o \in 0 .. num_max - 1
    BY <1>0
  <2> QED BY <1>0, <2>1, PlacesDiffer DEF Slots, Null
<1>3. slot # Null => Place(o) # slot
  <2>1. o \in 0 .. num_max - 1 /\ o # num_used
    BY <1>0
  <2>2. slot # Null => num_used \in 0 .. num_max - 1 /\ slot = Place(num_used)
    BY <1>0 DEF RingInv
  <2> QED BY <2>1, <2>2, PlacesDiffer
<1> QED BY <1>1, <1>2, <1>3 DEF RingInv

\* em_ring_get_dataptr_head finds the newest records when the word's size is a multiple
\* of the ring's.
LEMMA RingReadNewest ==
  ASSUME RingInv, Word % num_max = 0
  PROVE  NewestFirst
<1> SUFFICES ASSUME NEW o \in 0 .. num_used - 1
             PROVE  rawdata[HeadSlot(o)] = added[Len(added) - o]
  BY DEF NewestFirst
<1>0. /\ num_max \in Nat \ {0} /\ num_used \in 0 .. num_max /\ Word \in Nat
      /\ head_ptr \in 0 .. num_max - 1 /\ tail_ptr \in 0 .. num_max - 1 /\ Len(added) \in Nat
  BY RingAssumption, LenProperties DEF RingInv, Slots
<1>1. PICK q \in 0 .. num_used - 1 : q = num_used - 1 - o
  BY <1>0
<1>2. PICK i \in Int : i = head_ptr - 1 - o
  BY <1>0
<1>3. HeadSlot(o) = IF i < 0 THEN (Word + i) % num_max ELSE i
  BY <1>0, <1>2 DEF HeadSlot
<1>4. HeadSlot(o) = Place(q)
  <2>1. head_ptr = Around(tail_ptr + num_used, num_max)
    BY DEF RingInv, Place
  <2>2. CASE i < 0
    <3>1. i \in -num_max .. -1
      BY <1>0, <1>2, <2>2
    <3>2. (Word + i) % num_max = num_max + i
      BY <1>0, <3>1, WrappedBelow
    <3> QED BY <1>0, <1>1, <1>2, <1>3, <2>1, <2>2, <3>2 DEF Place, Around
  <2>3. CASE ~(i < 0)
    BY <1>0, <1>1, <1>2, <1>3, <2>1, <2>3 DEF Place, Around
  <2> QED BY <2>2, <2>3
<1>5. rawdata[Place(q)] = added[Len(added) - num_used + 1 + q]
  BY DEF RingInv
<1>6. Len(added) - num_used + 1 + q = Len(added) - o
  BY <1>0, <1>1
<1> QED BY <1>4, <1>5, <1>6

----------------------------------------------------------------------------
(* The upload *)

\* Records are numbered; Newest is the last one added.  The record in the slot that is
\* being filled is the next one, once em_uldata_init has made it.
Newest == IF slot # Null /\ collector # "fill" THEN made - 1 ELSE made
Oldest == Newest - num_used + 1
UploadBuf == [data : BOOLEAN, data_size : Nat, buf_capacity : {uldata_buf_capacity}]

UploadTypes ==
  /\ override_mode = "error" /\ num_sendbuf = num_used
  /\ buf \in [Slots -> UploadBuf]
  /\ made \in Nat /\ collector \in {"idle", "slot", "fill", "none"}
  /\ sender \in {"idle", "posting", "dispose", "none"}
  /\ collector = "slot" => slot = Null
  /\ collector \in {"fill", "idle"} => slot # Null
  /\ slot # Null /\ collector # "fill" => made >= 1 /\ rawdata[slot] = made

\* The queue holds the last records added, and those before it have been sent or are
\* known to be lost.
InOrder == /\ num_used <= Newest
           /\ \A o \in 0 .. num_used - 1 : rawdata[Place(o)] = Oldest + o
           /\ \A r \in 1 .. Oldest - 1 : r \in accepted \cup late

\* A request carries queued records from the oldest on, and sendbuf still points to
\* them; what was added since is pending.
Carried ==
  /\ \A i \in DOMAIN parts :
       /\ i \in 1 .. num_used /\ 1 .. i \subseteq DOMAIN parts
       /\ parts[i] = Oldest + i - 1 /\ sendbuf[i - 1] = Place(i - 1)
  /\ sender \in {"posting", "dispose"} =>
       \A i \in 1 .. num_used : i \in DOMAIN parts \/ Oldest + i - 1 \in pending
  /\ sender = "dispose" => \A i \in DOMAIN parts : parts[i] \in accepted

Waits(s) == \E o \in 0 .. num_used - 1 : s = Place(o)
Allocated == late = {} /\ collector # "none" =>
  \A s \in Slots : buf[s].data <=> (Waits(s) \/ (collector = "idle" /\ s = slot))

UploadInv == RingInv /\ UploadTypes /\ InOrder /\ Carried /\ Allocated

LEMMA UploadStarts == Init /\ Created /\ override_mode = "error" => UploadInv
<1> SUFFICES ASSUME Init, Created, override_mode = "error" PROVE UploadInv
  OBVIOUS
<1>1. RingInv
  BY RingStarts
<1>2. BufDestroy(BufInit(uldata_buf_capacity)) \in UploadBuf
      /\ ~BufDestroy(BufInit(uldata_buf_capacity)).data
  BY DEF BufDestroy, BufInit, UploadBuf
<1>3. UploadTypes
  BY <1>2 DEF UploadTypes, Init, Created
<1>4. InOrder /\ Carried
  BY DEF InOrder, Carried, Newest, Oldest, Init, Created
<1>5. Allocated
  BY <1>2 DEF Allocated, Waits, Init, Created
<1> QED BY <1>1, <1>3, <1>4, <1>5 DEF UploadInv

\* What the steps of the upload do to the buffers.
LEMMA BuffersOf ==
  ASSUME NEW b \in UploadBuf, NEW n \in Nat
  PROVE  /\ BufAppend(b, n) \in UploadBuf /\ (BufAppend(b, n).data <=> b.data)
         /\ BufDestroy(b) \in UploadBuf /\ ~BufDestroy(b).data
         /\ BufInit(uldata_buf_capacity) \in UploadBuf /\ BufInit(uldata_buf_capacity).data
<1>1. /\ [b EXCEPT !.data_size = @ + n] \in UploadBuf
      /\ [b EXCEPT !.data_size = @ + n].data = b.data
  BY DEF UploadBuf
<1>2. BufAppend(b, n) \in UploadBuf /\ (BufAppend(b, n).data <=> b.data)
  BY <1>1 DEF BufAppend
<1>3. BufDestroy(b) \in UploadBuf /\ ~BufDestroy(b).data
  BY DEF BufDestroy, UploadBuf
<1>4. BufInit(uldata_buf_capacity) \in UploadBuf /\ BufInit(uldata_buf_capacity).data
  BY DEF BufInit, UploadBuf
<1> QED BY <1>2, <1>3, <1>4

\* Steps that leave the ring alone.
LEMMA UploadRests ==
  ASSUME UploadInv, UNCHANGED <<vars, num_sendbuf, made, sendbuf>>,
         buf' \in [Slots -> UploadBuf],
         collector' = collector \/ (collector' = "none" /\ collector # "fill"),
         sender' \in {"idle", "posting", "dispose", "none"},
         accepted \cup late \subseteq accepted' \cup late',
         late' = {} /\ collector' # "none" =>
           late = {} /\ \A s \in Slots : buf'[s].data <=> buf[s].data,
         parts' = <<>> \/ parts' = parts,
         sender' \in {"posting", "dispose"} =>
           sender \in {"posting", "dispose"} /\ parts' = parts /\ pending' = pending,
         sender' = "dispose" => \A i \in DOMAIN parts : parts[i] \in accepted'
  PROVE  UploadInv'
<1>0. /\ RingInv /\ UploadTypes /\ InOrder /\ Carried /\ Allocated
      /\ UNCHANGED <<num_used, head_ptr, tail_ptr, override_mode, rawdata, slot, added>>
  BY DEF UploadInv, vars, pointers
<1>1. RingInv'
  BY <1>0, RingNext DEF RingStep
<1>2. Newest' = Newest /\ Oldest' = Oldest
  BY <1>0 DEF Newest, Oldest, UploadTypes
<1>3. \A o : Place(o)' = Place(o)
  BY <1>0 DEF Place
<1>4. UploadTypes'
  BY <1>0 DEF UploadTypes
<1>5. InOrder'
  BY <1>0, <1>2, <1>3 DEF InOrder
<1>6. Carried'
  <2>1. CASE parts' = <<>>
    BY <1>0, <1>2, <1>3, <2>1 DEF Carried
  <2>2. CASE parts' = parts
    BY <1>0, <1>2, <1>3, <2>2 DEF Carried
  <2> QED BY <2>1, <2>2
<1>7. \A s : Waits(s)' <=> Waits(s)
  BY <1>0 DEF Waits, Place
<1>8. Allocated'
  BY <1>0, <1>7 DEF Allocated
<1> QED BY <1>1, <1>4, <1>5, <1>6, <1>8 DEF UploadInv

\* A record that is added is queued behind the others, its slot no longer being filled.
LEMMA AddKeeps == UploadInv /\ AddUldata => UploadInv'
<1> SUFFICES ASSUME UploadInv, AddUldata PROVE UploadInv'
  OBVIOUS
<1>0. /\ RingInv /\ UploadTypes /\ InOrder /\ Carried /\ Allocated
      /\ num_used \in 0 .. num_max /\ num_max \in Nat \ {0} /\ made \in Nat
  BY RingAssumption DEF UploadInv, RingInv, UploadTypes
<1>1. /\ collector = "idle" /\ slot # Null /\ collector' = "slot" /\ slot' = Null
      /\ sender # "none"
      /\ num_used' = num_used + 1 /\ num_used < num_max /\ num_sendbuf' = num_sendbuf + 1
      /\ UNCHANGED <<tail_ptr, override_mode, rawdata, sendbuf, buf, made, sender, parts,
                     accepted, late>>
      /\ pending' = IF sender # "idle" THEN pending \cup {rawdata[slot]} ELSE pending
  BY <1>0 DEF AddUldata, Add, Free, Over, UploadTypes
<1>2. RingInv'
  <2>1. Add
    BY DEF AddUldata
  <2> QED BY <1>0, <2>1, RingNext DEF RingStep
<1>3. /\ Newest = made - 1 /\ Newest' = made /\ made >= 1 /\ Newest \in Nat /\ Oldest \in Int
      /\ Oldest' = Oldest /\ rawdata[slot] = made /\ slot = Place(num_used)
  BY <1>0, <1>1 DEF Newest, Oldest, UploadTypes, RingInv
<1>4. \A o : Place(o)' = Place(o)
  BY <1>1 DEF Place
<1>5. UploadTypes'
  BY <1>0, <1>1 DEF UploadTypes
<1>6. InOrder'
  <2>1. ASSUME NEW o \in 0 .. num_used' - 1 PROVE rawdata'[Place(o)'] = Oldest' + o
    <3>1. CASE o = num_used
      BY <1>0, <1>1, <1>3, <1>4, <3>1 DEF Oldest
    <3>2. CASE o # num_used
      <4>1. o \in 0 .. num_used - 1
        BY <1>0, <1>1, <3>2
      <4> QED BY <1>0, <1>1, <1>3, <1>4, <4>1 DEF InOrder
    <3> QED BY <3>1, <3>2
  <2> QED BY <1>0, <1>1, <1>3, <2>1 DEF InOrder
<1>7. Carried'
  <2>1. ASSUME NEW i \in 1 .. num_used', sender \in {"posting", "dispose"}
        PROVE  i \in DOMAIN parts' \/ Oldest' + i - 1 \in pending'
    <3>1. CASE i = num_used + 1
      BY <1>0, <1>1, <1>3, <2>1, <3>1 DEF Oldest
    <3>2. CASE i # num_used + 1
      <4>1. i \in 1 .. num_used
        BY <1>0, <1>1, <3>2
      <4> QED BY <1>0, <1>1, <1>3, <2>1, <4>1 DEF Carried
    <3> QED BY <3>1, <3>2
  <2>2. ASSUME NEW i \in DOMAIN parts' PROVE i \in 1 .. num_used'
    BY <1>0, <1>1 DEF Carried
  <2> QED BY <1>0, <1>1, <1>3, <1>4, <2>1, <2>2 DEF Carried
<1>8. Allocated'
  <2>1. ASSUME NEW s PROVE Waits(s)' <=> Waits(s) \/ s = slot
    <3>1. 0 .. num_used' - 1 = (0 .. num_used - 1) \cup {num_used}
      BY <1>0, <1>1
    <3> QED BY <1>3, <1>4, <3>1 DEF Waits
  <2> QED BY <1>0, <1>1, <2>1 DEF Allocated
<1> QED BY <1>2, <1>5, <1>6, <1>7, <1>8 DEF UploadInv

\* The next slot, and the next record in it.
LEMMA SlotKeeps == UploadInv /\ NewSlot => UploadInv'
<1> SUFFICES ASSUME UploadInv, NewSlot PROVE UploadInv'
  OBVIOUS
<1>0. /\ RingInv /\ UploadTypes /\ InOrder /\ Carried /\ Allocated
  BY DEF UploadInv
<1>1. /\ collector = "slot" /\ slot = Null /\ collector' = "fill" /\ slot' = head_ptr
      /\ UNCHANGED <<num_used, tail_ptr, head_ptr, override_mode, rawdata, num_sendbuf, sendbuf, buf,
                     made, sender, parts, accepted, late, pending>>
  BY <1>0 DEF NewSlot, GetNew, UploadTypes, memory, requests
<1>2. RingInv'
  <2>1. GetNew
    BY DEF NewSlot
  <2> QED BY <1>0, <2>1, RingNext DEF RingStep
<1>3. Newest' = Newest /\ Oldest' = Oldest /\ slot' # Null
  BY <1>0, <1>1 DEF Newest, Oldest, RingInv, Null, Slots
<1>4. \A o : Place(o)' = Place(o)
  BY <1>1 DEF Place
<1>5. UploadTypes'
  BY <1>0, <1>1, <1>3 DEF UploadTypes
<1>6. InOrder' /\ Carried'
  BY <1>0, <1>1, <1>3, <1>4 DEF InOrder, Carried
<1>7. \A s : Waits(s)' <=> Waits(s)
  BY <1>1 DEF Waits, Place
<1>8. Allocated'
  BY <1>0, <1>1, <1>7 DEF Allocated
<1> QED BY <1>2, <1>5, <1>6, <1>8 DEF UploadInv

LEMMA InitKeeps == UploadInv /\ InitUldata => UploadInv'
<1> SUFFICES ASSUME UploadInv, InitUldata PROVE UploadInv'
  OBVIOUS
<1>0. /\ RingInv /\ UploadTypes /\ InOrder /\ Carried /\ Allocated
      /\ num_used \in 0 .. num_max /\ num_max \in Nat \ {0} /\ made \in Nat
      /\ rawdata \in [Slots -> Content] /\ head_ptr \in Slots
  BY RingAssumption DEF UploadInv, RingInv, UploadTypes
<1>1. /\ collector = "fill" /\ slot # Null /\ collector' = "idle"
      /\ rawdata' = [rawdata EXCEPT ![slot] = made + 1] /\ made' = made + 1
      /\ buf' = [buf EXCEPT ![slot] = BufInit(uldata_buf_capacity)]
      /\ UNCHANGED <<slot, num_used, tail_ptr, head_ptr, override_mode, num_sendbuf, sendbuf,
                     sender, parts, accepted, late, pending>>
  BY <1>0 DEF InitUldata, Fill, UploadTypes, requests, pointers
<1>2. RingInv'
  <2>1. Fill(made + 1) /\ made + 1 \in Content
    BY <1>0 DEF InitUldata, Content
  <2> QED BY <1>0, <2>1, RingNext DEF RingStep
<1>3. /\ Newest = made /\ Newest' = made /\ Oldest' = Oldest
      /\ slot = Place(num_used) /\ slot \in Slots /\ num_used < num_max
  BY <1>0, <1>1 DEF Newest, Oldest, RingInv
<1>4. \A o : Place(o)' = Place(o)
  BY <1>1 DEF Place
<1>5. ASSUME NEW o \in 0 .. num_used - 1 PROVE Place(o) \in Slots /\ Place(o) # slot
  <2>1. o \in 0 .. num_max - 1 /\ num_used \in 0 .. num_max - 1 /\ o # num_used
    BY <1>0, <1>3
  <2> QED BY <1>0, <1>3, <2>1, PlacesDiffer
<1>6. UploadTypes'
  <2>1. BufInit(uldata_buf_capacity) \in UploadBuf
    BY DEF BufInit, UploadBuf
  <2>2. buf' \in [Slots -> UploadBuf]
    BY <1>0, <1>1, <1>3, <2>1 DEF UploadTypes
  <2>3. rawdata'[slot] = made + 1
    BY <1>0, <1>1, <1>3
  <2> QED BY <1>0, <1>1, <2>2, <2>3 DEF UploadTypes
<1>7. InOrder'
  <2>1. \A o \in 0 .. num_used - 1 : rawdata'[Place(o)] = rawdata[Place(o)]
    BY <1>0, <1>1, <1>5
  <2> QED BY <1>0, <1>1, <1>3, <1>4, <2>1 DEF InOrder
<1>8. Carried'
  BY <1>0, <1>1, <1>3, <1>4 DEF Carried
<1>9. Allocated'
  <2>1. \A s : Waits(s)' <=> Waits(s)
    BY <1>1 DEF Waits, Place
  <2>2. BufInit(uldata_buf_capacity).data = TRUE
    BY DEF BufInit
  <2>3. /\ buf'[slot].data
        /\ \A s \in Slots \ {slot} : buf'[s] = buf[s]
    BY <1>0, <1>1, <1>3, <2>2 DEF UploadTypes
  <2> QED BY <1>0, <1>1, <2>1, <2>3 DEF Allocated
<1> QED BY <1>2, <1>6, <1>7, <1>8, <1>9 DEF UploadInv

\* A request is made of all that is queued, the oldest first.
LEMMA CollectKeeps == UploadInv /\ Collect => UploadInv'
<1> SUFFICES ASSUME UploadInv, Collect PROVE UploadInv'
  OBVIOUS
<1>0. /\ RingInv /\ UploadTypes /\ InOrder /\ Carried /\ Allocated
      /\ num_used \in 0 .. num_max /\ num_max \in Nat \ {0} /\ num_sendbuf = num_used
  BY RingAssumption DEF UploadInv, RingInv, UploadTypes
<1>1. /\ UNCHANGED vars /\ UNCHANGED <<num_sendbuf, buf, collector, made, accepted, late>>
      /\ sender' = "posting"
      /\ sendbuf' = [i \in Slots |-> IF i < num_used THEN TailSlot(i) ELSE sendbuf[i]]
      /\ parts' = [i \in 1 .. num_used |-> rawdata[sendbuf'[i - 1]]]
  BY <1>0 DEF Collect
<1>2. RingInv'
  BY <1>0, <1>1, RingNext DEF RingStep
<1>3. UNCHANGED <<num_used, head_ptr, tail_ptr, override_mode, rawdata, slot>>
  BY <1>1 DEF vars, pointers
<1>4. Newest' = Newest /\ Oldest' = Oldest /\ \A o : Place(o)' = Place(o)
  BY <1>1, <1>3 DEF Newest, Oldest, Place
<1>5. UploadTypes' /\ InOrder'
  BY <1>0, <1>1, <1>3, <1>4 DEF UploadTypes, InOrder
<1>6. ASSUME NEW i \in 1 .. num_used
      PROVE  sendbuf'[i - 1] = Place(i - 1) /\ parts'[i] = Oldest + i - 1
  <2>1. PICK o \in 0 .. num_used - 1 : o = i - 1
    BY <1>0
  <2>2. o \in Slots /\ o < num_used
    BY <1>0, <2>1 DEF Slots
  <2>3. sendbuf'[o] = Place(o)
    BY <1>0, <1>1, <2>2, TailPlaces
  <2>4. rawdata[Place(o)] = Oldest + o
    BY <1>0 DEF InOrder
  <2>5. Oldest + o = Oldest + i - 1
    BY <1>0, <2>1 DEF Oldest, Newest, UploadTypes
  <2> QED BY <1>1, <2>1, <2>3, <2>4, <2>5
<1>7. Carried'
  <2>1. DOMAIN parts' = 1 .. num_used
    BY <1>1
  <2>2. \A i \in 1 .. num_used : 1 .. i \subseteq 1 .. num_used
    BY <1>0
  <2> QED BY <1>1, <1>3, <1>4, <1>6, <2>1, <2>2 DEF Carried
<1>8. Allocated'
  <2>1. \A s : Waits(s)' <=> Waits(s)
    BY <1>3 DEF Waits, Place
  <2> QED BY <1>0, <1>1, <1>3, <2>1 DEF Allocated
<1> QED BY <1>2, <1>5, <1>7, <1>8 DEF UploadInv

\* When a request has succeeded the queue is emptied: what it carried has been sent, the
\* rest is lost, and only if there is none are the buffers given up exactly those queued.
LEMMA DisposeKeeps == UploadInv /\ Dispose => UploadInv'
<1> SUFFICES ASSUME UploadInv, Dispose PROVE UploadInv'
  OBVIOUS
<1>0. /\ RingInv /\ UploadTypes /\ InOrder /\ Carried /\ Allocated
      /\ num_used \in 0 .. num_max /\ num_max \in Nat \ {0} /\ num_sendbuf = num_used
      /\ made \in Nat
  BY RingAssumption DEF UploadInv, RingInv, UploadTypes
<1>1. /\ collector = "idle" /\ slot # Null /\ sender = "dispose"
      /\ num_sendbuf' = 0 /\ late' = late \cup pending /\ sender' = "idle" /\ parts' = <<>>
      /\ buf' = [s \in Slots |-> IF s \in Disposed THEN BufDestroy(buf[s]) ELSE buf[s]]
      /\ UNCHANGED <<sendbuf, collector, made, accepted, pending>>
  BY <1>0 DEF Dispose, Free, UploadTypes
<1>2. RingInv' /\ num_used' = 0 /\ UNCHANGED <<head_ptr, override_mode, rawdata, slot>>
  <2>1. CASE num_used = 0
    <3>1. UNCHANGED vars
      BY <1>0, <2>1 DEF Dispose
    <3> QED BY <1>0, <2>1, <3>1, RingNext DEF RingStep, vars, pointers
  <2>2. CASE num_used # 0
    <3>1. Delete(num_used) /\ num_used \in Nat
      BY <1>0, <2>2 DEF Dispose
    <3>2. num_used' = 0 /\ UNCHANGED <<head_ptr, override_mode, rawdata, slot>>
      BY <1>0, <3>1 DEF Delete, Deleted
    <3> QED BY <1>0, <3>1, <3>2, RingNext DEF RingStep
  <2> QED BY <2>1, <2>2
<1>3. /\ Newest' = Newest /\ Oldest' = Newest + 1 /\ Newest \in Nat
      /\ Oldest = Newest - num_used + 1
  BY <1>0, <1>1, <1>2 DEF Newest, Oldest, UploadTypes
<1>4. UploadTypes'
  <2>1. \A s \in Slots : BufDestroy(buf[s]) \in UploadBuf
    BY <1>0, BuffersOf DEF UploadTypes
  <2>2. buf' \in [Slots -> UploadBuf]
    BY <1>0, <1>1, <2>1 DEF UploadTypes
  <2> QED BY <1>0, <1>1, <1>2, <2>2 DEF UploadTypes
<1>5. InOrder'
  <2>1. ASSUME NEW r \in 1 .. Newest PROVE r \in accepted \cup late'
    <3>1. CASE r < Oldest
      <4>1. r \in 1 .. Oldest - 1
        BY <1>3, <1>0, <3>1
      <4> QED BY <1>0, <1>1, <4>1 DEF InOrder
    <3>2. CASE ~(r < Oldest)
      <4>1. PICK i \in 1 .. num_used : r = Oldest + i - 1
        <5>1. r - Oldest + 1 \in 1 .. num_used
          BY <1>3, <1>0, <3>2
        <5>2. r = Oldest + (r - Oldest + 1) - 1
          BY <1>3, <1>0
        <5> QED BY <5>1, <5>2
      <4>2. CASE i \in DOMAIN parts
        BY <1>0, <1>1, <4>1, <4>2 DEF Carried
      <4>3. CASE i \notin DOMAIN parts
        BY <1>0, <1>1, <4>1, <4>3 DEF Carried
      <4> QED BY <4>2, <4>3
    <3> QED BY <3>1, <3>2
  <2> QED BY <1>1, <1>2, <1>3, <2>1 DEF InOrder
<1>6. Carried'
  BY <1>1, <1>2 DEF Carried
<1>7. ASSUME late' = {} PROVE \A s \in Slots : buf'[s].data <=> s = slot
  <2>1. late = {} /\ pending = {}
    BY <1>1, <1>7
  <2>2. \A i \in 1 .. num_used : sendbuf[i - 1] = Place(i - 1)
    BY <1>0, <1>1, <2>1 DEF Carried
  <2>3. ASSUME NEW s PROVE s \in Disposed <=> Waits(s)
    <3>1. ASSUME NEW o \in 0 .. num_used - 1 PROVE sendbuf[o] = Place(o)
      <4>1. o + 1 \in 1 .. num_used /\ (o + 1) - 1 = o
        BY <1>0
      <4> QED BY <2>2, <4>1
    <3> QED BY <1>0, <3>1 DEF Disposed, Waits
  <2>4. ~Waits(slot) /\ slot \in Slots
    <3>1. slot = Place(num_used) /\ num_used \in 0 .. num_max - 1
      BY <1>0, <1>1 DEF RingInv
    <3>2. \A o \in 0 .. num_used - 1 : o \in 0 .. num_max - 1 /\ o # num_used
      BY <1>0
    <3> QED BY <1>0, <3>1, <3>2, PlacesDiffer DEF Waits
  <2>5. ASSUME NEW s \in Slots PROVE buf'[s].data <=> s = slot
    <3>1. buf[s].data <=> (Waits(s) \/ s = slot)
      BY <1>0, <1>1, <2>1 DEF Allocated
    <3>2. buf[s] \in UploadBuf
      BY <1>0 DEF UploadTypes
    <3>3. ~BufDestroy(buf[s]).data
      BY <3>2, BuffersOf
    <3>4. CASE Waits(s)
      <4>1. buf'[s] = BufDestroy(buf[s])
        BY <1>1, <2>3, <3>4
      <4> QED BY <2>4, <3>3, <3>4, <4>1
    <3>5. CASE ~Waits(s)
      <4>1. buf'[s] = buf[s]
        BY <1>1, <2>3, <3>5
      <4> QED BY <3>1, <3>5, <4>1
    <3> QED BY <3>4, <3>5
  <2> QED BY <2>5
<1>8. Allocated'
  <2>1. \A s : ~Waits(s)'
    BY <1>2 DEF Waits
  <2> QED BY <1>1, <1>2, <1>7, <2>1 DEF Allocated
<1> QED BY <1>2, <1>4, <1>5, <1>6, <1>8 DEF UploadInv

LEMMA UploadNextKeeps == UploadInv /\ [UploadNext]_<<vars, upload>> => UploadInv'
<1> SUFFICES ASSUME UploadInv, [UploadNext]_<<vars, upload>> PROVE UploadInv'
  OBVIOUS
<1>0. /\ buf \in [Slots -> UploadBuf] /\ collector \in {"idle", "slot", "fill", "none"}
      /\ sender \in {"idle", "posting", "dispose", "none"}
      /\ collector \in {"fill", "idle"} => slot \in Slots
      /\ uldata_buf_capacity \in Nat
  BY TransferAssumption DEF UploadInv, UploadTypes, RingInv
<1>1. ASSUME NEW n \in Lengths, AppendBuf(n) PROVE UploadInv'
  <2>1. n \in Nat
    BY TransferAssumption
  <2>2. /\ slot \in Slots
        /\ buf' = [buf EXCEPT ![slot] = BufAppend(buf[slot], n)]
        /\ UNCHANGED <<vars, num_sendbuf, sendbuf, collector, made, requests>>
    BY <1>0, <1>1 DEF AppendBuf, Free
  <2>3. /\ BufAppend(buf[slot], n) \in UploadBuf
        /\ BufAppend(buf[slot], n).data <=> buf[slot].data
    BY <1>0, <2>1, <2>2, BuffersOf
  <2>4. /\ buf' \in [Slots -> UploadBuf]
        /\ \A s \in Slots : buf'[s].data <=> buf[s].data
    BY <1>0, <2>2, <2>3
  <2> QED BY <1>0, <2>2, <2>4, UploadRests DEF requests, UploadInv, Carried
<1>2. CASE NoSlot
  BY <1>0, <1>2, UploadRests DEF NoSlot, memory, requests, UploadInv, Carried
<1>3. CASE Posted
  <2>1. \A i \in DOMAIN parts : parts[i] \in accepted'
    BY <1>3 DEF Posted, Got
  <2> QED BY <1>0, <1>3, <2>1, UploadRests DEF Posted, memory
<1>4. CASE PostFails
  BY <1>0, <1>4, UploadRests DEF PostFails, memory
<1>5. CASE DisposeCrashes
  BY <1>0, <1>5, UploadRests DEF DisposeCrashes, memory
<1>6. CASE Destroy
  <2>1. slot \in Slots /\ buf' = [buf EXCEPT ![slot] = BufDestroy(buf[slot])]
    BY <1>0, <1>6 DEF Destroy, Free
  <2>2. BufDestroy(buf[slot]) \in UploadBuf
    BY <1>0, <2>1, BuffersOf
  <2>3. buf' \in [Slots -> UploadBuf]
    BY <1>0, <2>1, <2>2
  <2> QED BY <1>0, <1>6, <2>3, UploadRests DEF Destroy, Free, requests, UploadInv, Carried
<1>7. CASE UNCHANGED <<vars, upload>>
  BY <1>0, <1>7, UploadRests DEF upload, memory, requests, UploadInv, Carried
<1> QED BY <1>1, <1>2, <1>3, <1>4, <1>5, <1>6, <1>7, AddKeeps, SlotKeeps, InitKeeps, CollectKeeps,
           DisposeKeeps DEF UploadNext

\* What the upload promises.
LEMMA UploadSafe ==
  ASSUME UploadInv
  PROVE  SentOrQueued /\ BuffersAccounted
<1>0. /\ RingInv /\ UploadTypes /\ InOrder /\ Carried /\ Allocated
      /\ num_used \in 0 .. num_max /\ num_max \in Nat \ {0} /\ made \in Nat
      /\ Newest \in Int /\ Oldest = Newest - num_used + 1 /\ made - 1 <= Newest
  BY RingAssumption DEF UploadInv, RingInv, UploadTypes, Newest, Oldest
<1>1. Queued = {Place(o) : o \in 0 .. num_used - 1}
  BY <1>0, TailPlaces DEF Queued
<1>2. ASSUME NEW r \in 1 .. made - 1
      PROVE  r \in accepted \cup late \cup {rawdata[s] : s \in Queued}
  <2>1. CASE r < Oldest
    <3>1. r \in 1 .. Oldest - 1
      BY <1>0, <2>1
    <3> QED BY <1>0, <3>1 DEF InOrder
  <2>2. CASE ~(r < Oldest)
    <3>1. PICK o \in 0 .. num_used - 1 : r = Oldest + o
      <4>1. r - Oldest \in 0 .. num_used - 1 /\ r = Oldest + (r - Oldest)
        BY <1>0, <2>2
      <4> QED BY <4>1
    <3>2. rawdata[Place(o)] = r
      BY <1>0, <3>1 DEF InOrder
    <3> QED BY <1>1, <3>2
  <2> QED BY <2>1, <2>2
<1>3. ASSUME NEW i \in DOMAIN parts, NEW r \in 1 .. parts[i] - 1
      PROVE  r \in accepted \cup late \cup {parts[j] : j \in 1 .. i - 1}
  <2>0. i \in 1 .. num_used /\ 1 .. i \subseteq DOMAIN parts /\ parts[i] = Oldest + i - 1
    BY <1>0 DEF Carried
  <2>1. CASE r < Oldest
    <3>1. r \in 1 .. Oldest - 1
      BY <1>0, <2>0, <2>1
    <3> QED BY <1>0, <3>1 DEF InOrder
  <2>2. CASE ~(r < Oldest)
    <3>1. PICK j \in 1 .. i - 1 : r = Oldest + j - 1
      <4>1. r - Oldest + 1 \in 1 .. i - 1 /\ r = Oldest + (r - Oldest + 1) - 1
        BY <1>0, <2>0, <2>2
      <4> QED BY <4>1
    <3>2. j \in 1 .. i
      BY <1>0, <2>0
    <3>3. parts[j] = r
      BY <1>0, <2>0, <3>1, <3>2 DEF Carried
    <3> QED BY <3>3
  <2> QED BY <2>1, <2>2
<1>4. BuffersAccounted
  <2> SUFFICES ASSUME collector = "idle", late = {}
               PROVE  {s \in Slots : buf[s].data} = Queued \cup {slot}
    BY DEF BuffersAccounted
  <2>1. \A s \in Slots : buf[s].data <=> (Waits(s) \/ s = slot)
    BY <1>0 DEF Allocated
  <2>2. \A s : Waits(s) <=> s \in Queued
    BY <1>1 DEF Waits
  <2>3. slot \in Slots
    BY <1>0 DEF UploadTypes, RingInv
  <2>4. Queued \subseteq Slots
    <3>1. \A o \in 0 .. num_used - 1 : o \in 0 .. num_max - 1
      BY <1>0
    <3> QED BY <1>0, <1>1, <3>1, PlacesDiffer
  <2> QED BY <2>1, <2>2, <2>3, <2>4
<1> QED BY <1>2, <1>3, <1>4 DEF SentOrQueued

----------------------------------------------------------------------------
(* The heap: the fields of its records. *)

LEMMA HeapNumbers ==
  /\ mem_unit_size \in Nat \ {0} /\ mem_block_num \in Nat \ {0}
  /\ alloc_max_num \in Nat \ {0} /\ Sizes \subseteq Nat /\ MaxUsed \in Nat
  /\ Timeouts \subseteq {"no_wait", "timed", "no_timeout"}
  /\ NoThread \notin Threads
  BY TransferAssumption

Links == Heap!AllRecs \cup {Heap!Null}
MemInfo == [mem_index : Int, mem_length : Nat, is_used : BOOLEAN, next : Links, back : Links]
Infos == [Heap!AllRecs -> MemInfo]

Starts(info) == [r \in Heap!AllRecs |-> info[r].mem_index]
Spans(info) == [r \in Heap!AllRecs |-> info[r].mem_length]
Marks(info) == [r \in Heap!AllRecs |-> info[r].is_used]
Nexts(info) == [r \in Heap!AllRecs |-> info[r].next]
Backs(info) == [r \in Heap!AllRecs |-> info[r].back]

Ends(info) == [r \in Heap!AllRecs |-> Starts(info)[r] + Spans(info)[r]]

LEMMA RecordSets ==
  /\ Heap!UsedRecs \subseteq Heap!AllRecs /\ Heap!FreeRecs \subseteq Heap!AllRecs
  /\ Heap!First \in Heap!AllRecs /\ Heap!Last \in Heap!AllRecs
  /\ Heap!UsedRecs \cap Heap!FreeRecs = {}
  /\ Heap!First \notin Heap!UsedRecs \cup Heap!FreeRecs
  /\ Heap!Last \notin Heap!UsedRecs \cup Heap!FreeRecs
  /\ Heap!First # Heap!Last /\ Heap!Null \notin Heap!AllRecs
  /\ IsFiniteSet(Heap!UsedRecs) /\ IsFiniteSet(Heap!FreeRecs)
<1>1. alloc_max_num \in Nat \ {0}
  BY HeapNumbers
<1>2. IsFiniteSet(Heap!UsedRecs) /\ IsFiniteSet(Heap!FreeRecs)
  BY <1>1, FS_Interval DEF Heap!UsedRecs, Heap!FreeRecs
<1> QED
  BY <1>1, <1>2 DEF Heap!UsedRecs, Heap!FreeRecs, Heap!AllRecs, Heap!First, Heap!Last, Heap!Null

LEMMA FieldTypes ==
  ASSUME NEW info \in Infos
  PROVE  /\ Starts(info) \in [Heap!AllRecs -> Int] /\ Spans(info) \in [Heap!AllRecs -> Nat]
         /\ Marks(info) \in [Heap!AllRecs -> BOOLEAN]
         /\ Nexts(info) \in [Heap!AllRecs -> Links] /\ Backs(info) \in [Heap!AllRecs -> Links]
  BY DEF Infos, MemInfo, Starts, Spans, Marks, Nexts, Backs

LEMMA FieldsAre ==
  ASSUME NEW info \in Infos, NEW r \in Heap!AllRecs
  PROVE  /\ info[r].mem_index = Starts(info)[r] /\ info[r].mem_length = Spans(info)[r]
         /\ info[r].is_used = Marks(info)[r]
         /\ info[r].next = Nexts(info)[r] /\ info[r].back = Backs(info)[r]
  BY DEF Starts, Spans, Marks, Nexts, Backs

\* The record x says just this of its piece.
Says(x, index, length, used, next, back) ==
  /\ x \in MemInfo
  /\ x.mem_index = index /\ x.mem_length = length /\ x.is_used = used
  /\ x.next = next /\ x.back = back

\* Single assignments.
NextSet(j, info, b, v) == j = [info EXCEPT ![b].next = v]
BackSet(j, info, b, v) == j = [info EXCEPT ![b].back = v]
IndexSet(j, info, b, v) == j = [info EXCEPT ![b].mem_index = v]
LengthSet(j, info, b, v) == j = [info EXCEPT ![b].mem_length = v]
FreeCopied(j, info, c, d) == j = [info EXCEPT ![c] = [info[d] EXCEPT !.is_used = FALSE]]
UsedPut(j, info, c, i, l, x, y) == j = [info EXCEPT ![c] = Heap!Record(i, l, TRUE, x, y)]

\* What setting one field of one record does to the fields of a list.
LEMMA SetNext ==
  ASSUME NEW info \in Infos, NEW b \in Heap!AllRecs, NEW v \in Links,
         NEW j, NextSet(j, info, b, v)
  PROVE  /\ j \in Infos /\ Nexts(j) = [Nexts(info) EXCEPT ![b] = v]
         /\ Starts(j) = Starts(info) /\ Spans(j) = Spans(info)
         /\ Backs(j) = Backs(info) /\ Marks(j) = Marks(info)
<1>1. PICK p : p = [info[b] EXCEPT !.next = v]
  OBVIOUS
<1>2. info[b] \in MemInfo
  BY DEF Infos
<1>3. Says(p, info[b].mem_index, info[b].mem_length, info[b].is_used, v, info[b].back)
  BY <1>1, <1>2 DEF Says, MemInfo
<1>4. info \in [Heap!AllRecs -> MemInfo] /\ j = [info EXCEPT ![b] = p]
  BY <1>1 DEF Infos, NextSet
<1> QED BY ONLY <1>3, <1>4, b \in Heap!AllRecs DEF Infos, Says, Starts, Spans, Nexts, Backs, Marks

LEMMA SetBack ==
  ASSUME NEW info \in Infos, NEW b \in Heap!AllRecs, NEW v \in Links,
         NEW j, BackSet(j, info, b, v)
  PROVE  /\ j \in Infos /\ Backs(j) = [Backs(info) EXCEPT ![b] = v]
         /\ Starts(j) = Starts(info) /\ Spans(j) = Spans(info)
         /\ Nexts(j) = Nexts(info) /\ Marks(j) = Marks(info)
<1>1. PICK p : p = [info[b] EXCEPT !.back = v]
  OBVIOUS
<1>2. info[b] \in MemInfo
  BY DEF Infos
<1>3. Says(p, info[b].mem_index, info[b].mem_length, info[b].is_used, info[b].next, v)
  BY <1>1, <1>2 DEF Says, MemInfo
<1>4. info \in [Heap!AllRecs -> MemInfo] /\ j = [info EXCEPT ![b] = p]
  BY <1>1 DEF Infos, BackSet
<1> QED BY ONLY <1>3, <1>4, b \in Heap!AllRecs DEF Infos, Says, Starts, Spans, Nexts, Backs, Marks

LEMMA SetIndex ==
  ASSUME NEW info \in Infos, NEW b \in Heap!AllRecs, NEW v \in Int,
         NEW j, IndexSet(j, info, b, v)
  PROVE  /\ j \in Infos /\ Starts(j) = [Starts(info) EXCEPT ![b] = v]
         /\ Spans(j) = Spans(info) /\ Nexts(j) = Nexts(info)
         /\ Backs(j) = Backs(info) /\ Marks(j) = Marks(info)
<1>1. PICK p : p = [info[b] EXCEPT !.mem_index = v]
  OBVIOUS
<1>2. info[b] \in MemInfo
  BY DEF Infos
<1>3. Says(p, v, info[b].mem_length, info[b].is_used, info[b].next, info[b].back)
  BY <1>1, <1>2 DEF Says, MemInfo
<1>4. info \in [Heap!AllRecs -> MemInfo] /\ j = [info EXCEPT ![b] = p]
  BY <1>1 DEF Infos, IndexSet
<1> QED BY ONLY <1>3, <1>4, b \in Heap!AllRecs DEF Infos, Says, Starts, Spans, Nexts, Backs, Marks

LEMMA SetLength ==
  ASSUME NEW info \in Infos, NEW b \in Heap!AllRecs, NEW v \in Nat,
         NEW j, LengthSet(j, info, b, v)
  PROVE  /\ j \in Infos /\ Spans(j) = [Spans(info) EXCEPT ![b] = v]
         /\ Starts(j) = Starts(info) /\ Nexts(j) = Nexts(info)
         /\ Backs(j) = Backs(info) /\ Marks(j) = Marks(info)
<1>1. PICK p : p = [info[b] EXCEPT !.mem_length = v]
  OBVIOUS
<1>2. info[b] \in MemInfo
  BY DEF Infos
<1>3. Says(p, info[b].mem_index, v, info[b].is_used, info[b].next, info[b].back)
  BY <1>1, <1>2 DEF Says, MemInfo
<1>4. info \in [Heap!AllRecs -> MemInfo] /\ j = [info EXCEPT ![b] = p]
  BY <1>1 DEF Infos, LengthSet
<1> QED BY ONLY <1>3, <1>4, b \in Heap!AllRecs DEF Infos, Says, Starts, Spans, Nexts, Backs, Marks

\* A copy of record d that is not used, put into c.
LEMMA CopyFree ==
  ASSUME NEW info \in Infos, NEW d \in Heap!AllRecs, NEW c \in Heap!AllRecs,
         NEW j, FreeCopied(j, info, c, d)
  PROVE  /\ j \in Infos /\ Marks(j) = [Marks(info) EXCEPT ![c] = FALSE]
         /\ Starts(j) = [Starts(info) EXCEPT ![c] = Starts(info)[d]]
         /\ Spans(j) = [Spans(info) EXCEPT ![c] = Spans(info)[d]]
         /\ Nexts(j) = [Nexts(info) EXCEPT ![c] = Nexts(info)[d]]
         /\ Backs(j) = [Backs(info) EXCEPT ![c] = Backs(info)[d]]
<1>1. PICK p : p = [info[d] EXCEPT !.is_used = FALSE]
  OBVIOUS
<1>2. info[d] \in MemInfo
  BY DEF Infos
<1>3. Says(p, info[d].mem_index, info[d].mem_length, FALSE, info[d].next, info[d].back)
  BY <1>1, <1>2 DEF Says, MemInfo
<1>4. info \in [Heap!AllRecs -> MemInfo] /\ j = [info EXCEPT ![c] = p]
  BY <1>1 DEF Infos, FreeCopied
<1> QED BY ONLY <1>3, <1>4, d \in Heap!AllRecs, c \in Heap!AllRecs
        DEF Infos, Says, Starts, Spans, Nexts, Backs, Marks

\* The record of a used piece, put into c.
LEMMA PutUsed ==
  ASSUME NEW info \in Infos, NEW c \in Heap!AllRecs, NEW i \in Int, NEW l \in Nat,
         NEW x \in Links, NEW y \in Links,
         NEW j, UsedPut(j, info, c, i, l, x, y)
  PROVE  /\ j \in Infos /\ Marks(j) = [Marks(info) EXCEPT ![c] = TRUE]
         /\ Starts(j) = [Starts(info) EXCEPT ![c] = i]
         /\ Spans(j) = [Spans(info) EXCEPT ![c] = l]
         /\ Nexts(j) = [Nexts(info) EXCEPT ![c] = x]
         /\ Backs(j) = [Backs(info) EXCEPT ![c] = y]
<1>1. PICK p : p = Heap!Record(i, l, TRUE, x, y)
  OBVIOUS
<1>2. Says(p, i, l, TRUE, x, y)
  BY <1>1 DEF Heap!Record, Says, MemInfo
<1>3. info \in [Heap!AllRecs -> MemInfo] /\ j = [info EXCEPT ![c] = p]
  BY <1>1 DEF Infos, UsedPut
<1> QED BY ONLY <1>2, <1>3, c \in Heap!AllRecs
        DEF Infos, Says, Starts, Spans, Nexts, Backs, Marks

----------------------------------------------------------------------------
(* Splits and joins. *)

PutInFront(j, info, c, f, bl, x) ==
  j = [info EXCEPT ![c] = Heap!Record(info[f].mem_index, bl, TRUE, x, info[f].back),
                   ![info[f].back].next = c]
Sum(a, b, c) == a + b = c
CutDown(j, info, f, bl, c) ==
  j = [info EXCEPT ![f].mem_index = @ + bl, ![f].mem_length = @ - bl, ![f].back = c]

\* Lines 195-203: record c, put in front of f, and what becomes of the fields.
LEMMA CarveLinked ==
  ASSUME NEW info \in Infos, NEW c \in Heap!AllRecs, NEW f \in Heap!AllRecs, c # f,
         NEW bl \in Nat, NEW x \in Links, Backs(info)[f] \in Heap!AllRecs, Backs(info)[f] # c,
         NEW j, PutInFront(j, info, c, f, bl, x)
  PROVE  /\ j \in Infos /\ Marks(j) = [Marks(info) EXCEPT ![c] = TRUE]
         /\ Starts(j) = [Starts(info) EXCEPT ![c] = Starts(info)[f]]
         /\ Spans(j) = [Spans(info) EXCEPT ![c] = bl]
         /\ Nexts(j) = [Nexts(info) EXCEPT ![c] = x, ![Backs(info)[f]] = c]
         /\ Backs(j) = [Backs(info) EXCEPT ![c] = Backs(info)[f]]
<1>1. PICK i, b : i = info[f].mem_index /\ b = info[f].back
  OBVIOUS
<1>2. i = Starts(info)[f] /\ b = Backs(info)[f] /\ i \in Int
      /\ b \in Links /\ c \in Links /\ b \in Heap!AllRecs
  BY <1>1, FieldsAre, FieldTypes DEF Links
<1>3. PICK k : UsedPut(k, info, c, i, bl, x, b)
  BY DEF UsedPut
<1>4. NextSet(j, k, b, c)
  BY <1>1, <1>3 DEF UsedPut, NextSet, PutInFront
<1>5. /\ k \in Infos /\ Marks(k) = [Marks(info) EXCEPT ![c] = TRUE]
      /\ Starts(k) = [Starts(info) EXCEPT ![c] = i]
      /\ Spans(k) = [Spans(info) EXCEPT ![c] = bl]
      /\ Nexts(k) = [Nexts(info) EXCEPT ![c] = x]
      /\ Backs(k) = [Backs(info) EXCEPT ![c] = b]
  BY <1>2, <1>3, PutUsed
<1>6. /\ j \in Infos /\ Nexts(j) = [Nexts(k) EXCEPT ![b] = c]
      /\ Starts(j) = Starts(k) /\ Spans(j) = Spans(k)
      /\ Backs(j) = Backs(k) /\ Marks(j) = Marks(k)
  BY <1>2, <1>4, <1>5, SetNext
<1> QED BY <1>2, <1>5, <1>6

\* Lines 210-213: what is left of f.
LEMMA CarveShrunk ==
  ASSUME NEW info \in Infos, NEW f \in Heap!AllRecs, NEW c \in Links,
         NEW bl \in Nat, NEW m \in Int, Sum(Starts(info)[f], bl, m),
         NEW n \in Nat, Sum(n, bl, Spans(info)[f]),
         NEW j, CutDown(j, info, f, bl, c)
  PROVE  /\ j \in Infos /\ Marks(j) = Marks(info)
         /\ Starts(j) = [Starts(info) EXCEPT ![f] = m]
         /\ Spans(j) = [Spans(info) EXCEPT ![f] = n]
         /\ Nexts(j) = Nexts(info)
         /\ Backs(j) = [Backs(info) EXCEPT ![f] = c]
<1>1. m = info[f].mem_index + bl /\ n = info[f].mem_length - bl
  BY FieldsAre, FieldTypes DEF Sum
<1>3. PICK k : IndexSet(k, info, f, m)
  BY DEF IndexSet
<1>4. PICK l : LengthSet(l, k, f, n)
  BY DEF LengthSet
<1>5. BackSet(j, l, f, c)
  BY <1>1, <1>3, <1>4 DEF IndexSet, LengthSet, BackSet, CutDown
<1>6. /\ k \in Infos /\ Starts(k) = [Starts(info) EXCEPT ![f] = m]
      /\ Spans(k) = Spans(info) /\ Nexts(k) = Nexts(info)
      /\ Backs(k) = Backs(info) /\ Marks(k) = Marks(info)
  BY <1>3, SetIndex
<1>7. /\ l \in Infos /\ Spans(l) = [Spans(k) EXCEPT ![f] = n]
      /\ Starts(l) = Starts(k) /\ Nexts(l) = Nexts(k)
      /\ Backs(l) = Backs(k) /\ Marks(l) = Marks(k)
  BY <1>4, <1>6, SetLength
<1>8. /\ j \in Infos /\ Backs(j) = [Backs(l) EXCEPT ![f] = c]
      /\ Starts(j) = Starts(l) /\ Spans(j) = Spans(l)
      /\ Nexts(j) = Nexts(l) /\ Marks(j) = Marks(l)
  BY <1>5, <1>7, SetBack
<1> QED BY <1>6, <1>7, <1>8

\* The list over the used records U and the free records F: the marks are right and no two
\* free pieces are neighbours.
Listed(info, U, F) ==
  /\ U \subseteq Heap!UsedRecs /\ F \subseteq Heap!FreeRecs
  /\ Chain(U \cup F, mem_block_num, Heap!First, Heap!Last,
           Starts(info), Ends(info), Nexts(info), Backs(info))
  /\ \A r \in U \cup {Heap!First, Heap!Last} : Marks(info)[r]
  /\ \A r \in F : ~Marks(info)[r] /\ Marks(info)[Nexts(info)[r]]

\* Which records are pieces, where their neighbours are, and which they are not.
LEMMA Pieces ==
  ASSUME NEW info \in Infos, NEW U, NEW F, Listed(info, U, F)
  PROVE  /\ U \cup F \subseteq Heap!AllRecs /\ U \cap F = {}
         /\ Heap!First \notin U \cup F /\ Heap!Last \notin U \cup F
         /\ Heap!First \in Heap!AllRecs /\ Heap!Last \in Heap!AllRecs
         /\ \A r \in U \cup F : /\ Backs(info)[r] \in U \cup F \cup {Heap!First} /\ Backs(info)[r] # r
                                /\ Nexts(info)[r] \in U \cup F \cup {Heap!Last} /\ Nexts(info)[r] # r
                                /\ Backs(info)[r] \in Heap!AllRecs /\ Nexts(info)[r] \in Heap!AllRecs
         /\ \A r \in Heap!AllRecs : Starts(info)[r] \in Int /\ Spans(info)[r] \in Nat
                                    /\ Ends(info)[r] = Starts(info)[r] + Spans(info)[r]
<1>1. /\ U \cup F \subseteq Heap!AllRecs /\ U \cap F = {}
      /\ Heap!First \notin U \cup F /\ Heap!Last \notin U \cup F
      /\ Heap!First \in Heap!AllRecs /\ Heap!Last \in Heap!AllRecs
  BY RecordSets DEF Listed
<1>2. PICK P, lo, hi, nx, bk : /\ P = U \cup F /\ lo = Starts(info) /\ hi = Ends(info)
                               /\ nx = Nexts(info) /\ bk = Backs(info)
  OBVIOUS
<1>3. Chain(P, mem_block_num, Heap!First, Heap!Last, lo, hi, nx, bk)
  BY <1>2 DEF Listed
<1>4. \A r \in P : /\ bk[r] # r /\ nx[r] # r
                   /\ bk[r] \in P \cup {Heap!First} /\ nx[r] \in P \cup {Heap!Last}
  BY <1>3, ChainLinks
<1>5. \A r \in Heap!AllRecs : Starts(info)[r] \in Int /\ Spans(info)[r] \in Nat
                              /\ Ends(info)[r] = Starts(info)[r] + Spans(info)[r]
  BY FieldTypes DEF Ends
<1> QED BY <1>1, <1>2, <1>4, <1>5

\* Pieces keep their place.
Kept(j, info, S) == \A r \in S : /\ Starts(j)[r] = Starts(info)[r]
                                 /\ Spans(j)[r] = Spans(info)[r]

\* The new piece c is put in front of what is left of f (em_malloc.c:195-203, 210-213).
LEMMA CarveSplits ==
  ASSUME NEW info \in Infos, NEW U, NEW F, Listed(info, U, F),
         NEW c \in Heap!UsedRecs \ U, NEW f \in F,
         NEW bl \in Nat, 0 < bl, bl < Spans(info)[f],
         NEW linked, PutInFront(linked, info, c, f, bl, f), NEW j, CutDown(j, linked, f, bl, c)
  PROVE  /\ j \in Infos /\ Listed(j, U \cup {c}, F) /\ Kept(j, info, U)
         /\ Starts(j)[c] = Starts(info)[f] /\ Spans(j)[c] = bl
         /\ \A r \in F : Spans(j)[r] <= Spans(info)[r]
<1>1. PICK P : P = U \cup F
  OBVIOUS
<1>2. PICK lo, ln, mk, hi, nx, bk : /\ lo = Starts(info) /\ ln = Spans(info) /\ mk = Marks(info)
                                    /\ hi = Ends(info) /\ nx = Nexts(info) /\ bk = Backs(info)
  OBVIOUS
<1>3. /\ P \subseteq Heap!AllRecs /\ U \cap F = {} /\ c \in Heap!AllRecs
      /\ Heap!First \notin P /\ Heap!Last \notin P /\ c # Heap!First /\ c # Heap!Last /\ c \notin P
      /\ Heap!First \in Heap!AllRecs /\ Heap!Last \in Heap!AllRecs /\ f \in P /\ c # f
      /\ U \subseteq P /\ F \subseteq P
  BY <1>1, Pieces, RecordSets DEF Listed
<1>4. /\ lo \in [Heap!AllRecs -> Int] /\ ln \in [Heap!AllRecs -> Nat]
      /\ mk \in [Heap!AllRecs -> BOOLEAN] /\ nx \in [Heap!AllRecs -> Links]
      /\ bk \in [Heap!AllRecs -> Links]
      /\ \A r \in Heap!AllRecs : hi[r] = lo[r] + ln[r]
  BY <1>2, FieldTypes DEF Ends
<1>5. /\ Chain(P, mem_block_num, Heap!First, Heap!Last, lo, hi, nx, bk)
      /\ \A r \in U \cup {Heap!First, Heap!Last} : mk[r]
      /\ \A r \in F : ~mk[r] /\ mk[nx[r]]
  BY <1>1, <1>2 DEF Listed
<1>6. /\ bk[f] \in Heap!AllRecs /\ bk[f] # c /\ bk[f] # f
      /\ \A r \in P : nx[r] \in Heap!AllRecs /\ nx[r] # c
  BY <1>1, <1>2, <1>3, Pieces
<1>7. /\ linked \in Infos /\ Marks(linked) = [mk EXCEPT ![c] = TRUE]
      /\ Starts(linked) = [lo EXCEPT ![c] = lo[f]] /\ Spans(linked) = [ln EXCEPT ![c] = bl]
      /\ Nexts(linked) = [nx EXCEPT ![c] = f, ![bk[f]] = c]
      /\ Backs(linked) = [bk EXCEPT ![c] = bk[f]]
  <2>1. f \in Links /\ f \in Heap!AllRecs
    BY <1>3 DEF Links
  <2> QED BY <1>2, <1>3, <1>6, <2>1, CarveLinked
<1>8. PICK m \in Int, n \in Nat : m = lo[f] + bl /\ n = ln[f] - bl
  BY <1>2, <1>3, <1>4
<1>9. /\ j \in Infos /\ Marks(j) = Marks(linked)
      /\ Starts(j) = [Starts(linked) EXCEPT ![f] = m]
      /\ Spans(j) = [Spans(linked) EXCEPT ![f] = n]
      /\ Nexts(j) = Nexts(linked) /\ Backs(j) = [Backs(linked) EXCEPT ![f] = c]
  <2>1. c \in Links /\ f \in Heap!AllRecs
    BY <1>3 DEF Links
  <2>2. Spans(linked)[f] = ln[f] /\ Starts(linked)[f] = lo[f] /\ bl <= ln[f]
    BY <1>2, <1>3, <1>4, <1>7
  <2>3. Sum(Starts(linked)[f], bl, m) /\ Sum(n, bl, Spans(linked)[f])
    BY <1>2, <1>4, <1>8, <2>1, <2>2 DEF Sum
  <2>4. linked \in Infos /\ CutDown(j, linked, f, bl, c) /\ bl \in Nat /\ m \in Int /\ n \in Nat
    BY <1>7
  <2> QED BY ONLY <2>1, <2>3, <2>4, CarveShrunk
<1>10. PICK lo2, ln2, mk2, hi2, nx2, bk2 :
         /\ lo2 = Starts(j) /\ ln2 = Spans(j) /\ mk2 = Marks(j)
         /\ hi2 = Ends(j) /\ nx2 = Nexts(j) /\ bk2 = Backs(j)
  OBVIOUS
<1>12. \A r \in Heap!AllRecs :
         /\ lo2[r] = IF r = c THEN lo[f] ELSE IF r = f THEN m ELSE lo[r]
         /\ nx2[r] = IF r = c THEN f ELSE IF r = bk[f] THEN c ELSE nx[r]
         /\ bk2[r] = IF r = c THEN bk[f] ELSE IF r = f THEN c ELSE bk[r]
         /\ hi2[r] = lo2[r] + ln2[r]
  BY <1>3, <1>4, <1>6, <1>7, <1>8, <1>9, <1>10 DEF Ends
<1>13. \A r \in Heap!AllRecs :
         /\ ln2[r] = IF r = c THEN bl ELSE IF r = f THEN n ELSE ln[r]
         /\ mk2[r] <=> r = c \/ mk[r]
  BY <1>3, <1>4, <1>7, <1>8, <1>9, <1>10
<1>14. lo[f] < m /\ m < hi[f]
  BY <1>2, <1>3, <1>4, <1>8
<1>15. \A r \in Heap!AllRecs : hi2[r] = IF r = c THEN m ELSE hi[r]
  <2>1. ASSUME NEW r \in Heap!AllRecs PROVE hi2[r] = IF r = c THEN m ELSE hi[r]
    <3>1. lo[r] \in Int /\ ln[r] \in Int /\ lo[f] \in Int /\ ln[f] \in Int /\ bl \in Int
      BY <1>3, <1>4
    <3>2. hi2[r] = lo2[r] + ln2[r] /\ hi[r] = lo[r] + ln[r]
      BY <1>4, <1>12
    <3>3. CASE r = f
      <4>1. lo2[r] = lo[r] + bl /\ ln2[r] = ln[r] - bl /\ r # c
        BY <1>3, <1>8, <1>12, <1>13, <3>3
      <4> QED BY <3>1, <3>2, <4>1
    <3>4. CASE r # f
      BY <1>8, <1>12, <1>13, <3>1, <3>2, <3>4
    <3> QED BY <3>3, <3>4
  <2> QED BY <2>1
<1>16. Chain(P \cup {c}, mem_block_num, Heap!First, Heap!Last, lo2, hi2, nx2, bk2)
  <2>1. \A r \in P \cup {c} : r \in Heap!AllRecs
    BY <1>3
  <2> QED BY <1>3, <1>5, <1>8, <1>12, <1>14, <1>15, <2>1, ChainSplit
<1>17. P \cup {c} = (U \cup {c}) \cup F
  BY <1>1
<1>18. \A r \in (U \cup {c}) \cup {Heap!First, Heap!Last} : mk2[r]
  BY <1>3, <1>5, <1>13
<1>19. \A r \in F : ~mk2[r] /\ mk2[nx2[r]]
  <2>1. ASSUME NEW r \in F PROVE ~mk2[r] /\ mk2[nx2[r]]
    <3>1. r \in P /\ r # c /\ r \in Heap!AllRecs /\ nx[r] \in Heap!AllRecs /\ ~mk[r] /\ mk[nx[r]]
      BY <1>3, <1>5, <1>6
    <3>2. nx2[r] = c \/ nx2[r] = nx[r]
      BY <1>12, <3>1
    <3> QED BY <1>3, <1>13, <3>1, <3>2
  <2> QED BY <2>1
<1>20. U \cup {c} \subseteq Heap!UsedRecs /\ F \subseteq Heap!FreeRecs
  BY DEF Listed
<1>21. Listed(j, U \cup {c}, F)
  BY <1>10, <1>16, <1>17, <1>18, <1>19, <1>20 DEF Listed
<1>22. Kept(j, info, U)
  BY <1>2, <1>3, <1>10, <1>12, <1>13 DEF Kept
<1>23. \A r \in F : ln2[r] <= ln[r]
  BY <1>3, <1>4, <1>8, <1>13
<1> QED BY <1>2, <1>3, <1>9, <1>10, <1>12, <1>13, <1>21, <1>22, <1>23

\* The new piece c takes the place of f, the last piece (em_malloc.c:195-206).
LEMMA CarveFits ==
  ASSUME NEW info \in Infos, NEW U, NEW F, Listed(info, U, F),
         NEW c \in Heap!UsedRecs \ U, NEW f \in F, Nexts(info)[f] = Heap!Last,
         NEW bl, bl = Spans(info)[f], NEW j, PutInFront(j, info, c, f, bl, Heap!Last)
  PROVE  /\ j \in Infos /\ Listed(j, U \cup {c}, F \ {f}) /\ Kept(j, info, U \cup F)
         /\ Starts(j)[c] = Starts(info)[f] /\ Spans(j)[c] = bl
<1>1. PICK P : P = U \cup F
  OBVIOUS
<1>2. PICK lo, ln, mk, hi, nx, bk : /\ lo = Starts(info) /\ ln = Spans(info) /\ mk = Marks(info)
                                    /\ hi = Ends(info) /\ nx = Nexts(info) /\ bk = Backs(info)
  OBVIOUS
<1>3. /\ P \subseteq Heap!AllRecs /\ U \cap F = {} /\ c \in Heap!AllRecs
      /\ Heap!First \notin P /\ Heap!Last \notin P /\ c # Heap!First /\ c # Heap!Last /\ c \notin P
      /\ Heap!First \in Heap!AllRecs /\ Heap!Last \in Heap!AllRecs /\ f \in P /\ c # f
      /\ U \subseteq P /\ F \subseteq P
  BY <1>1, Pieces, RecordSets DEF Listed
<1>4. /\ lo \in [Heap!AllRecs -> Int] /\ ln \in [Heap!AllRecs -> Nat]
      /\ mk \in [Heap!AllRecs -> BOOLEAN] /\ nx \in [Heap!AllRecs -> Links]
      /\ bk \in [Heap!AllRecs -> Links]
      /\ \A r \in Heap!AllRecs : hi[r] = lo[r] + ln[r]
  BY <1>2, FieldTypes DEF Ends
<1>5. /\ Chain(P, mem_block_num, Heap!First, Heap!Last, lo, hi, nx, bk)
      /\ \A r \in U \cup {Heap!First, Heap!Last} : mk[r]
      /\ \A r \in F : ~mk[r] /\ mk[nx[r]]
  BY <1>1, <1>2 DEF Listed
<1>6. /\ bk[f] \in Heap!AllRecs /\ bk[f] # c /\ bk[f] # f
      /\ \A r \in P : nx[r] \in Heap!AllRecs /\ nx[r] # c
  BY <1>1, <1>2, <1>3, Pieces
<1>7. /\ j \in Infos /\ Marks(j) = [mk EXCEPT ![c] = TRUE]
      /\ Starts(j) = [lo EXCEPT ![c] = lo[f]] /\ Spans(j) = [ln EXCEPT ![c] = ln[f]]
      /\ Nexts(j) = [nx EXCEPT ![c] = Heap!Last, ![bk[f]] = c]
      /\ Backs(j) = [bk EXCEPT ![c] = bk[f]]
  <2>1. f \in Heap!AllRecs /\ Heap!Last \in Links /\ ln[f] \in Nat
    BY <1>3, <1>4 DEF Links
  <2> QED BY <1>2, <1>3, <1>6, <2>1, CarveLinked
<1>10. PICK lo2, ln2, mk2, hi2, nx2, bk2 :
         /\ lo2 = Starts(j) /\ ln2 = Spans(j) /\ mk2 = Marks(j)
         /\ hi2 = Ends(j) /\ nx2 = Nexts(j) /\ bk2 = Backs(j)
  OBVIOUS
<1>12. \A r \in Heap!AllRecs :
         /\ lo2[r] = IF r = c THEN lo[f] ELSE lo[r]
         /\ nx2[r] = IF r = c THEN Heap!Last ELSE IF r = bk[f] THEN c ELSE nx[r]
         /\ bk2[r] = IF r = c THEN bk[f] ELSE bk[r]
         /\ hi2[r] = lo2[r] + ln2[r]
  BY <1>3, <1>4, <1>6, <1>7, <1>10 DEF Ends
<1>13. \A r \in Heap!AllRecs :
         /\ ln2[r] = IF r = c THEN ln[f] ELSE ln[r]
         /\ mk2[r] <=> r = c \/ mk[r]
  BY <1>3, <1>4, <1>7, <1>10
<1>15. \A r \in Heap!AllRecs : hi2[r] = IF r = c THEN hi[f] ELSE hi[r]
  BY <1>3, <1>4, <1>12, <1>13
<1>16. Chain((P \ {f}) \cup {c}, mem_block_num, Heap!First, Heap!Last, lo2, hi2, nx2, bk2)
  <2>1. \A r \in (P \ {f}) \cup {c} : r \in Heap!AllRecs /\ r # nx[f]
    BY <1>2, <1>3
  <2>2. nx[f] = Heap!Last
    BY <1>2
  <2> QED BY ONLY <1>3, <1>5, <1>12, <1>15, <2>1, <2>2, ChainReplace
<1>17. (P \ {f}) \cup {c} = (U \cup {c}) \cup (F \ {f})
  BY <1>1, <1>3
<1>18. \A r \in (U \cup {c}) \cup {Heap!First, Heap!Last} : mk2[r]
  BY <1>3, <1>5, <1>13
<1>19. \A r \in F \ {f} : ~mk2[r] /\ mk2[nx2[r]]
  <2>1. ASSUME NEW r \in F PROVE ~mk2[r] /\ mk2[nx2[r]]
    <3>1. r \in P /\ r # c /\ r \in Heap!AllRecs /\ nx[r] \in Heap!AllRecs /\ ~mk[r] /\ mk[nx[r]]
      BY <1>3, <1>5, <1>6
    <3>2. nx2[r] = c \/ nx2[r] = nx[r]
      BY <1>12, <3>1
    <3> QED BY <1>3, <1>13, <3>1, <3>2
  <2> QED BY <2>1
<1>20. U \cup {c} \subseteq Heap!UsedRecs /\ F \ {f} \subseteq Heap!FreeRecs
  BY DEF Listed
<1>21. Listed(j, U \cup {c}, F \ {f})
  BY <1>10, <1>16, <1>17, <1>18, <1>19, <1>20 DEF Listed
<1>22. Kept(j, info, U \cup F)
  BY <1>1, <1>2, <1>3, <1>10, <1>12, <1>13 DEF Kept
<1> QED BY <1>2, <1>3, <1>7, <1>10, <1>12, <1>13, <1>21, <1>22

JoinedNone(j, info, d, c) ==
  j = [info EXCEPT ![c] = [info[d] EXCEPT !.is_used = FALSE],
                   ![info[d].back].next = c, ![info[d].next].back = c]

\* Both neighbours of d are used: a free record c takes its place (em_malloc.c:317-331).
LEMMA JoinNone ==
  ASSUME NEW info \in Infos, NEW U, NEW F, Listed(info, U, F), NEW d \in U,
         NEW c \in Heap!FreeRecs \ F,
         Marks(info)[Backs(info)[d]], Marks(info)[Nexts(info)[d]],
         NEW j, JoinedNone(j, info, d, c)
  PROVE  j \in Infos /\ Listed(j, U \ {d}, F \cup {c}) /\ Kept(j, info, U)
<1>1. PICK P : P = U \cup F
  OBVIOUS
<1>2. PICK lo, ln, mk, hi, nx, bk : /\ lo = Starts(info) /\ ln = Spans(info) /\ mk = Marks(info)
                                    /\ hi = Ends(info) /\ nx = Nexts(info) /\ bk = Backs(info)
  OBVIOUS
<1>3. /\ P \subseteq Heap!AllRecs /\ U \cap F = {} /\ c \in Heap!AllRecs
      /\ Heap!First \notin P /\ Heap!Last \notin P /\ c # Heap!First /\ c # Heap!Last /\ c \notin P
      /\ Heap!First \in Heap!AllRecs /\ Heap!Last \in Heap!AllRecs /\ d \in P /\ c # d
      /\ U \subseteq P /\ F \subseteq P
  BY <1>1, Pieces, RecordSets DEF Listed
<1>4. /\ lo \in [Heap!AllRecs -> Int] /\ ln \in [Heap!AllRecs -> Nat]
      /\ mk \in [Heap!AllRecs -> BOOLEAN] /\ nx \in [Heap!AllRecs -> Links]
      /\ bk \in [Heap!AllRecs -> Links]
      /\ \A r \in Heap!AllRecs : hi[r] = lo[r] + ln[r]
  BY <1>2, FieldTypes DEF Ends
<1>5. /\ Chain(P, mem_block_num, Heap!First, Heap!Last, lo, hi, nx, bk)
      /\ \A r \in U \cup {Heap!First, Heap!Last} : mk[r]
      /\ \A r \in F : ~mk[r] /\ mk[nx[r]]
  BY <1>1, <1>2 DEF Listed
<1>6. PICK b, n : b = bk[d] /\ n = nx[d]
  OBVIOUS
<1>7. /\ b \in Heap!AllRecs /\ b # c /\ n \in Heap!AllRecs /\ n # c /\ mk[b] /\ mk[n]
      /\ b \in Links /\ n \in Links /\ c \in Links /\ d \in Heap!AllRecs
      /\ \A r \in P : nx[r] \in Heap!AllRecs /\ nx[r] # c
  BY <1>1, <1>2, <1>3, <1>6, Pieces DEF Links
<1>8. PICK k, l : FreeCopied(k, info, c, d) /\ NextSet(l, k, b, c)
  BY DEF FreeCopied, NextSet
<1>9. BackSet(j, l, n, c)
  <2>1. b = info[d].back /\ n = info[d].next
    BY <1>2, <1>6, <1>7, FieldsAre
  <2> QED BY <1>8, <2>1 DEF JoinedNone, FreeCopied, NextSet, BackSet
<1>11. /\ k \in Infos /\ Marks(k) = [mk EXCEPT ![c] = FALSE]
       /\ Starts(k) = [lo EXCEPT ![c] = lo[d]] /\ Spans(k) = [ln EXCEPT ![c] = ln[d]]
       /\ Nexts(k) = [nx EXCEPT ![c] = n] /\ Backs(k) = [bk EXCEPT ![c] = b]
  BY <1>2, <1>3, <1>6, <1>7, <1>8, CopyFree
<1>12. /\ l \in Infos /\ Nexts(l) = [Nexts(k) EXCEPT ![b] = c]
       /\ Starts(l) = Starts(k) /\ Spans(l) = Spans(k)
       /\ Backs(l) = Backs(k) /\ Marks(l) = Marks(k)
  BY <1>7, <1>8, <1>11, SetNext
<1>13. /\ j \in Infos /\ Backs(j) = [Backs(l) EXCEPT ![n] = c]
       /\ Starts(j) = Starts(l) /\ Spans(j) = Spans(l)
       /\ Nexts(j) = Nexts(l) /\ Marks(j) = Marks(l)
  BY <1>7, <1>9, <1>12, SetBack
<1>14. PICK lo2, ln2, mk2, hi2, nx2, bk2 :
         /\ lo2 = Starts(j) /\ ln2 = Spans(j) /\ mk2 = Marks(j)
         /\ hi2 = Ends(j) /\ nx2 = Nexts(j) /\ bk2 = Backs(j)
  OBVIOUS
<1>15. \A r \in Heap!AllRecs :
         /\ lo2[r] = IF r = c THEN lo[d] ELSE lo[r]
         /\ ln2[r] = IF r = c THEN ln[d] ELSE ln[r]
         /\ nx2[r] = IF r = c THEN n ELSE IF r = b THEN c ELSE nx[r]
         /\ bk2[r] = IF r = c THEN b ELSE IF r = n THEN c ELSE bk[r]
         /\ hi2[r] = lo2[r] + ln2[r]
  BY <1>3, <1>4, <1>7, <1>11, <1>12, <1>13, <1>14 DEF Ends
<1>16. \A r \in Heap!AllRecs : mk2[r] <=> r # c /\ mk[r]
  BY <1>3, <1>4, <1>7, <1>11, <1>12, <1>13, <1>14
<1>17. \A r \in Heap!AllRecs : hi2[r] = IF r = c THEN hi[d] ELSE hi[r]
  BY <1>4, <1>7, <1>15
<1>18. Chain((P \ {d}) \cup {c}, mem_block_num, Heap!First, Heap!Last, lo2, hi2, nx2, bk2)
  <2>1. \A r \in (P \ {d}) \cup {c} : r \in Heap!AllRecs
    BY <1>3
  <2> QED BY ONLY <1>3, <1>5, <1>6, <1>15, <1>17, <2>1, ChainReplace
<1>19. (P \ {d}) \cup {c} = (U \ {d}) \cup (F \cup {c})
  BY <1>1, <1>3
<1>20. \A r \in (U \ {d}) \cup {Heap!First, Heap!Last} : mk2[r]
  BY <1>3, <1>5, <1>16
<1>21. \A r \in F \cup {c} : ~mk2[r] /\ mk2[nx2[r]]
  <2>1. ~mk2[c] /\ mk2[nx2[c]]
    BY <1>3, <1>7, <1>15, <1>16
  <2>2. ASSUME NEW r \in F PROVE ~mk2[r] /\ mk2[nx2[r]]
    <3>1. r \in P /\ r # c /\ r \in Heap!AllRecs /\ nx[r] \in Heap!AllRecs /\ ~mk[r] /\ mk[nx[r]]
          /\ nx[r] # c
      BY <1>3, <1>5, <1>7
    <3>2. nx2[r] = nx[r]
      BY <1>7, <1>15, <3>1
    <3> QED BY <1>3, <1>16, <3>1, <3>2
  <2> QED BY <2>1, <2>2
<1>22. U \ {d} \subseteq Heap!UsedRecs /\ F \cup {c} \subseteq Heap!FreeRecs
  BY DEF Listed
<1>23. Listed(j, U \ {d}, F \cup {c})
  BY <1>14, <1>18, <1>19, <1>20, <1>21, <1>22 DEF Listed
<1>24. Kept(j, info, U)
  BY <1>2, <1>3, <1>14, <1>15 DEF Kept
<1> QED BY <1>13, <1>23, <1>24

JoinedNext(j, info, d, b, n) ==
  j = [info EXCEPT ![n].mem_index = info[d].mem_index,
                   ![n].mem_length = @ + info[d].mem_length,
                   ![b].next = n, ![n].back = b]

\* Only the piece behind d is free: it grows to where d began (em_malloc.c:332-338).
LEMMA JoinNext ==
  ASSUME NEW info \in Infos, NEW U, NEW F, Listed(info, U, F), NEW d \in U,
         NEW b, b = Backs(info)[d], NEW n, n = Nexts(info)[d], Marks(info)[b], ~Marks(info)[n],
         NEW j, JoinedNext(j, info, d, b, n)
  PROVE  j \in Infos /\ Listed(j, U \ {d}, F) /\ Kept(j, info, U)
<1>1. PICK P : P = U \cup F
  OBVIOUS
<1>2. PICK lo, ln, mk, hi, nx, bk : /\ lo = Starts(info) /\ ln = Spans(info) /\ mk = Marks(info)
                                    /\ hi = Ends(info) /\ nx = Nexts(info) /\ bk = Backs(info)
  OBVIOUS
<1>3. /\ P \subseteq Heap!AllRecs /\ U \cap F = {} /\ d \in P /\ U \subseteq P /\ F \subseteq P
      /\ Heap!First \notin P /\ Heap!Last \notin P
      /\ Heap!First \in Heap!AllRecs /\ Heap!Last \in Heap!AllRecs
  BY <1>1, Pieces
<1>4. /\ lo \in [Heap!AllRecs -> Int] /\ ln \in [Heap!AllRecs -> Nat]
      /\ mk \in [Heap!AllRecs -> BOOLEAN] /\ nx \in [Heap!AllRecs -> Links]
      /\ bk \in [Heap!AllRecs -> Links]
      /\ \A r \in Heap!AllRecs : hi[r] = lo[r] + ln[r]
  BY <1>2, FieldTypes DEF Ends
<1>5. /\ Chain(P, mem_block_num, Heap!First, Heap!Last, lo, hi, nx, bk)
      /\ \A r \in U \cup {Heap!First, Heap!Last} : mk[r]
      /\ \A r \in F : ~mk[r] /\ mk[nx[r]]
  BY <1>1, <1>2 DEF Listed
<1>6. b = bk[d] /\ n = nx[d] /\ mk[b] /\ ~mk[n]
  BY <1>2
<1>7. /\ b \in Heap!AllRecs /\ n \in F /\ n \in P /\ n # d /\ n \in Heap!AllRecs /\ b # n
      /\ b \in Links /\ n \in Links /\ d \in Heap!AllRecs
      /\ \A r \in P : nx[r] \in Heap!AllRecs
  <2>1. /\ bk[d] \in Heap!AllRecs /\ nx[d] \in P \cup {Heap!Last} /\ nx[d] # d
        /\ \A r \in P : nx[r] \in Heap!AllRecs
    BY <1>1, <1>2, <1>3, Pieces
  <2>2. n \in F
    BY <1>1, <1>5, <1>6, <2>1
  <2> QED BY <1>3, <1>6, <2>1, <2>2 DEF Links
<1>8. lo[n] = hi[d]
  BY <1>3, <1>5, <1>6, <1>7 DEF Chain
<1>9. PICK x \in Int, y \in Nat : x = info[d].mem_index /\ y = info[n].mem_length + info[d].mem_length
  BY <1>2, <1>4, <1>7, FieldsAre
<1>10. x = lo[d] /\ y = ln[n] + ln[d]
  BY <1>2, <1>7, <1>9, FieldsAre
<1>11. PICK k, l, i : IndexSet(k, info, n, x) /\ LengthSet(l, k, n, y) /\ NextSet(i, l, b, n)
  BY DEF IndexSet, LengthSet, NextSet
<1>12. BackSet(j, i, n, b)
  BY <1>9, <1>11 DEF JoinedNext, IndexSet, LengthSet, NextSet, BackSet
<1>13. /\ k \in Infos /\ Starts(k) = [lo EXCEPT ![n] = x] /\ Spans(k) = ln
       /\ Nexts(k) = nx /\ Backs(k) = bk /\ Marks(k) = mk
  BY <1>2, <1>7, <1>9, <1>11, SetIndex
<1>14. /\ l \in Infos /\ Spans(l) = [Spans(k) EXCEPT ![n] = y]
       /\ Starts(l) = Starts(k) /\ Nexts(l) = Nexts(k)
       /\ Backs(l) = Backs(k) /\ Marks(l) = Marks(k)
  BY <1>7, <1>9, <1>11, <1>13, SetLength
<1>15. /\ i \in Infos /\ Nexts(i) = [Nexts(l) EXCEPT ![b] = n]
       /\ Starts(i) = Starts(l) /\ Spans(i) = Spans(l)
       /\ Backs(i) = Backs(l) /\ Marks(i) = Marks(l)
  BY <1>7, <1>11, <1>14, SetNext
<1>16. /\ j \in Infos /\ Backs(j) = [Backs(i) EXCEPT ![n] = b]
       /\ Starts(j) = Starts(i) /\ Spans(j) = Spans(i)
       /\ Nexts(j) = Nexts(i) /\ Marks(j) = Marks(i)
  BY <1>7, <1>12, <1>15, SetBack
<1>17. PICK lo2, ln2, mk2, hi2, nx2, bk2 :
         /\ lo2 = Starts(j) /\ ln2 = Spans(j) /\ mk2 = Marks(j)
         /\ hi2 = Ends(j) /\ nx2 = Nexts(j) /\ bk2 = Backs(j)
  OBVIOUS
<1>18. /\ mk2 = mk
       /\ \A r \in Heap!AllRecs : /\ lo2[r] = IF r = n THEN lo[d] ELSE lo[r]
                                  /\ ln2[r] = IF r = n THEN y ELSE ln[r]
                                  /\ nx2[r] = IF r = b THEN n ELSE nx[r]
                                  /\ bk2[r] = IF r = n THEN b ELSE bk[r]
                                  /\ hi2[r] = lo2[r] + ln2[r]
  BY <1>4, <1>7, <1>10, <1>13, <1>14, <1>15, <1>16, <1>17 DEF Ends
<1>19. \A r \in Heap!AllRecs : hi2[r] = hi[r]
  <2>1. ASSUME NEW r \in Heap!AllRecs PROVE hi2[r] = hi[r]
    <3>1. CASE r = n
      <4>1. /\ hi2[r] = lo[d] + (ln[n] + ln[d]) /\ hi[r] = lo[n] + ln[n]
            /\ lo[n] = lo[d] + ln[d]
        BY <1>4, <1>7, <1>8, <1>10, <1>18, <3>1
      <4>2. lo[d] \in Int /\ ln[n] \in Int /\ ln[d] \in Int
        BY <1>4, <1>7
      <4> QED BY <4>1, <4>2
    <3>2. CASE r # n
      BY <1>4, <1>18, <3>2
    <3> QED BY <3>1, <3>2
  <2> QED BY <2>1
<1>20. Chain(P \ {d}, mem_block_num, Heap!First, Heap!Last, lo2, hi2, nx2, bk2)
  <2>1. \A r \in P \ {d} : r \in Heap!AllRecs
    BY <1>3
  <2> QED BY ONLY <1>3, <1>5, <1>6, <1>7, <1>18, <1>19, <2>1, ChainJoinNext
<1>21. P \ {d} = (U \ {d}) \cup F
  BY <1>1, <1>3
<1>22. \A r \in (U \ {d}) \cup {Heap!First, Heap!Last} : mk2[r]
  BY <1>5, <1>18
<1>23. \A r \in F : ~mk2[r] /\ mk2[nx2[r]]
  BY <1>3, <1>5, <1>6, <1>18
<1>24. U \ {d} \subseteq Heap!UsedRecs /\ F \subseteq Heap!FreeRecs
  BY DEF Listed
<1>25. Listed(j, U \ {d}, F)
  BY <1>17, <1>20, <1>21, <1>22, <1>23, <1>24 DEF Listed
<1>26. Kept(j, info, U)
  BY <1>2, <1>3, <1>7, <1>17, <1>18 DEF Kept
<1> QED BY <1>16, <1>25, <1>26

JoinedBack(j, info, d, b, n) ==
  j = [info EXCEPT ![b].mem_length = @ + info[d].mem_length, ![b].next = n, ![n].back = b]

\* Only the piece in front of d is free: it grows to where d ended (em_malloc.c:340-345).
LEMMA JoinBack ==
  ASSUME NEW info \in Infos, NEW U, NEW F, Listed(info, U, F), NEW d \in U,
         NEW b, b = Backs(info)[d], NEW n, n = Nexts(info)[d], ~Marks(info)[b], Marks(info)[n],
         NEW j, JoinedBack(j, info, d, b, n)
  PROVE  j \in Infos /\ Listed(j, U \ {d}, F) /\ Kept(j, info, U)
<1>1. PICK P : P = U \cup F
  OBVIOUS
<1>2. PICK lo, ln, mk, hi, nx, bk : /\ lo = Starts(info) /\ ln = Spans(info) /\ mk = Marks(info)
                                    /\ hi = Ends(info) /\ nx = Nexts(info) /\ bk = Backs(info)
  OBVIOUS
<1>3. /\ P \subseteq Heap!AllRecs /\ U \cap F = {} /\ d \in P /\ U \subseteq P /\ F \subseteq P
      /\ Heap!First \notin P /\ Heap!Last \notin P
      /\ Heap!First \in Heap!AllRecs /\ Heap!Last \in Heap!AllRecs
  BY <1>1, Pieces
<1>4. /\ lo \in [Heap!AllRecs -> Int] /\ ln \in [Heap!AllRecs -> Nat]
      /\ mk \in [Heap!AllRecs -> BOOLEAN] /\ nx \in [Heap!AllRecs -> Links]
      /\ bk \in [Heap!AllRecs -> Links]
      /\ \A r \in Heap!AllRecs : hi[r] = lo[r] + ln[r]
  BY <1>2, FieldTypes DEF Ends
<1>5. /\ Chain(P, mem_block_num, Heap!First, Heap!Last, lo, hi, nx, bk)
      /\ \A r \in U \cup {Heap!First, Heap!Last} : mk[r]
      /\ \A r \in F : ~mk[r] /\ mk[nx[r]]
  BY <1>1, <1>2 DEF Listed
<1>6. b = bk[d] /\ n = nx[d] /\ ~mk[b] /\ mk[n]
  BY <1>2
<1>7. /\ b \in F /\ b \in P /\ b # d /\ b \in Heap!AllRecs /\ n \in Heap!AllRecs
      /\ b \in Links /\ n \in Links /\ d \in Heap!AllRecs /\ b # n
  <2>1. /\ bk[d] \in P \cup {Heap!First} /\ bk[d] # d /\ nx[d] \in Heap!AllRecs
    BY <1>1, <1>2, <1>3, Pieces
  <2>2. b \in F
    BY <1>1, <1>5, <1>6, <2>1
  <2> QED BY <1>3, <1>6, <2>1, <2>2 DEF Links
<1>8. hi[b] = lo[d]
  <2>1. bk[d] # Heap!First
    BY <1>3, <1>6, <1>7
  <2> QED BY <1>3, <1>5, <1>6, <2>1 DEF Chain
<1>9. PICK y \in Nat : y = info[b].mem_length + info[d].mem_length
  BY <1>2, <1>4, <1>7, FieldsAre
<1>10. y = ln[b] + ln[d]
  BY <1>2, <1>7, <1>9, FieldsAre
<1>11. PICK k, i : LengthSet(k, info, b, y) /\ NextSet(i, k, b, n)
  BY DEF LengthSet, NextSet
<1>12. BackSet(j, i, n, b)
  BY <1>9, <1>11 DEF JoinedBack, LengthSet, NextSet, BackSet
<1>13. /\ k \in Infos /\ Spans(k) = [ln EXCEPT ![b] = y] /\ Starts(k) = lo
       /\ Nexts(k) = nx /\ Backs(k) = bk /\ Marks(k) = mk
  BY <1>2, <1>7, <1>9, <1>11, SetLength
<1>14. /\ i \in Infos /\ Nexts(i) = [Nexts(k) EXCEPT ![b] = n]
       /\ Starts(i) = Starts(k) /\ Spans(i) = Spans(k)
       /\ Backs(i) = Backs(k) /\ Marks(i) = Marks(k)
  BY <1>7, <1>11, <1>13, SetNext
<1>15. /\ j \in Infos /\ Backs(j) = [Backs(i) EXCEPT ![n] = b]
       /\ Starts(j) = Starts(i) /\ Spans(j) = Spans(i)
       /\ Nexts(j) = Nexts(i) /\ Marks(j) = Marks(i)
  BY <1>7, <1>12, <1>14, SetBack
<1>16. PICK lo2, ln2, mk2, hi2, nx2, bk2 :
         /\ lo2 = Starts(j) /\ ln2 = Spans(j) /\ mk2 = Marks(j)
         /\ hi2 = Ends(j) /\ nx2 = Nexts(j) /\ bk2 = Backs(j)
  OBVIOUS
<1>17. /\ mk2 = mk
       /\ \A r \in Heap!AllRecs : /\ lo2[r] = lo[r]
                                  /\ ln2[r] = IF r = b THEN y ELSE ln[r]
                                  /\ nx2[r] = IF r = b THEN n ELSE nx[r]
                                  /\ bk2[r] = IF r = n THEN b ELSE bk[r]
                                  /\ hi2[r] = lo2[r] + ln2[r]
  BY <1>4, <1>7, <1>13, <1>14, <1>15, <1>16 DEF Ends
<1>18. \A r \in Heap!AllRecs : hi2[r] = IF r = b THEN hi[d] ELSE hi[r]
  <2>1. ASSUME NEW r \in Heap!AllRecs PROVE hi2[r] = IF r = b THEN hi[d] ELSE hi[r]
    <3>1. CASE r = b
      <4>1. /\ hi2[r] = lo[b] + (ln[b] + ln[d]) /\ hi[d] = lo[d] + ln[d]
            /\ lo[d] = lo[b] + ln[b]
        BY <1>4, <1>7, <1>8, <1>10, <1>17, <3>1
      <4>2. lo[b] \in Int /\ ln[b] \in Int /\ ln[d] \in Int
        BY <1>4, <1>7
      <4> QED BY <3>1, <4>1, <4>2
    <3>2. CASE r # b
      BY <1>4, <1>17, <3>2
    <3> QED BY <3>1, <3>2
  <2> QED BY <2>1
<1>19. Chain(P \ {d}, mem_block_num, Heap!First, Heap!Last, lo2, hi2, nx2, bk2)
  <2>1. \A r \in P \ {d} : r \in Heap!AllRecs
    BY <1>3
  <2> QED BY ONLY <1>3, <1>5, <1>6, <1>7, <1>17, <1>18, <2>1, ChainJoinBack
<1>20. P \ {d} = (U \ {d}) \cup F
  BY <1>1, <1>3
<1>21. \A r \in (U \ {d}) \cup {Heap!First, Heap!Last} : mk2[r]
  BY <1>5, <1>17
<1>22. \A r \in F : ~mk2[r] /\ mk2[nx2[r]]
  BY <1>3, <1>5, <1>6, <1>17
<1>23. U \ {d} \subseteq Heap!UsedRecs /\ F \subseteq Heap!FreeRecs
  BY DEF Listed
<1>24. Listed(j, U \ {d}, F)
  BY <1>16, <1>19, <1>20, <1>21, <1>22, <1>23 DEF Listed
<1>25. Kept(j, info, U)
  <2>1. b \notin U
    BY <1>3, <1>7
  <2> QED BY <1>2, <1>3, <1>16, <1>17, <2>1 DEF Kept
<1> QED BY <1>15, <1>24, <1>25

JoinedBoth(j, info, d, b, n, a) ==
  j = [info EXCEPT ![b].mem_length = @ + info[d].mem_length + info[n].mem_length,
                   ![b].next = a, ![a].back = b]

\* Both neighbours of d are free: the one in front takes all, the record of the one behind
\* is given back (em_malloc.c:347-354).
LEMMA JoinBoth ==
  ASSUME NEW info \in Infos, NEW U, NEW F, Listed(info, U, F), NEW d \in U,
         NEW b, b = Backs(info)[d], NEW n, n = Nexts(info)[d], ~Marks(info)[b], ~Marks(info)[n],
         NEW a, a = Nexts(info)[n], NEW j, JoinedBoth(j, info, d, b, n, a)
  PROVE  j \in Infos /\ Listed(j, U \ {d}, F \ {n}) /\ Kept(j, info, U) /\ n \in F
<1>1. PICK P : P = U \cup F
  OBVIOUS
<1>2. PICK lo, ln, mk, hi, nx, bk : /\ lo = Starts(info) /\ ln = Spans(info) /\ mk = Marks(info)
                                    /\ hi = Ends(info) /\ nx = Nexts(info) /\ bk = Backs(info)
  OBVIOUS
<1>3. /\ P \subseteq Heap!AllRecs /\ U \cap F = {} /\ d \in P /\ U \subseteq P /\ F \subseteq P
      /\ Heap!First \notin P /\ Heap!Last \notin P
      /\ Heap!First \in Heap!AllRecs /\ Heap!Last \in Heap!AllRecs
  BY <1>1, Pieces
<1>4. /\ lo \in [Heap!AllRecs -> Int] /\ ln \in [Heap!AllRecs -> Nat]
      /\ mk \in [Heap!AllRecs -> BOOLEAN] /\ nx \in [Heap!AllRecs -> Links]
      /\ bk \in [Heap!AllRecs -> Links]
      /\ \A r \in Heap!AllRecs : hi[r] = lo[r] + ln[r]
  BY <1>2, FieldTypes DEF Ends
<1>5. /\ Chain(P, mem_block_num, Heap!First, Heap!Last, lo, hi, nx, bk)
      /\ \A r \in U \cup {Heap!First, Heap!Last} : mk[r]
      /\ \A r \in F : ~mk[r] /\ mk[nx[r]]
  BY <1>1, <1>2 DEF Listed
<1>6. b = bk[d] /\ n = nx[d] /\ a = nx[n] /\ ~mk[b] /\ ~mk[n]
  BY <1>2
<1>7. /\ b \in F /\ b \in P /\ b # d /\ b \in Heap!AllRecs
      /\ n \in F /\ n \in P /\ n # d /\ n \in Heap!AllRecs
      /\ b \in Links /\ d \in Heap!AllRecs /\ b # n
      /\ a \in Heap!AllRecs /\ a \in Links /\ a # d /\ a # n /\ a # b /\ mk[a]
  <2>1. /\ bk[d] \in P \cup {Heap!First} /\ bk[d] # d /\ nx[d] \in P \cup {Heap!Last} /\ nx[d] # d
        /\ \A r \in P : nx[r] \in Heap!AllRecs /\ nx[r] # r
    BY <1>1, <1>2, <1>3, Pieces
  <2>2. b \in F /\ n \in F
    BY <1>1, <1>5, <1>6, <2>1
  <2>3. mk[a] /\ a \in Heap!AllRecs /\ mk[nx[b]]
    BY <1>3, <1>5, <1>6, <2>1, <2>2
  <2>4. \A r, s \in P : nx[r] = s <=> bk[s] = r
    BY <1>5, ChainLinks
  <2>5. b # n
    <3>1. /\ lo[n] = hi[d] /\ hi[b] = lo[d] /\ \A r \in P : lo[r] \in Int /\ hi[r] \in Int /\ lo[r] < hi[r]
      BY <1>3, <1>5, <1>6, <2>2 DEF Chain
    <3>2. b \in P /\ n \in P
      BY <1>3, <2>2
    <3>3. /\ lo[d] < hi[d] /\ lo[b] < hi[b]
          /\ lo[d] \in Int /\ hi[d] \in Int /\ lo[b] \in Int /\ hi[b] \in Int
      BY <1>3, <3>1, <3>2
    <3>4. lo[b] # lo[n]
      BY <3>1, <3>3
    <3> QED BY <3>4
  <2>6. a # d /\ a # b /\ a # n /\ b # d /\ n # d
    <3>1. b \in P /\ n \in P
      BY <1>3, <2>2
    <3> QED BY <1>3, <1>6, <2>1, <2>3, <2>4, <2>5, <3>1
  <2>7. b \in P /\ n \in P /\ b \in Heap!AllRecs /\ n \in Heap!AllRecs /\ d \in Heap!AllRecs
    BY <1>3, <2>2
  <2> QED BY <1>6, <2>2, <2>3, <2>5, <2>6, <2>7 DEF Links
<1>8. hi[b] = lo[d] /\ lo[n] = hi[d]
  <2>1. bk[d] # Heap!First /\ nx[d] # Heap!Last
    BY <1>3, <1>6, <1>7
  <2> QED BY <1>3, <1>5, <1>6, <2>1 DEF Chain
<1>9. PICK y \in Nat : y = info[b].mem_length + info[d].mem_length + info[n].mem_length
  BY <1>2, <1>4, <1>7, FieldsAre
<1>10. y = ln[b] + ln[d] + ln[n]
  BY <1>2, <1>7, <1>9, FieldsAre
<1>11. PICK k, i : LengthSet(k, info, b, y) /\ NextSet(i, k, b, a)
  BY DEF LengthSet, NextSet
<1>12. BackSet(j, i, a, b)
  BY <1>9, <1>11 DEF JoinedBoth, LengthSet, NextSet, BackSet
<1>13. /\ k \in Infos /\ Spans(k) = [ln EXCEPT ![b] = y] /\ Starts(k) = lo
       /\ Nexts(k) = nx /\ Backs(k) = bk /\ Marks(k) = mk
  BY <1>2, <1>7, <1>9, <1>11, SetLength
<1>14. /\ i \in Infos /\ Nexts(i) = [Nexts(k) EXCEPT ![b] = a]
       /\ Starts(i) = Starts(k) /\ Spans(i) = Spans(k)
       /\ Backs(i) = Backs(k) /\ Marks(i) = Marks(k)
  BY <1>7, <1>11, <1>13, SetNext
<1>15. /\ j \in Infos /\ Backs(j) = [Backs(i) EXCEPT ![a] = b]
       /\ Starts(j) = Starts(i) /\ Spans(j) = Spans(i)
       /\ Nexts(j) = Nexts(i) /\ Marks(j) = Marks(i)
  BY <1>7, <1>12, <1>14, SetBack
<1>16. PICK lo2, ln2, mk2, hi2, nx2, bk2 :
         /\ lo2 = Starts(j) /\ ln2 = Spans(j) /\ mk2 = Marks(j)
         /\ hi2 = Ends(j) /\ nx2 = Nexts(j) /\ bk2 = Backs(j)
  OBVIOUS
<1>17. /\ mk2 = mk
       /\ \A r \in Heap!AllRecs : /\ lo2[r] = lo[r]
                                  /\ ln2[r] = IF r = b THEN y ELSE ln[r]
                                  /\ nx2[r] = IF r = b THEN a ELSE nx[r]
                                  /\ bk2[r] = IF r = a THEN b ELSE bk[r]
                                  /\ hi2[r] = lo2[r] + ln2[r]
  BY <1>4, <1>7, <1>13, <1>14, <1>15, <1>16 DEF Ends
<1>18. \A r \in Heap!AllRecs : hi2[r] = IF r = b THEN hi[n] ELSE hi[r]
  <2>1. ASSUME NEW r \in Heap!AllRecs PROVE hi2[r] = IF r = b THEN hi[n] ELSE hi[r]
    <3>1. CASE r = b
      <4>1. /\ hi2[r] = lo[b] + (ln[b] + ln[d] + ln[n]) /\ hi[n] = lo[n] + ln[n]
            /\ lo[d] = lo[b] + ln[b] /\ lo[n] = lo[d] + ln[d]
        BY <1>4, <1>7, <1>8, <1>10, <1>17, <3>1
      <4>2. lo[b] \in Int /\ ln[b] \in Int /\ ln[d] \in Int /\ ln[n] \in Int
        BY <1>4, <1>7
      <4> QED BY <3>1, <4>1, <4>2
    <3>2. CASE r # b
      BY <1>4, <1>17, <3>2
    <3> QED BY <3>1, <3>2
  <2> QED BY <2>1
<1>19. PICK hi1, nx1, bk1 : /\ hi1 = [hi EXCEPT ![b] = hi[d]] /\ nx1 = [nx EXCEPT ![b] = n]
                            /\ bk1 = [bk EXCEPT ![n] = b]
  OBVIOUS
<1>20. \A r \in Heap!AllRecs : /\ hi1[r] = IF r = b THEN hi[d] ELSE hi[r]
                               /\ nx1[r] = IF r = b THEN n ELSE nx[r]
                               /\ bk1[r] = IF r = n THEN b ELSE bk[r]
  BY <1>2, <1>4, <1>7, <1>19 DEF Ends
<1>21. Chain(P \ {d}, mem_block_num, Heap!First, Heap!Last, lo, hi1, nx1, bk1)
  <2>1. \A r \in P \ {d} : r \in Heap!AllRecs
    BY <1>3
  <2> QED BY ONLY <1>3, <1>5, <1>6, <1>7, <1>20, <2>1, ChainJoinBack
<1>22. Chain((P \ {d}) \ {n}, mem_block_num, Heap!First, Heap!Last, lo2, hi2, nx2, bk2)
  <2>1. /\ n \in P \ {d} /\ b \in P \ {d} /\ bk1[n] = b /\ hi1[n] = hi[n] /\ nx1[n] = a
        /\ \A r \in (P \ {d}) \ {n} : r \in Heap!AllRecs
    BY <1>3, <1>6, <1>7, <1>20
  <2>2. \A r \in (P \ {d}) \ {n} : /\ lo2[r] = lo[r]
                                   /\ hi2[r] = IF r = b THEN hi1[n] ELSE hi1[r]
                                   /\ nx2[r] = IF r = b THEN nx1[n] ELSE nx1[r]
                                   /\ bk2[r] = IF r = nx1[n] THEN b ELSE bk1[r]
    BY <1>17, <1>18, <1>20, <2>1
  <2> QED BY ONLY <1>21, <2>1, <2>2, ChainJoinBack
<1>23. (P \ {d}) \ {n} = (U \ {d}) \cup (F \ {n})
  BY <1>1, <1>3, <1>7
<1>24. \A r \in (U \ {d}) \cup {Heap!First, Heap!Last} : mk2[r]
  BY <1>5, <1>17
<1>25. \A r \in F \ {n} : ~mk2[r] /\ mk2[nx2[r]]
  BY <1>3, <1>5, <1>7, <1>17
<1>26. U \ {d} \subseteq Heap!UsedRecs /\ F \ {n} \subseteq Heap!FreeRecs
  BY DEF Listed
<1>27. Listed(j, U \ {d}, F \ {n})
  BY <1>16, <1>22, <1>23, <1>24, <1>25, <1>26 DEF Listed
<1>28. Kept(j, info, U)
  <2>1. b \notin U
    BY <1>3, <1>7
  <2> QED BY <1>2, <1>3, <1>16, <1>17, <2>1 DEF Kept
<1> QED BY <1>7, <1>15, <1>27, <1>28

----------------------------------------------------------------------------
(* The heap as a whole: what carving a piece and joining one leave of it. *)

\* The pools of the heap are pools like any other.
LEMMA HeapPools ==
  /\ \A p : /\ Heap!PoolFull(p) <=> PoolFull(p)
            /\ Heap!PoolNext(p) = PoolNext(p) /\ Heap!PoolAlloc(p) = PoolAlloc(p)
            /\ Heap!InUse(p) = InUse(p)
  /\ \A p, r : Heap!PoolFree(p, r) = PoolFree(p, r)
<1>1. \A S : Heap!Cardinality(S) = Cardinality(S)
  BY DEF Heap!Cardinality, Cardinality
<1>2. \A p : /\ Heap!PoolFull(p) <=> PoolFull(p)
             /\ Heap!PoolNext(p) = PoolNext(p) /\ Heap!PoolAlloc(p) = PoolAlloc(p)
             /\ Heap!InUse(p) = InUse(p)
  BY <1>1 DEF Heap!PoolFull, PoolFull, Heap!PoolNext, PoolNext, Heap!PoolAlloc, PoolAlloc,
              Heap!InUse, InUse
<1>3. \A p, r : Heap!PoolFree(p, r) = PoolFree(p, r)
  BY DEF Heap!PoolFree, PoolFree, Heap!InUse, InUse
<1> QED BY <1>2, <1>3

\* A heap with its fields.
Shape(info, used, free, ptr, n) ==
  [info |-> info, used |-> used, free |-> free, minfo_ptr |-> ptr, mem_used_bsize |-> n]

HeapTyped(h) ==
  /\ h = Shape(h.info, h.used, h.free, h.minfo_ptr, h.mem_used_bsize)
  /\ h.info \in Infos
  /\ PoolOver(h.used, alloc_max_num, Heap!UsedRecs)
  /\ PoolOver(h.free, alloc_max_num, Heap!FreeRecs)
  /\ h.minfo_ptr \in [0 .. mem_block_num - 1 -> Heap!UsedRecs \cup {Heap!Null}]
  /\ h.mem_used_bsize \in Int

HeapOver(h) == HeapTyped(h) /\ Listed(h.info, InUse(h.used), InUse(h.free))

\* A used piece between two used ones leaves a record of mp_free to spare
\* (em_malloc.c:321-325): the pieces behind free ones are used, and not those two.
LEMMA SpareRecord ==
  ASSUME NEW info \in Infos, NEW U, NEW F, Listed(info, U, F), NEW d \in U,
         Marks(info)[Backs(info)[d]], Marks(info)[Nexts(info)[d]],
         NEW M \in Nat, IsFiniteSet(U), Cardinality(U) <= M
  PROVE  IsFiniteSet(F) /\ Cardinality(F) < M
<1>1. PICK nx : nx = Nexts(info)
  OBVIOUS
<1>2. PICK e : e = nx[d]
  OBVIOUS
<1>3. PICK B : B = (U \cup {Heap!Last}) \ {d, e}
  OBVIOUS
<1>4. PICK P : P = U \cup F
  OBVIOUS
<1>5. PICK bk : bk = Backs(info)
  OBVIOUS
<1>6. /\ \A r \in P : bk[r] \in P \cup {Heap!First} /\ nx[r] \in P \cup {Heap!Last}
      /\ \A r, s \in P : nx[r] = s <=> bk[s] = r
      /\ \A r, s \in P : nx[r] = nx[s] => r = s
      /\ \A r \in P : nx[r] # r
  <2>1. PICK lo, hi : lo = Starts(info) /\ hi = Ends(info)
    OBVIOUS
  <2>2. Chain(P, mem_block_num, Heap!First, Heap!Last, lo, hi, nx, bk)
    BY <1>1, <1>4, <1>5, <2>1 DEF Listed
  <2> QED BY ONLY <2>2, ChainLinks
<1>7. /\ Heap!Last \notin P /\ d \in P /\ F \subseteq P /\ U \cap F = {}
      /\ \A r \in F : ~Marks(info)[r] /\ Marks(info)[nx[r]]
      /\ Marks(info)[bk[d]] /\ Marks(info)[e]
  BY <1>1, <1>2, <1>4, <1>5, Pieces DEF Listed
<1>8. e \in U \cup {Heap!Last} /\ e # d
  BY <1>2, <1>4, <1>6, <1>7
<1>9. \A r \in F : nx[r] \in B
  <2>1. ASSUME NEW r \in F PROVE nx[r] \in B
    <3>1. nx[r] \in U \cup {Heap!Last}
      BY <1>4, <1>6, <1>7
    <3>2. nx[r] # d
      BY <1>6, <1>7
    <3>3. nx[r] # e
      BY <1>2, <1>6, <1>7
    <3> QED BY <1>3, <3>1, <3>2, <3>3
  <2> QED BY <2>1
<1>10. IsFiniteSet(B) /\ Cardinality(B) = Cardinality(U) - 1 /\ Cardinality(U) \in Nat
  <2>1. PICK C : C = U \cup {Heap!Last}
    OBVIOUS
  <2>2. IsFiniteSet(C) /\ Cardinality(C) = Cardinality(U) + 1 /\ Cardinality(U) \in Nat
    BY <1>4, <1>7, <2>1, FS_AddElement, FS_CardinalityType
  <2>3. PICK D : D = C \ {d}
    OBVIOUS
  <2>4. IsFiniteSet(D) /\ Cardinality(D) = Cardinality(C) - 1 /\ e \in D
    BY <1>8, <2>1, <2>2, <2>3, FS_RemoveElement
  <2>5. B = D \ {e}
    BY <1>3, <2>1, <2>3
  <2> QED BY <2>2, <2>4, <2>5, FS_RemoveElement
<1>11. PICK g : g = [r \in F |-> nx[r]]
  OBVIOUS
<1>12. g \in Injection(F, B)
  BY <1>6, <1>7, <1>9, <1>11 DEF Injection, IsInjective
<1>13. IsFiniteSet(F) /\ Cardinality(F) <= Cardinality(B) /\ Cardinality(F) \in Nat
  BY ONLY <1>10, <1>12, FS_Injection, FS_CardinalityType
<1> QED BY <1>10, <1>13

\* An allocation from a free piece f that is long enough puts a record of mp_used in its
\* place or in front of it; an exact fit is the last piece, or else a misfit.
Carved(h, r, f, bl) ==
  LET c == PoolNext(h.used) IN
  /\ HeapOver(r.heap) /\ r.lost = 0
  /\ c \in Heap!UsedRecs \ InUse(h.used) /\ InUse(r.heap.used) = InUse(h.used) \cup {c}
  /\ InUse(r.heap.free) \subseteq InUse(h.free)
  /\ \A x \in InUse(r.heap.free) : Spans(r.heap.info)[x] <= Spans(h.info)[x]
  /\ Kept(r.heap.info, h.info, InUse(h.used))
  /\ r.index = Starts(h.info)[f]
  /\ Starts(r.heap.info)[c] = r.index /\ Spans(r.heap.info)[c] = bl
  /\ r.heap.minfo_ptr = [h.minfo_ptr EXCEPT ![r.index] = c]
  /\ r.heap.mem_used_bsize = h.mem_used_bsize

\* What Carve makes of the fields of the heap.
LEMMA CarveFields ==
  ASSUME NEW h, HeapTyped(h), NEW c, NEW f \in Heap!AllRecs, NEW bl,
         NEW r, r = Heap!Carve(h, c, f, bl)
  PROVE  LET exact == Spans(h.info)[f] = bl
             i == Starts(h.info)[f]
         IN /\ r.index = i /\ r.lost = 0
            /\ r.misfit <=> exact /\ Nexts(h.info)[f] # Heap!Last
            /\ r.heap = Shape(r.heap.info, Heap!PoolAlloc(h.used),
                              IF exact THEN Heap!PoolFree(h.free, f) ELSE h.free,
                              [h.minfo_ptr EXCEPT ![i] = c], h.mem_used_bsize)
            /\ exact => PutInFront(r.heap.info, h.info, c, f, bl, Nexts(h.info)[f])
            /\ ~exact => \E linked : /\ PutInFront(linked, h.info, c, f, bl, f)
                                     /\ CutDown(r.heap.info, linked, f, bl, c)
<1> DEFINE fr == h.info[f]
           exact == fr.mem_length = bl
           placed == Heap!Record(fr.mem_index, bl, TRUE, IF exact THEN fr.next ELSE f, fr.back)
           linked == [h.info EXCEPT ![c] = placed, ![fr.back].next = c]
           cut == [linked EXCEPT ![f].mem_index = @ + bl, ![f].mem_length = @ - bl, ![f].back = c]
<1>1. r = [heap |-> [h EXCEPT !.info = IF exact THEN linked ELSE cut,
                         !.free = IF exact THEN Heap!PoolFree(h.free, f) ELSE h.free,
                         !.used = Heap!PoolAlloc(h.used),
                         !.minfo_ptr[fr.mem_index] = c],
      index |-> fr.mem_index,
      misfit |-> exact /\ fr.next # Heap!Last,
      lost |-> 0]
  BY DEF Heap!Carve
<1>2. exact => PutInFront(linked, h.info, c, f, bl, fr.next)
  BY DEF PutInFront
<1>3. ~exact => PutInFront(linked, h.info, c, f, bl, f) /\ CutDown(cut, linked, f, bl, c)
  BY SMTT(60) DEF PutInFront, CutDown
<1>4. PICK L, K : L = linked /\ K = cut
  BY Zenon
<1> HIDE DEF linked, cut, placed
<1>5. PICK j : j = IF exact THEN L ELSE K
  OBVIOUS
<1>6. r = [heap |-> [h EXCEPT !.info = j,
                         !.free = IF exact THEN Heap!PoolFree(h.free, f) ELSE h.free,
                         !.used = Heap!PoolAlloc(h.used),
                         !.minfo_ptr[fr.mem_index] = c],
      index |-> fr.mem_index,
      misfit |-> exact /\ fr.next # Heap!Last,
      lost |-> 0]
  BY <1>1, <1>4, <1>5
<1> HIDE DEF exact, fr
<1>7. /\ r.heap = [h EXCEPT !.info = j,
                         !.free = IF exact THEN Heap!PoolFree(h.free, f) ELSE h.free,
                         !.used = Heap!PoolAlloc(h.used),
                         !.minfo_ptr[fr.mem_index] = c]
      /\ r.index = fr.mem_index /\ r.lost = 0
  BY <1>6
<1>8. r.misfit <=> exact /\ fr.next # Heap!Last
  <2>1. PICK z : z = (exact /\ fr.next # Heap!Last)
    OBVIOUS
  <2>2. PICK x, y : r = [heap |-> x, index |-> y, misfit |-> z, lost |-> 0]
    BY <1>6, <2>1, Zenon
  <2>3. r.misfit = z
    BY <2>2
  <2> QED BY <2>1, <2>3
<1>9. r.heap = Shape(j, Heap!PoolAlloc(h.used),
                       IF exact THEN Heap!PoolFree(h.free, f) ELSE h.free,
                       [h.minfo_ptr EXCEPT ![fr.mem_index] = c], h.mem_used_bsize)
  <2>1. PICK info, used, free, ptr, n : h = [info |-> info, used |-> used, free |-> free,
                                             minfo_ptr |-> ptr, mem_used_bsize |-> n]
    BY DEF HeapTyped, Shape
  <2>2. h.info = info /\ h.used = used /\ h.free = free /\ h.minfo_ptr = ptr /\ h.mem_used_bsize = n
    BY <2>1
  <2> QED BY <1>7, <2>1, <2>2 DEF Shape
<1>10. r.heap.info = j
  BY <1>9 DEF Shape
<1>11. /\ fr.mem_length = Spans(h.info)[f] /\ fr.mem_index = Starts(h.info)[f]
       /\ fr.next = Nexts(h.info)[f] /\ (exact <=> Spans(h.info)[f] = bl)
  BY FieldsAre DEF HeapTyped, fr, exact
<1>12. exact => PutInFront(r.heap.info, h.info, c, f, bl, Nexts(h.info)[f])
  BY <1>2, <1>4, <1>5, <1>10, <1>11
<1>13. ~exact => \E l : PutInFront(l, h.info, c, f, bl, f) /\ CutDown(r.heap.info, l, f, bl, c)
  BY <1>3, <1>4, <1>5, <1>10
<1> QED BY <1>7, <1>8, <1>9, <1>10, <1>11, <1>12, <1>13, SMTT(60)

\* The fields of a heap that is given by them.
LEMMA ShapeFields ==
  ASSUME NEW info, NEW used, NEW free, NEW ptr, NEW n,
         NEW h, h = Shape(info, used, free, ptr, n)
  PROVE  /\ h.info = info /\ h.used = used /\ h.free = free /\ h.minfo_ptr = ptr
         /\ h.mem_used_bsize = n
         /\ h = Shape(h.info, h.used, h.free, h.minfo_ptr, h.mem_used_bsize)
  BY DEF Shape

LEMMA CarveKeeps ==
  ASSUME NEW h, HeapOver(h), h.used.num_used # alloc_max_num,
         NEW f \in InUse(h.free), NEW bl \in Nat, 0 < bl, bl <= Spans(h.info)[f],
         NEW r, r = Heap!Carve(h, PoolNext(h.used), f, bl), ~r.misfit
  PROVE  Carved(h, r, f, bl)
<1>1. PICK U, F, c : U = InUse(h.used) /\ F = InUse(h.free) /\ c = PoolNext(h.used)
  OBVIOUS
<1>2. alloc_max_num \in Nat /\ HeapTyped(h) /\ Listed(h.info, U, F) /\ h.info \in Infos /\ f \in F
  BY <1>1, HeapNumbers DEF HeapOver, HeapTyped
<1>3. /\ PoolOver(PoolAlloc(h.used), alloc_max_num, Heap!UsedRecs)
      /\ c \in Heap!UsedRecs \ U /\ InUse(PoolAlloc(h.used)) = U \cup {c}
  <2>1. PoolOver(h.used, alloc_max_num, Heap!UsedRecs)
    BY <1>2 DEF HeapTyped
  <2>2. PoolOver(PoolAlloc(h.used), alloc_max_num, Heap!UsedRecs)
    BY <1>2, <2>1, OverAlloc
  <2>3. /\ PoolNext(h.used) \in Heap!UsedRecs /\ PoolNext(h.used) \notin InUse(h.used)
        /\ InUse(PoolAlloc(h.used)) = InUse(h.used) \cup {PoolNext(h.used)}
    BY <1>2, <2>1, OverAlloc
  <2> QED BY <1>1, <2>2, <2>3
<1>4. /\ PoolOver(PoolFree(h.free, f), alloc_max_num, Heap!FreeRecs)
      /\ InUse(PoolFree(h.free, f)) = F \ {f}
  BY <1>1, <1>2, OverFree DEF HeapTyped
<1>5. f \in Heap!AllRecs /\ c \in Heap!AllRecs
  BY <1>2, <1>3, RecordSets DEF Listed
<1>6. PICK i \in 0 .. mem_block_num - 1 : i = Starts(h.info)[f]
  <2>1. f \in U \cup F
    BY <1>2
  <2>2. PICK lo, hi : lo = Starts(h.info) /\ hi = Ends(h.info)
    OBVIOUS
  <2>3. lo[f] \in Int /\ hi[f] \in Int /\ 0 <= lo[f] /\ lo[f] < hi[f] /\ hi[f] <= mem_block_num
    BY <1>2, <2>1, <2>2 DEF Listed, Chain
  <2> QED BY <2>2, <2>3, HeapNumbers
<1>7. PICK ptr \in [0 .. mem_block_num - 1 -> Heap!UsedRecs \cup {Heap!Null}] :
        ptr = [h.minfo_ptr EXCEPT ![i] = c]
  BY <1>2, <1>3 DEF HeapTyped
<1>8. PICK exact \in BOOLEAN : exact <=> Spans(h.info)[f] = bl
  OBVIOUS
<1>9. PICK j, free : /\ j = r.heap.info
                     /\ free = IF exact THEN PoolFree(h.free, f) ELSE h.free
  OBVIOUS
<1>10. /\ r.index = i /\ r.lost = 0 /\ (exact => Nexts(h.info)[f] = Heap!Last)
       /\ r.heap = Shape(j, PoolAlloc(h.used), free, ptr, h.mem_used_bsize)
       /\ exact => PutInFront(j, h.info, c, f, bl, Nexts(h.info)[f])
       /\ ~exact => \E linked : PutInFront(linked, h.info, c, f, bl, f) /\ CutDown(j, linked, f, bl, c)
  <2>1. /\ r.index = i /\ r.lost = 0
        /\ r.misfit <=> exact /\ Nexts(h.info)[f] # Heap!Last
        /\ r.heap = Shape(r.heap.info, Heap!PoolAlloc(h.used),
                          IF exact THEN Heap!PoolFree(h.free, f) ELSE h.free,
                          [h.minfo_ptr EXCEPT ![i] = c], h.mem_used_bsize)
        /\ exact => PutInFront(r.heap.info, h.info, c, f, bl, Nexts(h.info)[f])
        /\ ~exact => \E linked : /\ PutInFront(linked, h.info, c, f, bl, f)
                                 /\ CutDown(r.heap.info, linked, f, bl, c)
    BY <1>1, <1>2, <1>5, <1>6, <1>8, CarveFields
  <2> QED BY <1>7, <1>9, <2>1, HeapPools
<1>11. /\ j \in Infos /\ Listed(j, U \cup {c}, InUse(free)) /\ Kept(j, h.info, U)
       /\ Starts(j)[c] = i /\ Spans(j)[c] = bl /\ InUse(free) \subseteq F
       /\ \A x \in InUse(free) : Spans(j)[x] <= Spans(h.info)[x]
       /\ PoolOver(free, alloc_max_num, Heap!FreeRecs)
  <2>1. CASE exact
    <3>1. /\ Nexts(h.info)[f] = Heap!Last
          /\ PutInFront(j, h.info, c, f, bl, Heap!Last) /\ bl = Spans(h.info)[f]
      BY <1>8, <1>10, <2>1
    <3>2. /\ j \in Infos /\ Listed(j, U \cup {c}, F \ {f}) /\ Kept(j, h.info, U \cup F)
          /\ Starts(j)[c] = Starts(h.info)[f] /\ Spans(j)[c] = bl
      <4>1. Kept(j, h.info, U \cup F)
        BY ONLY <1>2, <1>3, <3>1, CarveFits
      <4>2. Listed(j, U \cup {c}, F \ {f})
        BY ONLY <1>2, <1>3, <3>1, <4>1, CarveFits
      <4>3. j \in Infos /\ Starts(j)[c] = Starts(h.info)[f]
        BY ONLY <1>2, <1>3, <3>1, <4>1, <4>2, CarveFits
      <4>4. Spans(j)[c] = bl
        BY ONLY <1>2, <1>3, <3>1, <4>1, <4>2, CarveFits
      <4> QED BY ONLY <4>1, <4>2, <4>3, <4>4
    <3>3. free = PoolFree(h.free, f) /\ InUse(free) = F \ {f} /\ Spans(h.info)[f] = bl
      BY <1>4, <1>8, <1>9, <2>1
    <3>4. Kept(j, h.info, U) /\ \A x \in F : Spans(j)[x] = Spans(h.info)[x]
      BY <3>2 DEF Kept
    <3>5. \A x \in F : Spans(h.info)[x] \in Nat
      BY <1>2, FieldTypes, RecordSets DEF Listed
    <3>6. \A x \in InUse(free) : x \in F /\ Spans(j)[x] <= Spans(h.info)[x]
      BY ONLY <3>3, <3>4, <3>5
    <3> QED BY <1>4, <1>6, <3>2, <3>3, <3>4, <3>6
  <2>2. CASE ~exact
    <3>1. PICK linked : PutInFront(linked, h.info, c, f, bl, f) /\ CutDown(j, linked, f, bl, c)
      BY <1>10, <2>2
    <3>2. Spans(h.info)[f] \in Nat
      BY <1>2, <1>5, FieldTypes
    <3>3. bl < Spans(h.info)[f] /\ bl \in Nat /\ 0 < bl
      BY <1>8, <2>2, <3>2
    <3>4. /\ j \in Infos /\ Listed(j, U \cup {c}, F) /\ Kept(j, h.info, U)
          /\ Starts(j)[c] = Starts(h.info)[f] /\ Spans(j)[c] = bl
          /\ \A x \in F : Spans(j)[x] <= Spans(h.info)[x]
      BY ONLY <1>2, <1>3, <3>1, <3>3, CarveSplits
    <3>5. free = h.free
      BY <1>9, <2>2
    <3> QED BY <1>1, <1>2, <1>6, <3>4, <3>5 DEF HeapTyped
  <2> QED BY <2>1, <2>2
<1>12. /\ r.heap.info = j /\ r.heap.used = PoolAlloc(h.used) /\ r.heap.free = free
       /\ r.heap.minfo_ptr = ptr /\ r.heap.mem_used_bsize = h.mem_used_bsize
       /\ r.heap = Shape(r.heap.info, r.heap.used, r.heap.free, r.heap.minfo_ptr, r.heap.mem_used_bsize)
  BY ONLY <1>10, ShapeFields
<1>13. HeapOver(r.heap)
  <2>1. HeapTyped(r.heap)
    BY <1>2, <1>3, <1>11, <1>12 DEF HeapTyped
  <2> QED BY <1>3, <1>11, <1>12, <2>1 DEF HeapOver
<1> QED BY <1>1, <1>3, <1>6, <1>7, <1>10, <1>11, <1>12, <1>13 DEF Carved

\* What a free makes of the list and of the free pieces.
JoinedInto(h, g, d) ==
  /\ g = Shape(g.info, h.used, g.free, h.minfo_ptr, h.mem_used_bsize)
  /\ g.info \in Infos /\ PoolOver(g.free, alloc_max_num, Heap!FreeRecs)
  /\ Listed(g.info, InUse(h.used) \ {d}, InUse(g.free))
  /\ Kept(g.info, h.info, InUse(h.used))

\* What Joined makes of the fields of the heap.
LEMMA JoinedFields ==
  ASSUME NEW h, HeapTyped(h), NEW d \in Heap!AllRecs, NEW b, b = Backs(h.info)[d],
         NEW n, n = Nexts(h.info)[d], b \in Heap!AllRecs, n \in Heap!AllRecs,
         NEW g, g = Heap!Joined(h, d)
  PROVE  /\ g = Shape(g.info, h.used, g.free, h.minfo_ptr, h.mem_used_bsize)
         /\ Marks(h.info)[b] /\ Marks(h.info)[n] =>
              /\ g.free = PoolAlloc(h.free) /\ JoinedNone(g.info, h.info, d, PoolNext(h.free))
         /\ Marks(h.info)[b] /\ ~Marks(h.info)[n] =>
              g.free = h.free /\ JoinedNext(g.info, h.info, d, b, n)
         /\ ~Marks(h.info)[b] /\ Marks(h.info)[n] =>
              g.free = h.free /\ JoinedBack(g.info, h.info, d, b, n)
         /\ ~Marks(h.info)[b] /\ ~Marks(h.info)[n] =>
              /\ g.free = PoolFree(h.free, n)
              /\ JoinedBoth(g.info, h.info, d, b, n, Nexts(h.info)[n])
<1>1. /\ h.info[d].back = b /\ h.info[d].next = n /\ h.info \in Infos
      /\ h.info[n].next = Nexts(h.info)[n]
      /\ h.info[b].is_used <=> Marks(h.info)[b]
      /\ h.info[n].is_used <=> Marks(h.info)[n]
  BY FieldsAre DEF HeapTyped
<1>2. ASSUME NEW j, NEW k, h.info \in Infos, g = [h EXCEPT !.info = j, !.free = k]
      PROVE  g = Shape(j, h.used, k, h.minfo_ptr, h.mem_used_bsize) /\ g.info = j /\ g.free = k
  BY <1>2 DEF HeapTyped, Shape
<1>3. ASSUME NEW j, h.info \in Infos, g = [h EXCEPT !.info = j]
      PROVE  g = Shape(j, h.used, h.free, h.minfo_ptr, h.mem_used_bsize) /\ g.info = j /\ g.free = h.free
  BY <1>3 DEF HeapTyped, Shape
<1> DEFINE new == PoolNext(h.free)
<1>4. CASE Marks(h.info)[b] /\ Marks(h.info)[n]
  <2> DEFINE j == [h.info EXCEPT ![new] = [h.info[d] EXCEPT !.is_used = FALSE],
                                 ![h.info[d].back].next = new, ![h.info[d].next].back = new]
  <2>1. g = [h EXCEPT !.info = j, !.free = PoolAlloc(h.free)]
    BY <1>1, <1>4, HeapPools, Zenon DEF Heap!Joined
  <2>2. JoinedNone(j, h.info, d, new)
    BY DEF JoinedNone
  <2> HIDE DEF j
  <2>3. /\ g = Shape(j, h.used, PoolAlloc(h.free), h.minfo_ptr, h.mem_used_bsize)
        /\ g.info = j /\ g.free = PoolAlloc(h.free)
    <3>1. PICK k : k = PoolAlloc(h.free)
      OBVIOUS
    <3>2. g = [h EXCEPT !.info = j, !.free = k]
      BY <2>1, <3>1
    <3> QED BY <1>1, <1>2, <3>1, <3>2, ZenonT(60)
  <2> QED BY <1>4, <2>2, <2>3
<1>5. CASE Marks(h.info)[b] /\ ~Marks(h.info)[n]
  <2> DEFINE j == [h.info EXCEPT ![n].mem_index = h.info[d].mem_index,
                                 ![n].mem_length = @ + h.info[d].mem_length,
                                 ![b].next = n, ![n].back = b]
  <2>1. g = [h EXCEPT !.info = j]
    BY <1>1, <1>5, Zenon DEF Heap!Joined
  <2>2. JoinedNext(j, h.info, d, b, n)
    BY DEF JoinedNext
  <2> HIDE DEF j
  <2> QED BY <1>1, <1>3, <1>5, <2>1, <2>2
<1>6. CASE ~Marks(h.info)[b] /\ Marks(h.info)[n]
  <2> DEFINE j == [h.info EXCEPT ![b].mem_length = @ + h.info[d].mem_length,
                                 ![b].next = n, ![n].back = b]
  <2>1. g = [h EXCEPT !.info = j]
    BY <1>1, <1>6, Zenon DEF Heap!Joined
  <2>2. JoinedBack(j, h.info, d, b, n)
    BY DEF JoinedBack
  <2> HIDE DEF j
  <2> QED BY <1>1, <1>3, <1>6, <2>1, <2>2, SMTT(60)
<1>7. CASE ~Marks(h.info)[b] /\ ~Marks(h.info)[n]
  <2> DEFINE j == [h.info EXCEPT ![b].mem_length = @ + h.info[d].mem_length + h.info[n].mem_length,
                                 ![b].next = h.info[n].next, ![h.info[n].next].back = b]
  <2>1. g = [h EXCEPT !.info = j, !.free = PoolFree(h.free, n)]
    BY <1>1, <1>7, HeapPools, Zenon DEF Heap!Joined
  <2>2. JoinedBoth(j, h.info, d, b, n, h.info[n].next)
    BY DEF JoinedBoth
  <2> HIDE DEF j
  <2> QED BY <1>1, <1>2, <1>7, <2>1, <2>2, ZenonT(60)
<1> QED BY <1>1, <1>4, <1>5, <1>6, <1>7

LEMMA JoinKeeps ==
  ASSUME NEW h, HeapOver(h), NEW d \in InUse(h.used), NEW g, g = Heap!Joined(h, d)
  PROVE  JoinedInto(h, g, d)
<1>1. PICK U, F, info : U = InUse(h.used) /\ F = InUse(h.free) /\ info = h.info
  OBVIOUS
<1>2. PICK b, n : b = Backs(info)[d] /\ n = Nexts(info)[d]
  OBVIOUS
<1>3. alloc_max_num \in Nat /\ HeapTyped(h) /\ Listed(info, U, F) /\ info \in Infos /\ d \in U
  BY <1>1, HeapNumbers DEF HeapOver, HeapTyped
<1>4. d \in Heap!AllRecs /\ b \in Heap!AllRecs /\ n \in Heap!AllRecs
  BY <1>2, <1>3, Pieces
<1>5. /\ g = Shape(g.info, h.used, g.free, h.minfo_ptr, h.mem_used_bsize)
      /\ Marks(info)[b] /\ Marks(info)[n] =>
           /\ g.free = PoolAlloc(h.free) /\ JoinedNone(g.info, info, d, PoolNext(h.free))
      /\ Marks(info)[b] /\ ~Marks(info)[n] =>
           g.free = h.free /\ JoinedNext(g.info, info, d, b, n)
      /\ ~Marks(info)[b] /\ Marks(info)[n] =>
           g.free = h.free /\ JoinedBack(g.info, info, d, b, n)
      /\ ~Marks(info)[b] /\ ~Marks(info)[n] =>
           g.free = PoolFree(h.free, n) /\ JoinedBoth(g.info, info, d, b, n, Nexts(info)[n])
  BY <1>1, <1>2, <1>3, <1>4, JoinedFields
<1>6. PICK j : j = g.info
  OBVIOUS
<1>7. ASSUME j \in Infos, PoolOver(g.free, alloc_max_num, Heap!FreeRecs),
             Listed(j, U \ {d}, InUse(g.free)), Kept(j, info, U)
      PROVE  JoinedInto(h, g, d)
  BY <1>1, <1>5, <1>6, <1>7 DEF JoinedInto
<1>8. PoolOver(h.free, alloc_max_num, Heap!FreeRecs)
  BY <1>3 DEF HeapTyped
<1>9. CASE Marks(info)[b] /\ Marks(info)[n]
  <2>1. PICK c : c = PoolNext(h.free)
    OBVIOUS
  <2>2. JoinedNone(j, info, d, c) /\ g.free = PoolAlloc(h.free)
    BY <1>5, <1>6, <1>9, <2>1
  <2>3. Marks(info)[Backs(info)[d]] /\ Marks(info)[Nexts(info)[d]]
    BY <1>2, <1>9
  <2>4. h.free.num_used # alloc_max_num
    <3>1. /\ IsFiniteSet(U) /\ Cardinality(U) = h.used.num_used
          /\ h.used.num_used \in 0 .. alloc_max_num /\ Cardinality(F) = h.free.num_used
      BY <1>1, <1>3, OverCount DEF HeapTyped, PoolOver
    <3>2. Cardinality(U) <= alloc_max_num
      BY <1>3, <3>1
    <3>3. Cardinality(F) < alloc_max_num
      BY ONLY <1>3, <2>3, <3>1, <3>2, SpareRecord
    <3> QED BY <1>3, <3>1, <3>3
  <2>5. /\ PoolOver(PoolAlloc(h.free), alloc_max_num, Heap!FreeRecs)
        /\ c \in Heap!FreeRecs \ F /\ InUse(PoolAlloc(h.free)) = F \cup {c}
    BY <1>1, <1>3, <1>8, <2>1, <2>4, OverAlloc
  <2>6. c \in Heap!FreeRecs \ F
    BY <2>5
  <2>7. j \in Infos /\ Listed(j, U \ {d}, F \cup {c}) /\ Kept(j, info, U)
    BY ONLY <1>3, <2>2, <2>3, <2>6, JoinNone
  <2> QED BY <1>7, <2>2, <2>5, <2>7
<1>10. CASE Marks(info)[b] /\ ~Marks(info)[n]
  <2>1. JoinedNext(j, info, d, b, n) /\ g.free = h.free
    BY <1>5, <1>6, <1>10
  <2>2. j \in Infos /\ Listed(j, U \ {d}, F) /\ Kept(j, info, U)
    BY ONLY <1>2, <1>3, <1>10, <2>1, JoinNext
  <2> QED BY <1>1, <1>7, <1>8, <2>1, <2>2
<1>11. CASE ~Marks(info)[b] /\ Marks(info)[n]
  <2>1. JoinedBack(j, info, d, b, n) /\ g.free = h.free
    BY <1>5, <1>6, <1>11
  <2>2. j \in Infos /\ Listed(j, U \ {d}, F) /\ Kept(j, info, U)
    BY ONLY <1>2, <1>3, <1>11, <2>1, JoinBack
  <2> QED BY <1>1, <1>7, <1>8, <2>1, <2>2
<1>12. CASE ~Marks(info)[b] /\ ~Marks(info)[n]
  <2>1. PICK a : a = Nexts(info)[n]
    OBVIOUS
  <2>2. JoinedBoth(j, info, d, b, n, a) /\ g.free = PoolFree(h.free, n)
    BY <1>5, <1>6, <1>12, <2>1
  <2>3. j \in Infos /\ Listed(j, U \ {d}, F \ {n}) /\ Kept(j, info, U)
    BY ONLY <1>2, <1>3, <1>12, <2>1, <2>2, JoinBoth
  <2>4. /\ PoolOver(PoolFree(h.free, n), alloc_max_num, Heap!FreeRecs)
        /\ InUse(PoolFree(h.free, n)) = F \ {n}
    BY <1>1, <1>3, <1>8, OverFree
  <2> QED BY <1>7, <2>2, <2>3, <2>4
<1> QED BY <1>9, <1>10, <1>11, <1>12

\* A free of the used piece d: it is gone, the other used pieces stay where they are.
Freed(h, r, d) ==
  /\ HeapOver(r) /\ InUse(r.used) = InUse(h.used) \ {d}
  /\ Kept(r.info, h.info, InUse(h.used) \ {d})
  /\ r.minfo_ptr = h.minfo_ptr
  /\ r.mem_used_bsize = h.mem_used_bsize - Spans(h.info)[d]

LEMMA FreeKeeps ==
  ASSUME NEW h, HeapOver(h), NEW i, NEW d \in InUse(h.used), d = h.minfo_ptr[i],
         NEW r, r = Heap!Free(h, i)
  PROVE  Freed(h, r, d)
<1>1. PICK g : g = Heap!Joined(h, d)
  OBVIOUS
<1>2. JoinedInto(h, g, d)
  BY <1>1, JoinKeeps
<1>3. alloc_max_num \in Nat /\ HeapTyped(h) /\ d \in Heap!AllRecs /\ h.info \in Infos
  BY HeapNumbers, Pieces DEF HeapOver, HeapTyped
<1>4. PICK n \in Int : n = h.mem_used_bsize - Spans(h.info)[d]
  BY <1>3, FieldTypes DEF HeapTyped
<1>5. PICK used : used = PoolFree(h.used, d)
  OBVIOUS
<1>6. PoolOver(used, alloc_max_num, Heap!UsedRecs) /\ InUse(used) = InUse(h.used) \ {d}
  <2>1. PoolOver(h.used, alloc_max_num, Heap!UsedRecs) /\ alloc_max_num \in Nat
    BY <1>3 DEF HeapTyped
  <2> QED BY ONLY <1>5, <2>1, OverFree
<1>7. PICK info, free : /\ info = g.info /\ free = g.free
                        /\ g = Shape(info, h.used, free, h.minfo_ptr, h.mem_used_bsize)
  BY <1>2 DEF JoinedInto
<1>8. g.used = h.used /\ g.mem_used_bsize = h.mem_used_bsize
  BY <1>7, ShapeFields
<1>9. h.info[d].mem_length = Spans(h.info)[d]
  BY <1>3, FieldsAre
<1>10. r = [g EXCEPT !.used = used, !.mem_used_bsize = n]
  BY <1>1, <1>4, <1>5, <1>8, <1>9, HeapPools DEF Heap!Free
<1>11. r = Shape(info, used, free, h.minfo_ptr, n)
  <2>1. PICK u, p, m : u = h.used /\ p = h.minfo_ptr /\ m = h.mem_used_bsize
    OBVIOUS
  <2>2. g = [info |-> info, used |-> u, free |-> free, minfo_ptr |-> p, mem_used_bsize |-> m]
    BY <1>7, <2>1 DEF Shape
  <2>3. r = [info |-> info, used |-> used, free |-> free, minfo_ptr |-> p, mem_used_bsize |-> n]
    BY ONLY <1>10, <2>2
  <2> QED BY <2>1, <2>3 DEF Shape
<1>12. /\ r.info = info /\ r.used = used /\ r.free = free /\ r.minfo_ptr = h.minfo_ptr
       /\ r.mem_used_bsize = n
       /\ r = Shape(r.info, r.used, r.free, r.minfo_ptr, r.mem_used_bsize)
  BY ONLY <1>11, ShapeFields
<1>13. /\ info \in Infos /\ PoolOver(free, alloc_max_num, Heap!FreeRecs)
       /\ Listed(info, InUse(h.used) \ {d}, InUse(free))
       /\ Kept(info, h.info, InUse(h.used))
  BY <1>2, <1>7 DEF JoinedInto
<1>14. HeapTyped(r)
  BY <1>3, <1>6, <1>12, <1>13 DEF HeapTyped
<1>15. Kept(info, h.info, InUse(h.used) \ {d})
  BY <1>13 DEF Kept
<1> QED BY <1>4, <1>6, <1>12, <1>13, <1>14, <1>15 DEF Freed, HeapOver

----------------------------------------------------------------------------
(* An attempt to allocate. *)

\* As many units are taken as it needs to hold the bytes asked for, and at least one.
LEMMA BytesFit ==
  ASSUME NEW size \in Nat
  PROVE  /\ Heap!BLength(size) \in Nat /\ size <= Heap!BLength(size) * mem_unit_size
         /\ size # 0 => 0 < Heap!BLength(size)
<1> DEFINE u == mem_unit_size
           q == (size + u - 1) \div u
<1>1. u \in Nat /\ u > 0
  BY HeapNumbers
<1>2. q \in Nat /\ size + u - 1 = q * u + ((size + u - 1) % u) /\ (size + u - 1) % u \in 0 .. u - 1
  BY <1>1, SMT
<1>3. Heap!BLength(size) = q
  BY DEF Heap!BLength
<1> HIDE DEF q
<1>4. q * u \in Nat
  BY <1>1, <1>2, SMT
<1>5. size <= q * u
  BY <1>1, <1>2, <1>4, SMT
<1>6. size # 0 => q # 0
  BY <1>1, <1>5, SMT
<1> QED BY <1>1, <1>2, <1>3, <1>5, <1>6, SMT

\* The greatest of some numbers below a bound.
LEMMA MaxIsGreatest ==
  ASSUME NEW k \in Nat, NEW S, S \subseteq 0 .. k - 1, S # {}
  PROVE  Heap!Max(S) \in S
<1> DEFINE T == {k - i : i \in S}
<1>1. T \in SUBSET Nat /\ T # {}
  <2>1. \A i \in S : i \in 0 .. k - 1 /\ k - i \in Nat
    OBVIOUS
  <2>2. \A x \in T : x \in Nat
    BY <2>1
  <2> QED BY <2>2
<1>2. Min(T) \in T /\ \A x \in T : Min(T) <= x
  BY <1>1, MinIsLeast
<1>3. PICK m \in S : Min(T) = k - m
  BY <1>2
<1>4. \A i \in S : m >= i
  <2>1. ASSUME NEW i \in S PROVE m >= i
    <3>1. k - i \in T /\ i \in Int /\ m \in Int
      OBVIOUS
    <3>2. k - m <= k - i
      BY <1>2, <1>3, <3>1
    <3> QED BY <3>1, <3>2
  <2> QED BY <2>1
<1> QED BY <1>4 DEF Heap!Max

\* There is a free piece that is long enough, and a record for it.
Servable(h, size) == /\ size # 0 /\ h.used.num_used # alloc_max_num
                     /\ \E f \in InUse(h.free) : Heap!BLength(size) <= Spans(h.info)[f]

LEMMA CandidatesAre ==
  ASSUME NEW h, HeapOver(h), NEW bl \in Nat
  PROVE  /\ Heap!Candidates(h, bl) # {} => /\ h.free.block_ptr[Heap!Max(Heap!Candidates(h, bl))] \in InUse(h.free)
                                           /\ bl <= Spans(h.info)[h.free.block_ptr[Heap!Max(Heap!Candidates(h, bl))]]
         /\ \A f \in InUse(h.free) : bl <= Spans(h.info)[f] => Heap!Candidates(h, bl) # {}
<1>1. HeapTyped(h) /\ h.info \in Infos /\ InUse(h.free) \subseteq Heap!AllRecs
  BY Pieces DEF HeapOver, HeapTyped
<1>2. PICK k, a : k \in Nat /\ k = h.free.num_used /\ a = h.free.block_ptr
  <2>1. PoolOver(h.free, alloc_max_num, Heap!FreeRecs)
    BY <1>1 DEF HeapTyped
  <2>2. h.free.num_used \in Nat
    BY <2>1, HeapNumbers DEF PoolOver
  <2> QED BY <2>2
<1>3. InUse(h.free) = {a[i] : i \in 0 .. k - 1}
  BY <1>2 DEF InUse
<1>4. \A i \in 0 .. k - 1 : /\ a[i] \in InUse(h.free) /\ h.info[a[i]].mem_length = Spans(h.info)[a[i]]
                            /\ Spans(h.info)[a[i]] \in Nat
  BY <1>1, <1>3, FieldsAre, FieldTypes
<1>5. PICK S : S = Heap!Candidates(h, bl)
  OBVIOUS
<1>6. S = {i \in 0 .. k - 1 : h.info[a[i]].mem_length >= bl}
  BY <1>2, <1>5 DEF Heap!Candidates
<1>7. \A i \in 0 .. k - 1 : i \in S <=> bl <= Spans(h.info)[a[i]]
  BY <1>4, <1>6
<1>8. S # {} => Heap!Max(S) \in S
  <2>1. k \in Nat /\ S \subseteq 0 .. k - 1
    BY <1>2, <1>6
  <2> QED BY ONLY <2>1, MaxIsGreatest
<1>9. S \subseteq 0 .. k - 1
  BY <1>6
<1> QED BY <1>2, <1>3, <1>4, <1>5, <1>7, <1>8, <1>9

\* The heap with the size counted (em_malloc.c:193).
Counted(h, n) == Shape(h.info, h.used, h.free, h.minfo_ptr, h.mem_used_bsize + n)

LEMMA MallocCases ==
  ASSUME NEW h, HeapOver(h), NEW size \in Nat, NEW r, r = Heap!Malloc(h, size)
  PROVE  /\ ~Servable(h, size) => /\ r.index = Heap!Null /\ ~r.misfit
                                  /\ \E n \in Nat : r.lost = n /\ r.heap = Counted(h, n)
         /\ Servable(h, size) => \E f \in InUse(h.free) :
              /\ Heap!BLength(size) <= Spans(h.info)[f]
              /\ r = Heap!Carve(Counted(h, Heap!BLength(size)), PoolNext(h.used), f, Heap!BLength(size))
<1>1. PICK bl \in Nat : bl = Heap!BLength(size)
  BY BytesFit
<1>2. PICK g : g = [h EXCEPT !.mem_used_bsize = @ + bl]
  OBVIOUS
<1>3. HeapTyped(h) /\ alloc_max_num \in Nat
  BY HeapNumbers DEF HeapOver, HeapTyped
<1>4. Counted(h, 0) = h /\ Counted(h, bl) = g
  <2>1. PICK info, used, free, ptr, n : h = [info |-> info, used |-> used, free |-> free,
                                             minfo_ptr |-> ptr, mem_used_bsize |-> n] /\ n \in Int
    BY <1>3 DEF HeapTyped, Shape
  <2>2. h.info = info /\ h.used = used /\ h.free = free /\ h.minfo_ptr = ptr /\ h.mem_used_bsize = n
    BY <2>1
  <2> QED BY <1>2, <2>1, <2>2 DEF Counted, Shape
<1>5. PICK S : S = Heap!Candidates(h, bl)
  OBVIOUS
<1>6. PoolFull(h.used) <=> h.used.num_used = alloc_max_num
  <2>1. PoolOver(h.used, alloc_max_num, Heap!UsedRecs)
    BY <1>3 DEF HeapTyped
  <2> QED BY ONLY <1>3, <2>1, OverFull
<1>7. PICK f : f = h.free.block_ptr[Heap!Max(S)]
  OBVIOUS
<1>8. /\ S # {} => f \in InUse(h.free) /\ bl <= Spans(h.info)[f]
      /\ \A e \in InUse(h.free) : bl <= Spans(h.info)[e] => S # {}
  BY <1>5, <1>7, CandidatesAre
<1>9. r = IF size = 0 \/ S = {} THEN Heap!Failed(h, 0)
          ELSE IF PoolFull(h.used) THEN Heap!Failed(g, bl)
          ELSE Heap!Carve(g, PoolNext(h.used), f, bl)
  BY <1>1, <1>2, <1>5, <1>7, HeapPools DEF Heap!Malloc
<1>10. ASSUME NEW e, NEW n, r = Heap!Failed(e, n)
       PROVE  r.index = Heap!Null /\ ~r.misfit /\ r.lost = n /\ r.heap = e
  BY <1>10 DEF Heap!Failed
<1>11. Servable(h, size) <=> size # 0 /\ S # {} /\ ~PoolFull(h.used)
  BY <1>1, <1>6, <1>8 DEF Servable
<1>12. CASE Servable(h, size)
  BY <1>1, <1>4, <1>8, <1>9, <1>11, <1>12
<1>13. CASE ~Servable(h, size)
  <2>1. CASE size = 0 \/ S = {}
    <3>1. r = Heap!Failed(h, 0)
      BY <1>9, <2>1
    <3> QED BY <1>4, <1>10, <1>13, <3>1
  <2>2. CASE ~(size = 0 \/ S = {})
    <3>1. r = Heap!Failed(g, bl)
      BY <1>9, <1>11, <1>13, <2>2
    <3> QED BY <1>4, <1>10, <1>13, <3>1
  <2> QED BY <2>1, <2>2
<1> QED BY <1>12, <1>13

\* Counting changes nothing else.
LEMMA CountedIs ==
  ASSUME NEW h, HeapOver(h), NEW n \in Nat, NEW g, g = Counted(h, n)
  PROVE  /\ HeapOver(g) /\ g.info = h.info /\ g.used = h.used /\ g.free = h.free
         /\ g.minfo_ptr = h.minfo_ptr /\ g.mem_used_bsize = h.mem_used_bsize + n
<1>1. /\ g.info = h.info /\ g.used = h.used /\ g.free = h.free /\ g.minfo_ptr = h.minfo_ptr
      /\ g.mem_used_bsize = h.mem_used_bsize + n
      /\ g = Shape(g.info, g.used, g.free, g.minfo_ptr, g.mem_used_bsize)
  BY ShapeFields DEF Counted
<1>2. h.mem_used_bsize + n \in Int
  BY DEF HeapOver, HeapTyped
<1> QED BY <1>1, <1>2 DEF HeapOver, HeapTyped

\* An attempt serves the request if it can be served, and does nothing else if not.
Served(h, r, size) ==
  \E c \in Heap!UsedRecs \ InUse(h.used), bl \in Nat :
    /\ size <= bl * mem_unit_size /\ 0 < bl
    /\ InUse(r.heap.used) = InUse(h.used) \cup {c}
    /\ InUse(r.heap.free) \subseteq InUse(h.free)
    /\ \A x \in InUse(r.heap.free) : Spans(r.heap.info)[x] <= Spans(h.info)[x]
    /\ Kept(r.heap.info, h.info, InUse(h.used))
    /\ r.index \in 0 .. mem_block_num - 1
    /\ Starts(r.heap.info)[c] = r.index /\ Spans(r.heap.info)[c] = bl
    /\ r.heap.minfo_ptr = [h.minfo_ptr EXCEPT ![r.index] = c]
    /\ r.heap.mem_used_bsize = h.mem_used_bsize + bl /\ r.lost = 0
NotServed(h, r) ==
  \E n \in Nat : /\ r.index = Heap!Null /\ r.lost = n
                 /\ r.heap.info = h.info /\ r.heap.used = h.used /\ r.heap.free = h.free
                 /\ r.heap.minfo_ptr = h.minfo_ptr
                 /\ r.heap.mem_used_bsize = h.mem_used_bsize + n

\* A piece lies within the heap.
LEMMA PieceWithin ==
  ASSUME NEW info \in Infos, NEW U, NEW F, Listed(info, U, F), NEW r \in U \cup F
  PROVE  /\ r \in Heap!AllRecs /\ Starts(info)[r] \in 0 .. mem_block_num - 1
         /\ Spans(info)[r] \in Nat /\ Spans(info)[r] > 0
         /\ Ends(info)[r] = Starts(info)[r] + Spans(info)[r] /\ Ends(info)[r] <= mem_block_num
<1>1. PICK lo, hi : lo = Starts(info) /\ hi = Ends(info)
  OBVIOUS
<1>2. lo[r] \in Int /\ hi[r] \in Int /\ 0 <= lo[r] /\ lo[r] < hi[r] /\ hi[r] <= mem_block_num
  BY <1>1 DEF Listed, Chain
<1>3. r \in Heap!AllRecs /\ Ends(info)[r] = Starts(info)[r] + Spans(info)[r] /\ Spans(info)[r] \in Nat
  BY Pieces
<1> QED BY <1>1, <1>2, <1>3, HeapNumbers

LEMMA MallocKeeps ==
  ASSUME NEW h, HeapOver(h), NEW size \in Nat, NEW r, r = Heap!Malloc(h, size)
  PROVE  /\ ~Servable(h, size) => HeapOver(r.heap) /\ NotServed(h, r) /\ ~r.misfit
         /\ Servable(h, size) => r.index \in 0 .. mem_block_num - 1
         /\ Servable(h, size) /\ ~r.misfit => HeapOver(r.heap) /\ Served(h, r, size)
<1>1. CASE ~Servable(h, size)
  <2>1. PICK n \in Nat : r.lost = n /\ r.heap = Counted(h, n) /\ r.index = Heap!Null /\ ~r.misfit
    BY <1>1, MallocCases
  <2>2. /\ HeapOver(r.heap) /\ r.heap.info = h.info /\ r.heap.used = h.used /\ r.heap.free = h.free
        /\ r.heap.minfo_ptr = h.minfo_ptr /\ r.heap.mem_used_bsize = h.mem_used_bsize + n
    BY ONLY <2>1, HeapOver(h), CountedIs
  <2> QED BY <1>1, <2>1, <2>2 DEF NotServed
<1>2. CASE Servable(h, size)
  <2>1. PICK bl \in Nat : bl = Heap!BLength(size) /\ size <= bl * mem_unit_size /\ 0 < bl
    BY <1>2, BytesFit DEF Servable
  <2>2. PICK f \in InUse(h.free) : /\ bl <= Spans(h.info)[f]
                                    /\ r = Heap!Carve(Counted(h, bl), PoolNext(h.used), f, bl)
    BY <1>2, <2>1, MallocCases
  <2>3. PICK g : g = Counted(h, bl)
    OBVIOUS
  <2>4. /\ HeapOver(g) /\ g.info = h.info /\ g.used = h.used /\ g.free = h.free
        /\ g.minfo_ptr = h.minfo_ptr /\ g.mem_used_bsize = h.mem_used_bsize + bl
    BY ONLY <2>3, HeapOver(h), CountedIs
  <2>5. f \in InUse(g.free) /\ bl <= Spans(g.info)[f] /\ g.used.num_used # alloc_max_num
    BY <1>2, <2>2, <2>4 DEF Servable
  <2>6. r = Heap!Carve(g, PoolNext(g.used), f, bl)
    BY <2>2, <2>3, <2>4
  <2>7. HeapTyped(g) /\ f \in Heap!AllRecs /\ Starts(g.info)[f] \in 0 .. mem_block_num - 1
    BY <2>4, <2>5, PieceWithin DEF HeapOver, HeapTyped
  <2>8. r.index = Starts(g.info)[f]
    <3>1. r.index = g.info[f].mem_index
      BY ONLY <2>6 DEF Heap!Carve
    <3> QED BY <2>7, <3>1, FieldsAre, SMTT(60) DEF HeapTyped
  <2>9. ASSUME ~r.misfit PROVE HeapOver(r.heap) /\ Served(h, r, size)
    <3>1. Carved(g, r, f, bl)
      BY ONLY <2>1, <2>4, <2>5, <2>6, <2>9, CarveKeeps
    <3>2. PICK c : c = PoolNext(g.used)
      OBVIOUS
    <3>3. /\ HeapOver(r.heap) /\ r.lost = 0
          /\ c \in Heap!UsedRecs \ InUse(h.used) /\ InUse(r.heap.used) = InUse(h.used) \cup {c}
          /\ InUse(r.heap.free) \subseteq InUse(h.free)
          /\ \A x \in InUse(r.heap.free) : Spans(r.heap.info)[x] <= Spans(h.info)[x]
          /\ Kept(r.heap.info, h.info, InUse(h.used))
          /\ Starts(r.heap.info)[c] = r.index /\ Spans(r.heap.info)[c] = bl
          /\ r.heap.minfo_ptr = [h.minfo_ptr EXCEPT ![r.index] = c]
          /\ r.heap.mem_used_bsize = h.mem_used_bsize + bl
      BY <2>4, <3>1, <3>2 DEF Carved
    <3> QED BY <2>1, <2>7, <2>8, <3>3 DEF Served
  <2> QED BY <1>2, <2>7, <2>8, <2>9
<1> QED BY <1>1, <1>2

LEMMA CanServeIs ==
  ASSUME HeapOver(mm), NEW size \in Nat
  PROVE  Heap!CanServe(size) <=> Servable(mm, size)
<1>1. PICK r : r = Heap!Malloc(mm, size)
  OBVIOUS
<1>2. ~Servable(mm, size) => r.index = Heap!Null
  BY <1>1, MallocKeeps DEF NotServed
<1>3. Servable(mm, size) => r.index \in 0 .. mem_block_num - 1
  BY <1>1, MallocKeeps
<1>4. Heap!Null \notin 0 .. mem_block_num - 1
  BY HeapNumbers DEF Heap!Null
<1> QED BY <1>1, <1>2, <1>3, <1>4 DEF Heap!CanServe

\* The units that the pieces U take up.
Units(info, U) == {u \in 0 .. mem_block_num - 1 :
                     \E r \in U : Starts(info)[r] <= u /\ u < Ends(info)[r]}

LEMMA UnitsFinite ==
  ASSUME NEW info, NEW U
  PROVE  IsFiniteSet(Units(info, U)) /\ Cardinality(Units(info, U)) \in Nat
<1>1. IsFiniteSet(0 .. mem_block_num - 1)
  BY HeapNumbers, FS_Interval
<1>2. Units(info, U) \subseteq 0 .. mem_block_num - 1
  BY DEF Units
<1> QED BY <1>1, <1>2, FS_Subset, FS_CardinalityType

\* Pieces that keep their place take up the same units.
LEMMA UnitsKept ==
  ASSUME NEW info \in Infos, NEW j \in Infos, NEW U, U \subseteq Heap!AllRecs, Kept(j, info, U)
  PROVE  Units(j, U) = Units(info, U)
<1>1. \A r \in U : Starts(j)[r] = Starts(info)[r] /\ Ends(j)[r] = Ends(info)[r]
  BY DEF Kept, Ends
<1> QED BY <1>1 DEF Units

\* One piece more takes up as many units more as it is long.
LEMMA UnitsMore ==
  ASSUME NEW info \in Infos, NEW V, NEW F, Listed(info, V, F), NEW c \in V, NEW U, U = V \ {c}
  PROVE  Cardinality(Units(info, V)) = Cardinality(Units(info, U)) + Spans(info)[c]
<1>1. PICK lo, hi : lo = Starts(info) /\ hi = Ends(info)
  OBVIOUS
<1>2. /\ lo[c] \in 0 .. mem_block_num - 1 /\ Spans(info)[c] \in Nat /\ Spans(info)[c] > 0
      /\ hi[c] = lo[c] + Spans(info)[c] /\ hi[c] <= mem_block_num
  <2>1. c \in V \cup F
    OBVIOUS
  <2> QED BY <1>1, <2>1, PieceWithin
<1>3. \A r \in U : r # c /\ lo[r] \in Int /\ hi[r] \in Int /\ (hi[r] <= lo[c] \/ hi[c] <= lo[r])
  <2>1. ASSUME NEW r \in U
        PROVE r # c /\ lo[r] \in Int /\ hi[r] \in Int /\ (hi[r] <= lo[c] \/ hi[c] <= lo[r])
    <3>1. r \in V \cup F /\ c \in V \cup F /\ r # c
      OBVIOUS
    <3> QED BY <1>1, <3>1 DEF Listed, Chain
  <2> QED BY <2>1
<1>4. PICK A, B, I : A = Units(info, V) /\ B = Units(info, U) /\ I = lo[c] .. hi[c] - 1
  OBVIOUS
<1>5. \A u \in 0 .. mem_block_num - 1 : /\ u \in A <=> \E r \in V : lo[r] <= u /\ u < hi[r]
                                        /\ u \in B <=> \E r \in U : lo[r] <= u /\ u < hi[r]
  BY <1>1, <1>4 DEF Units
<1>6. A \subseteq 0 .. mem_block_num - 1 /\ B \subseteq 0 .. mem_block_num - 1
  BY <1>4 DEF Units
<1>7. I \subseteq 0 .. mem_block_num - 1 /\ \A u \in 0 .. mem_block_num - 1 : u \in I <=> lo[c] <= u /\ u < hi[c]
  BY <1>2, <1>4, HeapNumbers
<1>8. A = B \cup I
  <2>1. \A u \in 0 .. mem_block_num - 1 : u \in A <=> u \in B \/ u \in I
    BY <1>5, <1>7
  <2> QED BY <1>6, <1>7, <2>1
<1>9. B \cap I = {}
  <2>1. ASSUME NEW u \in B, u \in I PROVE FALSE
    <3>1. u \in 0 .. mem_block_num - 1 /\ lo[c] <= u /\ u < hi[c]
      BY <1>6, <1>7, <2>1
    <3>2. PICK r \in U : lo[r] <= u /\ u < hi[r]
      BY <1>5, <3>1
    <3> QED BY <1>2, <1>3, <3>1, <3>2
  <2> QED BY <2>1
<1>10. IsFiniteSet(B) /\ Cardinality(B) \in Nat
  BY <1>4, UnitsFinite
<1>11. IsFiniteSet(I) /\ Cardinality(I) = Spans(info)[c]
  <2>1. lo[c] \in Int /\ hi[c] - 1 \in Int
    BY <1>2
  <2>2. /\ IsFiniteSet(lo[c] .. hi[c] - 1)
        /\ Cardinality(lo[c] .. hi[c] - 1) = IF lo[c] > hi[c] - 1 THEN 0 ELSE hi[c] - 1 - lo[c] + 1
    BY ONLY <2>1, FS_Interval
  <2> QED BY <1>2, <1>4, <2>2
<1>12. Cardinality(A) = Cardinality(B) + Cardinality(I) - Cardinality(B \cap I)
  BY ONLY <1>8, <1>10, <1>11, FS_Union
<1>13. Cardinality(B \cap I) = 0
  BY ONLY <1>9, FS_EmptySet
<1> QED BY <1>2, <1>4, <1>10, <1>11, <1>12, <1>13

----------------------------------------------------------------------------
(* What holds of the heap and its callers. *)

HeapTypes ==
  /\ mm.mem_used_bsize \in 0 .. MaxUsed
  /\ mutex \in Threads \cup {NoThread} /\ cond_mutex \in Threads \cup {NoThread}
  /\ sleepers = {t \in Threads : pc[t] = "try_asleep"}
  /\ pc \in [Threads -> Heap!Labels]
  /\ req \in [Threads -> [size : Nat, mode : {"none"} \cup Timeouts,
                          index : (0 .. mem_block_num - 1) \cup {Heap!Null}]]
  /\ misfit \in BOOLEAN /\ lost \in Nat

\* Who holds the mutexes.
HeapLocks == \A t \in Threads :
  /\ pc[t] \in {"try_cond", "try_unlock", "free_join", "free_cond", "free_unlock"} => mutex = t
  /\ pc[t] \in {"try_unlock", "try_sleep"} => cond_mutex = t

\* The used piece at i is found by its index.
Owned(h, i) == /\ i \in 0 .. mem_block_num - 1 /\ h.minfo_ptr[i] \in InUse(h.used)
               /\ Starts(h.info)[h.minfo_ptr[i]] = i
Holds(h, i, n) == n \in Nat /\ n <= Spans(h.info)[h.minfo_ptr[i]] * mem_unit_size

\* Every piece that is held or about to be freed is a used one, and each is one caller's.
Giving(t) == pc[t] \in {"free_lock", "free_join"}
HeapClaims ==
  /\ \A i \in DOMAIN held : Owned(mm, i) /\ Holds(mm, i, held[i])
  /\ \A t \in Threads : Giving(t) => Owned(mm, req[t].index) /\ req[t].index \notin DOMAIN held
  /\ \A t, u \in Threads : Giving(t) /\ Giving(u) /\ req[t].index = req[u].index => t = u

HeapUnits == mm.mem_used_bsize = Cardinality(Units(mm.info, InUse(mm.used))) + lost

Waiting(t) == pc[t] \in {"try_cond", "try_unlock", "try_sleep", "try_asleep"}
HeapWaits == \A t \in Threads : Waiting(t) /\ Servable(mm, req[t].size) =>
               \E u \in Threads : pc[u] = "free_cond"

HeapInv == HeapOver(mm) /\ HeapTypes /\ HeapLocks /\ HeapClaims /\ HeapUnits /\ HeapWaits

LEMMA HeapStarts == Heap!Init => HeapInv
<1> SUFFICES ASSUME Heap!Init PROVE HeapInv
  OBVIOUS
<1>1. PICK f : f = alloc_max_num + 1
  OBVIOUS
<1>2. /\ f \in Heap!FreeRecs /\ f \in Heap!AllRecs /\ f # Heap!First /\ f # Heap!Last
      /\ Heap!First \in Heap!AllRecs /\ Heap!Last \in Heap!AllRecs /\ Heap!First # Heap!Last
      /\ Heap!First \in Int /\ Heap!Last \in Int /\ f \in Int
      /\ Heap!Null \in Links /\ Heap!First \in Links /\ Heap!Last \in Links /\ f \in Links
  BY <1>1, HeapNumbers DEF Heap!FreeRecs, Heap!AllRecs, Heap!First, Heap!Last, Links
<1>3. PICK info : info = [r \in Heap!AllRecs |->
                  CASE r = Heap!First -> Heap!Record(-1, 0, TRUE, f, Heap!Null)
                    [] r = Heap!Last  -> Heap!Record(-2, 0, TRUE, Heap!Null, f)
                    [] r = f          -> Heap!Record(0, mem_block_num, FALSE, Heap!Last, Heap!First)
                    [] OTHER          -> Heap!Record(0, 0, FALSE, Heap!Null, Heap!Null)]
  OBVIOUS
<1>4. PICK a, b, p : /\ a = [i \in 0 .. alloc_max_num - 1 |-> 1 + i]
                     /\ b = [i \in 0 .. alloc_max_num - 1 |-> alloc_max_num + 1 + i]
                     /\ p = [i \in 0 .. mem_block_num - 1 |-> Heap!Null]
  OBVIOUS
<1>5. mm = Shape(info, [num_used |-> 0, block_ptr |-> a], [num_used |-> 1, block_ptr |-> b], p, 0)
  <2>1. mm = [info |-> info, used |-> [num_used |-> 0, block_ptr |-> a],
              free |-> [num_used |-> 1, block_ptr |-> b], minfo_ptr |-> p, mem_used_bsize |-> 0]
    BY <1>1, <1>3, <1>4 DEF Heap!Init, Heap!InitialHeap
  <2> QED BY <2>1 DEF Shape
<1>6. /\ mm.info = info /\ mm.used = [num_used |-> 0, block_ptr |-> a]
      /\ mm.free = [num_used |-> 1, block_ptr |-> b] /\ mm.minfo_ptr = p /\ mm.mem_used_bsize = 0
      /\ mm = Shape(mm.info, mm.used, mm.free, mm.minfo_ptr, mm.mem_used_bsize)
  BY ONLY <1>5, ShapeFields
<1>7. InUse(mm.used) = {} /\ PoolOver(mm.used, alloc_max_num, Heap!UsedRecs)
  <2>1. /\ a \in [0 .. alloc_max_num - 1 -> Heap!UsedRecs]
        /\ \A i, j \in 0 .. alloc_max_num - 1 : a[i] = a[j] => i = j
    BY <1>4, HeapNumbers DEF Heap!UsedRecs
  <2>2. PoolOver([num_used |-> 0, block_ptr |-> a], alloc_max_num, Heap!UsedRecs)
    BY <2>1, HeapNumbers, OverShape
  <2>3. InUse([num_used |-> 0, block_ptr |-> a]) = {a[i] : i \in 0 .. 0 - 1}
    BY ShapeInUse
  <2>4. {a[i] : i \in 0 .. 0 - 1} = {}
    OBVIOUS
  <2> QED BY <1>6, <2>2, <2>3, <2>4, Zenon
<1>8. InUse(mm.free) = {f} /\ PoolOver(mm.free, alloc_max_num, Heap!FreeRecs)
  <2>1. /\ b \in [0 .. alloc_max_num - 1 -> Heap!FreeRecs] /\ b[0] = f
        /\ \A i, j \in 0 .. alloc_max_num - 1 : b[i] = b[j] => i = j
    BY <1>1, <1>4, HeapNumbers DEF Heap!FreeRecs
  <2>2. PoolOver([num_used |-> 1, block_ptr |-> b], alloc_max_num, Heap!FreeRecs)
    BY <2>1, HeapNumbers, OverShape
  <2>3. InUse([num_used |-> 1, block_ptr |-> b]) = {b[i] : i \in 0 .. 1 - 1}
    BY ShapeInUse
  <2>4. {b[i] : i \in 0 .. 1 - 1} = {f}
    BY <2>1
  <2> QED BY <1>6, <2>2, <2>3, <2>4, Zenon
<1>9. /\ info[f] = Heap!Record(0, mem_block_num, FALSE, Heap!Last, Heap!First)
      /\ info[Heap!First] = Heap!Record(-1, 0, TRUE, f, Heap!Null)
      /\ info[Heap!Last] = Heap!Record(-2, 0, TRUE, Heap!Null, f)
  BY <1>2, <1>3
<1>10. info \in Infos
  <2>1. \A r \in Heap!AllRecs : info[r] \in MemInfo
    BY <1>2, <1>3, HeapNumbers DEF Heap!Record, MemInfo
  <2> QED BY <1>3, <2>1 DEF Infos
<1>11. /\ Starts(info)[f] = 0 /\ Spans(info)[f] = mem_block_num
       /\ Nexts(info)[f] = Heap!Last /\ Backs(info)[f] = Heap!First
       /\ Ends(info)[f] = mem_block_num
  BY <1>2, <1>9, HeapNumbers DEF Starts, Spans, Nexts, Backs, Ends, Heap!Record
<1>12. Marks(info)[Heap!First] /\ Marks(info)[Heap!Last] /\ ~Marks(info)[f]
  BY <1>2, <1>9 DEF Marks, Heap!Record
<1>13. Listed(info, {}, {f})
  <2>1. Chain({f}, mem_block_num, Heap!First, Heap!Last, Starts(info), Ends(info), Nexts(info), Backs(info))
    BY <1>2, <1>11, HeapNumbers DEF Chain
  <2>2. {} \cup {f} = {f}
    OBVIOUS
  <2> QED BY <1>2, <1>11, <1>12, <2>1, <2>2 DEF Listed
<1>14. HeapOver(mm)
  <2>1. p \in [0 .. mem_block_num - 1 -> Heap!UsedRecs \cup {Heap!Null}]
    BY <1>4
  <2>2. HeapTyped(mm)
    BY <1>6, <1>7, <1>8, <1>10, <2>1 DEF HeapTyped
  <2> QED BY <1>6, <1>7, <1>8, <1>13, <2>2 DEF HeapOver
<1>15. /\ pc = [t \in Threads |-> "idle"] /\ req = [t \in Threads |-> Heap!NoRequest]
       /\ sleepers = {} /\ DOMAIN held = {} /\ misfit = FALSE /\ lost = 0
       /\ mutex = NoThread /\ cond_mutex = NoThread
  BY DEF Heap!Init
<1>16. HeapTypes
  <2>1. mm.mem_used_bsize \in 0 .. MaxUsed
    BY <1>6, HeapNumbers
  <2>2. Heap!NoRequest \in [size : Nat, mode : {"none"} \cup Timeouts,
                            index : (0 .. mem_block_num - 1) \cup {Heap!Null}]
    BY DEF Heap!NoRequest
  <2> QED BY <1>15, <2>1, <2>2 DEF HeapTypes, Heap!Labels
<1>17. HeapLocks /\ HeapClaims /\ HeapWaits
  BY <1>15 DEF HeapLocks, HeapClaims, HeapWaits, Giving, Waiting
<1>18. HeapUnits
  <2>1. Units(mm.info, InUse(mm.used)) = {}
    BY <1>7 DEF Units
  <2>2. Cardinality(Units(mm.info, InUse(mm.used))) = 0
    BY ONLY <2>1, FS_EmptySet
  <2> QED BY <1>6, <1>15, <2>2 DEF HeapUnits
<1> QED BY <1>14, <1>16, <1>17, <1>18 DEF HeapInv

----------------------------------------------------------------------------
(* What follows from it. *)

LEMMA HeapIsTyped ==
  ASSUME HeapInv
  PROVE  Heap!TypeOK
<1>1. HeapTyped(mm) /\ HeapTypes /\ HeapClaims
  BY DEF HeapInv, HeapOver
<1>2. mm.info \in [Heap!AllRecs -> [mem_index : Int, mem_length : Nat, is_used : BOOLEAN,
                      next : Heap!AllRecs \cup {Heap!Null}, back : Heap!AllRecs \cup {Heap!Null}]]
  BY <1>1 DEF HeapTyped, Infos, MemInfo, Links
<1>3. ASSUME NEW p, NEW R, PoolOver(p, alloc_max_num, R) PROVE Heap!PoolOK(p, R)
  <2>1. /\ p.num_used \in 0 .. alloc_max_num /\ p.block_ptr \in [0 .. alloc_max_num - 1 -> R]
        /\ \A i, j \in 0 .. alloc_max_num - 1 : p.block_ptr[i] = p.block_ptr[j] => i = j
    BY <1>3 DEF PoolOver
  <2> QED BY <2>1 DEF Heap!PoolOK, Heap!IsInjective
<1>4. Heap!PoolOK(mm.used, Heap!UsedRecs) /\ Heap!PoolOK(mm.free, Heap!FreeRecs)
  BY <1>1, <1>3 DEF HeapTyped
<1>5. DOMAIN held \subseteq 0 .. mem_block_num - 1
  BY <1>1 DEF HeapClaims, Owned
<1> QED BY <1>1, <1>2, <1>4, <1>5 DEF Heap!TypeOK, HeapTypes, HeapTyped

\* What the module says of a record, in terms of the fields of the list.
LEMMA HeapTerms ==
  ASSUME HeapInv
  PROVE  /\ Listed(mm.info, InUse(mm.used), InUse(mm.free)) /\ mm.info \in Infos
         /\ Heap!UsedPieces = InUse(mm.used) /\ Heap!FreePieces = InUse(mm.free)
         /\ Heap!Pieces = InUse(mm.used) \cup InUse(mm.free)
         /\ \A r \in Heap!AllRecs : Heap!End(r) = Ends(mm.info)[r]
<1>1. Listed(mm.info, InUse(mm.used), InUse(mm.free)) /\ mm.info \in Infos
  BY DEF HeapInv, HeapOver, HeapTyped
<1>2. \A r \in Heap!AllRecs : Heap!End(r) = Ends(mm.info)[r]
  BY <1>1, FieldsAre DEF Heap!End, Ends
<1> QED BY <1>1, <1>2, HeapPools DEF Heap!UsedPieces, Heap!FreePieces, Heap!Pieces

LEMMA HeapIsLinked ==
  ASSUME HeapInv
  PROVE  Heap!WellLinked
<1>1. PICK info, U, F, P : info = mm.info /\ U = InUse(mm.used) /\ F = InUse(mm.free) /\ P = U \cup F
  OBVIOUS
<1>2. /\ Listed(info, U, F) /\ info \in Infos /\ P \subseteq Heap!AllRecs
      /\ Heap!FreePieces = F /\ Heap!Pieces = P
      /\ \A r \in Heap!AllRecs : Heap!End(r) = Ends(info)[r]
  BY <1>1, HeapTerms, Pieces
<1>3. PICK lo, hi, nx, bk : lo = Starts(info) /\ hi = Ends(info) /\ nx = Nexts(info) /\ bk = Backs(info)
  OBVIOUS
<1>4. Chain(P, mem_block_num, Heap!First, Heap!Last, lo, hi, nx, bk)
  BY <1>1, <1>2, <1>3 DEF Listed
<1>5. \A r \in Heap!AllRecs :
        /\ info[r].mem_index = lo[r] /\ info[r].next = nx[r] /\ info[r].back = bk[r]
        /\ Heap!End(r) = hi[r]
  BY <1>2, <1>3, FieldsAre
<1>6. ASSUME NEW r \in P PROVE Heap!NextIsNext(r) /\ Heap!BackIsBack(r)
  <2>1. r \in Heap!AllRecs
    BY <1>2
  <2>2. /\ nx[r] # Heap!Last => nx[r] \in P /\ nx[r] \in Heap!AllRecs /\ lo[nx[r]] = hi[r]
        /\ nx[r] = Heap!Last => hi[r] = mem_block_num
        /\ bk[r] # Heap!First => bk[r] \in P /\ bk[r] \in Heap!AllRecs /\ hi[bk[r]] = lo[r]
        /\ bk[r] = Heap!First => lo[r] = 0
    BY <1>2, <1>4 DEF Chain
  <2> QED BY <1>1, <1>2, <1>5, <2>1, <2>2 DEF Heap!NextIsNext, Heap!BackIsBack
<1>7. ASSUME NEW r \in P PROVE mm.info[r].mem_length > 0
  BY <1>1, <1>2, <1>7, PieceWithin, FieldsAre
<1>8. ASSUME NEW r \in F PROVE mm.info[mm.info[r].next].is_used
  <2>1. r \in P /\ Marks(info)[nx[r]] /\ nx[r] \in Heap!AllRecs /\ r \in Heap!AllRecs
    BY <1>1, <1>2, <1>3, Pieces DEF Listed
  <2> QED BY <1>1, <1>2, <1>5, <2>1, FieldsAre
<1> QED BY <1>2, <1>6, <1>7, <1>8 DEF Heap!WellLinked

\* Pieces in use do not overlap, in bytes as in units.
LEMMA HeldIsApart ==
  ASSUME HeapInv
  PROVE  Heap!HeldIsUsed
<1>1. PICK info, U, F : info = mm.info /\ U = InUse(mm.used) /\ F = InUse(mm.free)
  OBVIOUS
<1>2. /\ Listed(info, U, F) /\ info \in Infos /\ Heap!UsedPieces = U
      /\ \A r \in Heap!AllRecs : Heap!End(r) = Ends(info)[r]
  BY <1>1, HeapTerms
<1>3. PICK lo, ln, hi : lo = Starts(info) /\ ln = Spans(info) /\ hi = Ends(info)
  OBVIOUS
<1>4. PICK u \in Nat : u = mem_unit_size
  BY HeapNumbers
<1>5. ASSUME NEW i \in DOMAIN held
      PROVE  LET r == mm.minfo_ptr[i] IN
             /\ i \in Nat /\ held[i] \in Nat /\ r \in U /\ r \in Heap!AllRecs
             /\ lo[r] = i /\ ln[r] \in Nat /\ hi[r] = i + ln[r] /\ ln[r] > 0
             /\ held[i] <= ln[r] * u /\ info[r].mem_index = i /\ Heap!End(r) = hi[r]
  <2>1. PICK r : r = mm.minfo_ptr[i]
    OBVIOUS
  <2>2. /\ i \in 0 .. mem_block_num - 1 /\ r \in U /\ lo[r] = i
        /\ held[i] \in Nat /\ held[i] <= ln[r] * u
    BY <1>1, <1>3, <1>4, <2>1 DEF HeapInv, HeapClaims, Owned, Holds
  <2>3. r \in U \cup F
    BY <2>2
  <2>4. /\ r \in Heap!AllRecs /\ ln[r] \in Nat /\ ln[r] > 0 /\ hi[r] = lo[r] + ln[r]
    BY <1>2, <1>3, <2>3, PieceWithin
  <2>5. info[r].mem_index = i /\ Heap!End(r) = hi[r]
    BY <1>2, <1>3, <2>2, <2>4, FieldsAre
  <2> QED BY <2>1, <2>2, <2>4, <2>5
<1>6. ASSUME NEW i \in Nat, NEW n \in Nat, NEW k \in Nat, k <= n * u
      PROVE  (i + n) * u >= i * u + k
  <2>1. (i + n) * u = i * u + n * u /\ i * u \in Nat /\ n * u \in Nat
    BY SMT
  <2> QED BY <1>6, <2>1
<1>7. ASSUME NEW i \in Nat, NEW j \in Nat, i <= j
      PROVE  i * u <= j * u /\ i * u \in Nat /\ j * u \in Nat
  <2>1. j - i \in Nat /\ (j - i) * u \in Nat /\ j * u = i * u + (j - i) * u /\ i * u \in Nat
    BY <1>7, SMT
  <2> QED BY <2>1
<1>8. ASSUME NEW i \in DOMAIN held, NEW j \in DOMAIN held, i < j
      PROVE  Heap!Address(i) + held[i] <= Heap!Address(j)
  <2>1. PICK r, s : r = mm.minfo_ptr[i] /\ s = mm.minfo_ptr[j]
    OBVIOUS
  <2>2. PICK n \in Nat : n = ln[r]
    BY <1>5, <2>1
  <2>3. /\ i \in Nat /\ j \in Nat /\ held[i] \in Nat /\ held[i] <= n * u
        /\ r \in U /\ lo[r] = i /\ hi[r] = i + n
        /\ s \in U /\ lo[s] = j /\ ln[s] \in Nat /\ hi[s] = j + ln[s]
    BY <1>5, <2>1, <2>2
  <2>4. r = s \/ hi[r] <= lo[s] \/ hi[s] <= lo[r]
    <3>1. r \in U \cup F /\ s \in U \cup F
      BY <2>3
    <3> QED BY <1>2, <1>3, <3>1 DEF Listed, Chain
  <2>5. i + n \in Nat /\ i + n <= j
    BY <1>8, <2>3, <2>4
  <2>6. (i + n) * u >= i * u + held[i] /\ (i + n) * u <= j * u
        /\ (i + n) * u \in Nat /\ i * u \in Nat /\ j * u \in Nat
    BY <1>6, <1>7, <2>3, <2>5
  <2> QED BY <1>4, <2>3, <2>6 DEF Heap!Address
<1>9. ASSUME NEW i \in DOMAIN held
      PROVE  Heap!Address(Heap!End(mm.minfo_ptr[i])) >= Heap!Address(i) + held[i]
  <2>1. PICK r : r = mm.minfo_ptr[i]
    OBVIOUS
  <2>2. PICK n \in Nat : n = ln[r]
    BY <1>5, <2>1
  <2>3. i \in Nat /\ held[i] \in Nat /\ held[i] <= n * u /\ Heap!End(r) = i + n
    BY <1>5, <2>1, <2>2
  <2>4. (i + n) * u >= i * u + held[i]
    BY <1>6, <2>3, SMTT(60)
  <2> QED BY <1>4, <2>1, <2>3, <2>4 DEF Heap!Address
<1> QED BY <1>1, <1>2, <1>5, <1>8, <1>9 DEF Heap!HeldIsUsed

LEMMA HeapHasRecords ==
  ASSUME HeapInv
  PROVE  Heap!FreeRecordsSuffice
<1>1. PICK info, U, F : info = mm.info /\ U = InUse(mm.used) /\ F = InUse(mm.free)
  OBVIOUS
<1>2. Listed(info, U, F) /\ info \in Infos /\ alloc_max_num \in Nat
  BY <1>1, HeapTerms, HeapNumbers, SMTT(60)
<1>3. ASSUME NEW t \in Threads, pc[t] = "free_join"
      PROVE  LET del == mm.info[mm.minfo_ptr[req[t].index]]
             IN mm.info[del.back].is_used /\ mm.info[del.next].is_used => ~Heap!PoolFull(mm.free)
  <2>1. PICK d : d = mm.minfo_ptr[req[t].index]
    OBVIOUS
  <2>2. d \in U
    BY <1>1, <1>3, <2>1 DEF HeapInv, HeapClaims, Giving, Owned
  <2>3. PICK b, n : b = Backs(info)[d] /\ n = Nexts(info)[d]
    OBVIOUS
  <2>4. d \in Heap!AllRecs /\ b \in Heap!AllRecs /\ n \in Heap!AllRecs
    BY <1>2, <2>2, <2>3, Pieces
  <2>5. /\ info[d].back = b /\ info[d].next = n
        /\ info[b].is_used <=> Marks(info)[b]
        /\ info[n].is_used <=> Marks(info)[n]
    BY <1>2, <2>3, <2>4, FieldsAre
  <2>6. PoolOver(mm.used, alloc_max_num, Heap!UsedRecs) /\ PoolOver(mm.free, alloc_max_num, Heap!FreeRecs)
    BY DEF HeapInv, HeapOver, HeapTyped
  <2>7. /\ IsFiniteSet(U) /\ Cardinality(U) = mm.used.num_used /\ Cardinality(F) = mm.free.num_used
    BY <1>1, <1>2, <2>6, OverCount
  <2>8. mm.used.num_used \in 0 .. alloc_max_num
    BY <2>6 DEF PoolOver
  <2>9. ASSUME Marks(info)[Backs(info)[d]], Marks(info)[Nexts(info)[d]]
        PROVE  ~PoolFull(mm.free)
    <3>1. Cardinality(U) <= alloc_max_num /\ Cardinality(U) \in Nat
      BY <1>2, <2>7, <2>8
    <3>2. Cardinality(F) < alloc_max_num
      BY ONLY <1>2, <2>2, <2>7, <2>9, <3>1, SpareRecord
    <3>3. mm.free.num_used # alloc_max_num
      BY <1>2, <2>7, <3>2
    <3> QED BY ONLY <1>2, <2>6, <3>3, OverFull
  <2> QED BY <1>1, <2>1, <2>3, <2>5, <2>9, HeapPools
<1> QED BY <1>3, Zenon DEF Heap!FreeRecordsSuffice

LEMMA HeapIsCounted ==
  ASSUME HeapInv
  PROVE  Heap!UsedSizeExact
<1>1. Heap!UsedUnits = Units(mm.info, InUse(mm.used))
  <2>1. \A r \in InUse(mm.used) : mm.info[r].mem_index = Starts(mm.info)[r] /\ Heap!End(r) = Ends(mm.info)[r]
    BY HeapTerms, Pieces, FieldsAre
  <2> QED BY <2>1, HeapTerms DEF Heap!UsedUnits, Units
<1>2. \A S : Heap!Cardinality(S) = Cardinality(S)
  BY DEF Heap!Cardinality, Cardinality
<1>3. mm.mem_used_bsize = Cardinality(Units(mm.info, InUse(mm.used))) + lost
  BY DEF HeapInv, HeapUnits
<1> QED BY <1>1, <1>2, <1>3 DEF Heap!UsedSizeExact

LEMMA HeapIsSound == HeapInv => Heap!HeapSound
  BY HeapIsTyped, HeapIsLinked, HeldIsApart, HeapHasRecords, HeapIsCounted DEF Heap!HeapSound

LEMMA SleepersAreWatched == HeapInv => Heap!SleepersCannotBeServed
<1> SUFFICES ASSUME HeapInv PROVE Heap!SleepersCannotBeServed
  OBVIOUS
<1>1. HeapOver(mm) /\ HeapWaits /\ \A t \in Threads : req[t].size \in Nat
  BY DEF HeapInv, HeapTypes
<1>2. \A t \in Threads : Heap!CanServe(req[t].size) <=> Servable(mm, req[t].size)
  BY <1>1, CanServeIs
<1> QED BY <1>1, <1>2 DEF Heap!SleepersCannotBeServed, HeapWaits, Waiting

----------------------------------------------------------------------------
(* Every step keeps it. *)

\* A used piece that keeps its place and its record is still its caller's.
LEMMA OwnedKept ==
  ASSUME NEW h, NEW g, NEW i, Owned(h, i), NEW S, Kept(g.info, h.info, S),
         h.minfo_ptr[i] \in S, h.minfo_ptr[i] \in InUse(g.used), g.minfo_ptr[i] = h.minfo_ptr[i]
  PROVE  Owned(g, i) /\ \A n : Holds(h, i, n) => Holds(g, i, n)
  BY DEF Owned, Holds, Kept

\* What an attempt to allocate leaves of the heap and gives its caller, but for a misfit.
LEMMA AttemptKeeps ==
  ASSUME HeapInv, NEW size \in Nat, Heap!Attempt(size), ~misfit'
  PROVE  /\ HeapOver(mm') /\ HeapUnits' /\ lost' \in Nat /\ misfit' \in BOOLEAN
         /\ mm'.mem_used_bsize \in 0 .. MaxUsed
         /\ \A i : Owned(mm, i) => /\ Owned(mm', i) /\ \A n : Holds(mm, i, n) => Holds(mm', i, n)
                                   /\ i \in DOMAIN held' <=> i \in DOMAIN held
         /\ \A i \in DOMAIN held : i \in DOMAIN held' /\ held'[i] = held[i]
         /\ \A i \in DOMAIN held' \ DOMAIN held : Owned(mm', i) /\ Holds(mm', i, held'[i])
         /\ \A s \in Nat : Servable(mm', s) => Servable(mm, s)
         /\ Heap!Malloc(mm, size).index = Heap!Null => ~Servable(mm', size)
<1>1. PICK r : r = Heap!Malloc(mm, size)
  OBVIOUS
<1>2. /\ mm' = r.heap /\ lost' = lost + r.lost /\ r.heap.mem_used_bsize <= MaxUsed
      /\ misfit' \in BOOLEAN /\ ~r.misfit
      /\ held' = IF r.index = Heap!Null THEN held
                 ELSE [i \in DOMAIN held \cup {r.index} |-> IF i = r.index THEN size ELSE held[i]]
  BY <1>1 DEF Heap!Attempt
<1>3. /\ HeapOver(mm) /\ HeapTyped(mm) /\ mm.info \in Infos /\ lost \in Nat
      /\ mm.mem_used_bsize \in 0 .. MaxUsed /\ MaxUsed \in Nat
      /\ mm.mem_used_bsize = Cardinality(Units(mm.info, InUse(mm.used))) + lost
      /\ Cardinality(Units(mm.info, InUse(mm.used))) \in Nat
  BY HeapNumbers, UnitsFinite DEF HeapInv, HeapTypes, HeapUnits, HeapOver, HeapTyped
<1>4. Heap!Null \notin 0 .. mem_block_num - 1
  BY HeapNumbers DEF Heap!Null
<1>5. CASE ~Servable(mm, size)
  <2>1. HeapOver(r.heap) /\ NotServed(mm, r)
    BY <1>1, <1>3, <1>5, MallocKeeps
  <2>2. PICK n \in Nat :
          /\ r.index = Heap!Null /\ r.lost = n
          /\ mm'.info = mm.info /\ mm'.used = mm.used /\ mm'.free = mm.free
          /\ mm'.minfo_ptr = mm.minfo_ptr /\ mm'.mem_used_bsize = mm.mem_used_bsize + n
    BY <1>2, <2>1 DEF NotServed
  <2>3. held' = held /\ lost' = lost + n
    BY <1>2, <2>2
  <2>4. HeapUnits' /\ lost' \in Nat /\ mm'.mem_used_bsize \in 0 .. MaxUsed
    BY <1>2, <1>3, <2>2, <2>3 DEF HeapUnits
  <2>5. \A i : Owned(mm, i) => Owned(mm', i) /\ \A k : Holds(mm, i, k) => Holds(mm', i, k)
    BY <2>2 DEF Owned, Holds
  <2>6. \A s \in Nat : Servable(mm', s) <=> Servable(mm, s)
    BY <2>2 DEF Servable
  <2> QED BY <1>2, <1>5, <2>1, <2>3, <2>4, <2>5, <2>6
<1>6. CASE Servable(mm, size)
  <2>1. HeapOver(r.heap) /\ Served(mm, r, size) /\ r.index # Heap!Null
    BY <1>1, <1>2, <1>3, <1>4, <1>6, MallocKeeps
  <2>2. PICK c \in Heap!UsedRecs \ InUse(mm.used), bl \in Nat :
          /\ size <= bl * mem_unit_size /\ 0 < bl
          /\ InUse(mm'.used) = InUse(mm.used) \cup {c}
          /\ InUse(mm'.free) \subseteq InUse(mm.free)
          /\ \A x \in InUse(mm'.free) : Spans(mm'.info)[x] <= Spans(mm.info)[x]
          /\ Kept(mm'.info, mm.info, InUse(mm.used))
          /\ r.index \in 0 .. mem_block_num - 1
          /\ Starts(mm'.info)[c] = r.index /\ Spans(mm'.info)[c] = bl
          /\ mm'.minfo_ptr = [mm.minfo_ptr EXCEPT ![r.index] = c]
          /\ mm'.mem_used_bsize = mm.mem_used_bsize + bl /\ r.lost = 0
    BY <1>2, <2>1 DEF Served
  <2>3. PICK x \in 0 .. mem_block_num - 1 : x = r.index
    BY <2>2
  <2>4. PICK U, V, F, G : /\ U = InUse(mm.used) /\ V = InUse(mm'.used)
                          /\ F = InUse(mm.free) /\ G = InUse(mm'.free)
    OBVIOUS
  <2>5. /\ HeapOver(mm') /\ Listed(mm'.info, V, G) /\ mm'.info \in Infos
        /\ Listed(mm.info, U, F) /\ V = U \cup {c} /\ c \notin U
    BY <1>2, <1>3, <2>1, <2>2, <2>4 DEF HeapOver, HeapTyped
  <2>6. /\ mm'.minfo_ptr[x] = c
        /\ \A i \in 0 .. mem_block_num - 1 : i # x => mm'.minfo_ptr[i] = mm.minfo_ptr[i]
    BY <1>3, <2>2, <2>3 DEF HeapTyped
  <2>7. Owned(mm', x) /\ Holds(mm', x, size)
    BY <2>2, <2>3, <2>4, <2>5, <2>6 DEF Owned, Holds
  <2>8. ASSUME NEW i, Owned(mm, i) PROVE i # x
    <3>1. PICK d : d = mm.minfo_ptr[i]
      OBVIOUS
    <3>2. d \in U /\ Starts(mm.info)[d] = i
      BY <2>4, <2>8, <3>1 DEF Owned
    <3>3. Starts(mm'.info)[d] = i /\ Starts(mm'.info)[c] = x
      BY <2>2, <2>3, <2>4, <3>2 DEF Kept
    <3>4. d \in V \cup G /\ c \in V \cup G /\ d # c
      BY <2>5, <3>2
    <3>5. \A a, b \in V \cup G : Starts(mm'.info)[a] = Starts(mm'.info)[b] => a = b
      <4>1. PICK P, lo, hi, nx, bk : /\ P = V \cup G /\ lo = Starts(mm'.info) /\ hi = Ends(mm'.info)
                                     /\ nx = Nexts(mm'.info) /\ bk = Backs(mm'.info)
        OBVIOUS
      <4>2. Chain(P, mem_block_num, Heap!First, Heap!Last, lo, hi, nx, bk)
        BY <2>5, <4>1 DEF Listed
      <4>3. \A a, b \in P : lo[a] = lo[b] => a = b
        BY ONLY <4>2, ChainLinks
      <4> QED BY <4>1, <4>3
    <3> QED BY <3>3, <3>4, <3>5
  <2>9. ASSUME NEW i, Owned(mm, i)
        PROVE  Owned(mm', i) /\ \A k : Holds(mm, i, k) => Holds(mm', i, k)
    <3>1. i \in 0 .. mem_block_num - 1 /\ i # x /\ mm.minfo_ptr[i] \in U
      BY <2>4, <2>8, <2>9 DEF Owned
    <3>2. mm'.minfo_ptr[i] = mm.minfo_ptr[i] /\ mm.minfo_ptr[i] \in InUse(mm'.used)
      BY <2>4, <2>5, <2>6, <3>1
    <3>3. Kept(mm'.info, mm.info, U)
      BY <2>2, <2>4
    <3> QED BY <2>9, <3>1, <3>2, <3>3, OwnedKept
  <2>10. held' = [i \in DOMAIN held \cup {x} |-> IF i = x THEN size ELSE held[i]]
    BY <1>2, <2>1, <2>3
  <2>11. DOMAIN held' = DOMAIN held \cup {x} /\ held'[x] = size
    BY <2>10
  <2>12. \A i \in DOMAIN held : i # x
    BY <2>8 DEF HeapInv, HeapClaims
  <2>13. \A i \in DOMAIN held : held'[i] = held[i]
    BY <2>10, <2>12
  <2>14. \A s \in Nat : Servable(mm', s) => Servable(mm, s)
    <3>1. mm.used.num_used # alloc_max_num
      BY <1>6 DEF Servable
    <3>2. ASSUME NEW s \in Nat, Servable(mm', s) PROVE Servable(mm, s)
      <4>1. PICK f \in InUse(mm'.free) : Heap!BLength(s) <= Spans(mm'.info)[f]
        BY <3>2 DEF Servable
      <4>2. f \in InUse(mm.free) /\ Spans(mm'.info)[f] <= Spans(mm.info)[f]
        BY <2>2
      <4>3. Spans(mm'.info)[f] \in Nat /\ Spans(mm.info)[f] \in Nat
        BY <1>3, <2>4, <2>5, <4>1, <4>2, PieceWithin
      <4>4. Heap!BLength(s) <= Spans(mm.info)[f]
        BY <4>1, <4>2, <4>3, BytesFit
      <4> QED BY <3>1, <3>2, <4>2, <4>4 DEF Servable
    <3> QED BY <3>2
  <2>15. /\ mm'.mem_used_bsize \in 0 .. MaxUsed /\ lost' = lost
    BY <1>2, <1>3, <2>2
  <2>16. HeapUnits'
    <3>1. Units(mm'.info, U) = Units(mm.info, U)
      <4>1. U \subseteq Heap!AllRecs /\ Kept(mm'.info, mm.info, U)
        BY <2>2, <2>4, <2>5, Pieces, <1>3
      <4> QED BY ONLY <1>3, <2>5, <4>1, UnitsKept
    <3>2. c \in V /\ U = V \ {c}
      BY <2>5
    <3>3. Cardinality(Units(mm'.info, V)) = Cardinality(Units(mm'.info, U)) + Spans(mm'.info)[c]
      BY ONLY <2>5, <3>2, UnitsMore
    <3>4. PICK m, k \in Nat : m = Cardinality(Units(mm'.info, V)) /\ k = Cardinality(Units(mm.info, U))
      BY UnitsFinite
    <3>5. m = k + bl /\ mm.mem_used_bsize = k + lost /\ mm'.mem_used_bsize = mm.mem_used_bsize + bl
      BY <1>3, <2>2, <2>4, <3>1, <3>3, <3>4
    <3>6. mm'.mem_used_bsize = m + lost
      BY <1>3, <3>4, <3>5
    <3> QED BY <2>4, <2>15, <3>4, <3>6 DEF HeapUnits
  <2>17. /\ \A i : Owned(mm, i) => i \in DOMAIN held' <=> i \in DOMAIN held
         /\ \A i \in DOMAIN held' \ DOMAIN held : Owned(mm', i) /\ Holds(mm', i, held'[i])
    BY <2>7, <2>8, <2>11, SMTT(60)
  <2> QED BY <1>1, <1>2, <1>3, <2>1, <2>5, <2>9, <2>11, <2>13, <2>14, <2>15, <2>16, <2>17
<1> QED BY <1>5, <1>6

\* The piece of the caller that frees it goes back, all others stay.
LEMMA FreeJoinKeeps ==
  ASSUME HeapInv, NEW t \in Threads, Heap!FreeJoin(t)
  PROVE  /\ HeapOver(mm') /\ HeapUnits' /\ mm'.mem_used_bsize \in 0 .. MaxUsed
         /\ \A i : Owned(mm, i) /\ i # req[t].index =>
              Owned(mm', i) /\ \A n : Holds(mm, i, n) => Holds(mm', i, n)
<1>1. PICK x, d : x = req[t].index /\ d = mm.minfo_ptr[x]
  OBVIOUS
<1>2. mm' = Heap!Free(mm, x) /\ lost' = lost /\ pc[t] = "free_join"
  BY <1>1 DEF Heap!FreeJoin, Heap!history
<1>3. HeapOver(mm) /\ mm.info \in Infos /\ Owned(mm, x) /\ d \in InUse(mm.used)
  BY <1>1, <1>2 DEF HeapInv, HeapOver, HeapTyped, HeapClaims, Giving, Owned
<1>4. PICK g : g = mm'
  OBVIOUS
<1>5. Freed(mm, g, d)
  BY ONLY <1>1, <1>2, <1>3, <1>4, FreeKeeps
<1>6. PICK U, V, F, G : /\ U = InUse(mm.used) /\ V = InUse(g.used)
                        /\ F = InUse(mm.free) /\ G = InUse(g.free)
  OBVIOUS
<1>7. /\ HeapOver(g) /\ V = U \ {d} /\ Kept(g.info, mm.info, V) /\ g.minfo_ptr = mm.minfo_ptr
      /\ g.mem_used_bsize = mm.mem_used_bsize - Spans(mm.info)[d]
      /\ g.info \in Infos /\ Listed(mm.info, U, F) /\ d \in U
  BY <1>3, <1>5, <1>6 DEF Freed, HeapOver, HeapTyped
<1>8. ASSUME NEW i, Owned(mm, i), i # x
      PROVE  Owned(g, i) /\ \A n : Holds(mm, i, n) => Holds(g, i, n)
  <2>1. mm.minfo_ptr[i] \in V
    <3>1. Starts(mm.info)[d] = x /\ Starts(mm.info)[mm.minfo_ptr[i]] = i /\ mm.minfo_ptr[i] \in U
      BY <1>1, <1>3, <1>6, <1>8 DEF Owned
    <3> QED BY <1>7, <1>8, <3>1
  <2>2. mm.minfo_ptr[i] \in InUse(g.used) /\ g.minfo_ptr[i] = mm.minfo_ptr[i]
    BY <1>6, <1>7, <2>1
  <2> QED BY <1>7, <1>8, <2>1, <2>2, OwnedKept
<1>9. /\ g.mem_used_bsize = Cardinality(Units(g.info, V)) + lost
      /\ g.mem_used_bsize \in 0 .. MaxUsed
  <2>1. Cardinality(Units(mm.info, U)) = Cardinality(Units(mm.info, V)) + Spans(mm.info)[d]
    BY ONLY <1>3, <1>7, UnitsMore
  <2>2. Units(g.info, V) = Units(mm.info, V)
    <3>1. V \subseteq Heap!AllRecs
      BY <1>3, <1>7, Pieces
    <3> QED BY ONLY <1>3, <1>7, <3>1, UnitsKept
  <2>3. PICK m, k \in Nat : m = Cardinality(Units(mm.info, U)) /\ k = Cardinality(Units(mm.info, V))
    BY UnitsFinite
  <2>4. PICK n \in Nat : n = Spans(mm.info)[d]
    <3>1. d \in U \cup F
      BY <1>7
    <3> QED BY <1>3, <1>7, <3>1, PieceWithin
  <2>5. /\ mm.mem_used_bsize = m + lost /\ lost \in Nat /\ MaxUsed \in Nat
        /\ mm.mem_used_bsize \in 0 .. MaxUsed
    BY <1>6, <2>3, HeapNumbers DEF HeapInv, HeapTypes, HeapUnits
  <2>6. m = k + n /\ g.mem_used_bsize = m + lost - n
    BY <1>7, <2>1, <2>3, <2>4, <2>5
  <2> QED BY <2>2, <2>3, <2>4, <2>5, <2>6
<1> QED BY <1>1, <1>2, <1>4, <1>6, <1>7, <1>8, <1>9 DEF HeapUnits

\* What the conjuncts about the heap itself need of a step that does not touch it.
LEMMA HeapRests ==
  ASSUME HeapInv, UNCHANGED <<mm, lost>>
  PROVE  HeapOver(mm') /\ HeapUnits' /\ \A s : Servable(mm', s) <=> Servable(mm, s)
  BY DEF HeapInv, HeapUnits

LEMMA HeapSteps ==
  ASSUME HeapInv, NEW t \in Threads, ~misfit',
         Heap!Call(t) \/ Heap!Step(t) \/ Heap!TryWake(t)
  PROVE  HeapInv'
<1> USE DEF Heap!Goto, Heap!Leave, Heap!locks, Heap!history
<1>0. /\ HeapTypes /\ HeapLocks /\ HeapClaims /\ HeapWaits
      /\ NoThread \notin Threads /\ Sizes \subseteq Nat
  BY HeapNumbers DEF HeapInv
<1>1. ASSUME NEW l \in Heap!Labels, NEW q, pc' = [pc EXCEPT ![t] = l], req' = [req EXCEPT ![t] = q],
             q \in [size : Nat, mode : {"none"} \cup Timeouts,
                    index : (0 .. mem_block_num - 1) \cup {Heap!Null}]
      PROVE  /\ pc' \in [Threads -> Heap!Labels] /\ pc'[t] = l /\ req'[t] = q
             /\ req' \in [Threads -> [size : Nat, mode : {"none"} \cup Timeouts,
                                      index : (0 .. mem_block_num - 1) \cup {Heap!Null}]]
             /\ \A u \in Threads \ {t} : pc'[u] = pc[u] /\ req'[u] = req[u]
  BY <1>0, <1>1 DEF HeapTypes
<1>2. Heap!NoRequest \in [size : Nat, mode : {"none"} \cup Timeouts,
                          index : (0 .. mem_block_num - 1) \cup {Heap!Null}]
  BY DEF Heap!NoRequest
<1>3. ASSUME NEW size \in Nat, Heap!Attempt(size), NEW l \in Heap!Labels,
             pc' = [pc EXCEPT ![t] = l], UNCHANGED <<cond_mutex, sleepers>>,
             pc[t] \in {"idle", "try_lock"}, l \in {"idle", "try_failed", "try_cond"},
             mutex' = IF l = "try_cond" THEN t ELSE mutex, mutex = NoThread,
             \/ req' = req
             \/ l = "idle" /\ req' = [req EXCEPT ![t] = Heap!NoRequest],
             l = "try_cond" => Heap!Malloc(mm, size).index = Heap!Null /\ size = req[t].size
      PROVE  HeapInv'
  <2>1. /\ HeapOver(mm') /\ HeapUnits' /\ lost' \in Nat /\ misfit' \in BOOLEAN
        /\ mm'.mem_used_bsize \in 0 .. MaxUsed
        /\ \A i : Owned(mm, i) => /\ Owned(mm', i) /\ \A n : Holds(mm, i, n) => Holds(mm', i, n)
                                  /\ i \in DOMAIN held' <=> i \in DOMAIN held
        /\ \A i \in DOMAIN held : i \in DOMAIN held' /\ held'[i] = held[i]
        /\ \A i \in DOMAIN held' \ DOMAIN held : Owned(mm', i) /\ Holds(mm', i, held'[i])
        /\ \A s \in Nat : Servable(mm', s) => Servable(mm, s)
        /\ Heap!Malloc(mm, size).index = Heap!Null => ~Servable(mm', size)
    BY <1>3, AttemptKeeps
  <2>2. /\ pc' \in [Threads -> Heap!Labels] /\ pc'[t] = l
        /\ req' \in [Threads -> [size : Nat, mode : {"none"} \cup Timeouts,
                                 index : (0 .. mem_block_num - 1) \cup {Heap!Null}]]
        /\ \A u \in Threads \ {t} : pc'[u] = pc[u] /\ req'[u] = req[u]
        /\ l = "try_cond" => req'[t] = req[t]
    <3>1. CASE req' = req
      BY <1>0, <1>3, <3>1 DEF HeapTypes
    <3>2. CASE l = "idle" /\ req' = [req EXCEPT ![t] = Heap!NoRequest]
      BY <1>1, <1>2, <1>3, <3>2
    <3> QED BY <1>3, <3>1, <3>2
  <2>3. sleepers' = {u \in Threads : pc'[u] = "try_asleep"}
    BY <1>0, <1>3, <2>2 DEF HeapTypes
  <2>4. HeapTypes'
    BY <1>0, <1>3, <2>1, <2>2, <2>3 DEF HeapTypes
  <2>5. HeapLocks'
    BY <1>0, <1>3, <2>2 DEF HeapLocks
  <2>6. HeapClaims'
    <3>1. \A i \in DOMAIN held' : Owned(mm', i) /\ Holds(mm', i, held'[i])
      BY <1>0, <2>1 DEF HeapClaims
    <3>2. \A u \in Threads : Giving(u)' => u # t /\ Giving(u) /\ req'[u] = req[u]
      BY <1>3, <2>2 DEF Giving
    <3>3. \A u \in Threads : Giving(u)' => Owned(mm', req'[u].index) /\ req'[u].index \notin DOMAIN held'
      BY <1>0, <2>1, <3>2 DEF HeapClaims
    <3>4. \A u, v \in Threads : Giving(u)' /\ Giving(v)' /\ req'[u].index = req'[v].index => u = v
      BY <1>0, <3>2 DEF HeapClaims
    <3> QED BY <3>1, <3>3, <3>4 DEF HeapClaims
  <2>7. HeapWaits'
    <3>1. \A u \in Threads : req'[u].size \in Nat /\ req[u].size \in Nat
      BY <1>0, <2>2 DEF HeapTypes
    <3>2. ASSUME NEW u \in Threads, Waiting(u)', Servable(mm', req'[u].size)
          PROVE  \E v \in Threads : pc'[v] = "free_cond"
      <4>1. u # t
        BY <1>3, <2>1, <2>2, <3>2 DEF Waiting
      <4>2. Waiting(u) /\ Servable(mm, req[u].size)
        BY <2>1, <2>2, <3>1, <3>2, <4>1 DEF Waiting
      <4>3. PICK v \in Threads : pc[v] = "free_cond"
        BY <1>0, <4>2 DEF HeapWaits
      <4> QED BY <1>3, <2>2, <4>3
    <3> QED BY <3>2 DEF HeapWaits
  <2> QED BY <2>1, <2>4, <2>5, <2>6, <2>7 DEF HeapInv
<1>4. ASSUME NEW size \in Sizes, Heap!MallocCall(t, size) PROVE HeapInv'
  <2>1. /\ size \in Nat /\ Heap!Attempt(size) /\ pc[t] = "idle" /\ mutex = NoThread
        /\ UNCHANGED <<mutex, cond_mutex, sleepers, pc, req>>
    BY <1>0, <1>4 DEF Heap!MallocCall
  <2>2. pc' = [pc EXCEPT ![t] = "idle"] /\ "idle" \in Heap!Labels
    BY <1>0, <2>1 DEF HeapTypes, Heap!Labels
  <2> QED BY <1>3, <2>1, <2>2
<1>5. ASSUME Heap!TryAttempt(t) PROVE HeapInv'
  <2>1. /\ req[t].size \in Nat /\ Heap!Attempt(req[t].size) /\ pc[t] = "try_lock"
        /\ mutex = NoThread /\ UNCHANGED <<cond_mutex, sleepers>>
        /\ "idle" \in Heap!Labels /\ "try_failed" \in Heap!Labels /\ "try_cond" \in Heap!Labels
    BY <1>0, <1>5 DEF Heap!TryAttempt, HeapTypes, Heap!Labels
  <2>2. CASE /\ pc' = [pc EXCEPT ![t] = "idle"] /\ req' = [req EXCEPT ![t] = Heap!NoRequest]
             /\ mutex' = mutex
    BY <1>3, <2>1, <2>2
  <2>3. CASE /\ pc' = [pc EXCEPT ![t] = "try_failed"] /\ UNCHANGED <<mutex, req>>
    BY <1>3, <2>1, <2>3
  <2>4. CASE /\ pc' = [pc EXCEPT ![t] = "try_cond"] /\ mutex' = t /\ req' = req
             /\ Heap!Malloc(mm, req[t].size).index = Heap!Null
    BY <1>3, <2>1, <2>4
  <2>5. \/ /\ pc' = [pc EXCEPT ![t] = "idle"] /\ req' = [req EXCEPT ![t] = Heap!NoRequest]
           /\ mutex' = mutex
        \/ /\ pc' = [pc EXCEPT ![t] = "try_failed"] /\ UNCHANGED <<mutex, req>>
        \/ /\ pc' = [pc EXCEPT ![t] = "try_cond"] /\ mutex' = t /\ req' = req
           /\ Heap!Malloc(mm, req[t].size).index = Heap!Null
    BY <1>5 DEF Heap!TryAttempt
  <2> QED BY <2>2, <2>3, <2>4, <2>5
\* A step that leaves the heap and the claims alone.
<1>6. ASSUME NEW l \in Heap!Labels, NEW q, pc' = [pc EXCEPT ![t] = l], req' = [req EXCEPT ![t] = q],
             q \in [size : Nat, mode : {"none"} \cup Timeouts,
                    index : (0 .. mem_block_num - 1) \cup {Heap!Null}],
             UNCHANGED <<mm, held, misfit, lost>>,
             mutex' \in Threads \cup {NoThread}, cond_mutex' \in Threads \cup {NoThread},
             sleepers' = IF l = "try_asleep" THEN sleepers \cup {t} ELSE sleepers \ {t},
             HeapLocks', pc[t] # "free_cond",
             l \in {"free_lock", "free_join"} => Giving(t) /\ q = req[t],
             l \in {"try_cond", "try_unlock", "try_sleep", "try_asleep"} => Waiting(t) /\ q = req[t]
      PROVE  HeapInv'
  <2>1. /\ pc' \in [Threads -> Heap!Labels] /\ pc'[t] = l /\ req'[t] = q
        /\ req' \in [Threads -> [size : Nat, mode : {"none"} \cup Timeouts,
                                 index : (0 .. mem_block_num - 1) \cup {Heap!Null}]]
        /\ \A u \in Threads \ {t} : pc'[u] = pc[u] /\ req'[u] = req[u]
    BY <1>1, <1>6
  <2>2. HeapOver(mm') /\ HeapUnits' /\ \A s : Servable(mm', s) <=> Servable(mm, s)
    BY <1>6, HeapRests
  <2>3. sleepers' = {u \in Threads : pc'[u] = "try_asleep"}
    BY <1>0, <1>6, <2>1 DEF HeapTypes
  <2>4. HeapTypes'
    BY <1>0, <1>6, <2>1, <2>3 DEF HeapTypes
  <2>5. \A u \in Threads : Giving(u)' => Giving(u) /\ req'[u] = req[u]
    BY <1>6, <2>1 DEF Giving
  <2>6. HeapClaims'
    BY <1>0, <1>6, <2>5 DEF HeapClaims
  <2>7. HeapWaits'
    <3>1. ASSUME NEW u \in Threads, Waiting(u)', Servable(mm', req'[u].size)
          PROVE  \E v \in Threads : pc'[v] = "free_cond"
      <4>1. Waiting(u) /\ req'[u] = req[u]
        BY <1>6, <2>1, <3>1 DEF Waiting
      <4>2. PICK v \in Threads : pc[v] = "free_cond"
        BY <1>0, <2>2, <3>1, <4>1 DEF HeapWaits
      <4> QED BY <1>6, <2>1, <4>2
    <3> QED BY <3>1 DEF HeapWaits
  <2> QED BY <1>6, <2>2, <2>4, <2>6, <2>7 DEF HeapInv
<1>7. /\ pc \in [Threads -> Heap!Labels]
      /\ req \in [Threads -> [size : Nat, mode : {"none"} \cup Timeouts,
                              index : (0 .. mem_block_num - 1) \cup {Heap!Null}]]
      /\ mutex \in Threads \cup {NoThread} /\ cond_mutex \in Threads \cup {NoThread}
      /\ sleepers = {u \in Threads : pc[u] = "try_asleep"}
      /\ req = [req EXCEPT ![t] = req[t]]
  BY <1>0 DEF HeapTypes
<1>8. ASSUME NEW size \in Sizes, NEW mode \in Timeouts, Heap!TryCall(t, size, mode) PROVE HeapInv'
  <2>1. PICK q : q = [Heap!NoRequest EXCEPT !.size = size, !.mode = mode]
    OBVIOUS
  <2>2. q \in [size : Nat, mode : {"none"} \cup Timeouts,
               index : (0 .. mem_block_num - 1) \cup {Heap!Null}]
    BY <1>0, <2>1 DEF Heap!NoRequest
  <2>3. /\ pc[t] = "idle" /\ pc' = [pc EXCEPT ![t] = "try_lock"] /\ req' = [req EXCEPT ![t] = q]
        /\ UNCHANGED <<mm, held, misfit, lost, mutex, cond_mutex, sleepers>>
    BY <1>8, <2>1 DEF Heap!TryCall
  <2>4. HeapLocks' /\ "try_lock" \in Heap!Labels
    BY <1>0, <1>7, <2>3 DEF HeapLocks, Heap!Labels
  <2>5. sleepers' = sleepers \ {t}
    BY <1>7, <2>3
  <2> QED BY <1>6, <1>7, <2>2, <2>3, <2>4, <2>5
<1>9. ASSUME Heap!TryCond(t) PROVE HeapInv'
  <2>1. /\ pc[t] = "try_cond" /\ cond_mutex = NoThread /\ pc' = [pc EXCEPT ![t] = "try_unlock"] /\ req' = req
        /\ mutex' = mutex /\ cond_mutex' = t /\ sleepers' = sleepers
        /\ UNCHANGED <<mm, held, misfit, lost>>
    BY <1>9 DEF Heap!TryCond
  <2>2. HeapLocks' /\ "try_unlock" \in Heap!Labels
    BY <1>0, <1>7, <2>1 DEF HeapLocks, Heap!Labels
  <2>3. sleepers' = IF "try_unlock" = "try_asleep" THEN sleepers \cup {t} ELSE sleepers \ {t}
    BY <1>7, <2>1
  <2>4. /\ mutex' \in Threads \cup {NoThread} /\ cond_mutex' \in Threads \cup {NoThread}
        /\ req' = [req EXCEPT ![t] = req[t]]
    BY <1>7, <2>1
  <2> QED BY <1>2, <1>6, <1>7, <2>1, <2>2, <2>3, <2>4 DEF Giving, Waiting
<1>10. ASSUME Heap!TryUnlock(t) PROVE HeapInv'
  <2>1. /\ pc[t] = "try_unlock" /\ pc' = [pc EXCEPT ![t] = "try_sleep"] /\ req' = req
        /\ mutex' = NoThread /\ cond_mutex' = cond_mutex /\ sleepers' = sleepers
        /\ UNCHANGED <<mm, held, misfit, lost>>
    BY <1>10 DEF Heap!TryUnlock
  <2>2. HeapLocks' /\ "try_sleep" \in Heap!Labels
    BY <1>0, <1>7, <2>1 DEF HeapLocks, Heap!Labels
  <2>3. sleepers' = IF "try_sleep" = "try_asleep" THEN sleepers \cup {t} ELSE sleepers \ {t}
    BY <1>7, <2>1
  <2>4. /\ mutex' \in Threads \cup {NoThread} /\ cond_mutex' \in Threads \cup {NoThread}
        /\ req' = [req EXCEPT ![t] = req[t]]
    BY <1>7, <2>1
  <2> QED BY <1>2, <1>6, <1>7, <2>1, <2>2, <2>3, <2>4 DEF Giving, Waiting
<1>11. ASSUME Heap!TrySleep(t) PROVE HeapInv'
  <2>1. /\ pc[t] = "try_sleep" /\ pc' = [pc EXCEPT ![t] = "try_asleep"] /\ req' = req
        /\ mutex' = mutex /\ cond_mutex' = NoThread /\ sleepers' = sleepers \cup {t}
        /\ UNCHANGED <<mm, held, misfit, lost>>
    BY <1>11 DEF Heap!TrySleep
  <2>2. HeapLocks' /\ "try_asleep" \in Heap!Labels
    BY <1>0, <1>7, <2>1 DEF HeapLocks, Heap!Labels
  <2>3. sleepers' = IF "try_asleep" = "try_asleep" THEN sleepers \cup {t} ELSE sleepers \ {t}
    BY <1>7, <2>1
  <2>4. /\ mutex' \in Threads \cup {NoThread} /\ cond_mutex' \in Threads \cup {NoThread}
        /\ req' = [req EXCEPT ![t] = req[t]]
    BY <1>7, <2>1
  <2> QED BY <1>2, <1>6, <1>7, <2>1, <2>2, <2>3, <2>4 DEF Giving, Waiting
<1>12. ASSUME Heap!TryFail(t) PROVE HeapInv'
  <2>1. /\ pc[t] = "try_failed" /\ pc' = [pc EXCEPT ![t] = "idle"] /\ req' = [req EXCEPT ![t] = Heap!NoRequest]
        /\ mutex' = mutex /\ cond_mutex' = cond_mutex /\ sleepers' = sleepers
        /\ UNCHANGED <<mm, held, misfit, lost>>
    BY <1>12 DEF Heap!TryFail
  <2>2. HeapLocks' /\ "idle" \in Heap!Labels
    BY <1>0, <1>7, <2>1 DEF HeapLocks, Heap!Labels
  <2>3. sleepers' = IF "idle" = "try_asleep" THEN sleepers \cup {t} ELSE sleepers \ {t}
    BY <1>7, <2>1
  <2>4. /\ mutex' \in Threads \cup {NoThread} /\ cond_mutex' \in Threads \cup {NoThread}
        /\ req' = [req EXCEPT ![t] = Heap!NoRequest]
    BY <1>7, <2>1
  <2> QED BY <1>2, <1>6, <1>7, <2>1, <2>2, <2>3, <2>4 DEF Giving, Waiting
<1>13. ASSUME Heap!FreeLock(t) PROVE HeapInv'
  <2>1. /\ pc[t] = "free_lock" /\ mutex = NoThread /\ pc' = [pc EXCEPT ![t] = "free_join"] /\ req' = req
        /\ mutex' = t /\ cond_mutex' = cond_mutex /\ sleepers' = sleepers
        /\ UNCHANGED <<mm, held, misfit, lost>>
    BY <1>13 DEF Heap!FreeLock
  <2>2. HeapLocks' /\ "free_join" \in Heap!Labels
    BY <1>0, <1>7, <2>1 DEF HeapLocks, Heap!Labels
  <2>3. sleepers' = IF "free_join" = "try_asleep" THEN sleepers \cup {t} ELSE sleepers \ {t}
    BY <1>7, <2>1
  <2>4. /\ mutex' \in Threads \cup {NoThread} /\ cond_mutex' \in Threads \cup {NoThread}
        /\ req' = [req EXCEPT ![t] = req[t]]
    BY <1>7, <2>1
  <2> QED BY <1>2, <1>6, <1>7, <2>1, <2>2, <2>3, <2>4 DEF Giving, Waiting
<1>14. ASSUME Heap!FreeUnlock(t) PROVE HeapInv'
  <2>1. /\ pc[t] = "free_unlock" /\ pc' = [pc EXCEPT ![t] = "idle"] /\ req' = [req EXCEPT ![t] = Heap!NoRequest]
        /\ mutex' = NoThread /\ cond_mutex' = cond_mutex /\ sleepers' = sleepers
        /\ UNCHANGED <<mm, held, misfit, lost>>
    BY <1>14 DEF Heap!FreeUnlock
  <2>2. HeapLocks' /\ "idle" \in Heap!Labels
    BY <1>0, <1>7, <2>1 DEF HeapLocks, Heap!Labels
  <2>3. sleepers' = IF "idle" = "try_asleep" THEN sleepers \cup {t} ELSE sleepers \ {t}
    BY <1>7, <2>1
  <2>4. /\ mutex' \in Threads \cup {NoThread} /\ cond_mutex' \in Threads \cup {NoThread}
        /\ req' = [req EXCEPT ![t] = Heap!NoRequest]
    BY <1>7, <2>1
  <2> QED BY <1>2, <1>6, <1>7, <2>1, <2>2, <2>3, <2>4 DEF Giving, Waiting
<1>15. ASSUME Heap!TryWake(t) PROVE HeapInv'
  <2>1. PICK l \in {"try_expired", "try_woken"} :
          /\ pc[t] = "try_asleep" /\ pc' = [pc EXCEPT ![t] = l] /\ req' = req
          /\ sleepers' = sleepers \ {t} /\ UNCHANGED <<mm, held, misfit, lost, mutex, cond_mutex>>
    BY <1>15 DEF Heap!TryWake
  <2>2. HeapLocks' /\ l \in Heap!Labels
    BY <1>0, <1>7, <2>1 DEF HeapLocks, Heap!Labels
  <2>3. req' = [req EXCEPT ![t] = req[t]]
    BY <1>7, <2>1
  <2> QED BY <1>6, <1>7, <2>1, <2>2, <2>3
<1>16. ASSUME Heap!TryTest(t) PROVE HeapInv'
  <2>1. PICK l \in {"try_failed", "try_lock"} :
          /\ pc[t] \in {"try_expired", "try_woken"} /\ pc' = [pc EXCEPT ![t] = l] /\ req' = req
          /\ UNCHANGED <<mm, held, misfit, lost, mutex, cond_mutex, sleepers>>
    BY <1>16 DEF Heap!TryTest
  <2>2. HeapLocks' /\ l \in Heap!Labels
    BY <1>0, <1>7, <2>1 DEF HeapLocks, Heap!Labels
  <2>3. req' = [req EXCEPT ![t] = req[t]] /\ sleepers' = sleepers \ {t}
    BY <1>7, <2>1
  <2> QED BY <1>6, <1>7, <2>1, <2>2, <2>3
<1>17. ASSUME NEW x \in DOMAIN held, Heap!FreeCall(t, x) PROVE HeapInv'
  <2>1. PICK q : q = [Heap!NoRequest EXCEPT !.index = x]
    OBVIOUS
  <2>2. Owned(mm, x) /\ x \in 0 .. mem_block_num - 1
    BY <1>0 DEF HeapClaims, Owned
  <2>3. /\ q \in [size : Nat, mode : {"none"} \cup Timeouts,
                  index : (0 .. mem_block_num - 1) \cup {Heap!Null}]
        /\ q.index = x
    BY <2>1, <2>2 DEF Heap!NoRequest
  <2>4. /\ pc[t] = "idle" /\ pc' = [pc EXCEPT ![t] = "free_lock"] /\ req' = [req EXCEPT ![t] = q]
        /\ held' = [i \in DOMAIN held \ {x} |-> held[i]]
        /\ UNCHANGED <<mm, misfit, lost, mutex, cond_mutex, sleepers>> /\ "free_lock" \in Heap!Labels
    BY <1>17, <2>1 DEF Heap!FreeCall, Heap!Labels
  <2>5. /\ pc' \in [Threads -> Heap!Labels] /\ pc'[t] = "free_lock" /\ req'[t] = q
        /\ req' \in [Threads -> [size : Nat, mode : {"none"} \cup Timeouts,
                                 index : (0 .. mem_block_num - 1) \cup {Heap!Null}]]
        /\ \A u \in Threads \ {t} : pc'[u] = pc[u] /\ req'[u] = req[u]
    BY <1>1, <2>3, <2>4
  <2>6. HeapOver(mm') /\ HeapUnits' /\ \A s : Servable(mm', s) <=> Servable(mm, s)
    BY <2>4, HeapRests
  <2>7. HeapTypes'
    <3>1. sleepers' = {u \in Threads : pc'[u] = "try_asleep"}
      BY <1>7, <2>4, <2>5
    <3> QED BY <1>0, <2>4, <2>5, <3>1 DEF HeapTypes
  <2>8. HeapLocks'
    BY <1>0, <2>4, <2>5 DEF HeapLocks
  <2>9. HeapClaims'
    <3>1. DOMAIN held' = DOMAIN held \ {x} /\ \A i \in DOMAIN held' : held'[i] = held[i]
      BY <2>4
    <3>2. \A u \in Threads : Giving(u)' => \/ u = t /\ req'[u].index = x
                                           \/ u # t /\ Giving(u) /\ req'[u].index = req[u].index
      BY <2>3, <2>5 DEF Giving
    <3>3. \A i \in DOMAIN held' : Owned(mm', i) /\ Holds(mm', i, held'[i])
      BY <1>0, <2>4, <3>1 DEF HeapClaims
    <3>4. \A u \in Threads : Giving(u)' => Owned(mm', req'[u].index) /\ req'[u].index \notin DOMAIN held'
      BY <1>0, <2>2, <2>4, <3>1, <3>2 DEF HeapClaims
    <3>5. \A u, v \in Threads : Giving(u)' /\ Giving(v)' /\ req'[u].index = req'[v].index => u = v
      BY <1>0, <3>2 DEF HeapClaims
    <3> QED BY <3>3, <3>4, <3>5 DEF HeapClaims
  <2>10. HeapWaits'
    <3>1. ASSUME NEW u \in Threads, Waiting(u)', Servable(mm', req'[u].size)
          PROVE  \E v \in Threads : pc'[v] = "free_cond"
      <4>1. Waiting(u) /\ req'[u] = req[u]
        BY <2>5, <3>1 DEF Waiting
      <4>2. PICK v \in Threads : pc[v] = "free_cond"
        BY <1>0, <2>6, <3>1, <4>1 DEF HeapWaits
      <4> QED BY <2>4, <2>5, <4>2
    <3> QED BY <3>1 DEF HeapWaits
  <2> QED BY <2>6, <2>7, <2>8, <2>9, <2>10 DEF HeapInv
<1>18. ASSUME Heap!FreeJoin(t) PROVE HeapInv'
  <2>1. /\ HeapOver(mm') /\ HeapUnits' /\ mm'.mem_used_bsize \in 0 .. MaxUsed
        /\ \A i : Owned(mm, i) /\ i # req[t].index =>
             Owned(mm', i) /\ \A n : Holds(mm, i, n) => Holds(mm', i, n)
    BY <1>18, FreeJoinKeeps
  <2>2. /\ pc[t] = "free_join" /\ pc' = [pc EXCEPT ![t] = "free_cond"] /\ "free_cond" \in Heap!Labels
        /\ UNCHANGED <<mutex, cond_mutex, sleepers, req, held, misfit, lost>>
    BY <1>18 DEF Heap!FreeJoin, Heap!Labels
  <2>3. /\ pc' \in [Threads -> Heap!Labels] /\ pc'[t] = "free_cond"
        /\ \A u \in Threads \ {t} : pc'[u] = pc[u]
    BY <1>7, <2>2
  <2>4. HeapTypes'
    <3>1. sleepers' = {u \in Threads : pc'[u] = "try_asleep"}
      BY <1>7, <2>2, <2>3
    <3> QED BY <1>0, <2>1, <2>2, <2>3, <3>1 DEF HeapTypes
  <2>5. HeapLocks'
    BY <1>0, <2>2, <2>3 DEF HeapLocks
  <2>6. HeapClaims'
    <3>1. \A u \in Threads : Giving(u)' => u # t /\ Giving(u)
      BY <2>3 DEF Giving
    <3>2. Giving(t) /\ req[t].index \notin DOMAIN held
      BY <1>0, <2>2 DEF HeapClaims, Giving
    <3>3. \A i \in DOMAIN held' : Owned(mm', i) /\ Holds(mm', i, held'[i])
      BY <1>0, <2>1, <2>2, <3>2 DEF HeapClaims
    <3>4. \A u \in Threads : Giving(u)' => Owned(mm', req'[u].index) /\ req'[u].index \notin DOMAIN held'
      BY <1>0, <2>1, <2>2, <3>1, <3>2 DEF HeapClaims
    <3>5. \A u, v \in Threads : Giving(u)' /\ Giving(v)' /\ req'[u].index = req'[v].index => u = v
      BY <1>0, <2>2, <3>1 DEF HeapClaims
    <3> QED BY <3>3, <3>4, <3>5 DEF HeapClaims
  <2>7. HeapWaits'
    BY <2>3 DEF HeapWaits
  <2> QED BY <2>1, <2>4, <2>5, <2>6, <2>7 DEF HeapInv
<1>19. ASSUME Heap!FreeBroadcast(t) PROVE HeapInv'
  <2>1. /\ pc[t] = "free_cond" /\ cond_mutex = NoThread /\ sleepers' = {}
        /\ pc' = [u \in Threads |-> IF u = t THEN "free_unlock"
                                    ELSE IF u \in sleepers THEN "try_woken" ELSE pc[u]]
        /\ UNCHANGED <<mm, mutex, cond_mutex, req, held, misfit, lost>>
    BY <1>19 DEF Heap!FreeBroadcast
  <2>2. /\ pc' \in [Threads -> Heap!Labels] /\ pc'[t] = "free_unlock"
        /\ \A u \in Threads \ {t} : pc'[u] = IF pc[u] = "try_asleep" THEN "try_woken" ELSE pc[u]
    BY <1>7, <2>1 DEF Heap!Labels
  <2>3. HeapOver(mm') /\ HeapUnits' /\ \A s : Servable(mm', s) <=> Servable(mm, s)
    BY <2>1, HeapRests
  <2>4. HeapTypes'
    <3>1. sleepers' = {u \in Threads : pc'[u] = "try_asleep"}
      BY <2>1, <2>2
    <3> QED BY <1>0, <2>1, <2>2, <3>1 DEF HeapTypes
  <2>5. HeapLocks'
    BY <1>0, <2>1, <2>2 DEF HeapLocks
  <2>6. HeapClaims'
    <3>1. \A u \in Threads : Giving(u)' => Giving(u)
      BY <2>2 DEF Giving
    <3> QED BY <1>0, <2>1, <3>1 DEF HeapClaims
  <2>7. HeapWaits'
    <3>1. mutex = t
      BY <1>0, <2>1 DEF HeapLocks
    <3>2. \A u \in Threads : ~Waiting(u)'
      BY <1>0, <2>1, <2>2, <3>1 DEF HeapLocks, Waiting
    <3> QED BY <3>2 DEF HeapWaits
  <2> QED BY <2>3, <2>4, <2>5, <2>6, <2>7 DEF HeapInv
<1> HIDE DEF HeapInv
<1> QED BY <1>4, <1>5, <1>8, <1>9, <1>10, <1>11, <1>12, <1>13, <1>14, <1>15, <1>16, <1>17,
           <1>18, <1>19 DEF Heap!Call, Heap!Step

LEMMA HeapStutters ==
  ASSUME HeapInv, UNCHANGED <<mm, mutex, cond_mutex, sleepers, pc, req, held, misfit, lost>>
  PROVE  HeapInv'
  BY DEF HeapInv, HeapTypes, HeapLocks, HeapClaims, HeapUnits, HeapWaits, Giving, Waiting

\* A misfit is not forgotten, and none happens if the model makes none.
LEMMA MisfitStays ==
  ASSUME NEW t \in Threads, Heap!Call(t) \/ Heap!Step(t) \/ Heap!TryWake(t)
  PROVE  (misfit => misfit') /\ (~Beyond /\ ~misfit => ~misfit')
<1>1. ASSUME NEW size, Heap!Attempt(size)
      PROVE  (misfit => misfit') /\ (~Beyond /\ ~misfit => ~misfit')
  BY <1>1, Zenon DEF Heap!Attempt
<1>2. CASE misfit' = misfit
  BY <1>2
<1>3. \/ \E size : Heap!Attempt(size)
      \/ misfit' = misfit
  BY DEF Heap!Call, Heap!Step, Heap!MallocCall, Heap!TryCall, Heap!FreeCall, Heap!TryAttempt,
         Heap!TryCond, Heap!TryUnlock, Heap!TrySleep, Heap!TryWake, Heap!TryTest, Heap!TryFail,
         Heap!FreeLock, Heap!FreeJoin, Heap!FreeBroadcast, Heap!FreeUnlock, Heap!history
<1> QED BY <1>1, <1>2, <1>3

\* Every step of the heap keeps the invariant until an exact fit was made in front of
\* another piece.
LEMMA HeapNext ==
  (misfit \/ HeapInv) /\ [Heap!Next]_(Heap!vars) =>
    (misfit \/ HeapInv)' /\ (~Beyond /\ ~misfit => ~misfit')
<1> SUFFICES ASSUME misfit \/ HeapInv, [Heap!Next]_(Heap!vars)
             PROVE  (misfit \/ HeapInv)' /\ (~Beyond /\ ~misfit => ~misfit')
  OBVIOUS
<1>1. CASE UNCHANGED Heap!vars
  <2>1. UNCHANGED <<mm, mutex, cond_mutex, sleepers, pc, req, held, misfit, lost>>
    BY <1>1 DEF Heap!vars, Heap!locks, Heap!history
  <2> QED BY <2>1, HeapStutters
<1>2. ASSUME NEW t \in Threads, Heap!Call(t) \/ Heap!Step(t) \/ Heap!TryWake(t)
      PROVE  (misfit \/ HeapInv)' /\ (~Beyond /\ ~misfit => ~misfit')
  <2>1. (misfit => misfit') /\ (~Beyond /\ ~misfit => ~misfit')
    BY <1>2, MisfitStays
  <2>2. ~misfit' => HeapInv'
    BY <1>2, <2>1, HeapSteps
  <2> QED BY <2>1, <2>2
<1> QED BY <1>1, <1>2 DEF Heap!Next

----------------------------------------------------------------------------
(* Together *)

\* The ring is used by the upload or by itself.
FlowInv == /\ RingInv
           /\ part = "upload" => UploadInv
           /\ part # "upload" => made = 0 /\ parts = <<>>

LEMMA StartsAll == MCInit => SocketInv /\ HttpInv /\ FlowInv /\ HeapInv /\ ~misfit
<1> SUFFICES ASSUME MCInit PROVE SocketInv /\ HttpInv /\ FlowInv /\ HeapInv /\ ~misfit
  OBVIOUS
<1>1. SocketInv /\ HttpInv /\ RingInv
  BY SocketsStart, HttpStarts, RingStarts DEF MCInit
<1>4. HeapInv /\ ~misfit
  BY HeapStarts DEF MCInit, Heap!Init
<1>2. part = "upload" => UploadInv
  BY UploadStarts DEF MCInit
<1>3. made = 0 /\ parts = <<>>
  BY DEF MCInit, Created
<1> QED BY <1>1, <1>2, <1>3, <1>4 DEF FlowInv

LEMMA StepsAll ==
  [MCNext]_<<part, vars, upload, httpc, ether, heap>> =>
    /\ [Sockets!Next]_(Sockets!vars)
    /\ [Httpc!Next]_(Httpc!vars)
    /\ [Heap!Next]_(Heap!vars)
    /\ part' = part
    /\ \/ part = "ring" /\ Next /\ UNCHANGED upload
       \/ part = "upload" /\ UploadNext
       \/ UNCHANGED <<vars, upload>>
<1> SUFFICES ASSUME [MCNext]_<<part, vars, upload, httpc, ether, heap>>
             PROVE  /\ [Sockets!Next]_(Sockets!vars)
                    /\ [Httpc!Next]_(Httpc!vars)
                    /\ [Heap!Next]_(Heap!vars)
                    /\ part' = part
                    /\ \/ part = "ring" /\ Next /\ UNCHANGED upload
                       \/ part = "upload" /\ UploadNext
                       \/ UNCHANGED <<vars, upload>>
  OBVIOUS
<1>0. part' = part
  BY DEF MCNext
<1>1. UNCHANGED ether => UNCHANGED Sockets!vars
  BY DEF ether, Sockets!vars, Sockets!sockets
<1>2. UNCHANGED httpc => UNCHANGED Httpc!vars
  BY DEF httpc, Httpc!vars, Httpc!headers, Httpc!buffer, Httpc!request
<1>3. UNCHANGED heap => UNCHANGED Heap!vars
  BY DEF heap, Heap!vars, Heap!locks, Heap!history
<1>4. CASE part = "ring" /\ Next /\ UNCHANGED <<upload, httpc, ether, heap>>
  BY <1>0, <1>1, <1>2, <1>3, <1>4
<1>5. CASE part = "upload" /\ UploadNext /\ UNCHANGED <<httpc, ether, heap>>
  BY <1>0, <1>1, <1>2, <1>3, <1>5
<1>6. CASE part = "http" /\ Httpc!Next /\ UNCHANGED <<vars, upload, ether, heap>>
  BY <1>0, <1>1, <1>3, <1>6
<1>7. CASE part = "ether" /\ Sockets!Next /\ UNCHANGED <<vars, upload, httpc, heap>>
  BY <1>0, <1>2, <1>3, <1>7
<1>8. CASE part = "heap" /\ (Heap!Next \/ Heap!Quiet) /\ UNCHANGED <<vars, upload, httpc, ether>>
  BY <1>0, <1>1, <1>2, <1>8 DEF Heap!Quiet
<1>9. CASE UNCHANGED <<vars, upload, httpc, ether, heap>>
  BY <1>0, <1>1, <1>2, <1>3, <1>9
<1> QED BY <1>4, <1>5, <1>6, <1>7, <1>8, <1>9 DEF MCNext

LEMMA FlowNext == FlowInv /\ [MCNext]_<<part, vars, upload, httpc, ether, heap>> => FlowInv'
<1> SUFFICES ASSUME FlowInv, [MCNext]_<<part, vars, upload, httpc, ether, heap>> PROVE FlowInv'
  OBVIOUS
<1>0. part' = part /\ RingInv
  BY StepsAll DEF FlowInv
<1>1. CASE part = "ring" /\ Next /\ UNCHANGED upload
  <2>1. RingStep
    <3>1. Records \subseteq Content /\ 1 .. num_max \subseteq Nat
      BY RingAssumption DEF Content
    <3> QED BY <1>1, <3>1 DEF Next, RingStep
  <2>2. UNCHANGED <<made, parts>>
    BY <1>1 DEF upload, requests
  <2> QED BY <1>0, <1>1, <2>1, <2>2, RingNext DEF FlowInv
<1>2. CASE part = "upload" /\ UploadNext
  <2>1. UploadInv'
    BY <1>2, UploadNextKeeps DEF FlowInv
  <2> QED BY <1>0, <1>2, <2>1 DEF FlowInv, UploadInv
<1>3. CASE UNCHANGED <<vars, upload>>
  <2>1. RingInv'
    BY <1>0, <1>3, RingNext DEF RingStep
  <2>2. part = "upload" => UploadInv'
    BY <1>3, UploadNextKeeps DEF FlowInv
  <2>3. UNCHANGED <<made, parts>>
    BY <1>3 DEF upload, requests
  <2> QED BY <1>0, <2>1, <2>2, <2>3 DEF FlowInv
<1> QED BY <1>1, <1>2, <1>3, StepsAll

\* A call that sends or receives works on the descriptor of its own socket unless that
\* socket is closed under it, however many are opened and closed meanwhile
\* (em_ether.c:297-341).
THEOREM DescriptorsAreOwn == MCSpec => []OwnDescriptor
<1>1. SocketInv => OwnDescriptor
  BY SocketsSafe DEF OwnDescriptor
<1> QED BY <1>1, StartsAll, StepsAll, SocketsNext, PTL DEF MCSpec

\* The caller of an HTTP request that succeeded is given the bytes the server sent for
\* it, however the requests before it have ended (em_httpc.c:55, 141).
THEOREM RepliesAreOwn == MCSpec => []ReplyIsOwn
<1>1. HttpInv => ReplyIsOwn
  BY HttpSafe DEF ReplyIsOwn
<1> QED BY <1>1, StartsAll, StepsAll, HttpNext, PTL DEF MCSpec

\* The oldest record of a ring is where em_ring_get_dataptr_tail looks for it, and no
\* record that can be read is in the slot that is being filled (em_ringbuf.c:69-138).
THEOREM OldestComesFirst == MCSpec => []OldestFirst
<1>1. FlowInv => OldestFirst
  BY RingReadOldest DEF FlowInv
<1> QED BY <1>1, StartsAll, FlowNext, PTL DEF MCSpec

\* If the number of slots divides 2^32 a ring is read in the order it was written from
\* the newest on, too (em_ringbuf.c:110-123; it is not if there are three slots).
THEOREM RingReadInOrder == ASSUME Word % num_max = 0 PROVE MCSpec => []ReadsInOrder
<1>1. FlowInv => ReadsInOrder
  BY RingReadOldest, RingReadNewest DEF FlowInv, ReadsInOrder
<1> QED BY <1>1, StartsAll, FlowNext, PTL DEF MCSpec

\* No record is lost but those added during a request that succeeds, and every request
\* carries the queued records from the oldest on (em_upload.c:92-177).
THEOREM RecordsSentOrQueued == MCSpec => []SentOrQueued
<1>1. FlowInv => SentOrQueued
  <2> SUFFICES ASSUME FlowInv PROVE SentOrQueued
    OBVIOUS
  <2>1. CASE part = "upload"
    BY <2>1, UploadSafe DEF FlowInv
  <2>2. CASE part # "upload"
    BY <2>2 DEF FlowInv, SentOrQueued
  <2> QED BY <2>1, <2>2
<1> QED BY <1>1, StartsAll, FlowNext, PTL DEF MCSpec

\* Buffers of records, handles and forms of libcurl and descriptors are those in use and
\* those the code is known to leave behind (em_upload.c:117, 168-174; em_httpc.c:134-144;
\* em_ether.c:75, 117, 244, 268).
THEOREM NothingElseLeaks == MCSpec => []ResourcesAccounted
<1>1. FlowInv /\ HttpInv /\ SocketInv => ResourcesAccounted
  BY UploadSafe, HttpSafe, SocketsSafe DEF FlowInv, ResourcesAccounted
<1> QED BY <1>1, StartsAll, StepsAll, FlowNext, HttpNext, SocketsNext, PTL DEF MCSpec

\* Until an exact fit is made in front of another piece, the list of the heap covers it in
\* address order without hole or overlap, every piece that is held is a used one of its own
\* and long enough, a record is left for every piece that is freed, and the reported size
\* is true (em_malloc.c:153-231, 293-364); and no thread on its way to sleep misses the free
\* that would serve it (277, 359-361).
THEOREM HeapSoundBeforeMisfit == MCSpec => [](~misfit => HeapSound /\ SleepersCannotBeServed)
<1>1. misfit \/ HeapInv => (~misfit => HeapSound /\ SleepersCannotBeServed)
  BY HeapIsSound, SleepersAreWatched DEF HeapSound, SleepersCannotBeServed
<1> QED BY <1>1, StartsAll, StepsAll, HeapNext, PTL DEF MCSpec

\* Where no such fit is made, the heap is sound for good (em_malloc.c:153-231, 293-364).
THEOREM HeapStaysSound == ASSUME ~Beyond PROVE MCSpec => []HeapSound
<1>1. (misfit \/ HeapInv) /\ ~misfit => HeapSound
  BY HeapIsSound DEF HeapSound
<1> QED BY <1>1, StartsAll, StepsAll, HeapNext, PTL DEF MCSpec

\* Where no such fit is made, a thread on its way into pthread_cond_timedwait is woken by
\* every free that could serve it (em_malloc.c:273-288, 359-361).
THEOREM SleepersAreWoken == ASSUME ~Beyond PROVE MCSpec => []SleepersCannotBeServed
<1>1. (misfit \/ HeapInv) /\ ~misfit => SleepersCannotBeServed
  BY SleepersAreWatched DEF SleepersCannotBeServed
<1> QED BY <1>1, StartsAll, StepsAll, HeapNext, PTL DEF MCSpec
=============================================================================
