------------------------------- MODULE Ether -------------------------------
(***************************************************************************)
(* em_ether.c: sockets over the kernel's descriptors, which the kernel     *)
(* gives out again once they are closed.  The threads of the application   *)
(* open and close sockets of their own, other threads send and receive     *)
(* through them.  No call takes a mutex: a socket may be closed, and its   *)
(* descriptor opened for another, between two steps of a send.             *)
(*                                                                         *)
(* Addresses, and the bytes on the way, are not modelled.                  *)
(***************************************************************************)
EXTENDS Integers, FiniteSets

CONSTANTS Tcp, Listening, Udp,  \* em_socket_t variables: for connections (of a client or
                                \* accepted), for listening, for datagrams
          Workers,              \* the threads that send and receive
          NumDescriptors        \* the kernel's descriptors

Sockets == Tcp \cup Listening \cup Udp
Descriptors == 0 .. NumDescriptors - 1
NoSocket == -1   \* what socket() answers when it fails
Nobody == "nobody"

VARIABLES
  descriptor,  \* the em_socket_t each descriptor was opened for, Nobody if it is closed
  sock,        \* sk->sock
  connected,   \* sk->is_connected
  owner,       \* what the thread a socket belongs to is about to do with it
  user,        \* what each worker is about to do, and with which socket
  torn,        \* history: the socket was closed while the worker's call was under way
  leaked       \* history: descriptors that a refused em_udp_tx_init has left open

sockets == <<descriptor, sock, connected, leaked>>
vars == <<sockets, owner, user, torn>>

Out == [pc |-> "out", sk |-> Nobody]

\* Nobody uses a socket before it is first connected, when its is_connected is not set.
Init == /\ descriptor = [d \in Descriptors |-> Nobody]
        /\ sock = [s \in Sockets |-> NoSocket]
        /\ connected = [s \in Sockets |-> FALSE]
        /\ owner = [s \in Sockets |-> "out"]
        /\ user = [w \in Workers |-> Out]
        /\ torn = [w \in Workers |-> FALSE]
        /\ leaked = {}

Goto(s, l) == owner' = [owner EXCEPT ![s] = l]
Closed == {d \in Descriptors : descriptor[d] = Nobody}

\* The kernel opens the lowest descriptor that is closed.
Open(s) == \E d \in Closed : /\ \A e \in Closed : d <= e
                             /\ sock' = [sock EXCEPT ![s] = d]
                             /\ descriptor' = [descriptor EXCEPT ![d] = s]

\* close(sk->sock)
Close(s) == /\ descriptor' = [descriptor EXCEPT ![sock[s]] = Nobody]
            /\ torn' = [w \in Workers |-> torn[w] \/ user[w].sk = s]

----------------------------------------------------------------------------
(* Opening: em_tcp_connect_client, em_tcp_connect_server, em_udp_tx_init    *)
(* and em_udp_rx_init.  A destination is checked before a client's socket   *)
(* is made, which is not an action, and after a sender's is.                *)

\* em_socket_init up to bind.
SocketInit(s) ==
  /\ owner[s] = "out"
  /\ Open(s)
  /\ connected' = [connected EXCEPT ![s] = FALSE]
  /\ Goto(s, "bind")
  /\ UNCHANGED <<leaked, user, torn>>

\* socket() may fail at any time.
SocketInitFails(s) ==
  /\ owner[s] = "out"
  /\ sock' = [sock EXCEPT ![s] = NoSocket]
  /\ connected' = [connected EXCEPT ![s] = FALSE]
  /\ UNCHANGED <<descriptor, leaked, owner, user, torn>>

\* bind(), and listen() of a listening socket.
Bind(s) ==
  /\ owner[s] = "bind"
  /\ Goto(s, IF s \in Udp THEN "open" ELSE "connect")
  /\ UNCHANGED <<sockets, user, torn>>

\* Mutant: the descriptor is not closed on the error paths.
OpenFails_NotClosed(s) ==
  /\ owner[s] \in {"bind", "connect"}
  /\ Goto(s, "out")
  /\ UNCHANGED <<sockets, user, torn>>

\* bind(), listen(), connect() or accept() fails.
OpenFails(s) ==
  /\ owner[s] \in {"bind", "connect"}
  /\ Close(s)
  /\ Goto(s, "out")
  /\ UNCHANGED <<sock, connected, leaked, user>>

\* em_udp_tx_init has bound and returns -2 for its destination: the socket stays open.
NoDestination(s) ==
  /\ s \in Udp /\ owner[s] = "open"
  /\ \A w \in Workers : user[w].sk # s
  /\ leaked' = leaked \cup {sock[s]}
  /\ Goto(s, "out")
  /\ UNCHANGED <<descriptor, sock, connected, user, torn>>

\* connect() succeeds.
ConnectClient(s) ==
  /\ s \in Tcp /\ owner[s] = "connect"
  /\ connected' = [connected EXCEPT ![s] = TRUE]
  /\ Goto(s, "open")
  /\ UNCHANGED <<descriptor, sock, leaked, user, torn>>

\* accept() returns a descriptor, for an em_socket_t of the same thread.
Accept(l, s) ==
  /\ l \in Listening /\ owner[l] = "connect"
  /\ s \in Tcp /\ owner[s] = "out"
  /\ Open(s)
  /\ connected' = [connected EXCEPT ![s] = TRUE]
  /\ owner' = [owner EXCEPT ![l] = "open", ![s] = "open"]
  /\ UNCHANGED <<leaked, user, torn>>

----------------------------------------------------------------------------
(* Closing *)

\* Mutant: is_connected stays.
Disconnect_StaysConnected(s) ==
  /\ s \in Tcp /\ owner[s] = "open"
  /\ Goto(s, "close")
  /\ UNCHANGED <<sockets, user, torn>>

\* em_tcp_disconnect: shutdown() and is_connected, then em_socket_close.
Disconnect(s) ==
  /\ s \in Tcp /\ owner[s] = "open"
  /\ connected' = [connected EXCEPT ![s] = FALSE]
  /\ Goto(s, "close")
  /\ UNCHANGED <<descriptor, sock, leaked, user, torn>>

\* em_socket_close; the application calls it for what is not a connection.
SocketClose(s) ==
  /\ owner[s] = "close" \/ (owner[s] = "open" /\ s \notin Tcp)
  /\ Close(s)
  /\ Goto(s, "out")
  /\ UNCHANGED <<sock, connected, leaked, user>>

----------------------------------------------------------------------------
(* Using *)

Return(w) == /\ user' = [user EXCEPT ![w] = Out]
             /\ torn' = [torn EXCEPT ![w] = FALSE]

\* em_tcp_send and em_tcp_recv past their test; with a timeout they wait in select first.
UseTcp(w, s) ==
  /\ user[w] = Out
  /\ s \in Tcp /\ connected[s]
  /\ \E timed \in BOOLEAN :
       user' = [user EXCEPT ![w] = [pc |-> IF timed THEN "select" ELSE "transfer", sk |-> s]]
  /\ UNCHANGED <<sockets, owner, torn>>

\* em_udp_send, em_udp_send2 and em_udp_recv test nothing; the application calls them
\* for a socket that is open.
UseUdp(w, s) ==
  /\ user[w] = Out
  /\ s \in Udp /\ owner[s] = "open"
  /\ \E timed \in BOOLEAN :
       user' = [user EXCEPT ![w] = [pc |-> IF timed THEN "select" ELSE "transfer", sk |-> s]]
  /\ UNCHANGED <<sockets, owner, torn>>

\* select() answers 0 when the time has passed; an error passes for "ready".
Select(w) ==
  /\ user[w].pc = "select"
  /\ \/ Return(w)
     \/ user' = [user EXCEPT ![w].pc = "transfer"] /\ UNCHANGED torn
  /\ UNCHANGED <<sockets, owner>>

\* send(), sendto(), recv() or recvfrom() on sk->sock as it is now; they may fail.
Transfer(w) ==
  /\ user[w].pc = "transfer"
  /\ Return(w)
  /\ UNCHANGED <<sockets, owner>>

----------------------------------------------------------------------------
Next == \/ \E s \in Sockets :
             \/ SocketInit(s) \/ SocketInitFails(s) \/ Bind(s) \/ OpenFails(s)
             \/ NoDestination(s) \/ ConnectClient(s) \/ Disconnect(s) \/ SocketClose(s)
             \/ \E l \in Listening : Accept(l, s)
        \/ \E w \in Workers : \/ \E s \in Sockets : UseTcp(w, s) \/ UseUdp(w, s)
                              \/ Select(w) \/ Transfer(w)

Spec == Init /\ [][Next]_vars

----------------------------------------------------------------------------
(* Properties. *)

\* A call that sends or receives works on the descriptor of its own socket, whatever
\* is opened and closed meanwhile, unless that socket is closed under it (297-341).
OwnDescriptor ==
  \A w \in Workers : user[w] # Out /\ ~torn[w] =>
    LET s == user[w].sk
    IN sock[s] \in Descriptors /\ descriptor[sock[s]] = s

\* A socket that is not open has no descriptor, one that is has the one in sk->sock and
\* no other, besides those that senders without a destination left behind (75, 117, 244, 268).
DescriptorsAccounted ==
  \A s \in Sockets :
    {d \in Descriptors : descriptor[d] = s} \ leaked =
      IF owner[s] = "out" THEN {} ELSE {sock[s]}
=============================================================================
