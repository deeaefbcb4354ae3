----------------------------- MODULE MqttConnect -----------------------------
(***************************************************************************)
(* em_mqttc.c over an em_event_t (em_eventflag.c): a client whose owner    *)
(* connects, subscribes and disconnects, and whose callbacks run in the    *)
(* thread of the MQTT library.  An em_event_t is a condition variable with *)
(* no predicate: a broadcast nobody waits for is lost.  The library        *)
(* (libmosquitto, external) reconnects by itself until it is told to       *)
(* disconnect.  Publishing reads is_connected and changes nothing here.    *)
(***************************************************************************)
EXTENDS Naturals

CONSTANTS Handlers,    \* what sub_callback may point to
          NoHandler    \* NULL

VARIABLES
  is_connected, sub_callback,  \* em_mqttc_t
  link,       \* external: the library's connection
  desired,    \* external: the library has not been told to disconnect
  installed,  \* external: on_message has been installed
  loop,       \* what the library's thread is about to do
  owner,      \* what the owner is about to do
  timed,      \* its timeout_ms # EM_NO_TIMEOUT
  called_back,\* history: on_connect_sync was "never" called, or "yes", or "dropped" since
  spurious    \* history: the wait ended for nothing

client == <<is_connected, sub_callback>>
library == <<link, desired, installed, loop>>
caller == <<owner, timed>>
history == <<called_back, spurious>>
vars == <<client, library, caller, history>>

\* em_mqttc_create; sub_callback is not read before on_message is installed.
Init == /\ is_connected = FALSE /\ sub_callback = NoHandler
        /\ link = "down" /\ desired = FALSE /\ installed = FALSE
        /\ loop = "none"
        /\ owner = "idle" /\ timed = FALSE
        /\ called_back = "never" /\ spurious = FALSE

----------------------------------------------------------------------------
(* em_mqttc_connect *)

\* The callbacks are set; mosquitto_connect_bind may fail (line 173).
ConnectCall(timeout) ==
  /\ owner \in {"idle", "failed"}
  /\ \/ UNCHANGED <<link, desired>> /\ owner' = "failed"
     \/ link' = "connecting" /\ desired' = TRUE /\ owner' = "start"
  /\ timed' = timeout /\ spurious' = FALSE
  /\ UNCHANGED <<client, installed, loop, called_back>>

\* mosquitto_loop_start refuses a second thread; its answer is not looked at here.
LoopStart ==
  /\ owner = "start"
  /\ loop' = IF loop = "none" THEN "idle" ELSE loop
  /\ owner' = "wait"
  /\ UNCHANGED <<client, link, desired, installed, timed, history>>

\* em_event_wait goes to sleep, whatever has happened before.
Wait ==
  /\ owner = "wait"
  /\ owner' = "asleep"
  /\ UNCHANGED <<client, library, timed, history>>

SpuriousWake ==
  /\ owner = "asleep"
  /\ owner' = "connected" /\ spurious' = TRUE
  /\ UNCHANGED <<client, library, timed, called_back>>

Expire ==
  /\ owner = "asleep" /\ timed
  /\ owner' = "expired"
  /\ UNCHANGED <<client, library, timed, history>>

\* Mutant: after a timeout it waits once more.
GiveUp_WaitsAgain ==
  /\ owner = "expired"
  /\ owner' = "wait"
  /\ UNCHANGED <<client, library, timed, history>>

\* Lines 183-185: the library is told to disconnect, its thread is not stopped.
GiveUp ==
  /\ owner = "expired"
  /\ desired' = FALSE
  /\ owner' = "failed" /\ timed' = FALSE
  /\ UNCHANGED <<client, link, installed, loop, history>>

----------------------------------------------------------------------------
(* The other calls of the owner *)

\* em_mqttc_disconnect: the library's thread is cancelled, which it can be between its
\* callbacks, inside the handler, and where on_connect_sync prints.
LoopStop ==
  /\ owner \in {"connected", "failed"}
  /\ loop \in {"none", "idle", "announce", "handling", "ended"}
  /\ loop' = "none"
  /\ owner' = "disconnect"
  /\ UNCHANGED <<client, link, desired, installed, timed, history>>

\* on_disconnect
Dropped == /\ is_connected' = FALSE
           /\ called_back' = IF called_back = "yes" THEN "dropped" ELSE called_back

\* mosquitto_disconnect may call on_disconnect or, with no connection, fail.
Disconnect ==
  /\ owner = "disconnect"
  /\ desired' = FALSE /\ link' = "down"
  /\ owner' = "idle" /\ timed' = FALSE
  /\ Dropped \/ UNCHANGED <<is_connected, called_back>>
  /\ UNCHANGED <<sub_callback, installed, loop, spurious>>

\* em_mqttc_subscribe
Subscribe(h) ==
  /\ owner \in {"connected", "failed"}
  /\ sub_callback' = h
  /\ installed' = TRUE
  /\ UNCHANGED <<is_connected, link, desired, loop, caller, history>>

\* em_mqttc_unsubscribe
Unsubscribe ==
  /\ owner \in {"connected", "failed"}
  /\ sub_callback' = NoHandler
  /\ UNCHANGED <<is_connected, library, caller, history>>

\* em_mqttc_destroy, once disconnected, and em_mqttc_create for the next use, which leaves
\* sub_callback as it is.
Recreate ==
  /\ owner = "idle" /\ loop = "none"
  /\ is_connected' = FALSE
  /\ link' = "down" /\ desired' = FALSE /\ installed' = FALSE
  /\ called_back' = "never"
  /\ UNCHANGED <<sub_callback, loop, caller, spurious>>

----------------------------------------------------------------------------
(* The library's thread *)

\* Mutant: on_connect_sync wakes the owner before it sets is_connected.
OnConnect_WakesFirst ==
  /\ loop = "idle" /\ link = "connecting" /\ desired
  /\ link' = "up" /\ loop' = "announce"
  /\ owner' = IF owner = "asleep" THEN "connected" ELSE owner
  /\ UNCHANGED <<client, desired, installed, timed, history>>

\* on_connect_sync, whatever the broker's answer rc.
OnConnect ==
  /\ loop = "idle" /\ link = "connecting" /\ desired
  /\ link' = "up"
  /\ is_connected' = TRUE /\ called_back' = "yes"
  /\ loop' = "announce"
  /\ UNCHANGED <<sub_callback, desired, installed, caller, spurious>>

\* em_event_broadcast
Broadcast ==
  /\ loop = "announce"
  /\ owner' = IF owner = "asleep" THEN "connected" ELSE owner
  /\ loop' = "idle"
  /\ UNCHANGED <<client, link, desired, installed, timed, history>>

\* on_disconnect: the connection is lost, or closed on request, which ends the thread.
OnDisconnect ==
  /\ loop = "idle" /\ link # "down"
  /\ Dropped
  /\ IF desired THEN link' = "connecting" /\ loop' = "idle"
                ELSE link' = "down" /\ loop' = "ended"
  /\ UNCHANGED <<sub_callback, desired, installed, caller, spurious>>

\* on_message: sub_callback is tested; without one the message is only printed.
OnMessage ==
  /\ loop = "idle" /\ link = "up" /\ installed
  /\ sub_callback # NoHandler
  /\ loop' = "testing"
  /\ UNCHANGED <<client, link, desired, installed, caller, history>>

\* Line 92 reads it again: a call of NULL is the end of the program.
CallHandler ==
  /\ loop = "testing"
  /\ loop' = IF sub_callback = NoHandler THEN "crashed" ELSE "handling"
  /\ UNCHANGED <<client, link, desired, installed, caller, history>>

HandlerReturns ==
  /\ loop = "handling"
  /\ loop' = "idle"
  /\ UNCHANGED <<client, link, desired, installed, caller, history>>

----------------------------------------------------------------------------
Owner == LoopStart \/ Wait \/ Expire \/ GiveUp \/ Disconnect

Next == /\ loop # "crashed"
        /\ \/ Owner \/ SpuriousWake \/ LoopStop \/ Unsubscribe \/ Recreate
           \/ \E timeout \in BOOLEAN : ConnectCall(timeout)
           \/ \E h \in Handlers : Subscribe(h)
           \/ OnConnect \/ Broadcast \/ OnDisconnect
           \/ OnMessage \/ CallHandler \/ HandlerReturns

\* A thread that can run runs, and a timeout passes.
Fairness == WF_vars(loop # "crashed" /\ Owner)

Spec == Init /\ [][Next]_vars /\ Fairness

----------------------------------------------------------------------------
(* Properties. *)

TypeOK ==
  /\ is_connected \in BOOLEAN /\ sub_callback \in Handlers \cup {NoHandler}
  /\ owner \in {"idle", "start", "wait", "asleep", "connected", "expired", "failed", "disconnect"}
  /\ loop \in {"none", "idle", "announce", "testing", "handling", "crashed", "ended"}

\* A connect that was woken by a broadcast (line 48), be it one of an earlier attempt,
\* finds is_connected set, unless the connection has been lost again (lines 45, 64, 181).
ConnectReported ==
  owner = "connected" /\ ~spurious =>
    /\ called_back # "never"
    /\ is_connected \/ called_back = "dropped"

\* A connect with a timeout returns, even if the broadcast came before the wait (179-186).
TimedConnectReturns ==
  ~<>[](owner \in {"start", "wait", "asleep", "expired"} /\ timed /\ loop # "crashed")
=============================================================================
