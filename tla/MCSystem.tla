------------------------------ MODULE MCSystem ------------------------------
(***************************************************************************)
(* Instances of EventFlag, MqttConnect, Command and SysSample for TLC.     *)
(* They share no state: part says which of them runs in a behaviour, so    *)
(* that their state spaces add up and do not multiply.                     *)
(***************************************************************************)
EXTENDS EventFlag

CONSTANTS Handlers, NoHandler, Commands, QueueSize, MaxAsync, QueueLen, Programs

\* NULL is no handler.
ASSUME SystemAssumption ==
  /\ NoHandler \notin Handlers
  /\ QueueSize \in Nat /\ QueueLen \in Nat
  /\ Programs \subseteq {"sample01", "sample02"} /\ Programs # {}

VARIABLES
  part,
  is_connected, sub_callback, link, desired, installed, loop, owner, timed,
  called_back, spurious,
  is_running, commands, qu_cmd, at, line, stopped, posted, executed,
  program, alive, main, step, b_shutdown, b_pause, task, timers, callback, msgs,
  event, cmd_running, registered, clients, shutdown

mqtt == <<is_connected, sub_callback, link, desired, installed, loop, owner, timed,
          called_back, spurious>>
cmd == <<is_running, commands, qu_cmd, at, line, stopped, posted, executed>>
sample == <<program, alive, main, step, b_shutdown, b_pause, task, timers, callback, msgs,
            event, cmd_running, registered, clients, shutdown>>

Mqtt == INSTANCE MqttConnect
Cmd == INSTANCE Command
Sample == INSTANCE SysSample

MCInit == /\ part \in {"flag", "mqtt", "command", "sample"}
          /\ Init /\ Mqtt!Init /\ Cmd!Init /\ Sample!Loaded
          /\ part # "sample" => program = CHOOSE p \in Programs : TRUE
          /\ main = IF part = "sample" THEN "init" ELSE "halted"

\* The program of a part can end.
Ended == \/ part = "mqtt" /\ loop = "crashed"
         \/ part = "sample" /\ (Sample!Over \/ Sample!Spinning)

MCNext ==
  /\ UNCHANGED part
  /\ \/ part = "flag" /\ Next /\ UNCHANGED <<mqtt, cmd, sample>>
     \/ part = "mqtt" /\ Mqtt!Next /\ UNCHANGED <<vars, cmd, sample>>
     \/ part = "command" /\ Cmd!Next /\ UNCHANGED <<vars, mqtt, sample>>
     \/ part = "sample" /\ Sample!Next /\ UNCHANGED <<vars, mqtt, cmd>>
     \/ Ended /\ UNCHANGED <<vars, mqtt, cmd, sample>>

MCSpec == /\ MCInit /\ [][MCNext]_<<part, vars, mqtt, cmd, sample>>
          /\ Fairness /\ Mqtt!Fairness /\ Cmd!Fairness /\ Sample!Fairness

\* Every component keeps its types.
Types == TypeOK /\ Mqtt!TypeOK /\ Cmd!TypeOK /\ Sample!TypeOK

ConnectReported == Mqtt!ConnectReported
TimedConnectReturns == Mqtt!TimedConnectReturns
StopEndsLoops == Cmd!StopEndsLoops
AsyncInOrder == Cmd!AsyncInOrder
AliveWhenUsed == Sample!AliveWhenUsed
Halts == Sample!Halts
=============================================================================
