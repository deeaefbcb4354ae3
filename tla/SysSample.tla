------------------------------ MODULE SysSample ------------------------------
(***************************************************************************)
(* em_system.c as the two system programs use it, system_sample01.c and    *)
(* system_sample02.c: the managers are created one after the other, three  *)
(* tasks run until a command tells them to stop, the tasks are joined and  *)
(* the managers destroyed.  Around them run the timers' callbacks and, in  *)
(* sample 02, the threads of two MQTT clients, which are never stopped.    *)
(* A manager is either alive or not; modules of their own say what the     *)
(* timers, the tasks, the event flag and the command loop do.              *)
(***************************************************************************)
EXTENDS Naturals, Sequences

CONSTANTS QueueLen,  \* bound: messages in the queue of App1 (16 or 256 in the code)
          Programs   \* the programs looked at, of "sample01" and "sample02"

Apps == {"App1", "App2"}
Tasks == <<"App1", "App2", "Cmd">>  \* systaskstg

\* em_sysmng_init and em_sysmng_finalize
InitOrder == <<"time", "mem", "tmr", "mtx", "sem", "evt", "cmd", "tsk", "ef">>
FinalOrder == <<"tmr", "mtx", "sem", "evt", "cmd", "tsk", "ef", "mem">>

\* init and finalize of the programs
CreateOrder == <<"memmng">> \o InitOrder \o <<"dm">>
DestroyOrder == FinalOrder \o <<"dm", "memmng">>

VARIABLES
  program,
  alive,      \* the managers that have been created and not destroyed
  main, step, \* what main is about to do, and to which manager or task
  b_shutdown, \* those whose b_shutdown flag is set, "main" among them
  b_pause,    \* the apps whose b_pause is set
  task,         \* what each task is about to do
  timers,     \* the apps whose timer runs
  callback,   \* the callback of each app's timer; "late" once the timer is deleted
  msgs,       \* messages in the queue of App1
  event,      \* B_EVENT_TIMER
  cmd_running, registered,  \* the command loop; whether "shutdown" is registered
  clients,    \* the apps whose MQTT client has a thread
  shutdown    \* how far each thread is with cmd_shutdown, 0 if it does not execute it

managers == <<program, alive, main, step>>
flags == <<b_shutdown, b_pause>>
timing == <<timers, callback, msgs, event>>
commands == <<cmd_running, registered, shutdown>>
vars == <<managers, flags, task, timing, commands, clients>>

Executors == {"Cmd", "Mqtt"}
Over == main \in {"halted", "failed"}
Spinning == program = "sample01" /\ main = "poll" /\ "main" \in b_shutdown  \* line 357
Goto(t, l) == task' = [task EXCEPT ![t] = l]

\* Before main is called
Loaded ==
  /\ program \in Programs
  /\ alive = {} /\ step = 1
  /\ b_shutdown = {} /\ b_pause = {}
  /\ task = [t \in {"App1", "App2", "Cmd"} |-> "none"]
  /\ timers = {} /\ callback = [a \in Apps |-> "none"]
  /\ msgs = 0 /\ event = FALSE
  /\ cmd_running = FALSE /\ registered = FALSE
  /\ shutdown = [x \in Executors |-> 0]
  /\ clients = {}

Init == Loaded /\ main = "init"

----------------------------------------------------------------------------
(* main *)

Advance(order, next) == IF step < Len(order) THEN step' = step + 1 /\ UNCHANGED main
                                             ELSE step' = 1 /\ main' = next
Fail == main' = "failed" /\ UNCHANGED step

\* A manager that cannot be created ends the program; those before it are left.
Create ==
  /\ main = "init"
  /\ \/ Fail /\ UNCHANGED <<alive, cmd_running>>
     \/ /\ alive' = alive \cup {CreateOrder[step]}
        /\ cmd_running' = (cmd_running \/ CreateOrder[step] = "cmd")
        /\ Advance(CreateOrder, "start")
  /\ UNCHANGED <<program, flags, task, timing, registered, shutdown, clients>>

StartTask ==
  /\ main = "start"
  /\ \/ Fail /\ UNCHANGED task
     \/ Goto(Tasks[step], "start") /\ Advance(Tasks, "poll")
  /\ UNCHANGED <<program, alive, flags, timing, commands, clients>>

\* Sample 02 waits for b_shutdown, sample 01 while b_shutdown is set.
Poll ==
  /\ main = "poll"
  /\ ("main" \in b_shutdown) = (program = "sample02")
  /\ main' = "join"
  /\ UNCHANGED <<program, alive, step, flags, task, timing, commands, clients>>

\* Mutant: wait_shutdown taken the wrong way round.
Joined_Inverted(t) == program = "sample01" \/ t = "Cmd"

\* wait_shutdown, which sample 01 does not have
Joined(t) == program = "sample01" \/ t # "Cmd"

\* em_task_delete joins the thread; the queue of App1 goes with its task.
JoinTask ==
  /\ main = "join"
  /\ Joined(Tasks[step]) => task[Tasks[step]] = "ended"
  /\ task' = IF Joined(Tasks[step]) THEN [task EXCEPT ![Tasks[step]] = "none"] ELSE task
  /\ Advance(Tasks, "finalize")
  /\ UNCHANGED <<program, alive, flags, timing, commands, clients>>

Destroy ==
  /\ main = "finalize"
  /\ alive' = alive \ {DestroyOrder[step]}
  /\ Advance(DestroyOrder, "halted")
  /\ UNCHANGED <<program, flags, task, timing, commands, clients>>

Main == Create \/ StartTask \/ Poll \/ JoinTask \/ Destroy

----------------------------------------------------------------------------
(* App1 and App2 *)

\* em_timer_create; if it fails the program exits.
CreateTimer(a) ==
  /\ task[a] = "start"
  /\ \/ Fail /\ UNCHANGED <<task, timers>>
     \/ /\ timers' = timers \cup {a}
        /\ Goto(a, IF program = "sample02" THEN "connect" ELSE "test")
        /\ UNCHANGED <<main, step>>
  /\ UNCHANGED <<program, alive, flags, callback, msgs, event, commands, clients>>

\* Connecting and subscribing: either may fail, before or after the client has a thread.
Connect(a) ==
  /\ task[a] = "connect"
  /\ \/ Goto(a, "delete") /\ clients' \in {clients, clients \cup {a}}
     \/ Goto(a, "test") /\ clients' = clients \cup {a}
  /\ UNCHANGED <<managers, flags, timing, commands>>

TestShutdown(a) ==
  /\ task[a] = "test"
  /\ Goto(a, IF a \in b_shutdown THEN "delete" ELSE IF a \in b_pause THEN "test" ELSE "receive")
  /\ UNCHANGED <<managers, flags, timing, commands, clients>>

\* em_msg_recv with EM_NO_TIMEOUT
App1Receive ==
  /\ task["App1"] = "receive"
  /\ msgs > 0
  /\ msgs' = msgs - 1
  /\ Goto("App1", "test")
  /\ UNCHANGED <<managers, flags, timers, callback, event, commands, clients>>

\* em_eventflag_wait with EM_NO_TIMEOUT and reset
App2Receive ==
  /\ task["App2"] = "receive"
  /\ event
  /\ event' = FALSE
  /\ Goto("App2", IF program = "sample01" THEN "send" ELSE "test")
  /\ UNCHANGED <<managers, flags, timers, callback, msgs, commands, clients>>

\* em_msg_send to App1: the queue may stay full until the timeout, or be gone.
Sent == msgs' = IF task["App1"] # "none" /\ msgs < QueueLen THEN msgs + 1 ELSE msgs

App2Send ==
  /\ task["App2"] = "send"
  /\ Sent
  /\ Goto("App2", "test")
  /\ UNCHANGED <<managers, flags, timers, callback, event, commands, clients>>

\* em_timer_delete; the task returns without disconnecting its client.
DeleteTimer(a) ==
  /\ task[a] = "delete"
  /\ timers' = timers \ {a}
  /\ callback' = [callback EXCEPT ![a] = IF @ = "none" THEN "none" ELSE "late"]
  /\ Goto(a, "ended")
  /\ UNCHANGED <<managers, flags, msgs, event, commands, clients>>

App(a) == \/ CreateTimer(a) \/ Connect(a) \/ TestShutdown(a) \/ DeleteTimer(a)
          \/ a = "App1" /\ App1Receive
          \/ a = "App2" /\ (App2Receive \/ App2Send)

----------------------------------------------------------------------------
(* Timers: callbacks may be anywhere when their timer is deleted; one of each at a time. *)

Fire(a) ==
  /\ a \in timers /\ callback[a] = "none"
  /\ callback' = [callback EXCEPT ![a] = "running"]
  /\ UNCHANGED <<managers, flags, task, timers, msgs, event, commands, clients>>

\* timer_func_msg
SendFromTimer ==
  /\ callback["App1"] # "none"
  /\ Sent
  /\ callback' = [callback EXCEPT !["App1"] = "none"]
  /\ UNCHANGED <<managers, flags, task, timers, event, commands, clients>>

\* timer_func_evt
SetFromTimer ==
  /\ callback["App2"] # "none"
  /\ event' = TRUE
  /\ callback' = [callback EXCEPT !["App2"] = "none"]
  /\ UNCHANGED <<managers, flags, task, timers, msgs, commands, clients>>

----------------------------------------------------------------------------
(* The command loop *)

Register ==
  /\ task["Cmd"] = "start"
  /\ registered' = TRUE
  /\ Goto("Cmd", "enter")
  /\ UNCHANGED <<managers, flags, timing, cmd_running, shutdown, clients>>

EnterLoop ==
  /\ task["Cmd"] = "enter"
  /\ cmd_running' = TRUE
  /\ Goto("Cmd", "prompt")
  /\ UNCHANGED <<managers, flags, timing, registered, shutdown, clients>>

\* A turn of em_cmd_start without a command of the program
Prompt ==
  /\ task["Cmd"] = "prompt" /\ shutdown["Cmd"] = 0
  /\ Goto("Cmd", IF cmd_running THEN "prompt" ELSE "ended")
  /\ UNCHANGED <<managers, flags, timing, commands, clients>>

\* cmd_pause, sample 01 only
Pause(a) ==
  /\ program = "sample01"
  /\ task["Cmd"] = "prompt" /\ cmd_running /\ shutdown["Cmd"] = 0
  /\ b_pause' \in {b_pause \cup {a}, b_pause \ {a}}
  /\ UNCHANGED <<managers, b_shutdown, task, timing, commands, clients>>

\* "shutdown" typed, or, in sample 02, received by the client of App2 (subscribe_callback2),
\* whose thread finds it only once it is registered.
BeginShutdown(x) ==
  /\ shutdown[x] = 0
  /\ IF x = "Cmd" THEN task["Cmd"] = "prompt" /\ cmd_running
                  ELSE "App2" \in clients /\ registered /\ "cmd" \in alive
  /\ shutdown' = [shutdown EXCEPT ![x] = 1]
  /\ UNCHANGED <<managers, flags, task, timing, cmd_running, registered, clients>>

\* Mutant: the loop over the tasks ends before the second of them.
Signals_First == <<"App1", "main">>

\* cmd_shutdown: every task that has a system_cbfunc, main, at last the command loop.
Signals == <<"App1", "App2", "main">>

ShutdownStep(x) ==
  /\ shutdown[x] > 0
  /\ IF shutdown[x] <= Len(Signals)
     THEN /\ b_shutdown' = b_shutdown \cup {Signals[shutdown[x]]}
          /\ shutdown' = [shutdown EXCEPT ![x] = @ + 1]
          /\ UNCHANGED cmd_running
     ELSE /\ cmd_running' = FALSE
          /\ shutdown' = [shutdown EXCEPT ![x] = 0]
          /\ UNCHANGED b_shutdown
  /\ UNCHANGED <<managers, b_pause, task, timing, registered, clients>>

Cmd == Register \/ EnterLoop \/ Prompt

----------------------------------------------------------------------------
System == \/ Main \/ Cmd \/ SendFromTimer \/ SetFromTimer
          \/ \E a \in Apps : App(a) \/ Fire(a) \/ Pause(a)
          \/ \E x \in Executors : BeginShutdown(x) \/ ShutdownStep(x)

Next == ~Over /\ System

\* Every thread goes on, and timers fire.
Fairness == /\ WF_vars(~Over /\ Main) /\ WF_vars(~Over /\ Cmd)
            /\ WF_vars(~Over /\ SendFromTimer) /\ WF_vars(~Over /\ SetFromTimer)
            /\ \A a \in Apps : WF_vars(~Over /\ App(a)) /\ WF_vars(~Over /\ Fire(a))
            /\ \A x \in Executors : WF_vars(~Over /\ ShutdownStep(x))

----------------------------------------------------------------------------
(* Properties. *)

\* The managers a task is about to use
Needs(t) ==
  CASE task[t] \in {"start", "delete"} /\ t \in Apps -> {"tmr", "memmng"}
    [] task[t] = "receive" -> IF t = "App1" THEN {"tsk"} ELSE {"ef"}
    [] task[t] = "send" -> {"tsk"}
    [] task[t] \in {"start", "enter", "prompt"} /\ t = "Cmd" -> {"cmd"}
    [] OTHER -> {}

CallbackNeeds(a) == IF a = "App1" THEN {"tsk", "time"} ELSE {"ef"}

\* No manager is used before it is created or after it is destroyed (em_system.c:34-152),
\* but by a callback whose timer was deleted under it and, in sample 02, by the command
\* loop, which is not joined, and the threads of the clients.
AliveWhenUsed ==
  /\ \A t \in Apps \cup {"Cmd"} :
       Over \/ (t = "Cmd" /\ program = "sample02") \/ Needs(t) \subseteq alive
  /\ \A a \in Apps : callback[a] = "running" => Over \/ CallbackNeeds(a) \subseteq alive

TypeOK ==
  /\ task \in [Apps \cup {"Cmd"} -> {"none", "start", "connect", "test", "receive", "send",
                                   "delete", "enter", "prompt", "ended"}]
  /\ callback \in [Apps -> {"none", "running", "late"}]
  /\ timers \subseteq {a \in Apps : task[a] \in {"connect", "test", "receive", "send", "delete"}}
  /\ msgs \in 0 .. QueueLen

\* Once b_shutdown is set the program ends: each task gets the one more message or
\* event its loop needs.  In sample 01 main does not end if it is set before line 357.
Halts == ~<>[]("main" \in b_shutdown /\ ~Over /\ ~Spinning)
=============================================================================
