------------------------------- MODULE Command -------------------------------
(***************************************************************************)
(* em_command.c: a table of commands, a loop that executes the lines typed *)
(* on the console, a loop in the background that executes the lines put in *)
(* a queue by "async", and em_cmd_stop, by which both are to end.  Both    *)
(* loops look at is_running, which em_cmd_start also sets.                 *)
(***************************************************************************)
EXTENDS Naturals, Sequences

CONSTANTS Commands,        \* names of commands, among them "exit", which calls em_cmd_stop
          QueueSize,       \* EM_CMD_ASYNC_QUEUE_SIZE
          MaxAsync         \* bound: lines that get into the queue

\* What a line may be: a command, perhaps behind "async", a lone "async", which is taken
\* for the name of a command, or blank.
Words == Commands \cup {"async"}
Lines == {<<>>} \cup {<<w>> : w \in Words} \cup {<<"async", w>> : w \in Words}

CmdThreads == {"console", "background", "other"}

VARIABLES
  is_running,
  commands,  \* the keys of dm_cmd
  qu_cmd,    \* the lines in the queue
  at,        \* what each thread is about to do; "other" calls em_cmd_exec_string once
  line,      \* the line each thread works on (input_buf, cmd_str)
  stopped,   \* history: em_cmd_stop has been called
  posted,    \* history: the lines that got into the queue, in order
  executed   \* history: the words the background loop took for a command

state == <<is_running, commands, qu_cmd>>
history == <<stopped, posted, executed>>
vars == <<state, at, line, history>>

Goto(t, l) == at' = [at EXCEPT ![t] = l]

\* em_cmd_init; input_buf holds anything before it is read for the first time.
Init == /\ is_running = TRUE
        /\ commands = {}
        /\ qu_cmd = <<>>
        /\ at = [t \in CmdThreads |-> "out"]
        /\ line = [t \in CmdThreads |-> <<>>]
        /\ stopped = FALSE /\ posted = <<>> /\ executed = <<>>

\* em_cmd_register: a name that exists, or a full table, is refused.
Register(c) ==
  /\ c \notin commands
  /\ commands' = commands \cup {c}
  /\ UNCHANGED <<is_running, qu_cmd, at, line, history>>

----------------------------------------------------------------------------
(* Executing a command *)

\* em_cmd_exec_args past the lookup: what is not registered is not executed.  A
\* command returns; "exit" has called em_cmd_stop.
Exec(word) ==
  IF word \in commands /\ word = "exit"
  THEN is_running' = FALSE /\ stopped' = TRUE
  ELSE UNCHANGED <<is_running, stopped>>

\* em_cmd_exec_string; a full queue turns the line away.
ExecString(t) ==
  LET words == line[t] IN
  /\ IF Len(words) > 1 /\ words[1] = "async"
     THEN /\ IF Len(qu_cmd) < QueueSize
             THEN qu_cmd' = Append(qu_cmd, words) /\ posted' = Append(posted, words)
             ELSE UNCHANGED <<qu_cmd, posted>>
          /\ UNCHANGED <<is_running, stopped>>
     ELSE /\ IF words = <<>> THEN UNCHANGED <<is_running, stopped>> ELSE Exec(words[1])
          /\ UNCHANGED <<qu_cmd, posted>>
  /\ UNCHANGED <<commands, executed>>

\* A thread of the application, a callback of MQTT for one, has a line executed.
OtherExec(l) ==
  /\ at["other"] = "out" /\ Len(posted) < MaxAsync
  /\ line' = [line EXCEPT !["other"] = l]
  /\ Goto("other", "exec")
  /\ UNCHANGED <<state, history>>

OtherReturns ==
  /\ at["other"] = "exec"
  /\ ExecString("other")
  /\ Goto("other", "out")
  /\ UNCHANGED line

----------------------------------------------------------------------------
(* em_cmd_start *)

\* Line 163, whether or not em_cmd_stop has been called.
Start ==
  /\ at["console"] = "out"
  /\ is_running' = TRUE
  /\ Goto("console", "test")
  /\ UNCHANGED <<commands, qu_cmd, line, history>>

\* Mutant: the console is waited for without a timeout.
ConsoleRead_Blocks ==
  /\ at["console"] = "read" /\ Len(posted) < MaxAsync
  /\ \E l \in Lines : line' = [line EXCEPT !["console"] = l]
  /\ Goto("console", "exec")
  /\ UNCHANGED <<state, history>>

\* timed_fgets: a line, the end of the input, which leaves the last one (fgets is not
\* looked at), or the timeout.
ConsoleRead ==
  /\ at["console"] = "read"
  /\ \/ /\ Len(posted) < MaxAsync
        /\ \E l \in Lines : line' = [line EXCEPT !["console"] = l]
        /\ Goto("console", "exec")
     \/ /\ Goto("console", "test")
        /\ UNCHANGED line
  /\ UNCHANGED <<state, history>>

ConsoleExec ==
  /\ at["console"] = "exec"
  /\ ExecString("console")
  /\ Goto("console", "test")
  /\ UNCHANGED line

----------------------------------------------------------------------------
(* em_cmd_start_bg *)

StartBg ==
  /\ at["background"] = "out"
  /\ Goto("background", "test")
  /\ UNCHANGED <<state, line, history>>

\* Mutant: the line queued last is taken.
BgTake_Newest ==
  /\ at["background"] = "read"
  /\ IF qu_cmd = <<>>
     THEN Goto("background", "test") /\ UNCHANGED <<qu_cmd, line>>
     ELSE /\ qu_cmd' = SubSeq(qu_cmd, 1, Len(qu_cmd) - 1)
          /\ line' = [line EXCEPT !["background"] = qu_cmd[Len(qu_cmd)]]
          /\ Goto("background", "exec")
  /\ UNCHANGED <<is_running, commands, history>>

\* em_dequeue with a timeout of 100 ms
BgTake ==
  /\ at["background"] = "read"
  /\ IF qu_cmd = <<>>
     THEN Goto("background", "test") /\ UNCHANGED <<qu_cmd, line>>
     ELSE /\ qu_cmd' = Tail(qu_cmd)
          /\ line' = [line EXCEPT !["background"] = Head(qu_cmd)]
          /\ Goto("background", "exec")
  /\ UNCHANGED <<is_running, commands, history>>

\* The command is the second word.
BgExec ==
  /\ at["background"] = "exec"
  /\ Exec(line["background"][2])
  /\ executed' = Append(executed, line["background"][2])
  /\ Goto("background", "test")
  /\ UNCHANGED <<commands, qu_cmd, line, posted>>

\* em_cmd_destroy, when no call is under way any more, and em_cmd_init for the next use:
\* what is left in the queue is given up with it.
Recreate ==
  /\ \A t \in CmdThreads : at[t] \in {"out", "ended"}
  /\ is_running' = TRUE
  /\ commands' = {} /\ qu_cmd' = <<>>
  /\ at' = [t \in CmdThreads |-> "out"]
  /\ line' = [t \in CmdThreads |-> <<>>]
  /\ stopped' = FALSE /\ posted' = <<>> /\ executed' = <<>>

----------------------------------------------------------------------------
Looping == {"console", "background"}

\* Both loops; the console reads, the background takes from the queue.
Test(t) ==
  /\ at[t] = "test"
  /\ Goto(t, IF is_running THEN "read" ELSE "ended")
  /\ UNCHANGED <<state, line, history>>

ConsoleStep == Test("console") \/ ConsoleRead \/ ConsoleExec
BgStep == Test("background") \/ BgTake \/ BgExec

Next == \/ \E c \in Commands : Register(c)
        \/ \E l \in Lines : OtherExec(l)
        \/ Recreate \/ OtherReturns \/ Start \/ ConsoleStep \/ StartBg \/ BgStep

Fairness == WF_vars(ConsoleStep) /\ WF_vars(BgStep)

----------------------------------------------------------------------------
(* Properties. *)

TypeOK ==
  /\ commands \subseteq Commands
  /\ Len(qu_cmd) <= QueueSize /\ \A i \in 1 .. Len(qu_cmd) : Len(qu_cmd[i]) = 2
  /\ at \in [CmdThreads -> {"out", "test", "read", "exec", "ended"}]

\* Once em_cmd_stop has been called both loops end, unless em_cmd_start is called
\* afterwards and sets is_running again (lines 163, 164, 199, 221).
StopEndsLoops ==
  \A t \in Looping : ~<>[](at[t] \in {"test", "read", "exec"} /\ ~is_running)

\* Lines put in the queue are executed once each and in the order in which they were put
\* there, whoever put them, and what a stop has left unexecuted are the last of them (lines
\* 199, 204, 213, 243); the background loop ends only after a stop.
AsyncInOrder ==
  LET taken == IF at["background"] = "exec" THEN <<line["background"]>> ELSE <<>>
      rest == taken \o qu_cmd
  IN /\ executed \o [i \in 1 .. Len(rest) |-> rest[i][2]]
          = [i \in 1 .. Len(posted) |-> posted[i][2]]
     /\ at["background"] = "ended" => stopped
=============================================================================
