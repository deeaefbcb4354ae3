----------------------------- MODULE EventFlag -----------------------------
(***************************************************************************)
(* em_eventflag.c, event flag: a set of flags shared by threads.  A waiter *)
(* asks for some of them and is answered when at least one is set; if it   *)
(* asked for a reset it then clears all it asked for, in a critical        *)
(* section of its own.  Every access is made under ef->mtx, and a critical *)
(* section is one step: nothing in one can block.                          *)
(***************************************************************************)
EXTENDS Integers, FiniteSets

CONSTANTS Threads,  \* the threads that share the event flag
          Bits,     \* the flags they use
          Masks     \* the sets of flags their calls name

ASSUME MasksAssumption == Masks \subseteq (SUBSET Bits) \ {{}}

VARIABLES
  flags,  \* ef->flags
  pc,     \* what each thread is about to do; "asleep" is in the condition variable
  req,    \* the arguments of its wait: flags, timeout_ms # EM_NO_TIMEOUT, reset_flag
  late    \* threads whose timeout_ts has passed

vars == <<flags, pc, req, late>>

NoRequest == [flags |-> {}, timed |-> FALSE, reset |-> FALSE]
Requests == [flags : Masks, timed : BOOLEAN, reset : BOOLEAN]
Wanted(t) == flags \cap req[t].flags
Asleep == {t \in Threads : pc[t] = "asleep"}
Waiting == {t \in Threads : pc[t] \in {"check", "asleep"}}

Goto(t, l) == pc' = [pc EXCEPT ![t] = l]
Wake(ts) == pc' = [t \in Threads |-> IF t \in ts THEN "check" ELSE pc[t]]
Leave(t) == /\ Goto(t, "idle")
            /\ req' = [req EXCEPT ![t] = NoRequest]
            /\ late' = late \ {t}

Init == /\ flags = {}
        /\ pc = [t \in Threads |-> "idle"]
        /\ req = [t \in Threads |-> NoRequest]
        /\ late = {}

----------------------------------------------------------------------------
(* em_eventflag_wait *)

WaitCall(t, r) ==
  /\ pc[t] = "idle"
  /\ req' = [req EXCEPT ![t] = r]
  /\ Goto(t, "check")
  /\ UNCHANGED <<flags, late>>

\* Mutant: all the flags asked for must be set, not one of them.
Check_AllFlags(t) ==
  /\ pc[t] = "check"
  /\ Goto(t, IF Wanted(t) = req[t].flags THEN "answered"
             ELSE IF t \in late THEN "expired" ELSE "asleep")
  /\ UNCHANGED <<flags, req, late>>

\* Mutant: the deadline is computed anew on every turn of the loop.
Check_DeadlineRestarted(t) ==
  /\ pc[t] = "check"
  /\ Goto(t, IF Wanted(t) # {} THEN "answered" ELSE "asleep")
  /\ late' = late \ {t}
  /\ UNCHANGED <<flags, req>>

\* One turn of the loop (line 185), entered with the mutex held: at first, and on
\* every return of the condition variable.  A timed wait whose deadline has passed
\* gives up the mutex and comes back with ETIMEDOUT without being woken.
Check(t) ==
  /\ pc[t] = "check"
  /\ Goto(t, IF Wanted(t) # {} THEN "answered"
             ELSE IF t \in late THEN "expired" ELSE "asleep")
  /\ UNCHANGED <<flags, req, late>>

\* POSIX lets a wait end for nothing.
SpuriousWake(t) ==
  /\ pc[t] = "asleep"
  /\ Goto(t, "check")
  /\ UNCHANGED <<flags, req, late>>

\* Mutant: a wait without a timeout is taken for one.
Expire_Untimed(t) ==
  /\ t \in Waiting \ late
  /\ late' = late \cup {t}
  /\ Goto(t, IF pc[t] = "asleep" THEN "expired" ELSE pc[t])
  /\ UNCHANGED <<flags, req>>

\* timeout_ts passes; a thread asleep is no longer in the condition variable, but
\* needs the mutex to go on.
Expire(t) ==
  /\ t \in Waiting \ late /\ req[t].timed
  /\ late' = late \cup {t}
  /\ Goto(t, IF pc[t] = "asleep" THEN "expired" ELSE pc[t])
  /\ UNCHANGED <<flags, req>>

\* Lines 201-205: the flags are not looked at again.
TimeOut(t) ==
  /\ pc[t] = "expired"
  /\ Leave(t)
  /\ UNCHANGED flags

\* Lines 217-226: the mutex has been free since the check.
Answer(t) ==
  /\ pc[t] = "answered"
  /\ flags' = IF req[t].reset THEN flags \ req[t].flags ELSE flags
  /\ Leave(t)

----------------------------------------------------------------------------
\* Mutant: pthread_cond_signal in place of the broadcast.
Set_SignalsOne(t, fs) ==
  /\ pc[t] = "idle"
  /\ flags' = flags \cup fs
  /\ IF Asleep = {} THEN UNCHANGED pc ELSE \E u \in Asleep : Wake({u})
  /\ UNCHANGED <<req, late>>

\* em_eventflag_set: every thread asleep is woken.
Set(t, fs) ==
  /\ pc[t] = "idle"
  /\ flags' = flags \cup fs
  /\ Wake(Asleep)
  /\ UNCHANGED <<req, late>>

\* em_eventflag_clear
Clear(t) ==
  /\ pc[t] = "idle"
  /\ flags' = {}
  /\ UNCHANGED <<pc, req, late>>

\* em_eventflag_destroy, then em_eventflag_init for the next use: nobody is in a call.
Recreate == /\ \A t \in Threads : pc[t] = "idle"
            /\ flags' = {}
            /\ UNCHANGED <<pc, req, late>>

----------------------------------------------------------------------------
Call(t) == \/ \E r \in Requests : WaitCall(t, r)
           \/ \E fs \in Masks : Set(t, fs)
           \/ Clear(t)

Step(t) == Check(t) \/ TimeOut(t) \/ Answer(t)

Next == \/ \E t \in Threads : Call(t) \/ Step(t) \/ SpuriousWake(t) \/ Expire(t)
        \/ Recreate

Spec == Init /\ [][Next]_vars

\* A thread that can run runs, and time passes.
Fairness == \A t \in Threads : WF_vars(Step(t)) /\ WF_vars(Expire(t))

FairSpec == Spec /\ Fairness

----------------------------------------------------------------------------
(* Properties. *)

\* Types; only a wait with a timeout that is still under way can be late.
TypeOK == /\ flags \subseteq Bits
          /\ pc \in [Threads -> {"idle", "check", "asleep", "expired", "answered"}]
          /\ req \in [Threads -> Requests \cup {NoRequest}]
          /\ late \subseteq {t \in Threads : pc[t] # "idle" /\ req[t].timed}

\* No wake-up is lost: whoever sleeps in the condition variable (lines 190, 200) does
\* so with none of its flags set, whatever was set, cleared or reset since it checked.
SleepersUnserved == \A t \in Asleep : Wanted(t) = {}

\* A waiter that always finds one of its flags set when it looks does
\* not wait for ever: the loop at line 185 asks for any of them.
WaitersAnswered == \A t \in Threads : ~<>[](t \in Waiting /\ Wanted(t) # {})

\* A wait with a timeout returns, even if sets and resets keep waking it for
\* nothing: timeout_ts is computed once, on line 180.
TimedWaitsReturn == \A t \in Threads : ~<>[]req[t].timed
=============================================================================
