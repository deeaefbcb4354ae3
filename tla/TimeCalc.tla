------------------------------ MODULE TimeCalc ------------------------------
(***************************************************************************)
(* em_time.c: the arithmetic of struct timespec, deadlines on the wall     *)
(* clock, which may be set at any time, and a count of milliseconds since  *)
(* em_tick_init that is an int.                                            *)
(***************************************************************************)
EXTENDS Integers

CONSTANTS Moments,   \* readings of the clock, in units of half a millisecond
          Timeouts,  \* in milliseconds
          IntWord    \* the number of values of an int

NanosPerSec == 1000000000
NanosPerMs == 1000000

Timespec == [tv_sec : Int, tv_nsec : {n \in Nat : n < NanosPerSec}]

\* Mutant: the carry is looked for one nanosecond late.
TimespecAdd_LateCarry(a, b) ==
  LET nsec == a.tv_nsec + b.tv_nsec
      carry == IF nsec > NanosPerSec THEN 1 ELSE 0
  IN [tv_sec |-> a.tv_sec + b.tv_sec + carry, tv_nsec |-> nsec - carry * NanosPerSec]

\* em_timespec_add
TimespecAdd(a, b) ==
  LET nsec == a.tv_nsec + b.tv_nsec
      carry == IF nsec >= NanosPerSec THEN 1 ELSE 0
  IN [tv_sec |-> a.tv_sec + b.tv_sec + carry, tv_nsec |-> nsec - carry * NanosPerSec]

\* Mutant: nothing is borrowed from the seconds.
TimespecSub_NoBorrow(a, b) ==
  LET nsec == a.tv_nsec - b.tv_nsec
      borrow == IF nsec < 0 THEN 1 ELSE 0
  IN [tv_sec |-> a.tv_sec - b.tv_sec, tv_nsec |-> nsec + borrow * NanosPerSec]

\* em_timespec_sub
TimespecSub(a, b) ==
  LET nsec == a.tv_nsec - b.tv_nsec
      borrow == IF nsec < 0 THEN 1 ELSE 0
  IN [tv_sec |-> a.tv_sec - b.tv_sec - borrow, tv_nsec |-> nsec + borrow * NanosPerSec]

\* em_calc_timespec; a negative number of milliseconds is not asked for.
CalcTimespec(ms) == [tv_sec |-> ms \div 1000, tv_nsec |-> (ms % 1000) * NanosPerMs]

\* em_get_offset_timestamp adds the same seconds and nanoseconds to the clock.
Offset(ts, ms) == TimespecAdd(ts, CalcTimespec(ms))

\* em_calc_timespec2ms: a long that becomes an int.
ToInt(x) == LET y == x % IntWord IN IF 2 * y >= IntWord THEN y - IntWord ELSE y
Timespec2ms(ts) == ToInt(ts.tv_sec * 1000 + ts.tv_nsec \div NanosPerMs)

----------------------------------------------------------------------------
(* em_timemng_t *)

VARIABLES
  now,             \* the clock
  is_initialized, init_time,
  begun            \* history: the clock at the last em_tick_init

vars == <<now, is_initialized, init_time, begun>>

\* clock_gettime(CLOCK_REALTIME)
Reading(t) == [tv_sec |-> t \div 2000, tv_nsec |-> (t % 2000) * (NanosPerMs \div 2)]

Init == /\ now \in Moments
        /\ is_initialized = FALSE
        /\ init_time = Reading(0)
        /\ begun = 0

\* Time passes, or somebody sets the clock.
SetClock(t) == now' = t /\ UNCHANGED <<is_initialized, init_time, begun>>

TickInit == /\ is_initialized' = TRUE
            /\ init_time' = Reading(now)
            /\ begun' = now
            /\ UNCHANGED now

\* em_get_tick_count
TickCount ==
  IF ~is_initialized THEN -1 ELSE Timespec2ms(TimespecSub(Reading(now), init_time))

Next == TickInit \/ \E t \in Moments : SetClock(t)

Spec == Init /\ [][Next]_vars

----------------------------------------------------------------------------
(* Properties. *)

\* A deadline is the clock plus the time-out to the nanosecond, and the tick count is the
\* time on the clock since em_tick_init, rounded down, as far as an int holds it: also
\* across a second, and when the clock has been set back (58-96, 131-142).
TimesExact ==
  /\ \A ms \in Timeouts : Offset(Reading(now), ms) = Reading(now + 2 * ms)
  /\ is_initialized => TickCount = ToInt((now - begun) \div 2)
=============================================================================
